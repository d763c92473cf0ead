------------------------- MODULE QbbTransportProofs -------------------------
(***************************************************************************)
(* For all attributes, any number of packets and losses, and whatever      *)
(* order ACKs and NACKs come in: the devices keep their types, a flow that *)
(* is stopped always has a timer that will start it again, and what the    *)
(* receiver may ask for is in the sending buffer unless that was too small;*)
(* no ACK or NACK finds that buffer empty, and, where the sender waits for *)
(* ACKs and the buffer is never full, no chunk is on its way before the    *)
(* ones in front of it have arrived.                                       *)
(***************************************************************************)
EXTENDS QbbTransport, TLAPS

\* The first number of a chunk, for any size of chunk: the arithmetic of
\* ChunkStart, apart from the state.
LEMMA ChunkArithmetic ==
    ASSUME NEW c \in Nat \ {0}, NEW a \in Nat
    PROVE  /\ a \div c \in Nat
           /\ (a \div c) * c \in Nat
           /\ (a \div c) * c <= a
           /\ a < (a \div c) * c + c
<1>1. a \div c \in Nat
  OBVIOUS
<1>2. a = c * (a \div c) + (a % c) /\ a % c \in 0..(c - 1)
  OBVIOUS
<1>3. QED
  BY <1>1, <1>2

\* A multiple of a chunk is not rounded.
LEMMA ChunkIdempotent ==
    ASSUME NEW c \in Nat \ {0}, NEW d \in Nat
    PROVE  (d * c) \div c = d
  OBVIOUS

\* Rounding down keeps the order.
LEMMA ChunkMonotone ==
    ASSUME NEW c \in Nat \ {0}, NEW a \in Nat, NEW b \in Nat, a <= b
    PROVE  (a \div c) * c <= (b \div c) * c
  OBVIOUS


\* Going back to the packet or to its chunk: down, idempotent and monotone.
LEMMA GoBackFacts ==
    ASSUME attr \in Attributes, NEW a \in Nat
    PROVE  /\ attr.chunk \in Nat \ {0} /\ attr.ackInterval \in Nat \ {0}
           /\ attr.bufferLimit \in Nat \ {0}
           /\ GoBackTo(a) \in Nat
           /\ GoBackTo(a) <= a
           /\ GoBackTo(GoBackTo(a)) = GoBackTo(a)
           /\ \A b \in Nat : a <= b => GoBackTo(a) <= GoBackTo(b)
<1>1. attr.chunk \in Nat \ {0} /\ attr.ackInterval \in Nat \ {0} /\ attr.bufferLimit \in Nat \ {0}
  BY TransportAssumption
<1>2. ChunkStart(a) \in Nat /\ ChunkStart(a) <= a
  BY <1>1, ChunkArithmetic DEF ChunkStart
<1>3. ChunkStart(ChunkStart(a)) = ChunkStart(a)
  BY <1>1, ChunkArithmetic, ChunkIdempotent DEF ChunkStart
<1>4. \A b \in Nat : a <= b => ChunkStart(a) <= ChunkStart(b)
  BY <1>1, ChunkMonotone DEF ChunkStart
<1>5. QED
  BY <1>1, <1>2, <1>3, <1>4 DEF GoBackTo

\* An element taken out of the feedback leaves the others in their order.
LEMMA RemovedAt ==
    ASSUME NEW S, NEW s \in Seq(S), NEW i \in DOMAIN s
    PROVE  /\ RemoveAt(s, i) \in Seq(S) /\ Len(RemoveAt(s, i)) = Len(s) - 1
           /\ \A j \in 1..(Len(s) - 1) :
                RemoveAt(s, i)[j] = IF j < i THEN s[j] ELSE s[j + 1]
<1>1. i \in 1..Len(s)
  OBVIOUS
<1>2. /\ SubSeq(s, 1, i - 1) \in Seq(S) /\ Len(SubSeq(s, 1, i - 1)) = i - 1
      /\ \A j \in 1..(i - 1) : SubSeq(s, 1, i - 1)[j] = s[j]
  BY <1>1
<1>3. /\ SubSeq(s, i + 1, Len(s)) \in Seq(S)
      /\ Len(SubSeq(s, i + 1, Len(s))) = Len(s) - i
      /\ \A j \in 1..(Len(s) - i) : SubSeq(s, i + 1, Len(s))[j] = s[i + j]
  BY <1>1
<1> DEFINE l == SubSeq(s, 1, i - 1)
           r == SubSeq(s, i + 1, Len(s))
<1>. HIDE DEF l, r
<1>4. l \in Seq(S) /\ r \in Seq(S)
  BY <1>2, <1>3 DEF l, r
<1>5. Len(l) = i - 1 /\ Len(r) = Len(s) - i
  BY <1>2, <1>3 DEF l, r
<1>6. RemoveAt(s, i) = l \o r
  BY DEF RemoveAt, l, r
<1>7. RemoveAt(s, i) \in Seq(S) /\ Len(RemoveAt(s, i)) = Len(s) - 1
  BY <1>1, <1>4, <1>5, <1>6
<1>8. ASSUME NEW j \in 1..(Len(s) - 1)
      PROVE  RemoveAt(s, i)[j] = IF j < i THEN s[j] ELSE s[j + 1]
  <2>1. CASE j < i
    <3>1. (l \o r)[j] = l[j]
      BY <1>1, <1>4, <1>5, <2>1
    <3>2. l[j] = s[j]
      BY <1>1, <1>2, <2>1 DEF l
    <3>3. QED
      BY <1>6, <2>1, <3>1, <3>2
  <2>2. CASE ~(j < i)
    <3>1. (l \o r)[j] = r[j - Len(l)]
      <4>1. j \in Nat /\ j > Len(l) /\ j <= Len(l) + Len(r)
        BY <1>1, <1>5, <2>2
      <4>2. QED
        BY <1>4, <4>1
    <3>2. j - Len(l) \in 1..(Len(s) - i) /\ i + (j - Len(l)) = j + 1
      BY <1>1, <1>5, <2>2
    <3>3. r[j - Len(l)] = s[i + (j - Len(l))]
      BY <1>3, <3>2 DEF r
    <3>4. QED
      BY <1>6, <2>2, <3>1, <3>2, <3>3
  <2>3. QED
    BY <2>1, <2>2
<1>9. QED
  BY <1>7, <1>8

\* What is left of a sequence was there.
LEMMA RemovedOne ==
    ASSUME NEW S, NEW s \in Seq(S), NEW i \in DOMAIN s
    PROVE  /\ RemoveAt(s, i) \in Seq(S)
           /\ \A j \in DOMAIN RemoveAt(s, i) : \E k \in DOMAIN s : RemoveAt(s, i)[j] = s[k]
<1> DEFINE t == RemoveAt(s, i)
<1>1. i \in 1..Len(s) /\ DOMAIN s = 1..Len(s)
  OBVIOUS
<1>2. /\ t \in Seq(S) /\ Len(t) = Len(s) - 1
      /\ \A j \in 1..(Len(s) - 1) : t[j] = IF j < i THEN s[j] ELSE s[j + 1]
  BY RemovedAt
<1> HIDE DEF t
<1>3. DOMAIN t = 1..(Len(s) - 1)
  BY <1>2
<1>4. ASSUME NEW j \in 1..(Len(s) - 1)
      PROVE  \E k \in 1..Len(s) : t[j] = s[k]
  <2>1. j \in 1..Len(s) /\ j + 1 \in 1..Len(s)
    BY <1>1
  <2>2. QED
    BY <1>2, <2>1
<1>5. QED
  BY <1>1, <1>2, <1>3, <1>4 DEF t

-----------------------------------------------------------------------------
\* A flow that is stopped waits, and has its timer: NoSilentWait of any sender.
Attended(s) == (s.avail = "never" <=> s.waiting) /\ (s.waiting <=> s.timer)

\* Every ACK and NACK on its way asks for no more than the receiver would now.
Asked == \A i \in DOMAIN feedback : GoBackTo(feedback[i].seq) <= Wanted

\* Feedback that has been overtaken must not release what the receiver, set
\* back to the start of a chunk, will ask for again: hence Asked.
IInv == TypeOK /\ NoSilentWait /\ Asked /\ Recoverable

\* Whatever DequeueAndTransmit does, it keeps the sending buffer.
LEMMA TransmitKeeps ==
    ASSUME NEW s \in Sender, Attended(s), NEW t \in DequeueAndTransmit(s)
    PROVE  /\ t \in Sender /\ Attended(t)
           /\ t.base = s.base /\ t.written = s.written
<1>1. CASE s.busy
  BY <1>1 DEF DequeueAndTransmit
<1>2. CASE ~s.busy /\ Sendable(s)
  <2> DEFINE sent == [s EXCEPT !.next = @ + 1, !.busy = TRUE, !.counted = Latest(@ - 1, 0)]
  <2>1. Latest(s.counted - 1, 0) \in Nat /\ s.next + 1 \in Nat
    BY DEF Sender, Latest
  <2>2. PICK c \in Nat, n \in Nat : sent = [s EXCEPT !.next = n, !.busy = TRUE, !.counted = c]
    <3> DEFINE n == s.next + 1
               c == Latest(s.counted - 1, 0)
    <3>1. sent = [s EXCEPT !.next = n, !.busy = TRUE, !.counted = c]
      OBVIOUS
    <3>2. n \in Nat /\ c \in Nat
      BY <2>1
    <3> HIDE DEF sent, n, c
    <3>3. QED
      BY <3>1, <3>2
  <2> HIDE DEF sent
  <2>3. sent \in Sender
    BY <2>2 DEF Sender
  <2>4. /\ sent.base = s.base /\ sent.written = s.written /\ sent.avail = s.avail
        /\ sent.waiting = s.waiting /\ sent.timer = s.timer
    BY <2>2 DEF Sender
  <2>5. s.avail = "now" /\ ~s.waiting /\ ~s.timer
    BY <1>2 DEF Sendable, Attended
  <2>6. t \in Transmitted(s)
    BY <1>2 DEF DequeueAndTransmit
  <2>7. t \in IF EndsChunk(s) THEN {StopUntilAcked(sent)}
              ELSE {[sent EXCEPT !.avail = a] : a \in {"now", "paced"}}
    BY <2>6 DEF Transmitted, sent
  <2>8. CASE EndsChunk(s)
    <3>1. t = StopUntilAcked(sent)
      BY <2>7, <2>8
    <3>2. (sent.timer \/ ~sent.waiting) = TRUE
      BY <2>4, <2>5
    <3>3. t = [sent EXCEPT !.avail = "never", !.waiting = TRUE, !.timer = TRUE]
      BY <3>1, <3>2 DEF StopUntilAcked
    <3>4. t \in Sender
      BY <2>3, <3>3 DEF Sender, Moments
    <3>5. /\ t.avail = "never" /\ t.waiting = TRUE /\ t.timer = TRUE
          /\ t.base = sent.base /\ t.written = sent.written
      BY <2>3, <3>3 DEF Sender
    <3>6. QED
      BY <2>4, <3>4, <3>5 DEF Attended
  <2>9. CASE ~EndsChunk(s)
    <3>1. PICK a \in {"now", "paced"} : t = [sent EXCEPT !.avail = a]
      BY <2>7, <2>9
    <3>2. t \in Sender
      BY <2>3, <3>1 DEF Sender, Moments
    <3>3. /\ t.avail = a /\ t.waiting = sent.waiting /\ t.timer = sent.timer
          /\ t.base = sent.base /\ t.written = sent.written
      BY <2>3, <3>1 DEF Sender
    <3>4. QED
      BY <2>4, <2>5, <3>2, <3>3 DEF Attended
  <2>10. QED
    BY <2>8, <2>9
<1>3. CASE ~s.busy /\ ~Sendable(s)
  BY <1>3 DEF DequeueAndTransmit, Rescheduled, Sender, Attended, Moments
<1>4. QED
  BY <1>1, <1>2, <1>3

\* Transmitting moves the queue of a flow and nothing else of it.
LEMMA ThenTransmitKeeps ==
    ASSUME wire \in Seq(Nat), NEW s \in Sender, Attended(s), ThenTransmit(s)
    PROVE  /\ tx' \in Sender /\ Attended(tx)'
           /\ tx'.base = s.base /\ tx'.written = s.written
           /\ wire' \in Seq(Nat)
<1>1. tx' \in DequeueAndTransmit(s)
  BY DEF ThenTransmit
<1>2. tx' \in Sender /\ Attended(tx') /\ tx'.base = s.base /\ tx'.written = s.written
  BY <1>1, TransmitKeeps
<1>3. wire' \in Seq(Nat)
  BY DEF ThenTransmit, Sender
<1>4. QED
  BY <1>2, <1>3 DEF Attended


\* What the receiver wants is a number.
LEMMA WantedNatural ==
    ASSUME TypeOK
    PROVE  Wanted \in Nat
BY GoBackFacts DEF TypeOK, Receiver, Wanted

\* Steps of the sender leave to the receiver what it wants; the buffer gives
\* up what is not wanted, and nothing else unless the step is Send.
LEMMA SenderStep ==
    ASSUME IInv, UNCHANGED <<attr, rx>>,
           tx' \in Sender, Attended(tx)', wire' \in Seq(Nat),
           feedback' \in Seq(Feedback),
           \A j \in DOMAIN feedback' : \E k \in DOMAIN feedback : feedback'[j] = feedback[k],
           tx'.written = tx.written,
           tx'.base = tx.base \/ tx'.base <= Wanted,
           lost' \in [Kinds -> Nat], early' \in Nat
    PROVE  IInv'
<1>1. TypeOK'
  BY DEF IInv, TypeOK
<1>2. NoSilentWait'
  BY DEF NoSilentWait, Attended
<1>3. Wanted' = Wanted /\ \A n : GoBackTo(n)' = GoBackTo(n)
  BY DEF Wanted, GoBackTo, ChunkStart
<1>4. Asked'
  <2>1. \A j \in DOMAIN feedback' : GoBackTo(feedback'[j].seq) <= Wanted
    BY DEF IInv, Asked
  <2>2. QED
    BY <1>3, <2>1 DEF Asked, Wanted, GoBackTo, ChunkStart
<1>5. Recoverable'
  <2>1. CASE tx'.base = tx.base
    BY <1>3, <2>1 DEF IInv, Recoverable, Overrun
  <2>2. CASE tx'.base <= Wanted
    <3>1. Wanted \in Nat /\ tx'.base \in Nat
      BY WantedNatural DEF IInv, Sender
    <3>2. QED
      BY <1>3, <2>2, <3>1 DEF Recoverable
  <2>3. QED
    BY <2>1, <2>2
<1>6. QED
  BY <1>1, <1>2, <1>4, <1>5 DEF IInv

\* Steps of the receiver raise what it wants, or leave it, and what they send
\* asks for no more.
LEMMA ReceiverStep ==
    ASSUME IInv, UNCHANGED <<attr, tx>>, rx' \in Receiver, wire' \in Seq(Nat),
           Wanted <= Wanted',
           \/ feedback' = feedback
           \/ \E k \in {"ack", "nack"} : Feed(k) /\ Wanted' = GoBackTo(rx'.expected),
           lost' \in [Kinds -> Nat], early' \in Nat
    PROVE  IInv'
<1>1. Wanted \in Nat /\ Wanted' \in Nat /\ \A n : GoBackTo(n)' = GoBackTo(n)
  <2>1. Wanted' = GoBackTo(rx'.expected) /\ \A n : GoBackTo(n)' = GoBackTo(n)
    BY DEF Wanted, GoBackTo, ChunkStart
  <2>2. QED
    BY <2>1, WantedNatural, GoBackFacts DEF IInv, TypeOK, Receiver
<1>2. /\ feedback' \in Seq(Feedback)
      /\ \A j \in DOMAIN feedback' :
            \/ j \in DOMAIN feedback /\ feedback'[j] = feedback[j]
            \/ feedback'[j].seq = rx'.expected /\ Wanted' = GoBackTo(rx'.expected)
  <2>1. CASE feedback' = feedback
    BY <2>1 DEF IInv, TypeOK
  <2>2. CASE \E k \in {"ack", "nack"} : Feed(k) /\ Wanted' = GoBackTo(rx'.expected)
    <3>1. PICK k \in {"ack", "nack"} : Feed(k) /\ Wanted' = GoBackTo(rx'.expected)
      BY <2>2
    <3> DEFINE new == [kind |-> k, seq |-> rx'.expected]
    <3>2. new \in Feedback /\ new.seq = rx'.expected
      BY DEF Feedback, Receiver
    <3>3. feedback' = Append(feedback, new)
      BY <3>1 DEF Feed
    <3>4. feedback \in Seq(Feedback)
      BY DEF IInv, TypeOK
    <3> HIDE DEF new
    <3>5. QED
      BY <3>1, <3>2, <3>3, <3>4
  <2>3. QED
    BY <2>1, <2>2
<1>3. TypeOK'
  BY <1>2 DEF IInv, TypeOK
<1>4. NoSilentWait'
  BY DEF IInv, NoSilentWait
<1>5. Asked'
  <2>1. ASSUME NEW j \in DOMAIN feedback'
        PROVE  GoBackTo(feedback'[j].seq) <= Wanted'
    <3>1. CASE j \in DOMAIN feedback /\ feedback'[j] = feedback[j]
      <4>1. feedback[j] \in Feedback
        BY <3>1 DEF IInv, TypeOK
      <4>2. GoBackTo(feedback[j].seq) <= Wanted /\ feedback[j].seq \in Nat
        BY <3>1, <4>1 DEF IInv, Asked, Feedback
      <4>3. GoBackTo(feedback[j].seq) \in Nat
        BY <4>2, GoBackFacts DEF IInv, TypeOK
      <4>4. QED
        BY <1>1, <3>1, <4>2, <4>3
    <3>2. CASE feedback'[j].seq = rx'.expected /\ Wanted' = GoBackTo(rx'.expected)
      BY <1>1, <3>2
    <3>3. QED
      BY <1>2, <3>1, <3>2
  <2>2. QED
    BY <1>1, <2>1 DEF Asked
<1>6. Recoverable'
  <2>1. tx.base \in Nat
    BY DEF IInv, TypeOK, Sender
  <2>2. QED
    BY <1>1, <2>1 DEF IInv, Recoverable, Overrun
<1>7. QED
  BY <1>3, <1>4, <1>5, <1>6 DEF IInv


-----------------------------------------------------------------------------
(* The actions of the sender.                                              *)

\* What a handler that ends with DequeueAndTransmit has to leave behind.
LEMMA HandlerStep ==
    ASSUME IInv, NEW s \in Sender, Attended(s), ThenTransmit(s),
           s.written = tx.written, s.base = tx.base \/ s.base <= Wanted,
           UNCHANGED <<attr, rx>>,
           feedback' \in Seq(Feedback),
           \A j \in DOMAIN feedback' : \E k \in DOMAIN feedback : feedback'[j] = feedback[k],
           lost' = lost, early' \in Nat
    PROVE  IInv'
<1>1. wire \in Seq(Nat) /\ lost' \in [Kinds -> Nat]
  BY DEF IInv, TypeOK
<1>2. /\ tx' \in Sender /\ Attended(tx)' /\ wire' \in Seq(Nat)
      /\ tx'.base = s.base /\ tx'.written = s.written
  BY <1>1, ThenTransmitKeeps
<1>3. QED
  BY <1>1, <1>2, SenderStep

\* Writing a packet.
LEMMA SendStep ==
    ASSUME IInv, Send
    PROVE  IInv'
<1>1. /\ tx \in Sender /\ Attended(tx) /\ attr \in Attributes
      /\ wire \in Seq(Nat) /\ Wanted \in Nat /\ attr.bufferLimit \in Nat \ {0}
  BY WantedNatural, TransportAssumption DEF IInv, TypeOK, NoSilentWait, Attended
<1> DEFINE s == Written(tx)
<1>2. PICK w \in Nat, c \in Nat, b \in Nat :
        /\ s = [tx EXCEPT !.written = w, !.counted = c, !.base = b]
        /\ w = tx.written + 1
        /\ b = IF tx.written - tx.base = attr.bufferLimit THEN tx.base + 1 ELSE tx.base
  <2> DEFINE w == tx.written + 1
             c == tx.counted + 1
             b == IF tx.written - tx.base = attr.bufferLimit THEN tx.base + 1 ELSE tx.base
  <2>1. s = [tx EXCEPT !.written = w, !.counted = c, !.base = b]
    BY DEF Written
  <2>2. w \in Nat /\ c \in Nat /\ b \in Nat
    BY <1>1 DEF Sender
  <2>3. /\ w = tx.written + 1
        /\ b = IF tx.written - tx.base = attr.bufferLimit THEN tx.base + 1 ELSE tx.base
    OBVIOUS
  <2> HIDE DEF s, w, c, b
  <2>4. QED
    BY <2>1, <2>2, <2>3
<1>3. ThenTransmit(s) /\ UNCHANGED <<attr, rx, feedback, lost, early>>
  BY DEF Send
<1> HIDE DEF s
<1>4. s \in Sender /\ s.base = b /\ s.written = w
  BY <1>1, <1>2 DEF Sender
<1>5. s.avail = tx.avail /\ s.waiting = tx.waiting /\ s.timer = tx.timer
  BY <1>1, <1>2 DEF Sender
<1>6. Attended(s)
  BY <1>1, <1>5 DEF Attended
<1>7. tx' \in Sender /\ Attended(tx)' /\ wire' \in Seq(Nat) /\ tx'.base = b /\ tx'.written = w
  BY <1>1, <1>3, <1>4, <1>6, ThenTransmitKeeps
<1>8. TypeOK' /\ NoSilentWait'
  BY <1>3, <1>7 DEF IInv, TypeOK, NoSilentWait, Attended
<1>9. Wanted' = Wanted /\ Asked'
  BY <1>3 DEF IInv, Asked, Wanted, GoBackTo, ChunkStart
<1>10. Recoverable'
  <2>1. tx.base \in Nat /\ tx.written \in Nat
    BY <1>1 DEF Sender
  <2>2. Wanted < tx.base => tx.base = tx.written - attr.bufferLimit
    BY DEF IInv, Recoverable, Overrun
  <2>3. Wanted < b => b = w - attr.bufferLimit
    <3>1. CASE tx.written - tx.base = attr.bufferLimit
      <4>1. b = tx.base + 1 /\ w = tx.written + 1
        BY <1>2, <3>1
      <4>2. QED
        BY <1>1, <2>1, <3>1, <4>1
    <3>2. CASE tx.written - tx.base # attr.bufferLimit
      <4>1. b = tx.base
        BY <1>2, <3>2
      <4>2. ~(Wanted < tx.base)
        BY <1>1, <2>1, <2>2, <3>2
      <4>3. QED
        BY <4>1, <4>2
    <3>3. QED
      BY <3>1, <3>2
  <2>4. QED
    BY <1>3, <1>7, <1>9, <2>3 DEF Recoverable, Overrun
<1>11. QED
  BY <1>8, <1>9, <1>10 DEF IInv

\* The handlers of the sender that touch neither the buffer nor the feedback.
LEMMA EventStep ==
    ASSUME IInv, TransmitComplete \/ PaceElapses \/ NextSend \/ Retransmit
    PROVE  IInv'
<1>1. /\ tx \in Sender /\ Attended(tx) /\ wire \in Seq(Nat) /\ feedback \in Seq(Feedback)
      /\ lost \in [Kinds -> Nat] /\ early \in Nat
  BY DEF IInv, TypeOK, NoSilentWait, Attended
<1>2. CASE TransmitComplete
  <2> DEFINE s == [tx EXCEPT !.busy = FALSE]
  <2>1. s \in Sender /\ Attended(s) /\ s.written = tx.written /\ s.base = tx.base
    BY <1>1 DEF Sender, Attended
  <2>2. ThenTransmit(s) /\ UNCHANGED <<attr, rx, feedback, lost, early>>
    BY <1>2 DEF TransmitComplete
  <2> HIDE DEF s
  <2>3. QED
    BY <1>1, <2>1, <2>2, HandlerStep
<1>3. CASE PaceElapses
  <2>1. tx'.written = tx.written /\ tx'.base = tx.base /\ tx' \in Sender
    BY <1>1, <1>3 DEF PaceElapses, Sender, Moments
  <2>2. tx'.avail = "now" /\ tx'.waiting = tx.waiting /\ tx'.timer = tx.timer
    BY <1>1, <1>3 DEF PaceElapses, Sender
  <2>3. Attended(tx)'
    BY <1>1, <1>3, <2>2 DEF PaceElapses, Attended
  <2>4. UNCHANGED <<attr, rx, wire, feedback, lost, early>>
    BY <1>3 DEF PaceElapses
  <2>5. QED
    BY <1>1, <2>1, <2>3, <2>4, SenderStep
<1>4. CASE NextSend
  <2> DEFINE s == [tx EXCEPT !.nextSend = "now"]
  <2>1. s \in Sender /\ Attended(s) /\ s.written = tx.written /\ s.base = tx.base
    BY <1>1 DEF Sender, Attended, Moments
  <2>2. ThenTransmit(s) /\ UNCHANGED <<attr, rx, feedback, lost, early>>
    BY <1>4 DEF NextSend
  <2> HIDE DEF s
  <2>3. QED
    BY <1>1, <2>1, <2>2, HandlerStep
<1>5. CASE Retransmit
  <2> DEFINE s == [RecoverQueue(tx) EXCEPT !.avail = "now", !.waiting = FALSE, !.timer = FALSE]
  <2>1. s \in Sender /\ Attended(s) /\ s.written = tx.written /\ s.base = tx.base
    BY <1>1 DEF Sender, Attended, Moments, RecoverQueue
  <2>2. ThenTransmit(s) /\ UNCHANGED <<attr, rx, feedback, lost>>
    BY <1>5 DEF Retransmit
  <2>3. early' \in Nat
    BY <1>1, <1>5 DEF Retransmit, Expires
  <2> HIDE DEF s
  <2>4. QED
    BY <1>1, <2>1, <2>2, <2>3, HandlerStep
<1>6. QED
  BY <1>2, <1>3, <1>4, <1>5


\* An ACK or NACK releases what comes before the packet it asks for: no more
\* than what the receiver, who may have gone back since, still wants.
LEMMA ReleasedKeeps ==
    ASSUME IInv, NEW i \in DOMAIN feedback
    PROVE  LET s == Released(tx, feedback[i].seq) IN
           /\ s \in Sender /\ Attended(s)
           /\ s.written = tx.written
           /\ s.base = tx.base \/ s.base <= Wanted
           /\ s.avail = tx.avail /\ s.waiting = tx.waiting /\ s.timer = tx.timer
<1>1. tx \in Sender /\ Attended(tx) /\ feedback[i] \in Feedback /\ attr \in Attributes
  BY DEF IInv, TypeOK, NoSilentWait, Attended
<1>2. GoBackTo(feedback[i].seq) \in Nat /\ GoBackTo(feedback[i].seq) <= Wanted
  BY <1>1, GoBackFacts DEF Feedback, IInv, Asked
<1> DEFINE b == Latest(tx.base, GoBackTo(feedback[i].seq))
<1>3. b \in Nat /\ (b = tx.base \/ b <= Wanted)
  BY <1>1, <1>2 DEF Latest, Sender
<1>4. Released(tx, feedback[i].seq) = [tx EXCEPT !.base = b]
  BY DEF Released
<1> HIDE DEF b
<1>5. QED
  BY <1>1, <1>3, <1>4 DEF Sender, Attended

\* An ACK or NACK that arrives.
LEMMA FeedbackStep ==
    ASSUME IInv, NEW i \in DOMAIN feedback, ReceiveAck(i) \/ ReceiveNack(i)
    PROVE  IInv'
<1> DEFINE r == Released(tx, feedback[i].seq)
<1>1. /\ tx \in Sender /\ wire \in Seq(Nat) /\ feedback \in Seq(Feedback) /\ feedback[i] \in Feedback
      /\ lost \in [Kinds -> Nat] /\ early \in Nat /\ attr \in Attributes
  BY DEF IInv, TypeOK
<1>2. /\ r \in Sender /\ Attended(r) /\ r.written = tx.written
      /\ r.base = tx.base \/ r.base <= Wanted
  BY ReleasedKeeps
<1>3. /\ feedback' = RemoveAt(feedback, i)
      /\ UNCHANGED <<attr, rx, lost, early>>
  BY DEF ReceiveAck, ReceiveNack
<1>4. /\ feedback' \in Seq(Feedback)
      /\ \A j \in DOMAIN feedback' : \E k \in DOMAIN feedback : feedback'[j] = feedback[k]
  BY <1>1, <1>3, RemovedOne
<1>5. CASE ReceiveAck(i)
  <2>1. CASE attr.waitAck /\ feedback[i].seq >= tx.milestone
    <3>1. ThenTransmit([r EXCEPT !.avail = "now", !.waiting = FALSE,
                                 !.timer = FALSE, !.milestone = @ + attr.chunk])
      BY <1>5, <2>1 DEF ReceiveAck
    <3>2. r.milestone + attr.chunk \in Nat
      <4>1. attr.chunk \in Nat
        BY <1>1, TransportAssumption
      <4>2. r.milestone \in Nat
        BY <1>2 DEF Sender
      <4>3. QED
        BY <4>1, <4>2
    <3>3. PICK m \in Nat : ThenTransmit([r EXCEPT !.avail = "now", !.waiting = FALSE,
                                                  !.timer = FALSE, !.milestone = m])
      BY <3>1, <3>2
    <3> HIDE DEF r
    <3> DEFINE s == [r EXCEPT !.avail = "now", !.waiting = FALSE, !.timer = FALSE, !.milestone = m]
    <3>4. s \in Sender /\ Attended(s) /\ s.written = r.written /\ s.base = r.base
      BY <1>2 DEF Sender, Attended, Moments
    <3>5. ThenTransmit(s)
      BY <3>3
    <3> HIDE DEF s
    <3>6. QED
      BY <1>1, <1>2, <1>3, <1>4, <3>4, <3>5, HandlerStep
  <2>2. CASE ~(attr.waitAck /\ feedback[i].seq >= tx.milestone)
    <3>1. tx' = r /\ wire' = wire
      BY <1>5, <2>2 DEF ReceiveAck
    <3> HIDE DEF r
    <3>2. tx' \in Sender /\ Attended(tx)' /\ tx'.written = tx.written
      BY <1>2, <3>1 DEF Attended
    <3>3. QED
      BY <1>1, <1>2, <1>3, <1>4, <3>1, <3>2, SenderStep
  <2>3. QED
    BY <2>1, <2>2
<1>6. CASE ReceiveNack(i)
  <2> DEFINE q == RecoverQueue(r)
  <2> HIDE DEF r
  <2>1. /\ q \in Sender /\ Attended(q) /\ q.written = tx.written
        /\ q.base = tx.base \/ q.base <= Wanted
    BY <1>2 DEF RecoverQueue, Sender, Attended
  <2>2. CASE attr.waitAck /\ tx.waiting
    <3> DEFINE s == [q EXCEPT !.avail = "now", !.waiting = FALSE, !.timer = FALSE]
    <3>1. ThenTransmit(s)
      BY <1>6, <2>2 DEF ReceiveNack, r
    <3> HIDE DEF q
    <3>2. s \in Sender /\ Attended(s) /\ s.written = q.written /\ s.base = q.base
      BY <2>1 DEF Sender, Attended, Moments
    <3> HIDE DEF s
    <3>3. QED
      BY <1>1, <1>3, <1>4, <2>1, <3>1, <3>2, HandlerStep
  <2>3. CASE ~(attr.waitAck /\ tx.waiting)
    <3>1. tx' = q /\ wire' = wire
      BY <1>6, <2>3 DEF ReceiveNack, r
    <3> HIDE DEF q
    <3>2. tx' \in Sender /\ Attended(tx)' /\ tx'.written = tx.written
      BY <2>1, <3>1 DEF Attended
    <3>3. QED
      BY <1>1, <1>3, <1>4, <2>1, <3>1, <3>2, SenderStep
  <2>4. QED
    BY <2>2, <2>3
<1>7. QED
  BY <1>5, <1>6

-----------------------------------------------------------------------------
(* The actions of the receiver, and losses.                                *)

\* A packet that arrives, and its answer.
LEMMA ReceiveDataStep ==
    ASSUME IInv, ReceiveData
    PROVE  IInv'
<1>1. /\ rx \in Receiver /\ wire \in Seq(Nat) /\ attr \in Attributes
      /\ lost' \in [Kinds -> Nat] /\ early' \in Nat /\ wire' \in Seq(Nat)
      /\ UNCHANGED <<attr, tx>>
  BY DEF IInv, TypeOK, ReceiveData
<1>2. Wanted' = GoBackTo(rx'.expected) /\ Wanted = GoBackTo(rx.expected)
  BY <1>1 DEF Wanted, GoBackTo, ChunkStart
<1>3. rx.expected \in Nat /\ attr.ackInterval \in Nat
  BY <1>1, GoBackFacts DEF Receiver
<1>4. CASE Accept
  <2> DEFINE n == rx.expected + 1
             a == Latest(rx.accepted, n)
             m == IF n > rx.milestone THEN rx.milestone + attr.ackInterval ELSE rx.milestone
  <2>1. rx' = [rx EXCEPT !.expected = n, !.accepted = a, !.milestone = m]
    BY <1>4 DEF Accept
  <2>2. n \in Nat /\ a \in Nat /\ m \in Nat /\ rx.expected <= n
    BY <1>1, <1>3 DEF Latest, Receiver
  <2>3. feedback' = feedback \/ Feed("ack")
    BY <1>4 DEF Accept
  <2> HIDE DEF n, a, m
  <2>4. rx' \in Receiver /\ rx'.expected = n
    BY <1>1, <2>1, <2>2 DEF Receiver
  <2>5. GoBackTo(rx.expected) <= GoBackTo(n)
    BY <1>1, <1>3, <2>2, GoBackFacts
  <2>6. QED
    BY <1>1, <1>2, <2>3, <2>4, <2>5, ReceiverStep
<1>5. CASE Gap
  <2>1. CASE ~rx.held \/ rx.lastNack # rx.expected
    <3> DEFINE g == GoBackTo(rx.expected)
    <3>1. /\ rx' = [rx EXCEPT !.expected = g, !.lastNack = rx.expected, !.held = TRUE]
          /\ Feed("nack")
      BY <1>5, <2>1 DEF Gap
    <3>2. g \in Nat /\ GoBackTo(g) = g
      BY <1>1, <1>3, GoBackFacts
    <3>3. g = Wanted
      BY <1>2
    <3> HIDE DEF g
    <3>4. PICK l \in Int : rx' = [rx EXCEPT !.expected = g, !.lastNack = l, !.held = TRUE]
      <4> DEFINE l == rx.expected
      <4>1. rx' = [rx EXCEPT !.expected = g, !.lastNack = l, !.held = TRUE]
        BY <3>1
      <4>2. l \in Int
        BY <1>3
      <4> HIDE DEF l
      <4>3. QED
        BY <4>1, <4>2
    <3>5. rx' \in Receiver /\ rx'.expected = g
      BY <1>1, <3>2, <3>4 DEF Receiver
    <3>6. QED
      BY <1>1, <1>2, <3>1, <3>2, <3>3, <3>5, ReceiverStep
  <2>2. CASE ~(~rx.held \/ rx.lastNack # rx.expected)
    <3>1. rx' = rx /\ feedback' = feedback
      BY <1>5, <2>2 DEF Gap
    <3>2. Wanted' = Wanted /\ Wanted \in Nat
      BY <1>2, <3>1, WantedNatural DEF IInv
    <3>3. QED
      BY <1>1, <3>1, <3>2, ReceiverStep
  <2>3. QED
    BY <2>1, <2>2
<1>6. CASE Duplicate
  <2>1. rx' = rx /\ feedback' = feedback
    BY <1>6 DEF Duplicate
  <2>2. Wanted' = Wanted /\ Wanted \in Nat
    BY <1>2, <2>1, WantedNatural DEF IInv
  <2>3. QED
    BY <1>1, <2>1, <2>2, ReceiverStep
<1>7. QED
  BY <1>4, <1>5, <1>6 DEF ReceiveData

\* A NACK timer that passes, a loss, and no step at all.
LEMMA OtherSteps ==
    ASSUME IInv, NackTimerPasses \/ LoseData \/ LoseFeedback \/ UNCHANGED vars
    PROVE  IInv'
<1>1. /\ tx \in Sender /\ Attended(tx) /\ rx \in Receiver /\ wire \in Seq(Nat)
      /\ feedback \in Seq(Feedback) /\ lost \in [Kinds -> Nat] /\ early \in Nat
      /\ Wanted \in Nat
  BY WantedNatural DEF IInv, TypeOK, NoSilentWait, Attended
<1>2. CASE NackTimerPasses
  <2>1. /\ rx' = [rx EXCEPT !.held = FALSE]
        /\ UNCHANGED <<attr, tx, wire, feedback, lost>>
    BY <1>2 DEF NackTimerPasses
  <2>2. early' \in Nat
    BY <1>1, <1>2 DEF NackTimerPasses, Expires
  <2>3. rx' \in Receiver /\ rx'.expected = rx.expected
    BY <1>1, <2>1 DEF Receiver
  <2>4. Wanted' = Wanted
    BY <2>1, <2>3 DEF Wanted, GoBackTo, ChunkStart
  <2>5. QED
    BY <1>1, <2>1, <2>2, <2>3, <2>4, ReceiverStep
<1>3. CASE LoseData
  <2>1. /\ UNCHANGED <<attr, tx, rx, feedback, early>>
        /\ wire' = Tail(wire) /\ wire # << >>
        /\ lost' = [lost EXCEPT !["data"] = @ + 1]
    BY <1>3 DEF LoseData, Lose
  <2>2. wire' \in Seq(Nat)
    BY <1>1, <2>1
  <2>3. lost' \in [Kinds -> Nat]
    BY <1>1, <2>1 DEF Kinds
  <2>4. Attended(tx)'
    BY <1>1, <2>1 DEF Attended
  <2>5. QED
    BY <1>1, <2>1, <2>2, <2>3, <2>4, SenderStep
<1>4. CASE LoseFeedback
  <2>1. PICK i \in DOMAIN feedback :
            Lose(feedback[i].kind) /\ feedback' = RemoveAt(feedback, i)
    BY <1>4 DEF LoseFeedback
  <2>2. UNCHANGED <<attr, tx, rx, wire, early>>
    BY <1>4 DEF LoseFeedback
  <2>3. /\ feedback' \in Seq(Feedback)
        /\ \A j \in DOMAIN feedback' : \E k \in DOMAIN feedback : feedback'[j] = feedback[k]
    BY <1>1, <2>1, RemovedOne
  <2>4. lost' \in [Kinds -> Nat]
    <3>1. feedback[i] \in Feedback
      BY <1>1
    <3>2. feedback[i].kind \in Kinds
      BY <3>1 DEF Feedback, Kinds
    <3>3. QED
      BY <1>1, <2>1, <3>2 DEF Lose
  <2>5. Attended(tx)'
    BY <1>1, <2>2 DEF Attended
  <2>6. QED
    BY <1>1, <2>2, <2>3, <2>4, <2>5, SenderStep
<1>5. CASE UNCHANGED vars
  <2>1. UNCHANGED <<attr, tx, rx, wire, feedback, lost, early>>
    BY <1>5 DEF vars
  <2>2. Attended(tx)'
    BY <1>1, <2>1 DEF Attended
  <2>3. QED
    BY <1>1, <2>1, <2>2, SenderStep
<1>6. QED
  BY <1>2, <1>3, <1>4, <1>5

-----------------------------------------------------------------------------
(* The theorems.                                                           *)

\* Before the first packet there is nothing to keep.
LEMMA InitialInv ==
    ASSUME Init
    PROVE  IInv
<1>1. attr \in Attributes /\ attr.chunk \in Nat /\ attr.ackInterval \in Nat
  BY TransportAssumption DEF Init
<1>2. tx \in Sender /\ tx.base = 0 /\ NoSilentWait
  BY <1>1 DEF Init, Sender, Moments, NoSilentWait
<1>3. rx \in Receiver /\ rx.expected = 0
  BY <1>1 DEF Init, Receiver
<1>4. wire \in Seq(Nat) /\ feedback \in Seq(Feedback) /\ DOMAIN feedback = {}
  BY DEF Init
<1>5. lost \in [Kinds -> Nat] /\ early \in Nat
  BY DEF Init
<1>6. TypeOK /\ Asked
  BY <1>1, <1>2, <1>3, <1>4, <1>5 DEF TypeOK, Asked
<1>7. Recoverable
  BY <1>2, <1>6, WantedNatural DEF Recoverable
<1>8. QED
  BY <1>2, <1>6, <1>7 DEF IInv

\* IInv holds at the start and every action keeps it.
THEOREM Inductive == Spec => []IInv
<1>1. Init => IInv
  BY InitialInv
<1>2. IInv /\ [Next]_vars => IInv'
  <2> SUFFICES ASSUME IInv, [Next]_vars PROVE IInv'
    OBVIOUS
  <2>1. CASE Send
    BY <2>1, SendStep
  <2>2. CASE TransmitComplete \/ PaceElapses \/ NextSend \/ Retransmit
    BY <2>2, EventStep
  <2>3. CASE Arrives
    BY <2>3, ReceiveDataStep, FeedbackStep DEF Arrives
  <2>4. CASE NackTimerPasses \/ LoseData \/ LoseFeedback \/ UNCHANGED vars
    BY <2>4, OtherSteps
  <2>5. CASE Finished
    BY <2>5, OtherSteps DEF Finished
  <2>6. QED
    BY <2>1, <2>2, <2>3, <2>4, <2>5 DEF Next
<1>3. QED
  BY <1>1, <1>2, PTL DEF Spec

\* The devices keep their types: in particular no number they count with
\* falls below zero, however often the flow goes back.
THEOREM TypeCorrect == Spec => []TypeOK
BY Inductive, PTL DEF IInv

\* A stopped flow always has the timer that will start it again, and no timer
\* rewinds a flow that is not stopped.
THEOREM NeverStoppedForGood == Spec => []NoSilentWait
BY Inductive, PTL DEF IInv

\* Go-back-N is sound: whatever is lost or overtaken, the sender can still
\* send what the receiver wants, unless the sending buffer was full.
THEOREM WantedIsKept == Spec => []Recoverable
BY Inductive, PTL DEF IInv

-----------------------------------------------------------------------------
(* The order of the answers, and of the chunks.                            *)

\* The receiver is not ahead of the application, and whenever it has gone
\* back, more has been written than it has ever accepted; it does not go back
\* over the start of a chunk, and its milestone is not behind.
Progress ==
    /\ \A i \in DOMAIN wire : wire[i] < tx.written
    /\ rx.expected <= rx.accepted /\ rx.accepted <= tx.written
    /\ rx.expected < rx.accepted => rx.accepted < tx.written
    /\ ChunkStart(rx.accepted) <= rx.expected
    /\ rx.accepted <= rx.milestone

\* ACKs on their way ask for more and more; what is answered by anything sent
\* later is not the end of what has been written.
Answers ==
    /\ tx.base < tx.written \/ tx.base <= rx.accepted
    /\ feedback # << >> => tx.base < tx.written
    /\ \A i \in DOMAIN feedback :
        /\ feedback[i].seq <= rx.accepted
        /\ feedback[i].kind = "nack" => feedback[i].seq < tx.written
    /\ \A i, j \in DOMAIN feedback :
        i < j /\ feedback[i].kind = "ack" =>
            /\ feedback[j].kind = "ack" => feedback[i].seq < feedback[j].seq
            /\ feedback[j].kind = "nack" => feedback[i].seq < tx.written

\* A sender that waits for ACKs stops at its milestone.
Flowing(s) ==
    /\ s.next <= s.milestone
    /\ s.avail # "never" => s.next < s.milestone
    /\ s.base < s.milestone

\* The sender waits for ACKs, and its buffer is never full.
Waits == attr.waitAck /\ attr.bufferLimit >= MaxPackets

Chunked ==
    /\ Flowing(tx)
    /\ \E k \in Nat : tx.milestone = k * attr.chunk
    /\ tx.milestone <= rx.accepted + attr.chunk
    /\ rx.accepted <= tx.milestone
    /\ \A i \in DOMAIN wire : wire[i] < tx.milestone
    /\ \A i \in DOMAIN feedback :
        feedback[i].kind = "nack" => feedback[i].seq < tx.milestone

OInv == IInv /\ Progress /\ Answers /\ (Waits => Chunked)

-----------------------------------------------------------------------------
\* Numbers below a milestone belong to a chunk that ends there or before.
LEMMA BelowMilestone ==
    ASSUME NEW c \in Nat \ {0}, NEW k \in Nat, NEW w \in Nat, w < k * c
    PROVE  (w \div c) * c + c <= k * c
<1> DEFINE d == w \div c
<1>1. d \in Nat /\ d * c <= w
  BY ChunkArithmetic
<1> HIDE DEF d
<1>2. d * c < k * c
  <2>1. d * c \in Nat /\ k * c \in Nat
    BY <1>1
  <2>2. QED
    BY <1>1, <2>1
<1>3. d + 1 <= k
  <2>1. SUFFICES ASSUME ~(d + 1 <= k) PROVE FALSE
    OBVIOUS
  <2>2. k <= d
    BY <1>1, <2>1
  <2>3. k * c <= d * c
    BY <1>1, <2>2
  <2>4. QED
    BY <1>1, <1>2, <2>3
<1>4. (d + 1) * c <= k * c
  BY <1>1, <1>3
<1>5. (d + 1) * c = d * c + c
  BY <1>1
<1>6. QED
  BY <1>4, <1>5 DEF d

\* A chunk more.
LEMMA OneMore ==
    ASSUME NEW c \in Nat, NEW k \in Nat
    PROVE  (k + 1) * c = k * c + c
OBVIOUS

\* A multiple of the chunk begins a chunk.
LEMMA ChunkBegins ==
    ASSUME NEW c \in Nat \ {0}, NEW a \in Nat, a % c = 0
    PROVE  (a \div c) * c = a
OBVIOUS

\* What DequeueAndTransmit sends is what is written and, in a flow that waits,
\* before its milestone.
LEMMA TransmitOrder ==
    ASSUME NEW s \in Sender, NEW t \in DequeueAndTransmit(s)
    PROVE  /\ t.milestone = s.milestone /\ t.base = s.base
           /\ attr.waitAck /\ Flowing(s) => Flowing(t)
           /\ t.busy /\ ~s.busy => Sendable(s)
<1>1. CASE s.busy
  BY <1>1 DEF DequeueAndTransmit
<1>2. CASE ~s.busy /\ Sendable(s)
  <2> DEFINE sent == [s EXCEPT !.next = @ + 1, !.busy = TRUE, !.counted = Latest(@ - 1, 0)]
  <2>1. /\ sent.next = s.next + 1 /\ sent.milestone = s.milestone /\ sent.base = s.base
        /\ sent.avail = s.avail
    BY DEF Sender
  <2>2. sent \in [{"written", "base", "next", "avail", "nextSend", "busy", "waiting",
                  "timer", "milestone", "counted"} -> UNION {{sent[x]} : x \in DOMAIN sent}]
    BY DEF Sender
  <2>3. t \in IF EndsChunk(s) THEN {StopUntilAcked(sent)}
              ELSE {[sent EXCEPT !.avail = a] : a \in {"now", "paced"}}
    BY <1>2 DEF DequeueAndTransmit, Transmitted
  <2> HIDE DEF sent
  <2>4. CASE EndsChunk(s)
    <3>1. t = StopUntilAcked(sent)
      BY <2>3, <2>4
    <3>2. /\ t.avail = "never" /\ t.next = sent.next /\ t.milestone = sent.milestone
          /\ t.base = sent.base
      BY <2>2, <3>1 DEF StopUntilAcked
    <3>3. s.avail # "never" /\ s.next \in Nat /\ s.milestone \in Nat
      BY <1>2 DEF Sendable, Sender
    <3>4. QED
      BY <1>2, <2>1, <3>2, <3>3 DEF Flowing
  <2>5. CASE ~EndsChunk(s)
    <3>1. PICK a \in {"now", "paced"} : t = [sent EXCEPT !.avail = a]
      BY <2>3, <2>5
    <3>2. t.next = sent.next /\ t.milestone = sent.milestone /\ t.base = sent.base
      BY <2>2, <3>1
    <3>3. s.next \in Nat /\ s.milestone \in Nat
      BY DEF Sender
    <3>4. attr.waitAck => s.next + 1 < s.milestone
      BY <2>5, <3>3 DEF EndsChunk
    <3>5. QED
      BY <1>2, <2>1, <3>2, <3>3, <3>4 DEF Flowing
  <2>6. QED
    BY <2>4, <2>5
<1>3. CASE ~s.busy /\ ~Sendable(s)
  BY <1>3 DEF DequeueAndTransmit, Rescheduled, Sender, Flowing
<1>4. QED
  BY <1>1, <1>2, <1>3

-----------------------------------------------------------------------------
(* The actions of the sender.                                              *)

\* The sender comes to s; its handler then may, or may not, transmit.
Leaves(s) == ThenTransmit(s) \/ (tx' = s /\ wire' = wire)

\* What transmitting does to the wire, and that it stops at the milestone.
LEMMA LeavesOrder ==
    ASSUME TypeOK, NEW s \in Sender, Attended(s), Leaves(s)
    PROVE  /\ tx' \in Sender /\ wire' \in Seq(Nat)
           /\ tx'.written = s.written /\ tx'.base = s.base
           /\ tx'.milestone = s.milestone
           /\ attr.waitAck /\ Flowing(s) => Flowing(tx')
           /\ \A j \in DOMAIN wire' :
                \/ j \in DOMAIN wire /\ wire'[j] = wire[j]
                \/ /\ wire'[j] < s.written
                   /\ Flowing(s) => wire'[j] < s.milestone
<1>1. wire \in Seq(Nat)
  BY DEF TypeOK
<1>2. CASE tx' = s /\ wire' = wire
  BY <1>1, <1>2
<1>3. CASE ThenTransmit(s)
  <2>1. tx' \in DequeueAndTransmit(s)
    BY <1>3 DEF ThenTransmit
  <2>2. /\ tx' \in Sender /\ wire' \in Seq(Nat)
        /\ tx'.written = s.written /\ tx'.base = s.base
    BY <1>1, <1>3, ThenTransmitKeeps
  <2>3. /\ tx'.milestone = s.milestone
        /\ attr.waitAck /\ Flowing(s) => Flowing(tx')
        /\ tx'.busy /\ ~s.busy => Sendable(s)
    <3> DEFINE t == tx'
    <3>1. t \in DequeueAndTransmit(s)
      BY <2>1
    <3>2. /\ t.milestone = s.milestone
          /\ attr.waitAck /\ Flowing(s) => Flowing(t)
          /\ t.busy /\ ~s.busy => Sendable(s)
      <4> HIDE DEF t
      <4>1. QED
        BY <3>1, TransmitOrder
    <3>3. QED
      BY <3>2
  <2>4. ASSUME NEW j \in DOMAIN wire'
        PROVE  \/ j \in DOMAIN wire /\ wire'[j] = wire[j]
               \/ /\ wire'[j] < s.written
                  /\ Flowing(s) => wire'[j] < s.milestone
    <3>1. CASE wire' = wire
      BY <3>1
    <3>2. CASE wire' # wire
      <4>1. wire' = Append(wire, s.next) /\ Sendable(s)
        BY <1>3, <2>3, <3>2 DEF ThenTransmit
      <4>2. s.next < s.written /\ s.avail = "now" /\ s.next \in Nat
        BY <4>1 DEF Sendable, Sender
      <4>3. (j \in DOMAIN wire /\ wire'[j] = wire[j]) \/ wire'[j] = s.next
        BY <1>1, <4>1, <4>2
      <4>4. QED
        BY <4>2, <4>3 DEF Flowing
    <3>3. QED
      BY <3>1, <3>2
  <2>5. QED
    BY <2>2, <2>3, <2>4
<1>4. QED
  BY <1>2, <1>3 DEF Leaves

\* Feedback that is taken out leaves the answers in order.
LEMMA AnswersTaken ==
    ASSUME OInv, UNCHANGED rx, tx.written \in Nat, tx'.written \in Nat,
           tx.written <= tx'.written,
           tx'.base < tx'.written \/ tx'.base <= rx.accepted,
           feedback' # << >> => tx'.base < tx'.written,
           \/ feedback' = feedback
           \/ \E i \in DOMAIN feedback : feedback' = RemoveAt(feedback, i)
    PROVE  /\ Answers'
           /\ \A j \in DOMAIN feedback' : \E m \in DOMAIN feedback : feedback'[j] = feedback[m]
<1>1. feedback \in Seq(Feedback)
  BY DEF OInv, IInv, TypeOK
<1>2. /\ DOMAIN feedback \subseteq Nat
      /\ \A m \in DOMAIN feedback : feedback[m] \in Feedback
  BY <1>1
<1>3. /\ \A j \in DOMAIN feedback' : \E m \in DOMAIN feedback : feedback'[j] = feedback[m]
      /\ \A j, k \in DOMAIN feedback' : j < k =>
            \E m, n \in DOMAIN feedback :
                m < n /\ feedback'[j] = feedback[m] /\ feedback'[k] = feedback[n]
  <2>1. CASE feedback' = feedback
    BY <2>1
  <2>2. CASE \E i \in DOMAIN feedback : feedback' = RemoveAt(feedback, i)
    <3>1. PICK i \in DOMAIN feedback : feedback' = RemoveAt(feedback, i)
      BY <2>2
    <3> DEFINE old(j) == IF j < i THEN j ELSE j + 1
    <3>2. i \in 1..Len(feedback) /\ DOMAIN feedback = 1..Len(feedback) /\ Len(feedback) \in Nat
      BY <1>1
    <3>3. /\ feedback' \in Seq(Feedback) /\ Len(feedback') = Len(feedback) - 1
          /\ \A j \in 1..(Len(feedback) - 1) :
                feedback'[j] = IF j < i THEN feedback[j] ELSE feedback[j + 1]
      BY <1>1, <3>1, RemovedAt
    <3>4. DOMAIN feedback' = 1..(Len(feedback) - 1)
      BY <3>3
    <3>5. \A j \in DOMAIN feedback' :
            old(j) \in DOMAIN feedback /\ feedback'[j] = feedback[old(j)]
      BY <3>2, <3>3, <3>4
    <3>6. \A j, k \in DOMAIN feedback' : j < k => old(j) < old(k)
      BY <3>2, <3>4
    <3> HIDE DEF old
    <3>7. QED
      BY <3>5, <3>6
  <2>3. QED
    BY <2>1, <2>2
<1>4. ASSUME NEW j \in DOMAIN feedback'
      PROVE  /\ feedback'[j].seq <= rx'.accepted
             /\ feedback'[j].kind = "nack" => feedback'[j].seq < tx'.written
  <2>1. PICK m \in DOMAIN feedback : feedback'[j] = feedback[m]
    BY <1>3
  <2>2. feedback[m].seq \in Nat
    BY <1>2 DEF Feedback
  <2>3. /\ feedback[m].seq <= rx.accepted
        /\ feedback[m].kind = "nack" => feedback[m].seq < tx.written
    BY DEF OInv, Answers
  <2>4. QED
    BY <2>1, <2>2, <2>3
<1>5. ASSUME NEW j \in DOMAIN feedback', NEW k \in DOMAIN feedback',
             j < k, feedback'[j].kind = "ack"
      PROVE  /\ feedback'[k].kind = "ack" => feedback'[j].seq < feedback'[k].seq
             /\ feedback'[k].kind = "nack" => feedback'[j].seq < tx'.written
  <2>1. PICK m \in DOMAIN feedback, n \in DOMAIN feedback :
            m < n /\ feedback'[j] = feedback[m] /\ feedback'[k] = feedback[n]
    BY <1>3, <1>5
  <2>2. feedback[m].seq \in Nat /\ feedback[n].seq \in Nat
    BY <1>2 DEF Feedback
  <2>3. /\ feedback[n].kind = "ack" => feedback[m].seq < feedback[n].seq
        /\ feedback[n].kind = "nack" => feedback[m].seq < tx.written
    BY <1>5, <2>1 DEF OInv, Answers
  <2>4. QED
    BY <2>1, <2>2, <2>3
<1>6. QED
  BY <1>3, <1>4, <1>5 DEF Answers

\* What a step of the sender, that comes to s, has to see to.
LEMMA SenderOrder ==
    ASSUME OInv, IInv', UNCHANGED <<attr, rx>>,
           NEW s \in Sender, Attended(s), Leaves(s),
           tx.written <= s.written,
           s.base < s.written \/ s.base <= rx.accepted,
           feedback' # << >> => s.base < s.written,
           \/ feedback' = feedback
           \/ \E i \in DOMAIN feedback : feedback' = RemoveAt(feedback, i),
           Waits => /\ Flowing(s)
                    /\ \/ s.milestone = tx.milestone
                       \/ /\ s.milestone = tx.milestone + attr.chunk
                          /\ tx.milestone <= rx.accepted
    PROVE  OInv'
<1>1. /\ TypeOK /\ tx \in Sender /\ rx \in Receiver /\ wire \in Seq(Nat)
      /\ feedback \in Seq(Feedback) /\ attr \in Attributes /\ attr.chunk \in Nat \ {0}
  BY TransportAssumption DEF OInv, IInv, TypeOK
<1>2. /\ tx.written \in Nat /\ s.written \in Nat /\ rx.accepted \in Nat
      /\ tx.milestone \in Nat
  BY <1>1 DEF Sender, Receiver
<1>3. /\ tx' \in Sender /\ wire' \in Seq(Nat)
      /\ tx'.written = s.written /\ tx'.base = s.base
      /\ tx'.milestone = s.milestone
      /\ attr.waitAck /\ Flowing(s) => Flowing(tx')
      /\ \A j \in DOMAIN wire' :
            \/ j \in DOMAIN wire /\ wire'[j] = wire[j]
            \/ /\ wire'[j] < s.written
               /\ Flowing(s) => wire'[j] < s.milestone
  BY <1>1, LeavesOrder
<1>4. Progress'
  <2>1. \A j \in DOMAIN wire' : wire'[j] < tx'.written
    <3>1. \A j \in DOMAIN wire : wire[j] \in Nat /\ wire[j] < tx.written
      BY <1>1 DEF OInv, Progress
    <3>2. QED
      BY <1>2, <1>3, <3>1
  <2>2. /\ rx'.expected <= rx'.accepted /\ rx'.accepted <= tx'.written
        /\ rx'.expected < rx'.accepted => rx'.accepted < tx'.written
        /\ rx'.accepted <= rx'.milestone
    BY <1>2, <1>3 DEF OInv, Progress
  <2>3. ChunkStart(rx.accepted)' <= rx'.expected
    BY DEF OInv, Progress, ChunkStart
  <2>4. QED
    BY <2>1, <2>2, <2>3 DEF Progress
<1>5. /\ Answers'
      /\ \A j \in DOMAIN feedback' : \E m \in DOMAIN feedback : feedback'[j] = feedback[m]
  BY <1>2, <1>3, AnswersTaken
<1>6. ASSUME Waits PROVE Chunked'
  <2>1. Chunked /\ Flowing(s) /\ Flowing(tx)'
    BY <1>3, <1>6 DEF OInv, Waits, Flowing
  <2>2. /\ tx.milestone <= tx'.milestone
        /\ tx'.milestone <= rx.accepted + attr.chunk
        /\ rx.accepted <= tx'.milestone
        /\ \E k \in Nat : tx'.milestone = k * attr.chunk
    <3>1. PICK k \in Nat : tx.milestone = k * attr.chunk
      BY <2>1 DEF Chunked
    <3>2. CASE s.milestone = tx.milestone
      BY <1>2, <1>3, <2>1, <3>2 DEF Chunked
    <3>3. CASE s.milestone = tx.milestone + attr.chunk /\ tx.milestone <= rx.accepted
      <4>1. tx'.milestone = (k + 1) * attr.chunk
        BY <1>1, <1>3, <3>1, <3>3, OneMore
      <4>2. tx'.milestone = tx.milestone + attr.chunk
        BY <1>3, <3>3
      <4>3. rx.accepted <= tx.milestone
        BY <2>1 DEF Chunked
      <4>4. /\ tx.milestone <= tx'.milestone
            /\ tx'.milestone <= rx.accepted + attr.chunk
            /\ rx.accepted <= tx'.milestone
        BY <1>1, <1>2, <3>3, <4>2, <4>3
      <4>5. QED
        BY <4>1, <4>4
    <3>4. QED
      BY <1>6, <3>2, <3>3
  <2>3. tx'.milestone \in Nat
    BY <1>3 DEF Sender
  <2>4. \A j \in DOMAIN wire' : wire'[j] < tx'.milestone
    <3>1. \A j \in DOMAIN wire : wire[j] \in Nat /\ wire[j] < tx.milestone
      BY <1>1, <2>1 DEF Chunked
    <3>2. QED
      BY <1>2, <1>3, <2>1, <2>2, <2>3, <3>1
  <2>5. \A j \in DOMAIN feedback' :
            feedback'[j].kind = "nack" => feedback'[j].seq < tx'.milestone
    <3>1. ASSUME NEW m \in DOMAIN feedback PROVE feedback[m].seq \in Nat
      <4>1. feedback[m] \in Feedback
        BY <1>1
      <4>2. QED
        BY <4>1 DEF Feedback
    <3>2. \A m \in DOMAIN feedback :
            feedback[m].kind = "nack" => feedback[m].seq < tx.milestone
      BY <2>1 DEF Chunked
    <3>3. QED
      BY <1>2, <1>5, <2>2, <2>3, <3>1, <3>2
  <2>6. QED
    BY <2>1, <2>2, <2>4, <2>5 DEF Chunked
<1>7. Waits' => Waits
  BY DEF Waits
<1>8. QED
  BY <1>4, <1>5, <1>6, <1>7 DEF OInv

\* The types of what the actions of the sender look at.
LEMMA Types ==
    ASSUME OInv
    PROVE  /\ TypeOK /\ tx \in Sender /\ Attended(tx) /\ rx \in Receiver
           /\ wire \in Seq(Nat) /\ feedback \in Seq(Feedback) /\ attr \in Attributes
           /\ attr.chunk \in Nat \ {0} /\ attr.bufferLimit \in Nat \ {0}
           /\ tx.written \in Nat /\ tx.base \in Nat /\ tx.next \in Nat
           /\ tx.milestone \in Nat /\ rx.accepted \in Nat
BY TransportAssumption
   DEF OInv, IInv, TypeOK, NoSilentWait, Attended, Sender, Receiver

\* Writing a packet keeps the order.
LEMMA SendOrder ==
    ASSUME OInv, Send
    PROVE  OInv'
<1>1. /\ tx \in Sender /\ Attended(tx) /\ attr.bufferLimit \in Nat \ {0}
      /\ tx.written \in Nat /\ tx.base \in Nat /\ rx.accepted \in Nat
  BY Types
<1> DEFINE s == Written(tx)
<1>2. /\ s.written = tx.written + 1
      /\ s.base = IF tx.written - tx.base = attr.bufferLimit THEN tx.base + 1 ELSE tx.base
      /\ s.next = tx.next /\ s.milestone = tx.milestone
      /\ s.avail = tx.avail /\ s.waiting = tx.waiting /\ s.timer = tx.timer
  BY <1>1 DEF Written, Sender
<1>3. s \in Sender
  <2> DEFINE w == tx.written + 1
             c == tx.counted + 1
             b == IF tx.written - tx.base = attr.bufferLimit THEN tx.base + 1 ELSE tx.base
  <2>1. s = [tx EXCEPT !.written = w, !.counted = c, !.base = b]
    BY DEF Written
  <2>2. w \in Nat /\ c \in Nat /\ b \in Nat
    BY <1>1 DEF Sender
  <2> HIDE DEF s, w, c, b
  <2>3. QED
    BY <1>1, <2>1, <2>2 DEF Sender
<1>4. /\ ThenTransmit(s) /\ tx.written < MaxPackets
      /\ UNCHANGED <<attr, rx, feedback, lost, early>>
  BY DEF Send
<1> HIDE DEF s
<1>5. Attended(s) /\ Leaves(s)
  BY <1>1, <1>2, <1>4 DEF Attended, Leaves
<1>6. s.base < s.written
  <2>1. tx.base < tx.written \/ tx.base <= rx.accepted
    BY DEF OInv, Answers
  <2>2. rx.accepted <= tx.written
    BY DEF OInv, Progress
  <2>3. QED
    BY <1>1, <1>2, <2>1, <2>2
<1>7. Waits => Flowing(s)
  <2>1. SUFFICES ASSUME Waits PROVE Flowing(s)
    OBVIOUS
  <2>2. tx.written - tx.base # attr.bufferLimit
    BY <1>1, <1>4, <2>1, TransportAssumption DEF Waits
  <2>3. Flowing(tx)
    BY <2>1 DEF OInv, Chunked
  <2>4. QED
    BY <1>2, <2>2, <2>3 DEF Flowing
<1>8. IInv'
  BY SendStep DEF OInv
<1>9. tx.written <= s.written
  BY <1>1, <1>2
<1>10. QED
  BY <1>2, <1>3, <1>4, <1>5, <1>6, <1>7, <1>8, <1>9, SenderOrder

\* The events that leave buffer and feedback as they are.
LEMMA EventOrder ==
    ASSUME OInv, TransmitComplete \/ PaceElapses \/ NextSend \/ Retransmit
    PROVE  OInv'
<1>1. /\ tx \in Sender /\ Attended(tx) /\ tx.written \in Nat
      /\ UNCHANGED <<attr, rx, feedback>>
  BY Types DEF TransmitComplete, PaceElapses, NextSend, Retransmit
<1>2. IInv'
  BY EventStep DEF OInv
<1>3. /\ tx.base < tx.written \/ tx.base <= rx.accepted
      /\ feedback # << >> => tx.base < tx.written
      /\ Waits => Flowing(tx)
  BY DEF OInv, Answers, Chunked
<1>4. PICK s \in Sender :
        /\ Attended(s) /\ Leaves(s)
        /\ s.written = tx.written /\ s.base = tx.base /\ s.milestone = tx.milestone
        /\ Flowing(tx) => Flowing(s)
  <2>1. CASE TransmitComplete
    <3> DEFINE s == [tx EXCEPT !.busy = FALSE]
    <3>1. s \in Sender /\ Attended(s)
      BY <1>1 DEF Sender, Attended
    <3>2. /\ s.written = tx.written /\ s.base = tx.base /\ s.milestone = tx.milestone
          /\ s.next = tx.next /\ s.avail = tx.avail
      BY <1>1 DEF Sender
    <3>3. Leaves(s)
      BY <2>1 DEF TransmitComplete, Leaves
    <3> HIDE DEF s
    <3>4. QED
      BY <3>1, <3>2, <3>3 DEF Flowing
  <2>2. CASE PaceElapses
    <3> DEFINE s == [tx EXCEPT !.avail = "now"]
    <3>1. tx.avail = "paced"
      BY <2>2 DEF PaceElapses
    <3>2. s \in Sender /\ Attended(s)
      BY <1>1, <3>1 DEF Sender, Attended, Moments
    <3>3. /\ s.written = tx.written /\ s.base = tx.base /\ s.milestone = tx.milestone
          /\ s.next = tx.next
      BY <1>1 DEF Sender
    <3>4. Leaves(s)
      BY <2>2 DEF PaceElapses, Leaves
    <3> HIDE DEF s
    <3>5. QED
      BY <3>1, <3>2, <3>3, <3>4 DEF Flowing
  <2>3. CASE NextSend
    <3> DEFINE s == [tx EXCEPT !.nextSend = "now"]
    <3>1. s \in Sender /\ Attended(s)
      BY <1>1 DEF Sender, Attended, Moments
    <3>2. /\ s.written = tx.written /\ s.base = tx.base /\ s.milestone = tx.milestone
          /\ s.next = tx.next /\ s.avail = tx.avail
      BY <1>1 DEF Sender
    <3>3. Leaves(s)
      BY <2>3 DEF NextSend, Leaves
    <3> HIDE DEF s
    <3>4. QED
      BY <3>1, <3>2, <3>3 DEF Flowing
  <2>4. CASE Retransmit
    <3> DEFINE s == [RecoverQueue(tx) EXCEPT !.avail = "now", !.waiting = FALSE, !.timer = FALSE]
    <3>1. s \in Sender /\ Attended(s)
      BY <1>1 DEF Sender, Attended, Moments, RecoverQueue
    <3>2. /\ s.written = tx.written /\ s.base = tx.base /\ s.milestone = tx.milestone
          /\ s.next = tx.base
      BY <1>1 DEF Sender, RecoverQueue
    <3>3. Leaves(s)
      BY <2>4 DEF Retransmit, Leaves
    <3>4. tx.base \in Nat /\ tx.milestone \in Nat
      BY Types
    <3> HIDE DEF s
    <3>5. QED
      BY <3>1, <3>2, <3>3, <3>4 DEF Flowing
  <2>5. QED
    BY <2>1, <2>2, <2>3, <2>4
<1>5. QED
  BY <1>1, <1>2, <1>3, <1>4, SenderOrder

\* An ACK or NACK on its way, and what it releases.
LEMMA ReleasedOrder ==
    ASSUME OInv, NEW i \in DOMAIN feedback
    PROVE  LET g == GoBackTo(feedback[i].seq)
               r == Released(tx, feedback[i].seq)
           IN
           /\ feedback[i].seq \in Nat /\ g \in Nat /\ g <= feedback[i].seq
           /\ feedback[i].seq <= rx.accepted
           /\ feedback[i].kind = "nack" => feedback[i].seq < tx.written
           /\ r \in Sender /\ Attended(r)
           /\ r.written = tx.written /\ r.milestone = tx.milestone
           /\ r.next = tx.next /\ r.avail = tx.avail
           /\ r.base = tx.base \/ r.base = g
<1> DEFINE g == GoBackTo(feedback[i].seq)
           r == Released(tx, feedback[i].seq)
           b == Latest(tx.base, g)
<1>1. tx \in Sender /\ attr \in Attributes /\ feedback[i] \in Feedback
  BY Types
<1>2. feedback[i].seq \in Nat
  BY <1>1 DEF Feedback
<1>3. g \in Nat /\ g <= feedback[i].seq
  BY <1>1, <1>2, GoBackFacts
<1>4. /\ feedback[i].seq <= rx.accepted
      /\ feedback[i].kind = "nack" => feedback[i].seq < tx.written
  BY DEF OInv, Answers
<1>5. r \in Sender /\ Attended(r)
  BY ReleasedKeeps DEF OInv
<1>6. r = [tx EXCEPT !.base = b]
  BY DEF Released
<1>7. b = tx.base \/ b = g
  BY DEF Latest
<1> HIDE DEF b, r, g
<1>8. /\ r.written = tx.written /\ r.milestone = tx.milestone
      /\ r.next = tx.next /\ r.avail = tx.avail /\ r.base = b
  BY <1>1, <1>6 DEF Sender
<1>9. QED
  BY <1>2, <1>3, <1>4, <1>5, <1>7, <1>8 DEF r, g

\* An ACK that arrives keeps the order.
LEMMA AckOrder ==
    ASSUME OInv, NEW i \in DOMAIN feedback, ReceiveAck(i)
    PROVE  OInv'
<1> DEFINE a == feedback[i].seq
           g == GoBackTo(a)
           r == Released(tx, a)
<1>1. /\ tx.written \in Nat /\ tx.base \in Nat /\ tx.next \in Nat
      /\ tx.milestone \in Nat /\ rx.accepted \in Nat /\ attr.chunk \in Nat \ {0}
      /\ feedback \in Seq(Feedback)
  BY Types
<1>2. /\ a \in Nat /\ g \in Nat /\ g <= a /\ a <= rx.accepted
      /\ r \in Sender /\ Attended(r)
      /\ r.written = tx.written /\ r.milestone = tx.milestone
      /\ r.next = tx.next /\ r.avail = tx.avail
      /\ r.base = tx.base \/ r.base = g
  BY ReleasedOrder
<1>3. /\ UNCHANGED <<attr, rx>> /\ feedback' = RemoveAt(feedback, i)
      /\ feedback[i].kind = "ack" /\ Deliverable(i)
  BY DEF ReceiveAck
<1>4. i = 1
  BY <1>3 DEF Deliverable
<1>5. feedback' # << >> => a < tx.written
  <2>1. SUFFICES ASSUME feedback' # << >> PROVE a < tx.written
    OBVIOUS
  <2>2. feedback' \in Seq(Feedback) /\ Len(feedback') = Len(feedback) - 1
    BY <1>1, <1>3, RemovedAt
  <2>3. 2 \in DOMAIN feedback
    BY <1>1, <2>1, <2>2
  <2>4. feedback[2] \in Feedback
    BY <1>1, <2>3
  <2>5. feedback[2].seq \in Nat /\ feedback[2].kind \in {"ack", "nack"}
    BY <2>4 DEF Feedback
  <2>6. /\ feedback[2].kind = "ack" => feedback[1].seq < feedback[2].seq
        /\ feedback[2].kind = "nack" => feedback[1].seq < tx.written
    BY <1>3, <1>4, <2>3 DEF OInv, Answers
  <2>7. feedback[2].seq <= rx.accepted /\ rx.accepted <= tx.written
    BY <2>3 DEF OInv, Answers, Progress
  <2>8. QED
    BY <1>1, <1>2, <1>4, <2>5, <2>6, <2>7
<1>6. feedback' # << >> => r.base < r.written
  <2>1. feedback # << >> => tx.base < tx.written
    BY DEF OInv, Answers
  <2>2. feedback # << >>
    BY <1>1
  <2>3. QED
    BY <1>1, <1>2, <1>5, <2>1, <2>2
<1>7. r.base < r.written \/ r.base <= rx.accepted
  <2>1. tx.base < tx.written \/ tx.base <= rx.accepted
    BY DEF OInv, Answers
  <2>2. QED
    BY <1>1, <1>2, <2>1
<1>8. Waits => /\ Flowing(tx) /\ attr.waitAck
               /\ rx.accepted <= tx.milestone
  BY DEF OInv, Chunked, Waits
<1>9. IInv'
  BY FeedbackStep DEF OInv
<1>10. CASE attr.waitAck /\ a >= tx.milestone
  <2>1. ThenTransmit([r EXCEPT !.avail = "now", !.waiting = FALSE,
                               !.timer = FALSE, !.milestone = @ + attr.chunk])
    BY <1>10 DEF ReceiveAck
  <2>2. PICK m \in Nat :
            /\ ThenTransmit([r EXCEPT !.avail = "now", !.waiting = FALSE,
                                      !.timer = FALSE, !.milestone = m])
            /\ m = tx.milestone + attr.chunk
    <3>1. r.milestone + attr.chunk \in Nat
      BY <1>1, <1>2
    <3>2. QED
      BY <1>2, <2>1, <3>1
  <2> HIDE DEF r
  <2> DEFINE s == [r EXCEPT !.avail = "now", !.waiting = FALSE, !.timer = FALSE, !.milestone = m]
  <2>3. s \in Sender /\ Attended(s)
    BY <1>2 DEF Sender, Attended, Moments
  <2>4. s.written = r.written /\ s.base = r.base /\ s.next = r.next /\ s.milestone = m
    BY <1>2 DEF Sender
  <2>5. Leaves(s)
    BY <2>2 DEF Leaves
  <2> HIDE DEF s, a, g
  <2>6. Waits => Flowing(s) /\ s.milestone = tx.milestone + attr.chunk
                 /\ tx.milestone <= rx.accepted
    <3>1. SUFFICES ASSUME Waits
                   PROVE  Flowing(s) /\ s.milestone = tx.milestone + attr.chunk
                          /\ tx.milestone <= rx.accepted
      OBVIOUS
    <3>2. /\ s.milestone = tx.milestone + attr.chunk /\ s.next = tx.next
          /\ s.base = tx.base \/ s.base = g
      BY <1>2, <2>2, <2>4
    <3>3. tx.next <= tx.milestone /\ tx.base < tx.milestone /\ rx.accepted <= tx.milestone
      BY <1>8, <3>1 DEF Flowing
    <3>4. a >= tx.milestone /\ g <= a /\ a <= rx.accepted
      BY <1>2, <1>10
    <3>5. tx.milestone <= rx.accepted /\ g <= tx.milestone
      <4>1. a \in Nat /\ g \in Nat
        BY <1>2
      <4>2. QED
        BY <1>1, <3>3, <3>4, <4>1
    <3>6. s.next < s.milestone /\ s.next <= s.milestone
      BY <1>1, <3>2, <3>3
    <3>7. s.base <= tx.milestone
      BY <1>1, <3>2, <3>3, <3>5
    <3>8. s.base < s.milestone
      <4>1. s.base \in Nat
        BY <2>3 DEF Sender
      <4>2. QED
        BY <1>1, <3>2, <3>7, <4>1
    <3>9. QED
      BY <3>2, <3>5, <3>6, <3>8 DEF Flowing
  <2>7. tx.written <= s.written
    BY <1>1, <1>2, <2>4
  <2>8. QED
    BY <1>3, <1>6, <1>7, <1>9, <2>3, <2>4, <2>5, <2>6, <2>7, SenderOrder
<1>11. CASE ~(attr.waitAck /\ a >= tx.milestone)
  <2>1. Leaves(r)
    BY <1>11 DEF ReceiveAck, Leaves
  <2> HIDE DEF r, a, g
  <2>2. Waits => Flowing(r)
    BY <1>1, <1>2, <1>8, <1>11 DEF Flowing
  <2>3. tx.written <= r.written
    BY <1>1, <1>2
  <2>4. QED
    BY <1>2, <1>3, <1>6, <1>7, <1>9, <2>1, <2>2, <2>3, SenderOrder
<1>12. QED
  BY <1>10, <1>11

\* A NACK that arrives keeps the order.
LEMMA NackOrder ==
    ASSUME OInv, NEW i \in DOMAIN feedback, ReceiveNack(i)
    PROVE  OInv'
<1> DEFINE a == feedback[i].seq
           g == GoBackTo(a)
           r == Released(tx, a)
           q == RecoverQueue(r)
<1>1. /\ tx.written \in Nat /\ tx.base \in Nat /\ tx.next \in Nat
      /\ tx.milestone \in Nat /\ rx.accepted \in Nat
      /\ feedback \in Seq(Feedback)
  BY Types
<1>2. /\ UNCHANGED <<attr, rx>> /\ feedback' = RemoveAt(feedback, i)
      /\ feedback[i].kind = "nack"
  BY DEF ReceiveNack
<1>3. /\ a \in Nat /\ g \in Nat /\ g <= a /\ a < tx.written
      /\ r \in Sender /\ Attended(r)
      /\ r.written = tx.written /\ r.milestone = tx.milestone
      /\ r.base = tx.base \/ r.base = g
  BY <1>2, ReleasedOrder
<1>4. /\ q \in Sender /\ Attended(q)
      /\ q.written = tx.written /\ q.milestone = tx.milestone
      /\ q.base = r.base /\ q.next = r.base
  <2> HIDE DEF r
  <2>1. QED
    BY <1>3 DEF RecoverQueue, Sender, Attended
<1>5. q.base < q.written
  <2>1. feedback # << >> => tx.base < tx.written
    BY DEF OInv, Answers
  <2>2. feedback # << >>
    BY <1>1
  <2>3. QED
    BY <1>1, <1>3, <1>4, <2>1, <2>2
<1>6. Waits => q.next < q.milestone /\ q.base < q.milestone
  <2>1. Waits => Flowing(tx) /\ a < tx.milestone
    BY <1>2 DEF OInv, Chunked
  <2>2. QED
    BY <1>1, <1>3, <1>4, <2>1 DEF Flowing
<1>7. IInv'
  BY FeedbackStep DEF OInv
<1>8. PICK s \in Sender :
        /\ Attended(s) /\ Leaves(s) /\ s.written = q.written
        /\ s.milestone = q.milestone /\ s.base = q.base /\ s.next = q.next
  <2>1. CASE attr.waitAck /\ tx.waiting
    <3> DEFINE s == [q EXCEPT !.avail = "now", !.waiting = FALSE, !.timer = FALSE]
    <3>1. Leaves(s)
      BY <2>1 DEF ReceiveNack, Leaves
    <3> HIDE DEF q
    <3>2. s \in Sender /\ Attended(s)
      BY <1>4 DEF Sender, Attended, Moments
    <3>3. /\ s.written = q.written /\ s.milestone = q.milestone
          /\ s.base = q.base /\ s.next = q.next
      BY <1>4 DEF Sender
    <3> HIDE DEF s
    <3>4. QED
      BY <3>1, <3>2, <3>3
  <2>2. CASE ~(attr.waitAck /\ tx.waiting)
    <3>1. Leaves(q)
      BY <2>2 DEF ReceiveNack, Leaves
    <3> HIDE DEF q
    <3>2. QED
      BY <1>4, <3>1
  <2>3. QED
    BY <2>1, <2>2
<1> HIDE DEF q, r, a, g
<1>9. tx.written <= s.written /\ s.milestone = tx.milestone /\ s.base < s.written
  BY <1>1, <1>4, <1>5, <1>8
<1>10. Waits => Flowing(s)
  BY <1>1, <1>4, <1>6, <1>8 DEF Flowing, Sender
<1>11. QED
  BY <1>2, <1>7, <1>8, <1>9, <1>10, SenderOrder

-----------------------------------------------------------------------------
(* The actions of the receiver, and losses.                                *)

\* What takes the first packet off the wire leaves the others.
LEMMA WireShortened ==
    ASSUME NEW b, wire \in Seq(Nat), wire # << >>, wire' = Tail(wire),
           \A j \in DOMAIN wire : wire[j] < b
    PROVE  /\ \A j \in DOMAIN wire' : wire'[j] < b
           /\ Head(wire) \in Nat /\ Head(wire) < b
<1>1. Head(wire) \in Nat /\ Head(wire) = wire[1] /\ 1 \in DOMAIN wire
  OBVIOUS
<1>2. ASSUME NEW j \in DOMAIN wire'
      PROVE  wire'[j] < b
  <2>1. j + 1 \in DOMAIN wire /\ wire'[j] = wire[j + 1]
    OBVIOUS
  <2>2. QED
    BY <2>1
<1>3. QED
  BY <1>1, <1>2

\* What the receiver, that has taken a packet off the wire, has to see to: the
\* numbers it counts with, and what it sends.
Takes == UNCHANGED <<attr, tx>> /\ wire # << >> /\ wire' = Tail(wire)

Counts ==
    /\ rx'.expected <= rx'.accepted /\ rx'.accepted <= tx.written
    /\ rx'.expected < rx'.accepted => rx'.accepted < tx.written
    /\ ChunkStart(rx'.accepted) <= rx'.expected
    /\ rx'.accepted <= rx'.milestone
    /\ rx.accepted <= rx'.accepted
    /\ Waits => rx'.accepted <= tx.milestone

Says ==
    \/ feedback' = feedback
    \/ \E k \in {"ack", "nack"} :
        /\ Feed(k)
        /\ k = "ack" => rx.accepted < rx'.accepted /\ rx'.expected = rx'.accepted
        /\ k = "nack" => /\ rx'.accepted = rx.accepted /\ rx'.accepted < tx.written
                         /\ Waits => rx'.expected < tx.milestone

\* A receiver that takes, counts and says keeps the order.
LEMMA ReceiverOrder ==
    ASSUME OInv, IInv', Takes, Counts, Says
    PROVE  OInv'
<1>1. /\ tx.written \in Nat /\ tx.base \in Nat /\ tx.milestone \in Nat
      /\ rx.accepted \in Nat /\ attr.chunk \in Nat
      /\ wire \in Seq(Nat)
  BY Types
<1>2. feedback \in Seq(Feedback)
  BY Types
<1>3. rx'.expected \in Nat /\ rx'.accepted \in Nat
  BY DEF IInv, TypeOK, Receiver
<1>4. UNCHANGED <<attr, tx>>
  BY DEF Takes
<1>5. rx.accepted <= rx'.accepted
  BY DEF Counts
<1>6. \A n \in Nat : n <= rx.accepted => n <= rx'.accepted
  BY <1>1, <1>3, <1>5
<1>7. \A j \in DOMAIN feedback :
        /\ feedback[j].seq \in Nat /\ feedback[j].kind \in {"ack", "nack"}
        /\ feedback[j].seq <= rx.accepted
        /\ feedback[j].kind = "nack" => feedback[j].seq < tx.written
  <2>1. ASSUME NEW j \in DOMAIN feedback
        PROVE  feedback[j].seq \in Nat /\ feedback[j].kind \in {"ack", "nack"}
    <3>1. feedback[j] \in Feedback
      BY <1>2
    <3>2. QED
      BY <3>1 DEF Feedback
  <2>2. QED
    BY <2>1 DEF OInv, Answers
<1>8. Progress'
  <2>1. \A j \in DOMAIN wire : wire[j] < tx.written
    BY DEF OInv, Progress
  <2>2. \A j \in DOMAIN wire' : wire'[j] < tx.written
    BY <1>1, <2>1, WireShortened DEF Takes
  <2>3. ChunkStart(rx.accepted)' <= rx'.expected
    BY <1>4 DEF ChunkStart, Counts
  <2>4. QED
    BY <1>4, <2>2, <2>3 DEF Progress, Counts
<1>9. tx.base < tx.written \/ tx.base <= rx'.accepted
  <2>1. tx.base < tx.written \/ tx.base <= rx.accepted
    BY DEF OInv, Answers
  <2>2. QED
    BY <1>1, <1>6, <2>1
<1>10. Waits => /\ Chunked
                /\ tx.milestone <= rx'.accepted + attr.chunk
                /\ rx'.accepted <= tx.milestone
                /\ \A j \in DOMAIN wire' : wire'[j] < tx.milestone
  <2>1. SUFFICES ASSUME Waits
                 PROVE  /\ Chunked
                        /\ tx.milestone <= rx'.accepted + attr.chunk
                        /\ rx'.accepted <= tx.milestone
                        /\ \A j \in DOMAIN wire' : wire'[j] < tx.milestone
    OBVIOUS
  <2>2. Chunked
    BY <2>1 DEF OInv
  <2>3. tx.milestone <= rx.accepted + attr.chunk
    BY <2>2 DEF Chunked
  <2>4. tx.milestone <= rx'.accepted + attr.chunk
    BY <1>1, <1>3, <1>5, <2>3
  <2>5. \A j \in DOMAIN wire : wire[j] < tx.milestone
    BY <2>2 DEF Chunked
  <2>6. \A j \in DOMAIN wire' : wire'[j] < tx.milestone
    BY <1>1, <2>5, WireShortened DEF Takes
  <2>7. rx'.accepted <= tx.milestone
    BY <2>1 DEF Counts
  <2>8. QED
    BY <2>2, <2>4, <2>6, <2>7
<1>11. Waits' => Waits
  BY <1>4 DEF Waits
<1>12. ASSUME Waits,
              \A j \in DOMAIN feedback' :
                feedback'[j].kind = "nack" => feedback'[j].seq < tx.milestone
       PROVE  Chunked'
  BY <1>4, <1>10, <1>12 DEF Chunked, Flowing
<1>13. CASE feedback' = feedback
  <2>1. \A j \in DOMAIN feedback : feedback[j].seq <= rx'.accepted
    BY <1>6, <1>7
  <2>2. Answers'
    BY <1>4, <1>9, <1>13, <2>1 DEF OInv, Answers
  <2>3. Waits => Chunked'
    BY <1>10, <1>12, <1>13 DEF Chunked
  <2>4. QED
    BY <1>8, <1>11, <2>2, <2>3 DEF OInv
<1>14. CASE feedback' # feedback
  <2>1. PICK k \in {"ack", "nack"} :
        /\ Feed(k)
        /\ k = "ack" => rx.accepted < rx'.accepted /\ rx'.expected = rx'.accepted
        /\ k = "nack" => /\ rx'.accepted = rx.accepted /\ rx'.accepted < tx.written
                         /\ Waits => rx'.expected < tx.milestone
    BY <1>14 DEF Says
  <2> DEFINE n == [kind |-> k, seq |-> rx'.expected]
             l == Len(feedback) + 1
  <2>2. n \in Feedback /\ n.kind = k /\ n.seq = rx'.expected
    BY <1>3 DEF Feedback
  <2>3. feedback' = Append(feedback, n)
    BY <2>1 DEF Feed
  <2> HIDE DEF n
  <2>4. /\ DOMAIN feedback' = DOMAIN feedback \cup {l} /\ l \notin DOMAIN feedback
        /\ feedback'[l] = n
        /\ \A j \in DOMAIN feedback : feedback'[j] = feedback[j] /\ j < l /\ j \in Nat
        /\ l \in Nat
    BY <1>2, <2>2, <2>3
  <2> HIDE DEF l
  <2>5. /\ rx'.expected <= rx'.accepted /\ rx'.accepted <= tx.written
    BY DEF Counts
  <2>6. rx.accepted < tx.written
    BY <1>1, <1>3, <2>1, <2>5
  <2>7. \A m \in Nat : m <= rx.accepted =>
            /\ m < tx.written
            /\ k = "ack" => m < rx'.expected
    BY <1>1, <1>3, <2>1, <2>6
  <2>8. k = "nack" => rx'.expected < tx.written
    BY <1>1, <1>3, <2>1, <2>5
  <2>9. tx.base < tx.written
    BY <1>1, <2>6 DEF OInv, Answers
  <2>10. ASSUME NEW j \in DOMAIN feedback'
         PROVE  /\ feedback'[j].seq <= rx'.accepted
                /\ feedback'[j].kind = "nack" => feedback'[j].seq < tx.written
    <3>1. CASE j \in DOMAIN feedback
      <4>1. feedback'[j] = feedback[j]
        BY <2>4, <3>1
      <4>2. feedback[j].seq <= rx'.accepted
        BY <1>6, <1>7, <3>1
      <4>3. QED
        BY <1>7, <3>1, <4>1, <4>2
    <3>2. CASE j = l
      BY <2>2, <2>4, <2>5, <2>8, <3>2
    <3>3. QED
      BY <2>4, <3>1, <3>2
  <2>11. ASSUME NEW i \in DOMAIN feedback', NEW j \in DOMAIN feedback',
                i < j, feedback'[i].kind = "ack"
         PROVE  /\ feedback'[j].kind = "ack" => feedback'[i].seq < feedback'[j].seq
                /\ feedback'[j].kind = "nack" => feedback'[i].seq < tx.written
    <3>1. i \in DOMAIN feedback
      BY <2>4, <2>11
    <3>2. feedback'[i] = feedback[i]
      BY <2>4, <3>1
    <3>3. feedback[i].seq \in Nat /\ feedback[i].seq <= rx.accepted
      BY <1>7, <3>1
    <3>4. CASE j \in DOMAIN feedback
      <4>1. feedback'[j] = feedback[j]
        BY <2>4, <3>4
      <4>2. QED
        BY <2>11, <3>1, <3>2, <3>4, <4>1 DEF OInv, Answers
    <3>5. CASE j = l
      <4>1. feedback'[j].kind = k /\ feedback'[j].seq = rx'.expected
        BY <2>2, <2>4, <3>5
      <4>2. /\ feedback[i].seq < tx.written
            /\ k = "ack" => feedback[i].seq < rx'.expected
        BY <2>7, <3>3
      <4>3. QED
        BY <3>2, <4>1, <4>2
    <3>6. QED
      BY <2>4, <3>4, <3>5
  <2>12. Answers'
    BY <1>4, <2>9, <2>10, <2>11 DEF Answers
  <2>13. ASSUME Waits, NEW j \in DOMAIN feedback', feedback'[j].kind = "nack"
         PROVE  feedback'[j].seq < tx.milestone
    <3>1. CASE j \in DOMAIN feedback
      BY <1>10, <2>4, <2>13, <3>1 DEF Chunked
    <3>2. CASE j = l
      BY <2>1, <2>2, <2>4, <2>13, <3>2
    <3>3. QED
      BY <2>4, <3>1, <3>2
  <2>14. Waits => Chunked'
    BY <1>12, <2>13
  <2>15. QED
    BY <1>8, <1>11, <2>12, <2>14 DEF OInv
<1>15. QED
  BY <1>13, <1>14

\* The starts of chunks, of the attributes of this run.
LEMMA ChunkFacts ==
    ASSUME attr \in Attributes, NEW a \in Nat
    PROVE  /\ ChunkStart(a) \in Nat /\ ChunkStart(a) <= a
           /\ ChunkStart(ChunkStart(a)) = ChunkStart(a)
           /\ a % attr.chunk = 0 => ChunkStart(a) = a
           /\ \A b \in Nat : a <= b => ChunkStart(a) <= ChunkStart(b)
<1>1. attr.chunk \in Nat \ {0}
  BY TransportAssumption
<1>2. ChunkStart(a) \in Nat /\ ChunkStart(a) <= a
  BY <1>1, ChunkArithmetic DEF ChunkStart
<1>3. ChunkStart(ChunkStart(a)) = ChunkStart(a)
  BY <1>1, ChunkArithmetic, ChunkIdempotent DEF ChunkStart
<1>4. a % attr.chunk = 0 => ChunkStart(a) = a
  BY <1>1, ChunkBegins DEF ChunkStart
<1>5. \A b \in Nat : a <= b => ChunkStart(a) <= ChunkStart(b)
  BY <1>1, ChunkMonotone DEF ChunkStart
<1>6. QED
  BY <1>2, <1>3, <1>4, <1>5

\* A packet that arrives keeps the order.
LEMMA ReceiveDataOrder ==
    ASSUME OInv, ReceiveData
    PROVE  OInv'
<1>1. /\ rx \in Receiver /\ wire \in Seq(Nat) /\ attr \in Attributes
      /\ tx.written \in Nat /\ tx.milestone \in Nat /\ rx.accepted \in Nat
      /\ attr.chunk \in Nat \ {0}
  BY Types
<1>2. /\ rx.expected \in Nat /\ rx.milestone \in Nat /\ attr.ackInterval \in Nat \ {0}
  BY <1>1, TransportAssumption DEF Receiver
<1>3. UNCHANGED <<attr, tx>> /\ wire # << >> /\ wire' = Tail(wire)
  BY DEF ReceiveData
<1>4. IInv'
  BY ReceiveDataStep DEF OInv
<1>5. /\ Head(wire) \in Nat /\ Head(wire) < tx.written
      /\ Waits => Head(wire) < tx.milestone /\ rx.accepted <= tx.milestone
  <2>1. Head(wire) \in Nat /\ Head(wire) < tx.written
    BY <1>1, <1>3, WireShortened DEF OInv, Progress
  <2>2. Waits => Head(wire) < tx.milestone
    BY <1>1, <1>3, WireShortened DEF OInv, Chunked
  <2>3. Waits => rx.accepted <= tx.milestone
    BY DEF OInv, Chunked
  <2>4. QED
    BY <2>1, <2>2, <2>3
<1>6. /\ rx.expected <= rx.accepted /\ rx.accepted <= tx.written
      /\ rx.expected < rx.accepted => rx.accepted < tx.written
      /\ ChunkStart(rx.accepted) <= rx.expected
      /\ rx.accepted <= rx.milestone
  BY DEF OInv, Progress
<1>7. /\ ChunkStart(rx.accepted) \in Nat
      /\ ChunkStart(ChunkStart(rx.accepted)) = ChunkStart(rx.accepted)
  BY <1>1, ChunkFacts
<1>8. \A n : ChunkStart(n)' = ChunkStart(n)
  BY <1>3 DEF ChunkStart
<1>9. CASE Accept
  <2> DEFINE n == rx.expected + 1
             a == Latest(rx.accepted, n)
             m == IF n > rx.milestone THEN rx.milestone + attr.ackInterval ELSE rx.milestone
  <2>1. rx' = [rx EXCEPT !.expected = n, !.accepted = a, !.milestone = m]
    BY <1>9 DEF Accept
  <2>2. rx'.expected = n /\ rx'.accepted = a /\ rx'.milestone = m
    BY <1>1, <2>1 DEF Receiver
  <2>3. n \in Nat /\ n <= tx.written /\ (Waits => n <= tx.milestone)
    BY <1>1, <1>2, <1>5, <1>9 DEF Accept
  <2>4. (a = n /\ rx.accepted < n) \/ (a = rx.accepted /\ n <= rx.accepted)
    BY <1>1, <2>3 DEF Latest
  <2>5. a \in Nat /\ n <= a /\ a <= tx.written /\ rx.accepted <= a
    BY <1>1, <1>6, <2>3, <2>4
  <2>6. n < a => a < tx.written
    BY <1>1, <1>2, <1>6, <2>3, <2>4
  <2>7. ChunkStart(a) <= n
    <3>1. ChunkStart(n) <= n
      BY <1>1, <2>3, ChunkFacts
    <3>2. ChunkStart(rx.accepted) <= n
      BY <1>2, <1>6, <1>7
    <3>3. QED
      BY <2>4, <3>1, <3>2
  <2>8. a <= m
    BY <1>1, <1>2, <1>6, <2>4
  <2>9. Waits => a <= tx.milestone
    BY <1>5, <2>3, <2>4
  <2>10. feedback' = feedback \/ (Feed("ack") /\ rx.accepted < n)
    <3>1. CASE ~(n > rx.milestone \/ n % attr.chunk = 0)
      BY <1>9, <3>1 DEF Accept
    <3>2. CASE n > rx.milestone
      <4>1. Feed("ack")
        BY <1>9, <3>2 DEF Accept
      <4>2. QED
        BY <1>1, <1>2, <1>6, <3>2, <4>1
    <3>3. CASE n % attr.chunk = 0
      <4>1. Feed("ack")
        BY <1>9, <3>3 DEF Accept
      <4>2. ChunkStart(n) = n
        BY <1>1, <2>3, <3>3, ChunkFacts
      <4>3. n <= rx.accepted => n <= ChunkStart(rx.accepted)
        BY <1>1, <2>3, <4>2, ChunkFacts
      <4>4. ~(n <= rx.accepted)
        BY <1>2, <1>6, <1>7, <4>3
      <4>5. QED
        BY <1>1, <2>3, <4>1, <4>4
    <3>4. QED
      BY <3>1, <3>2, <3>3
  <2>11. Feed("ack") /\ rx.accepted < n => rx.accepted < a /\ n = a
    BY <1>1, <2>3, <2>4
  <2> HIDE DEF n, a, m
  <2>12. QED
    BY <1>3, <1>4, <1>8, <2>2, <2>5, <2>6, <2>7, <2>8, <2>9, <2>10, <2>11, ReceiverOrder
       DEF Takes, Counts, Says
<1>10. CASE Gap
  <2>1. rx.expected < tx.written /\ (Waits => rx.expected < tx.milestone)
    BY <1>1, <1>2, <1>5, <1>10 DEF Gap
  <2>2. rx.accepted < tx.written
    BY <1>1, <1>2, <1>6, <2>1
  <2>3. CASE ~rx.held \/ rx.lastNack # rx.expected
    <3> DEFINE g == GoBackTo(rx.expected)
               l == rx.expected
    <3>1. /\ rx' = [rx EXCEPT !.expected = g, !.lastNack = l, !.held = TRUE]
          /\ Feed("nack")
      BY <1>10, <2>3 DEF Gap
    <3>2. g \in Nat /\ g <= rx.expected
      BY <1>1, <1>2, GoBackFacts
    <3>3. ChunkStart(rx.accepted) <= g
      <4>1. ChunkStart(rx.accepted) <= ChunkStart(rx.expected)
        BY <1>1, <1>2, <1>6, <1>7, ChunkFacts
      <4>2. QED
        BY <1>6, <4>1 DEF GoBackTo
    <3> HIDE DEF g, l
    <3>4. /\ rx'.expected = g /\ rx'.accepted = rx.accepted
          /\ rx'.milestone = rx.milestone
      BY <1>1, <3>1 DEF Receiver
    <3>5. g <= rx.accepted /\ (Waits => g < tx.milestone)
      BY <1>1, <1>2, <1>6, <2>1, <3>2
    <3>6. rx.accepted <= rx.accepted
      BY <1>1
    <3>7. QED
      BY <1>3, <1>4, <1>5, <1>6, <1>8, <2>2, <3>1, <3>3, <3>4, <3>5, <3>6, ReceiverOrder
         DEF Takes, Counts, Says
  <2>4. CASE ~(~rx.held \/ rx.lastNack # rx.expected)
    <3>1. rx' = rx /\ feedback' = feedback
      BY <1>10, <2>4 DEF Gap
    <3>2. rx.accepted <= rx.accepted
      BY <1>1
    <3>3. QED
      BY <1>3, <1>4, <1>5, <1>6, <1>8, <3>1, <3>2, ReceiverOrder
         DEF Takes, Counts, Says
  <2>5. QED
    BY <2>3, <2>4
<1>11. CASE Duplicate
  <2>1. rx' = rx /\ feedback' = feedback
    BY <1>11 DEF Duplicate
  <2>2. rx.accepted <= rx.accepted
    BY <1>1
  <2>3. QED
    BY <1>3, <1>4, <1>5, <1>6, <1>8, <2>1, <2>2, ReceiverOrder
       DEF Takes, Counts, Says
<1>12. QED
  BY <1>9, <1>10, <1>11 DEF ReceiveData

\* A NACK timer, a loss, and no step at all, keep the order.
LEMMA OtherOrder ==
    ASSUME OInv, NackTimerPasses \/ LoseData \/ LoseFeedback \/ UNCHANGED vars
    PROVE  OInv'
<1>1. IInv'
  BY OtherSteps DEF OInv
<1>2. /\ tx \in Sender /\ Attended(tx) /\ rx \in Receiver /\ wire \in Seq(Nat)
      /\ tx.written \in Nat /\ rx.accepted \in Nat
  BY Types
<1>3. CASE NackTimerPasses
  <2>1. /\ rx' = [rx EXCEPT !.held = FALSE]
        /\ UNCHANGED <<attr, tx, wire, feedback>>
    BY <1>3 DEF NackTimerPasses
  <2>2. /\ rx'.expected = rx.expected /\ rx'.accepted = rx.accepted
        /\ rx'.milestone = rx.milestone
    BY <1>2, <2>1 DEF Receiver
  <2>3. Progress'
    BY <2>1, <2>2 DEF OInv, Progress, ChunkStart
  <2>4. Answers'
    BY <2>1, <2>2 DEF OInv, Answers
  <2>5. (Waits => Chunked)'
    BY <2>1, <2>2 DEF OInv, Waits, Chunked, Flowing
  <2>6. QED
    BY <1>1, <2>3, <2>4, <2>5 DEF OInv
<1>4. CASE LoseData
  <2>1. /\ UNCHANGED <<attr, tx, rx, feedback>>
        /\ wire' = Tail(wire) /\ wire # << >>
    BY <1>4 DEF LoseData
  <2>2. /\ rx.expected <= rx.accepted /\ rx.accepted <= tx.written
        /\ rx.expected < rx.accepted => rx.accepted < tx.written
        /\ ChunkStart(rx.accepted) <= rx.expected
        /\ rx.accepted <= rx.milestone
        /\ Waits => rx.accepted <= tx.milestone
    BY DEF OInv, Progress, Chunked
  <2>3. rx.accepted <= rx.accepted /\ rx' = rx /\ feedback' = feedback
    BY <1>2, <2>1
  <2>4. ChunkStart(rx'.accepted) <= rx'.expected
    BY <2>2, <2>3
  <2>5. QED
    BY <1>1, <2>1, <2>2, <2>3, <2>4, ReceiverOrder
       DEF Takes, Counts, Says
<1>5. CASE LoseFeedback
  <2>1. /\ UNCHANGED <<attr, tx, rx, wire>>
        /\ \E i \in DOMAIN feedback : feedback' = RemoveAt(feedback, i)
    BY <1>5 DEF LoseFeedback
  <2>2. Leaves(tx)
    BY <2>1 DEF Leaves
  <2>3. feedback # << >>
    BY <2>1
  <2>4. /\ tx.base < tx.written /\ tx.written <= tx.written
        /\ Waits => Flowing(tx)
    BY <1>2, <2>3 DEF OInv, Answers, Chunked
  <2>5. QED
    BY <1>1, <1>2, <2>1, <2>2, <2>4, SenderOrder
<1>6. CASE UNCHANGED vars
  <2>1. UNCHANGED <<attr, tx, rx, wire, feedback>>
    BY <1>6 DEF vars
  <2>2. Progress' /\ Answers' /\ (Waits => Chunked)'
    BY <2>1 DEF OInv, Progress, Answers, Waits, Chunked, Flowing, ChunkStart
  <2>3. QED
    BY <1>1, <2>2 DEF OInv
<1>7. QED
  BY <1>3, <1>4, <1>5, <1>6

-----------------------------------------------------------------------------
(* The theorems.                                                           *)

\* OInv holds at the start and every action keeps it.
THEOREM InOrder == Spec => []OInv
<1>1. Init => OInv
  <2> SUFFICES ASSUME Init PROVE OInv
    OBVIOUS
  <2>1. /\ attr \in Attributes /\ attr.chunk \in Nat \ {0}
        /\ attr.ackInterval \in Nat \ {0}
    BY TransportAssumption DEF Init
  <2>2. IInv
    BY InitialInv
  <2>3. /\ tx.written = 0 /\ tx.base = 0 /\ tx.next = 0 /\ tx.milestone = attr.chunk
        /\ rx.expected = 0 /\ rx.accepted = 0 /\ rx.milestone = attr.ackInterval
        /\ DOMAIN wire = {} /\ feedback = << >> /\ DOMAIN feedback = {}
    BY DEF Init
  <2>4. ChunkStart(0) <= 0
    BY <2>1, ChunkFacts
  <2>5. Progress /\ Answers
    BY <2>1, <2>3, <2>4 DEF Progress, Answers
  <2>6. Flowing(tx)
    BY <2>1, <2>3 DEF Flowing
  <2>7. \E k \in Nat : tx.milestone = k * attr.chunk
    <3>1. tx.milestone = 1 * attr.chunk
      BY <2>1, <2>3
    <3>2. QED
      BY <3>1
  <2>8. Chunked
    BY <2>1, <2>3, <2>6, <2>7 DEF Chunked
  <2>9. QED
    BY <2>2, <2>5, <2>8 DEF OInv
<1>2. OInv /\ [Next]_vars => OInv'
  <2> SUFFICES ASSUME OInv, [Next]_vars PROVE OInv'
    OBVIOUS
  <2>1. CASE Send
    BY <2>1, SendOrder
  <2>2. CASE TransmitComplete \/ PaceElapses \/ NextSend \/ Retransmit
    BY <2>2, EventOrder
  <2>3. CASE Arrives
    BY <2>3, ReceiveDataOrder, AckOrder, NackOrder DEF Arrives
  <2>4. CASE NackTimerPasses \/ LoseData \/ LoseFeedback \/ UNCHANGED vars
    BY <2>4, OtherOrder
  <2>5. CASE Finished
    BY <2>5, OtherOrder DEF Finished
  <2>6. QED
    BY <2>1, <2>2, <2>3, <2>4, <2>5 DEF Next
<1>3. QED
  BY <1>1, <1>2, PTL DEF Spec

\* No ACK or NACK finds the sending buffer empty, though it is not looked
\* whether it is (qbb-net-device.cc, Receive: Peek of m_sendingBuffer).
THEOREM NeverPeeksEmpty == Spec => []PeekSafe
<1>1. OInv => PeekSafe
  <2> SUFFICES ASSUME OInv, NEW i \in DOMAIN feedback
               PROVE  /\ tx.base < tx.written
                      /\ feedback[i].kind = "nack" => GoBackTo(feedback[i].seq) < tx.written
    BY DEF PeekSafe
  <2>1. feedback # << >>
    OBVIOUS
  <2>2. tx.base < tx.written
    BY <2>1 DEF OInv, Answers
  <2>3. tx.written \in Nat
    BY Types
  <2>4. LET g == GoBackTo(feedback[i].seq) IN
        /\ feedback[i].seq \in Nat /\ g \in Nat /\ g <= feedback[i].seq
        /\ feedback[i].kind = "nack" => feedback[i].seq < tx.written
    BY ReleasedOrder
  <2>5. QED
    BY <2>2, <2>3, <2>4
<1>2. QED
  BY <1>1, InOrder, PTL

\* "Wait for Ack before sending out next message.": with a sending buffer that
\* is never full, the packets of a chunk are sent when all earlier chunks have
\* been received, whatever is lost and however ACKs, NACKs and timers race.
THEOREM ChunksKeptApart ==
    ASSUME \A a \in Attributes : a.waitAck => a.bufferLimit >= MaxPackets
    PROVE  Spec => []ChunksSeparate
<1>1. OInv => ChunksSeparate
  <2> SUFFICES ASSUME OInv, attr.waitAck, NEW i \in DOMAIN wire
               PROVE  ChunkStart(wire[i]) <= rx.accepted
    BY DEF ChunksSeparate
  <2>1. /\ attr \in Attributes /\ attr.chunk \in Nat \ {0} /\ rx.accepted \in Nat
        /\ wire \in Seq(Nat)
    BY Types
  <2>2. wire[i] \in Nat
    BY <2>1
  <2>3. Chunked
    BY <2>1 DEF OInv, Waits
  <2>4. PICK k \in Nat : tx.milestone = k * attr.chunk
    BY <2>3 DEF Chunked
  <2>5. wire[i] < k * attr.chunk /\ k * attr.chunk <= rx.accepted + attr.chunk
    BY <2>3, <2>4 DEF Chunked
  <2>6. ChunkStart(wire[i]) + attr.chunk <= k * attr.chunk
    BY <2>1, <2>2, <2>5, BelowMilestone DEF ChunkStart
  <2>7. ChunkStart(wire[i]) \in Nat
    BY <2>1, <2>2, ChunkFacts
  <2> DEFINE c == ChunkStart(wire[i])
             m == k * attr.chunk
  <2>8. c \in Nat /\ m \in Nat /\ c + attr.chunk <= m /\ m <= rx.accepted + attr.chunk
    BY <2>1, <2>5, <2>6, <2>7
  <2> HIDE DEF c, m
  <2>9. c <= rx.accepted
    BY <2>1, <2>8
  <2>10. QED
    BY <2>9 DEF c
<1>2. QED
  BY <1>1, InOrder, PTL

=============================================================================

--------------------------- MODULE QbbTransport ---------------------------
(***************************************************************************)
(* Go-back-N between two RoCE devices, point-to-point/model/               *)
(* qbb-net-device.cc, for one flow. The sender keeps what it has sent in   *)
(* m_sendingBuffer until an ACK or NACK says that it has arrived; a NACK,  *)
(* or the timer that waits for the ACK of a chunk, refills the flow's      *)
(* queue from that buffer. The receiver counts the number it expects.      *)
(*                                                                         *)
(* Packets are their sequence numbers. Buffer and queue hold consecutive   *)
(* ones up to the last the application wrote, so each is the number it     *)
(* begins with. Data and ACKs keep their order on their path, NACKs have   *)
(* the highest priority and may overtake ACKs. Anything may be lost, at a  *)
(* full switch or by the receive error model.                              *)
(*                                                                         *)
(* A moment is "now" (it has come), "paced" (the rate of the flow puts the *)
(* next packet off) or "never" (32767 seconds).                            *)
(***************************************************************************)
EXTENDS Integers, Sequences, SequencesExt

CONSTANTS
    Attributes,     \* the attributes of the devices, one record each run:
                    \* chunk, ackInterval, waitAck, backTo0, bufferLimit (8000)
    MaxPackets,     \* bound on the packets the application writes
    MaxLost,        \* bound on the losses, by kind: data, ack, nack
    MaxEarly        \* bound on the timers that fire while packets are on their way

Kinds == {"data", "ack", "nack"}

ASSUME TransportAssumption ==
    /\ Attributes \subseteq [chunk : Nat \ {0}, ackInterval : Nat \ {0},
                             waitAck : BOOLEAN, backTo0 : BOOLEAN,
                             bufferLimit : Nat \ {0}]
    /\ MaxPackets \in Nat /\ MaxEarly \in Nat
    /\ MaxLost \in [Kinds -> Nat]

VARIABLES
    attr,       \* the attributes
    tx,         \* the sending device, see Sender
    rx,         \* the receiving device, see Receiver
    wire,       \* data packets on their way
    feedback,   \* ACKs and NACKs on their way
    lost,       \* history: losses by kind
    early       \* history: timers that fired while packets were on their way

vars == <<attr, tx, rx, wire, feedback, lost, early>>

Moments == {"now", "paced", "never"}

Sender == [
    written : Nat,      \* packets the application has written
    base : Nat,         \* the first packet in m_sendingBuffer
    next : Nat,         \* the first packet in the queue of the flow
    avail : Moments,    \* m_nextAvail
    nextSend : Moments, \* m_nextSend, "now" when it has expired
    busy : BOOLEAN,     \* m_txMachineState
    waiting : BOOLEAN,  \* m_waitingAck
    timer : BOOLEAN,    \* m_retransmit is pending
    milestone : Nat,    \* m_milestone_tx
    counted : Nat]      \* m_nPackets of the queue

Receiver == [
    expected : Nat,     \* ReceiverNextExpectedSeq
    milestone : Nat,    \* m_milestone_rx
    lastNack : Int,     \* m_lastNACK
    held : BOOLEAN,     \* Now() <= m_nackTimer
    accepted : Nat]     \* history: the greatest value of expected

Feedback == [kind : {"ack", "nack"}, seq : Nat]

Init ==
    /\ attr \in Attributes
    /\ tx = [written |-> 0, base |-> 0, next |-> 0, avail |-> "now",
             nextSend |-> "now", busy |-> FALSE, waiting |-> FALSE,
             timer |-> FALSE, milestone |-> attr.chunk, counted |-> 0]
    /\ rx = [expected |-> 0, milestone |-> attr.ackInterval, lastNack |-> -1,
             held |-> FALSE, accepted |-> 0]
    /\ wire = << >> /\ feedback = << >>
    /\ lost = [k \in Kinds |-> 0]
    /\ early = 0

ChunkStart(seq) == (seq \div attr.chunk) * attr.chunk
Latest(a, b) == IF a > b THEN a ELSE b

-----------------------------------------------------------------------------
(* The sender.                                                             *)

\* The queue has a packet that may be sent now.
Sendable(s) == s.next < s.written /\ s.avail = "now"

\* (Slip: the flow stops one packet late.)
EndsChunkLate(s) == attr.waitAck /\ s.next >= s.milestone

EndsChunk(s) == attr.waitAck /\ s.next >= s.milestone - 1

\* (Slip: the flow is stopped, and nobody is told to go on.)
StopUntilAckedForGood(s) == [s EXCEPT !.avail = "never", !.waiting = TRUE]

\* "stop sending this flow until acked"; the timer is set but once.
StopUntilAcked(s) ==
    [s EXCEPT !.avail = "never", !.waiting = TRUE, !.timer = @ \/ ~s.waiting]

\* The head of the queue goes out; the rate of the flow may put off the next.
\* m_nPackets is unsigned and wraps when assertions are off: kept at zero.
Transmitted(s) ==
    LET sent == [s EXCEPT !.next = @ + 1, !.busy = TRUE, !.counted = Latest(@ - 1, 0)]
    IN IF EndsChunk(s) THEN {StopUntilAcked(sent)}
       ELSE {[sent EXCEPT !.avail = a] : a \in {"now", "paced"}}

\* "nothing to send, possibly due to qcn flow control, if so reschedule sending"
Rescheduled(s) ==
    IF s.next < s.written /\ s.avail # "now" /\ s.nextSend = "now"
    THEN [s EXCEPT !.nextSend = s.avail]
    ELSE s

\* What it may leave of the sender s.
DequeueAndTransmit(s) ==
    IF s.busy THEN {s}
    ELSE IF Sendable(s) THEN Transmitted(s)
    ELSE {Rescheduled(s)}

\* The handler has come to s and ends with DequeueAndTransmit.
ThenTransmit(s) ==
    /\ tx' \in DequeueAndTransmit(s)
    /\ wire' = IF tx'.busy /\ ~s.busy THEN Append(wire, s.next) ELSE wire

\* (Slip: the buffer of a flow is bounded by dropping the newest.)
WrittenUnbuffered(s) ==
    IF s.written - s.base = attr.bufferLimit
    THEN [s EXCEPT !.written = @ + 1, !.counted = @ + 1, !.base = s.written + 1]
    ELSE [s EXCEPT !.written = @ + 1, !.counted = @ + 1]

\* A full sending buffer gives up its oldest packet.
Written(s) ==
    [s EXCEPT !.written = @ + 1, !.counted = @ + 1,
              !.base = IF s.written - s.base = attr.bufferLimit THEN @ + 1 ELSE @]

\* Send, called by the IP layer for a packet of the application.
Send ==
    /\ tx.written < MaxPackets
    /\ ThenTransmit(Written(tx))
    /\ UNCHANGED <<attr, rx, feedback, lost, early>>

TransmitComplete ==
    /\ tx.busy
    /\ ThenTransmit([tx EXCEPT !.busy = FALSE])
    /\ UNCHANGED <<attr, rx, feedback, lost, early>>

\* Time passes: the rate of the flow allows the next packet.
PaceElapses ==
    /\ tx.avail = "paced"
    /\ tx' = [tx EXCEPT !.avail = "now"]
    /\ UNCHANGED <<attr, rx, wire, feedback, lost, early>>

Quiet == wire = << >> /\ feedback = << >> /\ ~tx.busy

\* A timer of 500 us may fire: it outlasts what is on its way, or is early.
Expires ==
    /\ Quiet \/ early < MaxEarly
    /\ early' = IF Quiet THEN early ELSE early + 1

\* m_nextSend fires; 32767 seconds have passed only when all else is over.
NextSend ==
    /\ \/ tx.nextSend = "paced" /\ tx.avail # "paced"
       \/ tx.nextSend = "never" /\ Quiet /\ ~tx.timer /\ tx.avail # "paced"
    /\ ThenTransmit([tx EXCEPT !.nextSend = "now"])
    /\ UNCHANGED <<attr, rx, feedback, lost, early>>

\* RecoverQueue: the queue is filled from the buffer, m_nPackets is left as it is.
RecoverQueue(s) == [s EXCEPT !.next = s.base]

\* The timer of m_waitAckTimer fires.
Retransmit ==
    /\ tx.timer
    /\ Expires
    /\ ThenTransmit([RecoverQueue(tx) EXCEPT
                        !.avail = "now", !.waiting = FALSE, !.timer = FALSE])
    /\ UNCHANGED <<attr, rx, feedback, lost>>

GoBackTo(seq) == IF attr.backTo0 THEN ChunkStart(seq) ELSE seq

\* Dequeue of m_sendingBuffer while its head is before the packet asked for.
Released(s, seq) == [s EXCEPT !.base = Latest(@, GoBackTo(seq))]

\* Feedback keeps its order, but NACKs overtake ACKs.
Deliverable(i) ==
    \/ i = 1
    \/ feedback[i].kind = "nack" /\ \A j \in 1..(i - 1) : feedback[j].kind = "ack"

\* (Slip: the flow is not released from waiting, but its timer is off.)
ReceiveNackStillWaiting(i) ==
    LET s == RecoverQueue(Released(tx, feedback[i].seq)) IN
    /\ Deliverable(i) /\ feedback[i].kind = "nack"
    /\ feedback' = RemoveAt(feedback, i)
    /\ tx' = IF attr.waitAck /\ tx.waiting THEN [s EXCEPT !.timer = FALSE] ELSE s
    /\ UNCHANGED <<attr, rx, wire, lost, early>>

\* The queue is refilled; only a flow that waited for an ACK is set going.
ReceiveNack(i) ==
    LET s == RecoverQueue(Released(tx, feedback[i].seq)) IN
    /\ Deliverable(i) /\ feedback[i].kind = "nack"
    /\ feedback' = RemoveAt(feedback, i)
    /\ IF attr.waitAck /\ tx.waiting
       THEN ThenTransmit([s EXCEPT !.avail = "now", !.waiting = FALSE, !.timer = FALSE])
       ELSE tx' = s /\ UNCHANGED wire
    /\ UNCHANGED <<attr, rx, lost, early>>

ReceiveAck(i) ==
    LET ack == feedback[i]
        s == Released(tx, ack.seq)
    IN
    /\ Deliverable(i) /\ ack.kind = "ack"
    /\ feedback' = RemoveAt(feedback, i)
    /\ IF attr.waitAck /\ ack.seq >= tx.milestone
       THEN ThenTransmit([s EXCEPT !.avail = "now", !.waiting = FALSE,
                                   !.timer = FALSE, !.milestone = @ + attr.chunk])
       ELSE tx' = s /\ UNCHANGED wire
    /\ UNCHANGED <<attr, rx, lost, early>>

-----------------------------------------------------------------------------
(* The receiver: ReceiverCheckSeq, and the ACK or NACK its caller sends.   *)

Feed(k) == feedback' = Append(feedback, [kind |-> k, seq |-> rx'.expected])

\* The packet that was expected.
Accept ==
    LET next == rx.expected + 1 IN
    /\ Head(wire) = rx.expected
    /\ rx' = [rx EXCEPT !.expected = next,
                        !.accepted = Latest(@, next),
                        !.milestone = IF next > @ THEN @ + attr.ackInterval ELSE @]
    /\ IF next > rx.milestone \/ next % attr.chunk = 0
       THEN Feed("ack")
       ELSE UNCHANGED feedback

\* A gap: asked for once, and again when the timer allows.
Gap ==
    /\ Head(wire) > rx.expected
    /\ IF ~rx.held \/ rx.lastNack # rx.expected
       THEN /\ rx' = [rx EXCEPT !.expected = GoBackTo(@), !.lastNack = rx.expected,
                                !.held = TRUE]
            /\ Feed("nack")
       ELSE UNCHANGED <<rx, feedback>>

\* (Slip: a packet that has come before is taken for a gap.)
DuplicateNacked ==
    /\ Head(wire) < rx.expected
    /\ UNCHANGED rx
    /\ Feed("nack")

\* What has come before is not acknowledged again.
Duplicate ==
    /\ Head(wire) < rx.expected
    /\ UNCHANGED <<rx, feedback>>

ReceiveData ==
    /\ wire # << >>
    /\ wire' = Tail(wire)
    /\ Accept \/ Gap \/ Duplicate
    /\ UNCHANGED <<attr, tx, lost, early>>

\* Time passes m_nackTimer.
NackTimerPasses ==
    /\ rx.held
    /\ Expires
    /\ rx' = [rx EXCEPT !.held = FALSE]
    /\ UNCHANGED <<attr, tx, wire, feedback, lost>>

-----------------------------------------------------------------------------
(* Losses; on paths that keep the order, what is next to arrive is lost.   *)

Lose(k) == lost[k] < MaxLost[k] /\ lost' = [lost EXCEPT ![k] = @ + 1]

LoseData ==
    /\ Lose("data")
    /\ wire # << >>
    /\ wire' = Tail(wire)
    /\ UNCHANGED <<attr, tx, rx, feedback, early>>

LoseFeedback ==
    /\ \E i \in DOMAIN feedback :
        /\ Deliverable(i)
        /\ Lose(feedback[i].kind)
        /\ feedback' = RemoveAt(feedback, i)
    /\ UNCHANGED <<attr, tx, rx, wire, early>>

\* Nothing is left to happen.
Finished ==
    /\ tx.written = MaxPackets /\ Quiet /\ ~tx.timer /\ ~rx.held
    /\ tx.nextSend = "now" /\ tx.avail = "now"
    /\ UNCHANGED vars

Arrives == ReceiveData \/ \E i \in DOMAIN feedback : ReceiveAck(i) \/ ReceiveNack(i)

Next ==
    \/ Send \/ TransmitComplete \/ PaceElapses \/ NextSend \/ Retransmit
    \/ Arrives \/ NackTimerPasses
    \/ LoseData \/ LoseFeedback
    \/ Finished

Spec == Init /\ [][Next]_vars

\* Every event of NS-3 comes to its turn: transmissions end, what is not lost
\* arrives, timers fire. Nothing is assumed of the application.
FairSpec ==
    /\ Spec
    /\ WF_vars(TransmitComplete) /\ WF_vars(PaceElapses) /\ WF_vars(NextSend)
    /\ WF_vars(Retransmit) /\ WF_vars(Arrives) /\ WF_vars(NackTimerPasses)

-----------------------------------------------------------------------------
(* Properties.                                                             *)

TypeOK ==
    /\ attr \in Attributes
    /\ tx \in Sender
    /\ rx \in Receiver
    /\ wire \in Seq(Nat)
    /\ feedback \in Seq(Feedback)
    /\ lost \in [Kinds -> Nat]
    /\ early \in Nat

\* The packet the receiver asks for next, should it see a gap.
Wanted == GoBackTo(rx.expected)

\* The sending buffer was full and gave up a packet nobody has received.
Overrun == tx.base = tx.written - attr.bufferLimit

\* Whatever is lost, and in whatever order ACKs and NACKs come: what the
\* receiver still wants is in the sending buffer, unless that was too small.
Recoverable == Wanted < tx.base => Overrun

\* An ACK or NACK on its way finds the buffer non-empty (Peek is not checked
\* for null), and a NACK the packet it asks for (its loop looks for no end).
PeekSafe ==
    \A i \in DOMAIN feedback :
        /\ tx.base < tx.written
        /\ feedback[i].kind = "nack" => GoBackTo(feedback[i].seq) < tx.written

\* "Wait for Ack before sending out next message.": no packet of a chunk
\* is on its way before all earlier chunks have arrived.
ChunksSeparate ==
    attr.waitAck /\ ~Overrun =>
        \A i \in DOMAIN wire : ChunkStart(wire[i]) <= rx.accepted

\* A flow that is stopped waits for an ACK with the timer set, and no timer
\* runs for a flow that is not.
NoSilentWait ==
    /\ tx.avail = "never" <=> tx.waiting
    /\ tx.waiting <=> tx.timer

\* Waiting for ACKs repairs any loss of data and NACKs: every full chunk that
\* is written is received, as long as no ACK gets lost and the buffer suffices.
InFullChunk(n) == attr.waitAck /\ n <= ChunkStart(tx.written)
ArrivedOrExcused(n) == n <= rx.accepted \/ lost["ack"] > 0 \/ Overrun
FullChunksArrive == \A n \in 1..MaxPackets : InFullChunk(n) ~> ArrivedOrExcused(n)

\* broadcom-egress-queue.cc:362-363: when a packet is dequeued it was counted.
CountedWhenDequeued == ~tx.busy /\ Sendable(tx) => tx.counted > 0

=============================================================================

----------------------- MODULE MessageMatchingProofs -----------------------
(***************************************************************************)
(* For every set of senders and tags, every number of receives and         *)
(* messages and every order of their coming: no receive waits beside a     *)
(* message that fits it, the queues hold what is unpaired, in order, and   *)
(* so implement matching by order of coming (MpiMatching).                 *)
(***************************************************************************)
EXTENDS MessageMatching, DataLemmas, SequenceTheorems, FiniteSetTheorems, TLAPS

-----------------------------------------------------------------------------
\* match returns the first element that fits.
LEMMA FirstMatchProperties ==
    ASSUME NEW S, NEW q \in Seq(S), NEW x, Matches(x, q) # {}
    PROVE  /\ FirstMatch(x, q) \in DOMAIN q
           /\ Fits(x, q[FirstMatch(x, q)])
           /\ \A j \in DOMAIN q : Fits(x, q[j]) => FirstMatch(x, q) <= j
<1>1. Len(q) \in Nat /\ DOMAIN q = 1 .. Len(q)
  BY LenProperties
<1>2. Matches(x, q) \subseteq Nat
  BY <1>1 DEF Matches
<1>3. /\ Min(Matches(x, q)) \in Matches(x, q)
      /\ \A j \in Matches(x, q) : Min(Matches(x, q)) <= j
  BY <1>1, <1>2, LeastExists
<1>4. QED
  BY <1>3 DEF FirstMatch, Matches

\* What the queues are told apart by: the numbers that wait in one, and that
\* they are in the order of their coming.
Waiting(q) == {q[i].offset : i \in DOMAIN q}
Increasing(q) == \A i, j \in DOMAIN q : i < j => q[i].offset < q[j].offset
Numbered(q) == \A i \in DOMAIN q : q[i].offset \in Nat

\* r is q with y behind, a later element than all of q.
Extends(r, q, y) == r = Append(q, y)
AllBefore(q, y) == \A k \in Waiting(q) : k < y.offset

\* A queue without one of its elements holds the others, in their order.
LEMMA Removed ==
    ASSUME NEW S, NEW q \in Seq(S), NEW i \in DOMAIN q, NEW r,
           r = RemoveAt(q, i), Numbered(q), Increasing(q)
    PROVE  /\ r \in Seq(S)
           /\ \A j \in DOMAIN r : \E k \in DOMAIN q : k # i /\ r[j] = q[k]
           /\ Increasing(r)
           /\ Waiting(r) = Waiting(q) \ {q[i].offset}
<1>1. /\ Len(q) \in Nat /\ DOMAIN q = 1 .. Len(q)
      /\ r \in Seq(S) /\ Len(r) = Len(q) - 1 /\ DOMAIN r = 1 .. Len(q) - 1
      /\ \A j \in 1 .. Len(q) - 1 : r[j] = IF j < i THEN q[j] ELSE q[j + 1]
  <2>1. Len(q) \in Nat /\ DOMAIN q = 1 .. Len(q)
    BY LenProperties
  <2>2. /\ r \in Seq(S) /\ Len(r) = Len(q) - 1
        /\ \A j \in 1 .. Len(q) - 1 : r[j] = IF j < i THEN q[j] ELSE q[j + 1]
    BY RemoveAtProperties
  <2>3. DOMAIN r = 1 .. Len(r)
    BY <2>2, LenProperties
  <2>4. QED
    BY <2>1, <2>2, <2>3
<1>2. \A j \in DOMAIN r : \E k \in DOMAIN q : k # i /\ r[j] = q[k]
  <2>1. TAKE j \in DOMAIN r
  <2>2. CASE j < i
    BY <1>1, <2>2
  <2>3. CASE ~ (j < i)
    BY <1>1, <2>3, j + 1 \in DOMAIN q, j + 1 # i
  <2>4. QED
    BY <2>2, <2>3
<1>3. \A k \in DOMAIN q : k # i => \E j \in DOMAIN r : r[j] = q[k]
  <2>1. SUFFICES ASSUME NEW k \in DOMAIN q, k # i
                 PROVE  \E j \in DOMAIN r : r[j] = q[k]
    OBVIOUS
  <2>2. CASE k < i
    BY <1>1, <2>2, k \in DOMAIN r
  <2>3. CASE k > i
    <3>1. k - 1 \in DOMAIN r /\ ~ (k - 1 < i) /\ (k - 1) + 1 = k
      BY <1>1, <2>3
    <3>2. QED
      BY <1>1, <3>1
  <2>4. QED
    BY <1>1, <2>1, <2>2, <2>3
<1>4. Increasing(r)
  <2>1. SUFFICES ASSUME NEW j \in DOMAIN r, NEW k \in DOMAIN r, j < k
                 PROVE  r[j].offset < r[k].offset
    BY DEF Increasing
  <2>2. CASE k < i
    BY <1>1, <2>1, <2>2 DEF Increasing
  <2>3. CASE j < i /\ ~ (k < i)
    BY <1>1, <2>1, <2>3, k + 1 \in DOMAIN q, j < k + 1 DEF Increasing
  <2>4. CASE ~ (j < i)
    BY <1>1, <2>1, <2>4, k + 1 \in DOMAIN q, j + 1 \in DOMAIN q, j + 1 < k + 1
    DEF Increasing
  <2>5. QED
    BY <1>1, <2>1, <2>2, <2>3, <2>4
<1>5. \A k \in DOMAIN q : k # i => q[k].offset # q[i].offset
  BY <1>1 DEF Increasing, Numbered
<1>6. Waiting(r) = Waiting(q) \ {q[i].offset}
  BY <1>2, <1>3, <1>5 DEF Waiting
<1>7. QED
  BY <1>1, <1>2, <1>4, <1>6

\* A queue with a later element behind.
LEMMA Appended ==
    ASSUME NEW S, NEW q \in Seq(S), NEW y \in S, NEW r,
           Extends(r, q, y), Numbered(q), Increasing(q),
           AllBefore(q, y)
    PROVE  /\ r \in Seq(S)
           /\ \A j \in DOMAIN r : r[j] = y \/ \E k \in DOMAIN q : r[j] = q[k]
           /\ Increasing(r)
           /\ Waiting(r) = Waiting(q) \cup {y.offset}
<1>1. /\ Len(q) \in Nat /\ DOMAIN q = 1 .. Len(q)
      /\ r \in Seq(S) /\ DOMAIN r = 1 .. Len(q) + 1
      /\ \A j \in 1 .. Len(q) : r[j] = q[j]
      /\ r[Len(q) + 1] = y
  BY LenProperties, AppendProperties DEF Extends
<1>2. \A j \in DOMAIN r : j \in DOMAIN q \/ j = Len(q) + 1
  BY <1>1
<1>3. \A j \in DOMAIN q : j \in DOMAIN r /\ j < Len(q) + 1 /\ q[j].offset \in Waiting(q)
  BY <1>1 DEF Waiting
<1>4. Increasing(r)
  BY <1>1, <1>2, <1>3 DEF Increasing, AllBefore
<1>5. Waiting(r) = Waiting(q) \cup {y.offset}
  BY <1>1, <1>2, <1>3 DEF Waiting
<1>6. QED
  BY <1>1, <1>2, <1>4, <1>5

-----------------------------------------------------------------------------
\* What the induction needs beside the invariants of MessageMatching: an
\* element of a queue is the receive or message of its number, and only
\* what has come is paired.
Genuine ==
    /\ \A i \in DOMAIN rq : rq[i] = Element(posted[rq[i].offset], rq[i].offset)
    /\ \A i \in DOMAIN uq : uq[i] = Element(arrived[uq[i].offset], uq[i].offset)
    /\ pairs \subseteq (DOMAIN posted) \X (DOMAIN arrived)

IInv ==
    /\ TypeOK
    /\ Genuine
    /\ QueuesComplete
    /\ NoMissedMatch
    /\ ReceivesInOrder
    /\ MessagesInOrder

Receives(P) == {p[1] : p \in P}
Messages(P) == {p[2] : p \in P}

\* One pair more: what the set of pairs covers.
LEMMA OnePairMore ==
    ASSUME NEW P, NEW x
    PROVE  /\ Receives(P \cup {x}) = Receives(P) \cup {x[1]}
           /\ Messages(P \cup {x}) = Messages(P) \cup {x[2]}
BY DEF Receives, Messages

\* The invariant, in the words of the lemmas about queues.
LEMMA Basics ==
    ASSUME IInv
    PROVE  /\ Len(posted) \in Nat /\ DOMAIN posted = 1 .. Len(posted)
           /\ Len(arrived) \in Nat /\ DOMAIN arrived = 1 .. Len(arrived)
           /\ Numbered(rq) /\ Increasing(rq)
           /\ Numbered(uq) /\ Increasing(uq)
           /\ Waiting(rq) = DOMAIN posted \ Receives(pairs)
           /\ Waiting(uq) = DOMAIN arrived \ Messages(pairs)
           /\ \A i \in DOMAIN rq : rq[i].offset \in Waiting(rq)
           /\ \A i \in DOMAIN uq : uq[i].offset \in Waiting(uq)
<1>1. /\ Len(posted) \in Nat /\ DOMAIN posted = 1 .. Len(posted)
      /\ Len(arrived) \in Nat /\ DOMAIN arrived = 1 .. Len(arrived)
  BY LenProperties DEF IInv, TypeOK
<1>2. (\A i \in DOMAIN rq : rq[i] \in RecvElement) /\ (\A i \in DOMAIN uq : uq[i] \in MsgElement)
  BY LenProperties DEF IInv, TypeOK
<1>3. Numbered(rq) /\ Numbered(uq)
  BY <1>2 DEF Numbered, RecvElement, MsgElement
<1>4. Increasing(rq) /\ Increasing(uq)
  BY DEF IInv, QueuesComplete, Increasing
<1>5. /\ Waiting(rq) = DOMAIN posted \ Receives(pairs)
      /\ Waiting(uq) = DOMAIN arrived \ Messages(pairs)
  BY DEF IInv, QueuesComplete, Waiting, Receives, Messages
<1>6. QED
  BY <1>1, <1>3, <1>4, <1>5 DEF Waiting

\* A receive that is not paired waits in rq, under its number; likewise a
\* message in uq.
LEMMA Unpaired ==
    ASSUME IInv
    PROVE  /\ \A n \in DOMAIN posted \ Receives(pairs) :
                 \E i \in DOMAIN rq : rq[i] = Element(posted[n], n)
           /\ \A n \in DOMAIN arrived \ Messages(pairs) :
                 \E i \in DOMAIN uq : uq[i] = Element(arrived[n], n)
<1>1. ASSUME NEW n \in DOMAIN posted \ Receives(pairs)
      PROVE  \E i \in DOMAIN rq : rq[i] = Element(posted[n], n)
  <2>1. PICK i \in DOMAIN rq : rq[i].offset = n
    BY Basics DEF Waiting
  <2>2. QED
    BY <2>1 DEF IInv, Genuine
<1>2. ASSUME NEW n \in DOMAIN arrived \ Messages(pairs)
      PROVE  \E i \in DOMAIN uq : uq[i] = Element(arrived[n], n)
  <2>1. PICK i \in DOMAIN uq : uq[i].offset = n
    BY Basics DEF Waiting
  <2>2. QED
    BY <2>1 DEF IInv, Genuine
<1>3. QED
  BY <1>1, <1>2

-----------------------------------------------------------------------------
\* The invariant holds when nothing has come.
LEMMA InitEstablishes == Init => IInv
<1>1. SUFFICES ASSUME Init PROVE IInv
  OBVIOUS
<1>2. \A S : << >> \in Seq(S) /\ DOMAIN << >> = {}
  OBVIOUS
<1>3. TypeOK
  <2>1. rq \in Seq(RecvElement) /\ uq \in Seq(MsgElement)
    BY <1>1, <1>2 DEF Init
  <2>2. posted \in Seq(RecvEnvelope) /\ arrived \in Seq(MsgEnvelope)
    BY <1>1, <1>2 DEF Init
  <2>3. QED
    BY <1>1, <2>1, <2>2 DEF Init, TypeOK
<1>4. /\ DOMAIN rq = {} /\ DOMAIN uq = {}
      /\ DOMAIN posted = {} /\ DOMAIN arrived = {} /\ pairs = {}
  BY <1>1, <1>2 DEF Init
<1>5. Genuine /\ QueuesComplete /\ NoMissedMatch
  BY <1>4 DEF Genuine, QueuesComplete, NoMissedMatch
<1>6. ReceivesInOrder /\ MessagesInOrder
  BY <1>4 DEF ReceivesInOrder, MessagesInOrder
<1>7. QED
  BY <1>3, <1>5, <1>6 DEF IInv

\* A receive that finds a message.
LEMMA RecvMatchedPreserves ==
    ASSUME IInv, NEW e \in RecvEnvelope, RecvMatched(e)
    PROVE  IInv'
<1> DEFINE i == FirstMatch(e, uq)
           n == Len(posted) + 1
           m == uq[i].offset
<1>1. /\ uq \in Seq(MsgElement) /\ Matches(e, uq) # {}
      /\ i \in DOMAIN uq /\ Fits(e, uq[i])
      /\ \A j \in DOMAIN uq : Fits(e, uq[j]) => i <= j
  BY FirstMatchProperties DEF IInv, TypeOK, RecvMatched
<1>2. /\ uq' = RemoveAt(uq, i) /\ rq' = rq /\ arrived' = arrived
      /\ posted' = Append(posted, e)
      /\ pairs' = pairs \cup {<<n, m>>}
  BY DEF RecvMatched
<1>3. /\ m \in DOMAIN arrived \ Messages(pairs) /\ m \in Nat
      /\ uq[i] = Element(arrived[m], m)
  BY <1>1, Basics DEF IInv, Genuine, Numbered
<1> HIDE DEF i, m
<1>4. /\ uq' \in Seq(MsgElement)
      /\ \A j \in DOMAIN uq' : \E k \in DOMAIN uq : k # i /\ uq'[j] = uq[k]
      /\ Increasing(uq')
      /\ Waiting(uq') = Waiting(uq) \ {m}
  BY <1>1, <1>2, Basics, Removed DEF m
<1>5. /\ n \in Nat /\ posted' \in Seq(RecvEnvelope)
      /\ DOMAIN posted' = 1 .. n /\ DOMAIN posted = 1 .. n - 1
      /\ \A j \in 1 .. n - 1 : posted'[j] = posted[j]
      /\ posted'[n] = e
  BY <1>2, Basics, AppendProperties, LenProperties DEF IInv, TypeOK
<1>6. /\ DOMAIN posted \subseteq DOMAIN posted' /\ n \in DOMAIN posted'
      /\ n \notin DOMAIN posted /\ DOMAIN posted' = DOMAIN posted \cup {n}
      /\ \A j \in DOMAIN posted : posted'[j] = posted[j] /\ j < n
  BY <1>5
<1> HIDE DEF n
<1>7. /\ pairs \subseteq (DOMAIN posted) \X (DOMAIN arrived)
       /\ pairs' \subseteq (DOMAIN posted') \X (DOMAIN arrived')
       /\ Receives(pairs') = Receives(pairs) \cup {n}
       /\ Messages(pairs') = Messages(pairs) \cup {m}
       /\ \A p \in pairs : p[1] \in DOMAIN posted /\ p[2] \in DOMAIN arrived
  <2>1. pairs \subseteq (DOMAIN posted) \X (DOMAIN arrived)
    BY DEF IInv, Genuine
  <2>2. \A p \in pairs : \E a \in DOMAIN posted, b \in DOMAIN arrived : p = <<a, b>>
    BY <2>1
  <2>3. \A p \in pairs : p[1] \in DOMAIN posted /\ p[2] \in DOMAIN arrived
    BY <2>2
  <2>4. pairs' \subseteq (DOMAIN posted') \X (DOMAIN arrived')
    BY <1>2, <1>3, <1>6, <2>2
  <2>5. pairs' = pairs \cup {<<n, m>>}
    BY <1>2
  <2>6. Receives(pairs') = Receives(pairs) \cup {n}
    BY <2>5, OnePairMore
  <2>7. Messages(pairs') = Messages(pairs) \cup {m}
    BY <2>5, OnePairMore
  <2>8. QED
    BY <2>1, <2>3, <2>4, <2>6, <2>7
<1>8. TypeOK'
  <2>1. pairs' \subseteq Nat \X Nat
    <3>1. pairs \subseteq Nat \X Nat /\ <<n, m>> \in Nat \X Nat
      BY <1>3, <1>5 DEF IInv, TypeOK
    <3>2. QED
      BY <1>2, <3>1
  <2>2. QED
    BY <1>2, <1>4, <1>5, <2>1 DEF IInv, TypeOK
<1>9. Genuine'
  <2>1. \A j \in DOMAIN rq : rq[j].offset \in DOMAIN posted
    BY Basics
  <2>2. \A j \in DOMAIN rq' : rq'[j] = Element(posted'[rq'[j].offset], rq'[j].offset)
    BY <1>2, <1>6, <2>1 DEF IInv, Genuine
  <2>3. \A j \in DOMAIN uq' : uq'[j] = Element(arrived'[uq'[j].offset], uq'[j].offset)
    BY <1>2, <1>4 DEF IInv, Genuine
  <2>4. QED
    BY <1>7, <2>2, <2>3 DEF Genuine
<1>10. QueuesComplete'
  <2>1. Waiting(rq') = DOMAIN posted' \ Receives(pairs')
    <3>1. Waiting(rq') = Waiting(rq) /\ Waiting(rq) = DOMAIN posted \ Receives(pairs)
      BY <1>2, Basics
    <3>2. /\ DOMAIN posted' = DOMAIN posted \cup {n} /\ n \notin DOMAIN posted
          /\ Receives(pairs') = Receives(pairs) \cup {n}
      BY <1>6, <1>7
    <3>3. QED
      BY <3>1, <3>2
  <2>2. Waiting(uq') = DOMAIN arrived' \ Messages(pairs')
    <3>1. DOMAIN arrived' = DOMAIN arrived
      BY <1>2
    <3>2. Waiting(uq) = DOMAIN arrived \ Messages(pairs)
      BY Basics
    <3>3. Waiting(uq') = Waiting(uq) \ {m} /\ Messages(pairs') = Messages(pairs) \cup {m}
      BY <1>4, <1>7
    <3>4. QED
      BY <3>1, <3>2, <3>3
  <2>3. Increasing(rq')
    BY <1>2, Basics
  <2>4. QED
    BY <1>4, <2>1, <2>2, <2>3 DEF QueuesComplete, Waiting, Increasing, Receives, Messages
<1>11. NoMissedMatch'
  BY <1>2, <1>4 DEF IInv, NoMissedMatch
<1>12. ReceivesInOrder'
  <2>1. SUFFICES ASSUME NEW p \in pairs', NEW j \in DOMAIN posted',
                        j < p[1], Fits(posted'[j], arrived'[p[2]])
                 PROVE  \E q \in pairs' : q[1] = j
    BY DEF ReceivesInOrder
  <2>2. CASE p \in pairs
    <3>1. j \in DOMAIN posted
      <4>1. p[1] < n /\ p[1] \in Nat /\ j \in Nat
        BY <1>5, <1>6, <1>7, <2>2
      <4>2. j # n
        BY <1>5, <2>1, <4>1
      <4>3. QED
        BY <1>6, <4>2
    <3>2. Fits(posted[j], arrived[p[2]])
      BY <1>2, <1>6, <2>1, <3>1
    <3>3. \E q \in pairs : q[1] = j
      BY <2>1, <2>2, <3>1, <3>2 DEF IInv, ReceivesInOrder
    <3>4. QED
      BY <1>2, <3>3
  <2>3. CASE p = <<n, m>>
    <3>1. j \in DOMAIN posted /\ posted'[j] = posted[j]
      BY <1>5, <1>6, <2>1, <2>3
    <3>2. SUFFICES ASSUME j \notin Receives(pairs) PROVE FALSE
      BY <1>2 DEF Receives
    <3>3. PICK k \in DOMAIN rq : rq[k] = Element(posted[j], j)
      BY <3>1, <3>2, Unpaired
    <3>4. Fits(posted[j], arrived[m])
      BY <1>2, <2>1, <2>3, <3>1
    <3>5. Fits(rq[k], uq[i])
      BY <1>3, <3>3, <3>4 DEF Fits, Element
    <3>6. QED
      BY <1>1, <3>5 DEF IInv, NoMissedMatch
  <2>4. QED
    BY <1>2, <2>2, <2>3
<1>13. MessagesInOrder'
  <2>1. SUFFICES ASSUME NEW p \in pairs', NEW j \in DOMAIN arrived',
                        j < p[2], Fits(posted'[p[1]], arrived'[j])
                 PROVE  \E q \in pairs' : q[2] = j
    BY DEF MessagesInOrder
  <2>2. CASE p \in pairs
    <3>1. posted'[p[1]] = posted[p[1]]
      BY <1>6, <1>7, <2>2
    <3>2. Fits(posted[p[1]], arrived[j]) /\ j \in DOMAIN arrived
      BY <1>2, <2>1, <3>1
    <3>3. \E q \in pairs : q[2] = j
      BY <2>1, <2>2, <3>2 DEF IInv, MessagesInOrder
    <3>4. QED
      BY <1>2, <3>3
  <2>3. CASE p = <<n, m>>
    <3>1. SUFFICES ASSUME j \notin Messages(pairs) PROVE FALSE
      BY <1>2 DEF Messages
    <3>2. PICK k \in DOMAIN uq : uq[k] = Element(arrived[j], j)
      BY <1>2, <3>1, Unpaired
    <3>3. Fits(e, arrived[j])
      BY <1>2, <1>5, <2>1, <2>3
    <3>4. Fits(e, uq[k])
      BY <3>2, <3>3 DEF Fits, Element
    <3>5. i <= k
      BY <1>1, <3>4
    <3>6. uq[k].offset = j /\ uq[i].offset = m /\ j < m
      BY <2>1, <2>3, <3>2 DEF Element, m
    <3>7. i = k \/ uq[i].offset < uq[k].offset
      BY <1>1, <3>5, Basics, LenProperties DEF Increasing
    <3>8. j \in Nat
      BY <1>2, Basics
    <3>9. QED
      BY <1>3, <3>6, <3>7, <3>8
  <2>4. QED
    BY <1>2, <2>2, <2>3
<1>14. QED
  BY <1>9, <1>10, <1>11, <1>12, <1>13, <1>8 DEF IInv

\* A message that finds a receive.
LEMMA MsgMatchedPreserves ==
    ASSUME IInv, NEW e \in MsgEnvelope, MsgMatched(e)
    PROVE  IInv'
<1> DEFINE i == FirstMatch(e, rq)
           n == Len(arrived) + 1
           m == rq[i].offset
<1>1. /\ rq \in Seq(RecvElement) /\ Matches(e, rq) # {}
      /\ i \in DOMAIN rq /\ Fits(e, rq[i])
      /\ \A j \in DOMAIN rq : Fits(e, rq[j]) => i <= j
  BY FirstMatchProperties DEF IInv, TypeOK, MsgMatched
<1>2. /\ rq' = RemoveAt(rq, i) /\ uq' = uq /\ posted' = posted
      /\ arrived' = Append(arrived, e)
      /\ pairs' = pairs \cup {<<m, n>>}
  BY DEF MsgMatched
<1>3. /\ m \in DOMAIN posted \ Receives(pairs) /\ m \in Nat
      /\ rq[i] = Element(posted[m], m)
  BY <1>1, Basics DEF IInv, Genuine, Numbered
<1> HIDE DEF i, m
<1>4. /\ rq' \in Seq(RecvElement)
      /\ \A j \in DOMAIN rq' : \E k \in DOMAIN rq : k # i /\ rq'[j] = rq[k]
      /\ Increasing(rq')
      /\ Waiting(rq') = Waiting(rq) \ {m}
  BY <1>1, <1>2, Basics, Removed DEF m
<1>5. /\ n \in Nat /\ arrived' \in Seq(MsgEnvelope)
      /\ DOMAIN arrived' = 1 .. n /\ DOMAIN arrived = 1 .. n - 1
      /\ \A j \in 1 .. n - 1 : arrived'[j] = arrived[j]
      /\ arrived'[n] = e
  BY <1>2, Basics, AppendProperties, LenProperties DEF IInv, TypeOK
<1>6. /\ DOMAIN arrived \subseteq DOMAIN arrived' /\ n \in DOMAIN arrived'
      /\ n \notin DOMAIN arrived /\ DOMAIN arrived' = DOMAIN arrived \cup {n}
      /\ \A j \in DOMAIN arrived : arrived'[j] = arrived[j] /\ j < n
  BY <1>5
<1> HIDE DEF n
<1>7. /\ pairs \subseteq (DOMAIN posted) \X (DOMAIN arrived)
       /\ pairs' \subseteq (DOMAIN posted') \X (DOMAIN arrived')
       /\ Messages(pairs') = Messages(pairs) \cup {n}
       /\ Receives(pairs') = Receives(pairs) \cup {m}
       /\ \A p \in pairs : p[2] \in DOMAIN arrived /\ p[1] \in DOMAIN posted
  <2>1. pairs \subseteq (DOMAIN posted) \X (DOMAIN arrived)
    BY DEF IInv, Genuine
  <2>2. \A p \in pairs : \E a \in DOMAIN posted, b \in DOMAIN arrived : p = <<a, b>>
    BY <2>1
  <2>3. \A p \in pairs : p[2] \in DOMAIN arrived /\ p[1] \in DOMAIN posted
    BY <2>2
  <2>4. pairs' \subseteq (DOMAIN posted') \X (DOMAIN arrived')
    BY <1>2, <1>3, <1>6, <2>2
  <2>5. pairs' = pairs \cup {<<m, n>>}
    BY <1>2
  <2>6. Messages(pairs') = Messages(pairs) \cup {n}
    BY <2>5, OnePairMore
  <2>7. Receives(pairs') = Receives(pairs) \cup {m}
    BY <2>5, OnePairMore
  <2>8. QED
    BY <2>1, <2>3, <2>4, <2>6, <2>7
<1>8. TypeOK'
  <2>1. pairs' \subseteq Nat \X Nat
    <3>1. pairs \subseteq Nat \X Nat /\ <<m, n>> \in Nat \X Nat
      BY <1>3, <1>5 DEF IInv, TypeOK
    <3>2. QED
      BY <1>2, <3>1
  <2>2. QED
    BY <1>2, <1>4, <1>5, <2>1 DEF IInv, TypeOK
<1>9. Genuine'
  <2>1. \A j \in DOMAIN uq : uq[j].offset \in DOMAIN arrived
    BY Basics
  <2>2. \A j \in DOMAIN uq' : uq'[j] = Element(arrived'[uq'[j].offset], uq'[j].offset)
    BY <1>2, <1>6, <2>1 DEF IInv, Genuine
  <2>3. \A j \in DOMAIN rq' : rq'[j] = Element(posted'[rq'[j].offset], rq'[j].offset)
    BY <1>2, <1>4 DEF IInv, Genuine
  <2>4. QED
    BY <1>7, <2>2, <2>3 DEF Genuine
<1>10. QueuesComplete'
  <2>1. Waiting(uq') = DOMAIN arrived' \ Messages(pairs')
    <3>1. Waiting(uq') = Waiting(uq) /\ Waiting(uq) = DOMAIN arrived \ Messages(pairs)
      BY <1>2, Basics
    <3>2. /\ DOMAIN arrived' = DOMAIN arrived \cup {n} /\ n \notin DOMAIN arrived
          /\ Messages(pairs') = Messages(pairs) \cup {n}
      BY <1>6, <1>7
    <3>3. QED
      BY <3>1, <3>2
  <2>2. Waiting(rq') = DOMAIN posted' \ Receives(pairs')
    <3>1. DOMAIN posted' = DOMAIN posted
      BY <1>2
    <3>2. Waiting(rq) = DOMAIN posted \ Receives(pairs)
      BY Basics
    <3>3. Waiting(rq') = Waiting(rq) \ {m} /\ Receives(pairs') = Receives(pairs) \cup {m}
      BY <1>4, <1>7
    <3>4. QED
      BY <3>1, <3>2, <3>3
  <2>3. Increasing(uq')
    BY <1>2, Basics
  <2>4. QED
    BY <1>4, <2>1, <2>2, <2>3 DEF QueuesComplete, Waiting, Increasing, Messages, Receives
<1>11. NoMissedMatch'
  BY <1>2, <1>4 DEF IInv, NoMissedMatch
<1>12. MessagesInOrder'
  <2>1. SUFFICES ASSUME NEW p \in pairs', NEW j \in DOMAIN arrived',
                        j < p[2], Fits(posted'[p[1]], arrived'[j])
                 PROVE  \E q \in pairs' : q[2] = j
    BY DEF MessagesInOrder
  <2>2. CASE p \in pairs
    <3>1. j \in DOMAIN arrived
      <4>1. p[2] < n /\ p[2] \in Nat /\ j \in Nat
        BY <1>5, <1>6, <1>7, <2>2
      <4>2. j # n
        BY <1>5, <2>1, <4>1
      <4>3. QED
        BY <1>6, <4>2
    <3>2. Fits(posted[p[1]], arrived[j])
      BY <1>2, <1>6, <2>1, <3>1
    <3>3. \E q \in pairs : q[2] = j
      BY <2>1, <2>2, <3>1, <3>2 DEF IInv, MessagesInOrder
    <3>4. QED
      BY <1>2, <3>3
  <2>3. CASE p = <<m, n>>
    <3>1. j \in DOMAIN arrived /\ arrived'[j] = arrived[j]
      BY <1>5, <1>6, <2>1, <2>3
    <3>2. SUFFICES ASSUME j \notin Messages(pairs) PROVE FALSE
      BY <1>2 DEF Messages
    <3>3. PICK k \in DOMAIN uq : uq[k] = Element(arrived[j], j)
      BY <3>1, <3>2, Unpaired
    <3>4. Fits(posted[m], arrived[j])
      BY <1>2, <2>1, <2>3, <3>1
    <3>5. Fits(rq[i], uq[k])
      BY <1>3, <3>3, <3>4 DEF Fits, Element
    <3>6. QED
      BY <1>1, <3>5 DEF IInv, NoMissedMatch
  <2>4. QED
    BY <1>2, <2>2, <2>3
<1>13. ReceivesInOrder'
  <2>1. SUFFICES ASSUME NEW p \in pairs', NEW j \in DOMAIN posted',
                        j < p[1], Fits(posted'[j], arrived'[p[2]])
                 PROVE  \E q \in pairs' : q[1] = j
    BY DEF ReceivesInOrder
  <2>2. CASE p \in pairs
    <3>1. arrived'[p[2]] = arrived[p[2]]
      BY <1>6, <1>7, <2>2
    <3>2. Fits(posted[j], arrived[p[2]]) /\ j \in DOMAIN posted
      BY <1>2, <2>1, <3>1
    <3>3. \E q \in pairs : q[1] = j
      BY <2>1, <2>2, <3>2 DEF IInv, ReceivesInOrder
    <3>4. QED
      BY <1>2, <3>3
  <2>3. CASE p = <<m, n>>
    <3>1. SUFFICES ASSUME j \notin Receives(pairs) PROVE FALSE
      BY <1>2 DEF Receives
    <3>2. PICK k \in DOMAIN rq : rq[k] = Element(posted[j], j)
      BY <1>2, <3>1, Unpaired
    <3>3. Fits(posted[j], e)
      BY <1>2, <1>5, <2>1, <2>3
    <3>4. Fits(e, rq[k])
      BY <3>2, <3>3 DEF Fits, Element
    <3>5. i <= k
      BY <1>1, <3>4
    <3>6. rq[k].offset = j /\ rq[i].offset = m /\ j < m
      BY <2>1, <2>3, <3>2 DEF Element, m
    <3>7. i = k \/ rq[i].offset < rq[k].offset
      BY <1>1, <3>5, Basics, LenProperties DEF Increasing
    <3>8. j \in Nat
      BY <1>2, Basics
    <3>9. QED
      BY <1>3, <3>6, <3>7, <3>8
  <2>4. QED
    BY <1>2, <2>2, <2>3
<1>14. QED
  BY <1>9, <1>10, <1>11, <1>12, <1>13, <1>8 DEF IInv

\* A receive that finds no message.
LEMMA RecvQueuedPreserves ==
    ASSUME IInv, NEW e \in RecvEnvelope, RecvQueued(e)
    PROVE  IInv'
<1> DEFINE n == Len(posted) + 1
           x == Element(e, n)
<1>1. /\ rq' = Append(rq, x) /\ uq' = uq /\ arrived' = arrived
      /\ posted' = Append(posted, e) /\ pairs' = pairs
      /\ \A j \in DOMAIN uq : ~ Fits(e, uq[j])
  BY DEF RecvQueued, Matches
<1>2. /\ n \in Nat /\ posted' \in Seq(RecvEnvelope)
      /\ DOMAIN posted' = 1 .. n /\ DOMAIN posted = 1 .. n - 1
      /\ \A j \in 1 .. n - 1 : posted'[j] = posted[j]
      /\ posted'[n] = e
  BY <1>1, Basics, AppendProperties, LenProperties DEF IInv, TypeOK
<1>3. /\ DOMAIN posted \subseteq DOMAIN posted' /\ n \in DOMAIN posted'
      /\ n \notin DOMAIN posted /\ DOMAIN posted' = DOMAIN posted \cup {n}
      /\ \A j \in DOMAIN posted : posted'[j] = posted[j] /\ j < n
  BY <1>2
<1> HIDE DEF n
<1>4. x \in RecvElement /\ x.offset = n /\ x = Element(posted'[n], n)
  BY <1>2 DEF RecvEnvelope, RecvElement, Element
<1>5. \A j \in DOMAIN uq : ~ Fits(x, uq[j])
  BY <1>1 DEF Fits, Element
<1> HIDE DEF x
<1>6. /\ pairs \subseteq (DOMAIN posted) \X (DOMAIN arrived)
      /\ \A p \in pairs : p[1] \in DOMAIN posted /\ p[2] \in DOMAIN arrived
  <2>1. pairs \subseteq (DOMAIN posted) \X (DOMAIN arrived)
    BY DEF IInv, Genuine
  <2>2. \A p \in pairs : \E a \in DOMAIN posted, b \in DOMAIN arrived : p = <<a, b>>
    BY <2>1
  <2>3. QED
    BY <2>1, <2>2
<1>7. /\ rq' \in Seq(RecvElement)
      /\ \A j \in DOMAIN rq' : rq'[j] = x \/ \E k \in DOMAIN rq : rq'[j] = rq[k]
      /\ Increasing(rq')
      /\ Waiting(rq') = Waiting(rq) \cup {n}
  <2>1. rq \in Seq(RecvElement) /\ AllBefore(rq, x)
    BY <1>3, <1>4, Basics DEF IInv, TypeOK, AllBefore
  <2>2. Numbered(rq) /\ Increasing(rq) /\ x \in RecvElement
    BY <1>4, Basics
  <2>3. Extends(rq', rq, x)
    BY <1>1 DEF Extends
  <2>4. /\ rq' \in Seq(RecvElement)
        /\ \A j \in DOMAIN rq' : rq'[j] = x \/ \E k \in DOMAIN rq : rq'[j] = rq[k]
        /\ Increasing(rq')
        /\ Waiting(rq') = Waiting(rq) \cup {x.offset}
    BY <2>1, <2>2, <2>3, Appended
  <2>5. QED
    BY <1>4, <2>4
<1>8. TypeOK'
  BY <1>1, <1>2, <1>7 DEF IInv, TypeOK
<1>9. Genuine'
  <2>1. \A k \in DOMAIN rq : rq[k] = Element(posted'[rq[k].offset], rq[k].offset)
    BY <1>3, Basics DEF IInv, Genuine
  <2>2. \A j \in DOMAIN rq' : rq'[j] = Element(posted'[rq'[j].offset], rq'[j].offset)
    BY <1>4, <1>7, <2>1
  <2>3. \A j \in DOMAIN uq' : uq'[j] = Element(arrived'[uq'[j].offset], uq'[j].offset)
    BY <1>1 DEF IInv, Genuine
  <2>4. pairs' \subseteq (DOMAIN posted') \X (DOMAIN arrived')
    BY <1>1, <1>3, <1>6
  <2>5. QED
    BY <2>2, <2>3, <2>4 DEF Genuine
<1>10. QueuesComplete'
  <2>1. Receives(pairs) \subseteq DOMAIN posted
    BY <1>6 DEF Receives
  <2>2. Waiting(rq') = DOMAIN posted' \ Receives(pairs')
    BY <1>1, <1>3, <1>7, <2>1, Basics
  <2>3. Waiting(uq') = DOMAIN arrived' \ Messages(pairs')
    BY <1>1, Basics
  <2>4. Increasing(uq')
    BY <1>1, Basics
  <2>5. QED
    BY <1>7, <2>2, <2>3, <2>4 DEF QueuesComplete, Waiting, Increasing, Receives, Messages
<1>11. NoMissedMatch'
  <2>1. SUFFICES ASSUME NEW j \in DOMAIN rq', NEW k \in DOMAIN uq'
                 PROVE  ~ Fits(rq'[j], uq'[k])
    BY DEF NoMissedMatch
  <2>2. CASE rq'[j] = x
    BY <1>1, <1>5, <2>2
  <2>3. CASE \E l \in DOMAIN rq : rq'[j] = rq[l]
    BY <1>1, <2>3 DEF IInv, NoMissedMatch
  <2>4. QED
    BY <1>7, <2>2, <2>3
<1>12. ReceivesInOrder'
  <2>1. SUFFICES ASSUME NEW p \in pairs, NEW j \in DOMAIN posted',
                        j < p[1], Fits(posted'[j], arrived[p[2]])
                 PROVE  \E q \in pairs : q[1] = j
    BY <1>1 DEF ReceivesInOrder
  <2>2. j \in DOMAIN posted
    <3>1. p[1] < n /\ p[1] \in Nat /\ j \in Nat
      BY <1>2, <1>3, <1>6
    <3>2. j # n
      BY <1>2, <2>1, <3>1
    <3>3. QED
      BY <1>3, <3>2
  <2>3. Fits(posted[j], arrived[p[2]])
    BY <1>3, <2>1, <2>2
  <2>4. QED
    BY <2>1, <2>2, <2>3 DEF IInv, ReceivesInOrder
<1>13. MessagesInOrder'
  <2>1. SUFFICES ASSUME NEW p \in pairs, NEW j \in DOMAIN arrived,
                        j < p[2], Fits(posted'[p[1]], arrived[j])
                 PROVE  \E q \in pairs : q[2] = j
    BY <1>1 DEF MessagesInOrder
  <2>2. Fits(posted[p[1]], arrived[j])
    BY <1>3, <1>6, <2>1
  <2>3. QED
    BY <2>1, <2>2 DEF IInv, MessagesInOrder
<1>14. QED
  BY <1>8, <1>9, <1>10, <1>11, <1>12, <1>13 DEF IInv

\* A message that finds no receive.
LEMMA MsgQueuedPreserves ==
    ASSUME IInv, NEW e \in MsgEnvelope, MsgQueued(e)
    PROVE  IInv'
<1> DEFINE n == Len(arrived) + 1
           x == Element(e, n)
<1>1. /\ uq' = Append(uq, x) /\ rq' = rq /\ posted' = posted
      /\ arrived' = Append(arrived, e) /\ pairs' = pairs
      /\ \A j \in DOMAIN rq : ~ Fits(e, rq[j])
  BY DEF MsgQueued, Matches
<1>2. /\ n \in Nat /\ arrived' \in Seq(MsgEnvelope)
      /\ DOMAIN arrived' = 1 .. n /\ DOMAIN arrived = 1 .. n - 1
      /\ \A j \in 1 .. n - 1 : arrived'[j] = arrived[j]
      /\ arrived'[n] = e
  BY <1>1, Basics, AppendProperties, LenProperties DEF IInv, TypeOK
<1>3. /\ DOMAIN arrived \subseteq DOMAIN arrived' /\ n \in DOMAIN arrived'
      /\ n \notin DOMAIN arrived /\ DOMAIN arrived' = DOMAIN arrived \cup {n}
      /\ \A j \in DOMAIN arrived : arrived'[j] = arrived[j] /\ j < n
  BY <1>2
<1> HIDE DEF n
<1>4. x \in MsgElement /\ x.offset = n /\ x = Element(arrived'[n], n)
  BY <1>2 DEF MsgEnvelope, MsgElement, Element
<1>5. \A j \in DOMAIN rq : ~ Fits(rq[j], x)
  BY <1>1 DEF Fits, Element
<1> HIDE DEF x
<1>6. /\ pairs \subseteq (DOMAIN posted) \X (DOMAIN arrived)
      /\ \A p \in pairs : p[1] \in DOMAIN posted /\ p[2] \in DOMAIN arrived
  <2>1. pairs \subseteq (DOMAIN posted) \X (DOMAIN arrived)
    BY DEF IInv, Genuine
  <2>2. \A p \in pairs : \E a \in DOMAIN posted, b \in DOMAIN arrived : p = <<a, b>>
    BY <2>1
  <2>3. QED
    BY <2>1, <2>2
<1>7. /\ uq' \in Seq(MsgElement)
      /\ \A j \in DOMAIN uq' : uq'[j] = x \/ \E k \in DOMAIN uq : uq'[j] = uq[k]
      /\ Increasing(uq')
      /\ Waiting(uq') = Waiting(uq) \cup {n}
  <2>1. uq \in Seq(MsgElement) /\ AllBefore(uq, x)
    BY <1>3, <1>4, Basics DEF IInv, TypeOK, AllBefore
  <2>2. Numbered(uq) /\ Increasing(uq) /\ x \in MsgElement
    BY <1>4, Basics
  <2>3. Extends(uq', uq, x)
    BY <1>1 DEF Extends
  <2>4. /\ uq' \in Seq(MsgElement)
        /\ \A j \in DOMAIN uq' : uq'[j] = x \/ \E k \in DOMAIN uq : uq'[j] = uq[k]
        /\ Increasing(uq')
        /\ Waiting(uq') = Waiting(uq) \cup {x.offset}
    BY <2>1, <2>2, <2>3, Appended
  <2>5. QED
    BY <1>4, <2>4
<1>8. TypeOK'
  BY <1>1, <1>2, <1>7 DEF IInv, TypeOK
<1>9. Genuine'
  <2>1. \A k \in DOMAIN uq : uq[k] = Element(arrived'[uq[k].offset], uq[k].offset)
    BY <1>3, Basics DEF IInv, Genuine
  <2>2. \A j \in DOMAIN uq' : uq'[j] = Element(arrived'[uq'[j].offset], uq'[j].offset)
    BY <1>4, <1>7, <2>1
  <2>3. \A j \in DOMAIN rq' : rq'[j] = Element(posted'[rq'[j].offset], rq'[j].offset)
    BY <1>1 DEF IInv, Genuine
  <2>4. pairs' \subseteq (DOMAIN posted') \X (DOMAIN arrived')
    BY <1>1, <1>3, <1>6
  <2>5. QED
    BY <2>2, <2>3, <2>4 DEF Genuine
<1>10. QueuesComplete'
  <2>1. Messages(pairs) \subseteq DOMAIN arrived
    BY <1>6 DEF Messages
  <2>2. Waiting(uq') = DOMAIN arrived' \ Messages(pairs')
    BY <1>1, <1>3, <1>7, <2>1, Basics
  <2>3. Waiting(rq') = DOMAIN posted' \ Receives(pairs')
    BY <1>1, Basics
  <2>4. Increasing(rq')
    BY <1>1, Basics
  <2>5. QED
    BY <1>7, <2>2, <2>3, <2>4 DEF QueuesComplete, Waiting, Increasing, Messages, Receives
<1>11. NoMissedMatch'
  <2>1. SUFFICES ASSUME NEW j \in DOMAIN uq', NEW k \in DOMAIN rq'
                 PROVE  ~ Fits(rq'[k], uq'[j])
    BY DEF NoMissedMatch
  <2>2. CASE uq'[j] = x
    BY <1>1, <1>5, <2>2
  <2>3. CASE \E l \in DOMAIN uq : uq'[j] = uq[l]
    BY <1>1, <2>3 DEF IInv, NoMissedMatch
  <2>4. QED
    BY <1>7, <2>2, <2>3
<1>12. MessagesInOrder'
  <2>1. SUFFICES ASSUME NEW p \in pairs, NEW j \in DOMAIN arrived',
                        j < p[2], Fits(posted[p[1]], arrived'[j])
                 PROVE  \E q \in pairs : q[2] = j
    BY <1>1 DEF MessagesInOrder
  <2>2. j \in DOMAIN arrived
    <3>1. p[2] < n /\ p[2] \in Nat /\ j \in Nat
      BY <1>2, <1>3, <1>6
    <3>2. j # n
      BY <1>2, <2>1, <3>1
    <3>3. QED
      BY <1>3, <3>2
  <2>3. Fits(posted[p[1]], arrived[j])
    BY <1>3, <2>1, <2>2
  <2>4. QED
    BY <2>1, <2>2, <2>3 DEF IInv, MessagesInOrder
<1>13. ReceivesInOrder'
  <2>1. SUFFICES ASSUME NEW p \in pairs, NEW j \in DOMAIN posted,
                        j < p[1], Fits(posted[j], arrived'[p[2]])
                 PROVE  \E q \in pairs : q[1] = j
    BY <1>1 DEF ReceivesInOrder
  <2>2. Fits(posted[j], arrived[p[2]])
    BY <1>3, <1>6, <2>1
  <2>3. QED
    BY <2>1, <2>2 DEF IInv, ReceivesInOrder
<1>14. QED
  BY <1>8, <1>9, <1>10, <1>11, <1>12, <1>13 DEF IInv

-----------------------------------------------------------------------------
\* Every step of the two queues preserves the invariant.
LEMMA Inductive == IInv /\ [Next]_vars => IInv'
<1>1. SUFFICES ASSUME IInv, [Next]_vars PROVE IInv'
  OBVIOUS
<1>2. ASSUME NEW e \in RecvEnvelope, RecvMatched(e) PROVE IInv'
  BY <1>1, <1>2, RecvMatchedPreserves
<1>3. ASSUME NEW e \in RecvEnvelope, RecvQueued(e) PROVE IInv'
  BY <1>1, <1>3, RecvQueuedPreserves
<1>4. ASSUME NEW e \in MsgEnvelope, MsgMatched(e) PROVE IInv'
  BY <1>1, <1>4, MsgMatchedPreserves
<1>5. ASSUME NEW e \in MsgEnvelope, MsgQueued(e) PROVE IInv'
  BY <1>1, <1>5, MsgQueuedPreserves
<1>6. ASSUME UNCHANGED vars PROVE IInv'
  <2>1. rq' = rq /\ uq' = uq /\ posted' = posted /\ arrived' = arrived /\ pairs' = pairs
    BY <1>6 DEF vars
  <2>2. TypeOK' /\ Genuine'
    BY <1>1, <2>1 DEF IInv, TypeOK, Genuine
  <2>3. QueuesComplete'
    BY <1>1, <2>1 DEF IInv, QueuesComplete
  <2>4. NoMissedMatch'
    BY <1>1, <2>1 DEF IInv, NoMissedMatch
  <2>5. ReceivesInOrder' /\ MessagesInOrder'
    BY <1>1, <2>1 DEF IInv, ReceivesInOrder, MessagesInOrder
  <2>6. QED
    BY <2>2, <2>3, <2>4, <2>5 DEF IInv
<1>7. ASSUME Finished PROVE IInv'
  BY <1>6, <1>7 DEF Finished
<1>8. QED
  BY <1>1, <1>2, <1>3, <1>4, <1>5, <1>6, <1>7 DEF Next

\* The inductive invariant of matching holds in every reachable state.
LEMMA Invariant == Spec => []IInv
BY InitEstablishes, Inductive, PTL DEF Spec

\* The queues hold receives and messages of the right form (ruqelem_t).
THEOREM TypeCorrect == Spec => []TypeOK
BY Invariant, PTL DEF IInv

\* Whoever comes second finds the other: no receive is left in rq beside a
\* message in uq that its call of match would have taken, whatever wildcards
\* the receives use and in whatever order they and the messages come.
THEOREM NothingMissed == Spec => []NoMissedMatch
BY Invariant, PTL DEF IInv

\* Nothing is lost from a queue, nothing is in it twice, and the erase of a
\* matched element leaves the others in the order of their coming.
THEOREM QueuesHoldTheUnpaired == Spec => []QueuesComplete
BY Invariant, PTL DEF IInv

\* A receive gets no message that an earlier receive still waits for.
THEOREM ReceivesDoNotOvertake == Spec => []ReceivesInOrder
BY Invariant, PTL DEF IInv

\* A receive takes no message while an earlier one that fits it waits.
THEOREM MessagesDoNotOvertake == Spec => []MessagesInOrder
BY Invariant, PTL DEF IInv

-----------------------------------------------------------------------------
\* Without a wildcard among the senders and tags, the comparison of the two
\* elements is what a receive of MPI accepts.
LEMMA FitsIsAccepts ==
    ASSUME NEW r \in RecvEnvelope, NEW m \in MsgEnvelope
    PROVE  /\ Mpi!Accepts(r, m) <=> Fits(r, m)
           /\ Mpi!Accepts(r, m) <=> Fits(m, r)
<1>1. m.src # Wildcard /\ m.tag # Wildcard
  BY WildcardAssumption DEF MsgEnvelope
<1>2. QED
  BY <1>1 DEF Mpi!Accepts, Fits

\* The messages a new receive may have are those that wait and fit; the
\* receives that would take a new message likewise.
LEMMA OffersWait ==
    ASSUME IInv, NEW e \in RecvEnvelope
    PROVE  Mpi!Offers(e) = {uq[k].offset : k \in Matches(e, uq)}
<1>1. \A j \in DOMAIN arrived : arrived[j] \in MsgEnvelope
  BY LenProperties DEF IInv, TypeOK
<1>2. \A j : j \in Messages(pairs) <=> \E p \in pairs : p[2] = j
  BY DEF Messages
<1>3. ASSUME NEW j \in Mpi!Offers(e)
      PROVE  \E k \in Matches(e, uq) : uq[k].offset = j
  <2>1. /\ j \in DOMAIN arrived \ Messages(pairs)
        /\ Fits(e, arrived[j])
    BY <1>1, <1>2, <1>3, FitsIsAccepts DEF Mpi!Offers
  <2>2. PICK k \in DOMAIN uq : uq[k] = Element(arrived[j], j)
    BY <2>1, Unpaired
  <2>3. Fits(e, uq[k]) /\ uq[k].offset = j
    BY <2>1, <2>2 DEF Fits, Element
  <2>4. QED
    BY <2>2, <2>3 DEF Matches
<1>4. ASSUME NEW k \in Matches(e, uq)
      PROVE  uq[k].offset \in Mpi!Offers(e)
  <2> DEFINE j == uq[k].offset
  <2>1. k \in DOMAIN uq /\ Fits(e, uq[k])
    BY <1>4 DEF Matches
  <2>2. j \in DOMAIN arrived \ Messages(pairs) /\ uq[k] = Element(arrived[j], j)
    BY <2>1, Basics DEF IInv, Genuine
  <2>3. Fits(e, arrived[j])
    BY <2>1, <2>2 DEF Fits, Element
  <2> HIDE DEF j
  <2>4. j \in Mpi!Offers(e)
    BY <1>1, <1>2, <2>2, <2>3, FitsIsAccepts DEF Mpi!Offers
  <2>5. QED
    BY <2>4 DEF j
<1>5. QED
  BY <1>3, <1>4

\* The receives that take a message wait in rq.
LEMMA TakersWait ==
    ASSUME IInv, NEW e \in MsgEnvelope
    PROVE  Mpi!Takers(e) = {rq[k].offset : k \in Matches(e, rq)}
<1>1. \A j \in DOMAIN posted : posted[j] \in RecvEnvelope
  BY LenProperties DEF IInv, TypeOK
<1>2. \A j : j \in Receives(pairs) <=> \E p \in pairs : p[1] = j
  BY DEF Receives
<1>3. ASSUME NEW j \in Mpi!Takers(e)
      PROVE  \E k \in Matches(e, rq) : rq[k].offset = j
  <2>1. /\ j \in DOMAIN posted \ Receives(pairs)
        /\ Fits(e, posted[j])
    BY <1>1, <1>2, <1>3, FitsIsAccepts DEF Mpi!Takers
  <2>2. PICK k \in DOMAIN rq : rq[k] = Element(posted[j], j)
    BY <2>1, Unpaired
  <2>3. Fits(e, rq[k]) /\ rq[k].offset = j
    BY <2>1, <2>2 DEF Fits, Element
  <2>4. QED
    BY <2>2, <2>3 DEF Matches
<1>4. ASSUME NEW k \in Matches(e, rq)
      PROVE  rq[k].offset \in Mpi!Takers(e)
  <2> DEFINE j == rq[k].offset
  <2>1. k \in DOMAIN rq /\ Fits(e, rq[k])
    BY <1>4 DEF Matches
  <2>2. j \in DOMAIN posted \ Receives(pairs) /\ rq[k] = Element(posted[j], j)
    BY <2>1, Basics DEF IInv, Genuine
  <2>3. Fits(e, posted[j])
    BY <2>1, <2>2 DEF Fits, Element
  <2> HIDE DEF j
  <2>4. j \in Mpi!Takers(e)
    BY <1>1, <1>2, <2>2, <2>3, FitsIsAccepts DEF Mpi!Takers
  <2>5. QED
    BY <2>4 DEF j
<1>5. QED
  BY <1>3, <1>4

\* The first element of a queue that fits is the earliest of its kind.
LEMMA FirstIsEarliest ==
    ASSUME NEW S, NEW q \in Seq(S), NEW e, Numbered(q), Increasing(q),
           Matches(e, q) # {}
    PROVE  Mpi!Earliest({q[k].offset : k \in Matches(e, q)})
              = q[FirstMatch(e, q)].offset
<1> DEFINE i == FirstMatch(e, q)
           T == {q[k].offset : k \in Matches(e, q)}
<1>1. i \in Matches(e, q) /\ \A k \in Matches(e, q) : i <= k
  BY FirstMatchProperties DEF Matches
<1>2. \A k \in Matches(e, q) : k \in DOMAIN q /\ k \in Nat
  BY LenProperties DEF Matches
<1> HIDE DEF i
<1>3. ASSUME NEW k \in Matches(e, q)
      PROVE  q[i].offset \in Nat /\ q[k].offset \in Nat /\ q[i].offset <= q[k].offset
  <2>1. i \in DOMAIN q /\ k \in DOMAIN q /\ (i = k \/ i < k)
    BY <1>1, <1>2
  <2>2. QED
    BY <2>1 DEF Numbered, Increasing
<1>4. q[i].offset \in T /\ \A t \in T : t \in Nat /\ q[i].offset <= t
  BY <1>1, <1>3
<1> HIDE DEF T
<1>5. \A t \in T : (\A u \in T : t <= u) => t = q[i].offset
  BY <1>4
<1>6. Mpi!Earliest(T) = q[i].offset
  BY <1>4, <1>5 DEF Mpi!Earliest
<1>7. QED
  BY <1>6 DEF T, i

\* Every step of the queues is one of MPI, or none.
LEMMA StepRefines == IInv /\ [Next]_vars => [Mpi!Next]_(Mpi!vars)
<1>1. SUFFICES ASSUME IInv, [Next]_vars PROVE [Mpi!Next]_(Mpi!vars)
  OBVIOUS
<1>2. ASSUME NEW e \in RecvEnvelope, RecvMatched(e) PROVE Mpi!Post(e)
  <2> DEFINE i == FirstMatch(e, uq)
             T == {uq[k].offset : k \in Matches(e, uq)}
  <2>1. uq \in Seq(MsgElement) /\ Matches(e, uq) # {}
    BY <1>1, <1>2 DEF IInv, TypeOK, RecvMatched
  <2>2. Mpi!Offers(e) = T /\ Mpi!Earliest(T) = uq[i].offset
    BY <1>1, <2>1, OffersWait, FirstIsEarliest, Basics
  <2>3. T # {}
    BY <2>1
  <2> HIDE DEF T, i
  <2>4. pairs' = pairs \cup {<<Len(posted) + 1, Mpi!Earliest(Mpi!Offers(e))>>}
    BY <1>2, <2>2 DEF RecvMatched, i
  <2>5. posted' = Append(posted, e) /\ arrived' = arrived
    BY <1>2 DEF RecvMatched
  <2>6. QED
    BY <2>2, <2>3, <2>4, <2>5 DEF Mpi!Post
<1>3. ASSUME NEW e \in RecvEnvelope, RecvQueued(e) PROVE Mpi!Post(e)
  <2>1. Mpi!Offers(e) = {}
    BY <1>1, <1>3, OffersWait DEF RecvQueued
  <2>2. posted' = Append(posted, e) /\ arrived' = arrived /\ pairs' = pairs \cup {}
    BY <1>3 DEF RecvQueued
  <2>3. QED
    BY <2>1, <2>2 DEF Mpi!Post
<1>4. ASSUME NEW e \in MsgEnvelope, MsgMatched(e) PROVE Mpi!Arrive(e)
  <2> DEFINE i == FirstMatch(e, rq)
             T == {rq[k].offset : k \in Matches(e, rq)}
  <2>1. rq \in Seq(RecvElement) /\ Matches(e, rq) # {}
    BY <1>1, <1>4 DEF IInv, TypeOK, MsgMatched
  <2>2. Mpi!Takers(e) = T /\ Mpi!Earliest(T) = rq[i].offset
    BY <1>1, <2>1, TakersWait, FirstIsEarliest, Basics
  <2>3. T # {}
    BY <2>1
  <2> HIDE DEF T, i
  <2>4. pairs' = pairs \cup {<<Mpi!Earliest(Mpi!Takers(e)), Len(arrived) + 1>>}
    BY <1>4, <2>2 DEF MsgMatched, i
  <2>5. arrived' = Append(arrived, e) /\ posted' = posted
    BY <1>4 DEF MsgMatched
  <2>6. QED
    BY <2>2, <2>3, <2>4, <2>5 DEF Mpi!Arrive
<1>5. ASSUME NEW e \in MsgEnvelope, MsgQueued(e) PROVE Mpi!Arrive(e)
  <2>1. Mpi!Takers(e) = {}
    BY <1>1, <1>5, TakersWait DEF MsgQueued
  <2>2. arrived' = Append(arrived, e) /\ posted' = posted /\ pairs' = pairs \cup {}
    BY <1>5 DEF MsgQueued
  <2>3. QED
    BY <2>1, <2>2 DEF Mpi!Arrive
<1>6. ASSUME UNCHANGED vars PROVE UNCHANGED Mpi!vars
  BY <1>6 DEF vars, Mpi!vars
<1>7. QED
  BY <1>1, <1>2, <1>3, <1>4, <1>5, <1>6
  DEF Next, Finished, Mpi!Next, RecvEnvelope, MsgEnvelope

\* The two queues of a host implement matching by order of coming: each
\* receive gets the message that came first of those it accepts, each
\* message the receive that was posted first, at once when both are there.
THEOREM MatchingRefines == Spec => ImplementsMpi
<1>1. Init => Mpi!Init
  BY DEF Init, Mpi!Init
<1>2. QED
  BY <1>1, Invariant, StepRefines, PTL DEF Spec, ImplementsMpi, Mpi!Spec

=============================================================================

--------------------------- MODULE LgsHelperProofs ---------------------------
(***************************************************************************)
(* For any keys, sizes, times and faults: a message that waits is covered  *)
(* by packets in flight, the one global slot loses no message, and without *)
(* keys reused or packets repeated a message is complete exactly when its  *)
(* last packet has come. Whatever else LGS is given are answers.           *)
(***************************************************************************)
EXTENDS LgsHelper, TLAPS

\* The types that count, without the clock and its Stop events.
Counted ==
    /\ DOMAIN active \subseteq Keys
    /\ active \in [DOMAIN active -> Nat]
    /\ net \in [Hashes -> Nat]
    /\ faults \in [reused : Nat, resent : Nat, lost : Nat, answers : Nat]
    /\ sent \in [Keys -> Nat]
    /\ completed \in [Hashes -> Nat]
    /\ reported \in [Hashes -> Nat]

\* While no key is reused and no packet repeated, a key has one message at a
\* time, and no more packets in flight than that message waits for.
Exact ==
    faults.reused = 0 /\ faults.resent = 0 =>
        \A k \in Keys :
            IF k \in DOMAIN active
            THEN completed[k] + 1 = sent[k] /\ net[k] <= active[k]
            ELSE completed[k] = sent[k] /\ net[k] = 0

\* Each answer is on its way, or has been taken for a message.
Answered == completed[DefaultTag] + net[DefaultTag] = faults.answers

IInv == Counted /\ Covered /\ Exact /\ SlotNotLost /\ Answered

LEMMA HashFacts ==
    DefaultTag \in Hashes /\ DefaultTag \notin Keys /\ Keys \subseteq Hashes /\ None \notin Hashes
BY HelperAssumption DEF Hashes

\* A message has left, or its last packet but one: what the two branches of
\* update_active_map leave of the map.
LEMMA MapAfterPacket ==
    ASSUME Counted, NEW k \in Hashes, update_active_map(k)
    PROVE  /\ LeftAfter(k) \in Int
           /\ LeftAfter(k) > 0 =>
                /\ k \in DOMAIN active /\ DOMAIN active' = DOMAIN active
                /\ active' \in [DOMAIN active' -> Nat]
                /\ active'[k] = active[k] - 1
                /\ \A j \in DOMAIN active \ {k} : active'[j] = active[j]
           /\ LeftAfter(k) <= 0 =>
                /\ DOMAIN active' = DOMAIN active \ {k}
                /\ active' \in [DOMAIN active' -> Nat]
                /\ \A j \in DOMAIN active \ {k} : active'[j] = active[j]
                /\ k \in DOMAIN active => active[k] <= 1
<1>1. active \in [DOMAIN active -> Nat]
  BY DEF Counted
<1>2. LeftAfter(k) = IF k \in DOMAIN active THEN active[k] - 1 ELSE -1
  BY <1>1 DEF LeftAfter
<1>3. LeftAfter(k) \in Int
  BY <1>1, <1>2
<1>4. CASE LeftAfter(k) > 0
  <2>1. k \in DOMAIN active /\ LeftAfter(k) = active[k] - 1 /\ LeftAfter(k) \in Nat
    BY <1>1, <1>2, <1>4
  <2>2. active' = [active EXCEPT ![k] = LeftAfter(k)]
    BY <1>3, <1>4 DEF update_active_map
  <2>3. QED
    BY <1>1, <1>3, <1>4, <2>1, <2>2
<1>5. CASE LeftAfter(k) <= 0
  <2>1. active' = [j \in DOMAIN active \ {k} |-> active[j]]
    BY <1>5 DEF update_active_map
  <2>2. k \in DOMAIN active => active[k] <= 1
    BY <1>1, <1>2, <1>5
  <2>3. QED
    BY <1>1, <1>3, <1>5, <2>1, <2>2
<1>6. QED
  BY <1>3, <1>4, <1>5

\* A packet of k has left the network, and answers have come into it.
LEMMA DeliverEffect ==
    ASSUME Counted, NEW k \in Hashes, NEW t, Deliver(k, t), net[k] > 0
    PROVE  /\ net' \in [Hashes -> Nat]
           /\ faults' \in [reused : Nat, resent : Nat, lost : Nat, answers : Nat]
           /\ faults'.reused = faults.reused /\ faults'.resent = faults.resent
           /\ faults'.lost = faults.lost
           /\ \A j \in Keys \ {k} : net'[j] = net[j]
           /\ k \in Keys =>
                /\ net'[k] = net[k] - 1
                /\ net'[DefaultTag] - faults'.answers = net[DefaultTag] - faults.answers
           /\ k \notin Keys =>
                net'[DefaultTag] = net[DefaultTag] - 1 /\ faults'.answers = faults.answers
<1>1. /\ net \in [Hashes -> Nat]
      /\ faults \in [reused : Nat, resent : Nat, lost : Nat, answers : Nat]
  BY DEF Counted
<1>2. PICK n \in 0 .. (IF k \in Keys THEN MaxAnswers - faults.answers ELSE 0) :
          /\ net' = [net EXCEPT ![k] = @ - 1, ![DefaultTag] = @ + n]
          /\ faults' = [faults EXCEPT !.answers = @ + n]
  BY DEF Deliver
<1>3. n \in Nat /\ (k \notin Keys => n = 0)
  BY <1>1, <1>2, HelperAssumption
<1>4. /\ faults' \in [reused : Nat, resent : Nat, lost : Nat, answers : Nat]
      /\ faults'.reused = faults.reused /\ faults'.resent = faults.resent
      /\ faults'.lost = faults.lost /\ faults'.answers = faults.answers + n
  BY <1>1, <1>2, <1>3
<1>5. DefaultTag \in Hashes /\ DefaultTag \notin Keys /\ Hashes = Keys \cup {DefaultTag}
  BY HashFacts DEF Hashes
<1>6. CASE k \in Keys
  <2>1. /\ net' \in [Hashes -> Nat] /\ net'[k] = net[k] - 1
        /\ net'[DefaultTag] = net[DefaultTag] + n
        /\ \A j \in Keys \ {k} : net'[j] = net[j]
    BY <1>1, <1>2, <1>3, <1>5, <1>6
  <2>2. net[DefaultTag] \in Nat /\ faults.answers \in Nat
    BY <1>1, <1>5
  <2>3. QED
    BY <1>3, <1>4, <1>6, <2>1, <2>2
<1>7. CASE k \notin Keys
  <2>1. k = DefaultTag /\ n = 0
    BY <1>3, <1>5, <1>7
  <2>2. /\ net' \in [Hashes -> Nat] /\ net'[DefaultTag] = net[DefaultTag] - 1
        /\ \A j \in Keys \ {k} : net'[j] = net[j]
    BY <1>1, <1>2, <1>5, <2>1
  <2>3. QED
    BY <1>1, <1>4, <1>7, <2>1, <2>2
<1>8. QED
  BY <1>6, <1>7

\* LGS schedules a message: the packets it waits for are all in flight, also
\* when its key is taken over from another.
LEMMA ScheduleStep ==
    ASSUME IInv, NEW k \in Keys, NEW p \in Sizes, Schedule(k, p)
    PROVE  IInv'
<1>1. p \in Nat /\ k \in Hashes
  BY HelperAssumption, HashFacts
<1>2. /\ DOMAIN active \subseteq Keys /\ active \in [DOMAIN active -> Nat]
      /\ net \in [Hashes -> Nat] /\ sent \in [Keys -> Nat] /\ completed \in [Hashes -> Nat]
      /\ faults \in [reused : Nat, resent : Nat, lost : Nat, answers : Nat]
  BY DEF IInv, Counted
<1>3. /\ active' = [j \in DOMAIN active \cup {k} |-> IF j = k THEN p ELSE active[j]]
      /\ net' = [net EXCEPT ![k] = @ + p]
      /\ faults' = IF InFlight(k) THEN [faults EXCEPT !.reused = @ + 1] ELSE faults
      /\ sent' = [sent EXCEPT ![k] = @ + 1]
      /\ UNCHANGED <<latest, mode, completed, reported>>
  BY DEF Schedule, ns3_schedule
<1>4. /\ DOMAIN active' = DOMAIN active \cup {k} /\ active'[k] = p
      /\ \A j \in DOMAIN active \ {k} : active'[j] = active[j]
      /\ active' \in [DOMAIN active' -> Nat]
  BY <1>1, <1>2, <1>3
<1>5. /\ net' \in [Hashes -> Nat] /\ sent' \in [Keys -> Nat]
      /\ net'[k] = net[k] + p /\ sent'[k] = sent[k] + 1
      /\ \A j \in Keys \ {k} : net'[j] = net[j] /\ sent'[j] = sent[j]
      /\ net'[DefaultTag] = net[DefaultTag]
  BY <1>1, <1>2, <1>3, HashFacts
<1>6. /\ faults' \in [reused : Nat, resent : Nat, lost : Nat, answers : Nat]
      /\ faults'.lost = faults.lost /\ faults'.resent = faults.resent
      /\ faults'.answers = faults.answers
      /\ faults'.reused = IF InFlight(k) THEN faults.reused + 1 ELSE faults.reused
  BY <1>2, <1>3
<1>7. Counted'
  BY <1>2, <1>3, <1>4, <1>5, <1>6 DEF IInv, Counted
<1>8. Covered'
  <2>1. ASSUME NEW j \in DOMAIN active' PROVE active'[j] <= net'[j] + faults'.lost
    <3>1. CASE j = k
      BY <1>1, <1>2, <1>4, <1>5, <1>6, <3>1
    <3>2. CASE j # k
      <4>1. j \in DOMAIN active /\ j \in Keys \ {k}
        BY <1>2, <1>4, <3>2
      <4>2. active[j] <= net[j] + faults.lost
        BY <4>1 DEF IInv, Covered
      <4>3. QED
        BY <1>4, <1>5, <1>6, <4>1, <4>2
    <3>3. QED
      BY <3>1, <3>2
  <2>2. QED
    BY <2>1 DEF Covered
<1>9. Exact'
  <2>1. SUFFICES ASSUME faults'.reused = 0, faults'.resent = 0, NEW j \in Keys
                 PROVE  IF j \in DOMAIN active'
                        THEN completed'[j] + 1 = sent'[j] /\ net'[j] <= active'[j]
                        ELSE completed'[j] = sent'[j] /\ net'[j] = 0
    BY DEF Exact
  <2>2. ~InFlight(k) /\ faults.reused = 0 /\ faults.resent = 0
    BY <1>2, <1>6, <2>1
  <2>3. IF j \in DOMAIN active
        THEN completed[j] + 1 = sent[j] /\ net[j] <= active[j]
        ELSE completed[j] = sent[j] /\ net[j] = 0
    BY <2>2 DEF IInv, Exact
  <2>4. CASE j = k
    <3>1. k \notin DOMAIN active
      BY <2>2 DEF InFlight
    <3>2. completed[k] = sent[k] /\ net[k] = 0
      BY <2>3, <2>4, <3>1
    <3>3. QED
      BY <1>1, <1>2, <1>3, <1>4, <1>5, <2>4, <3>2
  <2>5. CASE j # k
    BY <1>3, <1>4, <1>5, <2>3, <2>5
  <2>6. QED
    BY <2>4, <2>5
<1>10. SlotNotLost'
  BY <1>3 DEF IInv, SlotNotLost
<1>11. Answered'
  BY <1>3, <1>5, <1>6 DEF IInv, Answered
<1>12. QED
  BY <1>7, <1>8, <1>9, <1>10, <1>11 DEF IInv


\* A packet of a message that waits for more of them.
LEMMA PartialStep ==
    ASSUME IInv, NEW k \in Hashes, NEW t, SinkRxPartial(k, t)
    PROVE  IInv'
<1>1. /\ net \in [Hashes -> Nat] /\ DOMAIN active \subseteq Keys
      /\ active \in [DOMAIN active -> Nat] /\ faults.lost \in Nat
  BY DEF IInv, Counted
<1>2. /\ mode = "ns3" /\ net[k] > 0 /\ LeftAfter(k) > 0
      /\ update_active_map(k) /\ Deliver(k, t)
      /\ UNCHANGED <<mode, sent, completed, reported>>
  BY DEF SinkRxPartial, history
<1>3. /\ k \in DOMAIN active /\ DOMAIN active' = DOMAIN active
      /\ active' \in [DOMAIN active' -> Nat]
      /\ active'[k] = active[k] - 1
      /\ \A j \in DOMAIN active \ {k} : active'[j] = active[j]
  BY <1>2, MapAfterPacket DEF IInv
<1>4. /\ net' \in [Hashes -> Nat] /\ net'[k] = net[k] - 1
      /\ faults' \in [reused : Nat, resent : Nat, lost : Nat, answers : Nat]
      /\ faults'.reused = faults.reused /\ faults'.resent = faults.resent
      /\ faults'.lost = faults.lost
      /\ \A j \in Keys \ {k} : net'[j] = net[j]
      /\ net'[DefaultTag] - faults'.answers = net[DefaultTag] - faults.answers
  BY <1>1, <1>2, <1>3, DeliverEffect DEF IInv
<1>5. Counted'
  BY <1>2, <1>3, <1>4 DEF IInv, Counted
<1>6. Covered'
  <2>1. ASSUME NEW j \in DOMAIN active PROVE active'[j] <= net'[j] + faults'.lost
    <3>1. active[j] <= net[j] + faults.lost /\ j \in Keys /\ active[j] \in Nat /\ net[j] \in Nat
      BY <1>1, HashFacts DEF IInv, Covered
    <3>2. CASE j = k
      BY <1>1, <1>3, <1>4, <3>1, <3>2
    <3>3. CASE j # k
      BY <1>3, <1>4, <3>1, <3>3
    <3>4. QED
      BY <3>2, <3>3
  <2>2. QED
    BY <1>3, <2>1 DEF Covered
<1>7. Exact'
  <2>1. SUFFICES ASSUME faults.reused = 0, faults.resent = 0, NEW j \in Keys
                 PROVE  IF j \in DOMAIN active'
                        THEN completed[j] + 1 = sent[j] /\ net'[j] <= active'[j]
                        ELSE completed[j] = sent[j] /\ net'[j] = 0
    BY <1>2, <1>4 DEF Exact
  <2>2. IF j \in DOMAIN active
        THEN completed[j] + 1 = sent[j] /\ net[j] <= active[j]
        ELSE completed[j] = sent[j] /\ net[j] = 0
    BY <2>1 DEF IInv, Exact
  <2>3. CASE j = k
    <3>1. completed[k] + 1 = sent[k] /\ net[k] <= active[k]
      BY <1>3, <2>2, <2>3
    <3>2. net'[k] <= active'[k]
      BY <1>1, <1>3, <1>4, <3>1
    <3>3. QED
      BY <1>3, <2>3, <3>1, <3>2
  <2>4. CASE j # k
    BY <1>3, <1>4, <2>2, <2>4
  <2>5. QED
    BY <2>3, <2>4
<1>8. SlotNotLost'
  <2>1. \A j \in Hashes : completed[j] <= reported[j]
    BY <1>2 DEF IInv, Counted, SlotNotLost
  <2>2. QED
    BY <1>2, <2>1 DEF IInv, SlotNotLost
<1>9. Answered'
  <2>1. /\ net[DefaultTag] \in Nat /\ net'[DefaultTag] \in Nat /\ completed[DefaultTag] \in Nat
        /\ faults.answers \in Nat /\ faults'.answers \in Nat
    BY <1>1, <1>4, HashFacts DEF IInv, Counted
  <2>2. completed[DefaultTag] + net[DefaultTag] = faults.answers
    BY DEF IInv, Answered
  <2>3. completed[DefaultTag] + net'[DefaultTag] = faults'.answers
    BY <1>4, <2>1, <2>2
  <2>4. QED
    BY <1>2, <2>3 DEF Answered
<1>10. QED
  BY <1>5, <1>6, <1>7, <1>8, <1>9 DEF IInv

\* The packet that completes a message, or that no message waits for.
LEMMA CompleteStep ==
    ASSUME IInv, NEW k \in Hashes, NEW t, SinkRxComplete(k, t)
    PROVE  IInv'
<1>1. /\ net \in [Hashes -> Nat] /\ DOMAIN active \subseteq Keys
      /\ active \in [DOMAIN active -> Nat] /\ faults.lost \in Nat
      /\ completed \in [Hashes -> Nat] /\ reported \in [Hashes -> Nat] /\ sent \in [Keys -> Nat]
  BY DEF IInv, Counted
<1>2. /\ mode = "ns3" /\ net[k] > 0 /\ LeftAfter(k) <= 0
      /\ update_active_map(k) /\ Deliver(k, t)
      /\ latest' = k /\ mode' = "ret"
      /\ completed' = [completed EXCEPT ![k] = @ + 1]
      /\ UNCHANGED <<sent, reported>>
  BY DEF SinkRxComplete
<1>3. /\ DOMAIN active' = DOMAIN active \ {k}
      /\ active' \in [DOMAIN active' -> Nat]
      /\ \A j \in DOMAIN active \ {k} : active'[j] = active[j]
      /\ k \in DOMAIN active => active[k] <= 1
  BY <1>2, MapAfterPacket DEF IInv
<1>4. /\ net' \in [Hashes -> Nat]
      /\ faults' \in [reused : Nat, resent : Nat, lost : Nat, answers : Nat]
      /\ faults'.reused = faults.reused /\ faults'.resent = faults.resent
      /\ faults'.lost = faults.lost
      /\ \A j \in Keys \ {k} : net'[j] = net[j]
      /\ k \in Keys =>
           /\ net'[k] = net[k] - 1
           /\ net'[DefaultTag] - faults'.answers = net[DefaultTag] - faults.answers
      /\ k \notin Keys =>
           net'[DefaultTag] = net[DefaultTag] - 1 /\ faults'.answers = faults.answers
  BY <1>2, DeliverEffect DEF IInv
<1>5. /\ completed' \in [Hashes -> Nat] /\ completed'[k] = completed[k] + 1
      /\ \A j \in Hashes \ {k} : completed'[j] = completed[j]
  BY <1>1, <1>2
<1>6. Counted'
  BY <1>2, <1>3, <1>4, <1>5 DEF IInv, Counted
<1>7. Covered'
  <2>1. ASSUME NEW j \in DOMAIN active \ {k} PROVE active'[j] <= net'[j] + faults'.lost
    <3>1. active[j] <= net[j] + faults.lost /\ j \in Keys \ {k}
      BY <1>1 DEF IInv, Covered
    <3>2. QED
      BY <1>3, <1>4, <3>1
  <2>2. QED
    BY <1>3, <2>1 DEF Covered
<1>8. Exact'
  <2>1. SUFFICES ASSUME faults.reused = 0, faults.resent = 0, NEW j \in Keys
                 PROVE  IF j \in DOMAIN active'
                        THEN completed'[j] + 1 = sent[j] /\ net'[j] <= active'[j]
                        ELSE completed'[j] = sent[j] /\ net'[j] = 0
    BY <1>2, <1>4 DEF Exact
  <2>2. IF j \in DOMAIN active
        THEN completed[j] + 1 = sent[j] /\ net[j] <= active[j]
        ELSE completed[j] = sent[j] /\ net[j] = 0
    BY <2>1 DEF IInv, Exact
  <2>3. CASE j = k
    <3>1. k \in DOMAIN active /\ completed[k] + 1 = sent[k] /\ net[k] <= active[k]
      BY <1>2, <2>2, <2>3
    <3>2. net[k] = 1 /\ k \in Keys
      BY <1>1, <1>2, <1>3, <3>1, HashFacts
    <3>3. QED
      BY <1>3, <1>4, <1>5, <2>3, <3>1, <3>2
  <2>4. CASE j # k
    BY <1>2, <1>3, <1>4, <1>5, <2>2, <2>4, HashFacts
  <2>5. QED
    BY <2>3, <2>4
<1>9. SlotNotLost'
  <2>1. \A j \in Hashes : completed[j] <= reported[j]
    BY <1>1, <1>2 DEF IInv, SlotNotLost
  <2>2. QED
    BY <1>1, <1>2, <1>5, <2>1 DEF SlotNotLost
<1>10. Answered'
  <2>1. /\ net[DefaultTag] \in Nat /\ net'[DefaultTag] \in Nat /\ completed[DefaultTag] \in Nat
        /\ faults.answers \in Nat /\ faults'.answers \in Nat
    BY <1>1, <1>4, HashFacts DEF IInv, Counted
  <2>2. completed[DefaultTag] + net[DefaultTag] = faults.answers
    BY DEF IInv, Answered
  <2>3. completed'[DefaultTag] + net'[DefaultTag] = faults'.answers
    <3>1. CASE k \in Keys
      <4>1. completed'[DefaultTag] = completed[DefaultTag]
        BY <1>5, <3>1, HashFacts
      <4>2. QED
        BY <1>4, <2>1, <2>2, <3>1, <4>1
    <3>2. CASE k \notin Keys
      <4>1. completed'[DefaultTag] = completed[DefaultTag] + 1
        BY <1>5, <3>2 DEF Hashes
      <4>2. QED
        BY <1>4, <2>1, <2>2, <3>2, <4>1
    <3>3. QED
      BY <3>1, <3>2
  <2>4. QED
    BY <2>3 DEF Answered
<1>11. QED
  BY <1>6, <1>7, <1>8, <1>9, <1>10 DEF IInv

\* The faults of the network: a packet seen twice excuses Exact, a lost one
\* is counted by Covered.
LEMMA FaultStep ==
    ASSUME IInv, NEW k \in Keys, Resend(k) \/ Lose(k)
    PROVE  IInv'
<1>1. /\ net \in [Hashes -> Nat] /\ DOMAIN active \subseteq Keys
      /\ active \in [DOMAIN active -> Nat]
      /\ faults \in [reused : Nat, resent : Nat, lost : Nat, answers : Nat]
      /\ k \in Hashes /\ Keys \subseteq Hashes
  BY HashFacts DEF IInv, Counted
<1>2. UNCHANGED <<active, latest, mode, sent, completed, reported>> /\ mode = "ns3" /\ net[k] > 0
  BY DEF Resend, Lose, history
<1>3. SlotNotLost'
  BY <1>2 DEF IInv, SlotNotLost
<1>4. Answered'
  <2>1. net'[DefaultTag] = net[DefaultTag] /\ faults'.answers = faults.answers
    BY <1>1, HashFacts DEF Resend, Lose
  <2>2. QED
    BY <1>2, <2>1 DEF IInv, Answered
<1>5. CASE Resend(k)
  <2>1. net' = [net EXCEPT ![k] = @ + 1] /\ faults' = [faults EXCEPT !.resent = @ + 1]
    BY <1>5 DEF Resend
  <2>2. /\ net' \in [Hashes -> Nat] /\ \A j \in Keys : net'[j] >= net[j]
        /\ faults' \in [reused : Nat, resent : Nat, lost : Nat, answers : Nat]
        /\ faults'.lost = faults.lost /\ faults'.resent # 0
    BY <1>1, <2>1
  <2>3. Counted' /\ Exact'
    BY <1>2, <2>2 DEF IInv, Counted, Exact
  <2>4. ASSUME NEW j \in DOMAIN active PROVE active[j] <= net'[j] + faults'.lost
    <3>1. active[j] <= net[j] + faults.lost /\ j \in Keys /\ active[j] \in Nat
      BY <1>1 DEF IInv, Covered
    <3>2. net[j] \in Nat /\ net'[j] \in Nat /\ net'[j] >= net[j] /\ faults'.lost = faults.lost
      BY <1>1, <2>2, <3>1
    <3>3. faults.lost \in Nat
      BY <1>1
    <3>4. QED
      BY <3>1, <3>2, <3>3
  <2>5. Covered'
    BY <1>2, <2>4 DEF Covered
  <2>6. QED
    BY <1>3, <1>4, <2>3, <2>5 DEF IInv
<1>6. CASE Lose(k)
  <2>1. net' = [net EXCEPT ![k] = @ - 1] /\ faults' = [faults EXCEPT !.lost = @ + 1]
    BY <1>6 DEF Lose
  <2>2. /\ net' \in [Hashes -> Nat] /\ net'[k] = net[k] - 1
        /\ \A j \in Keys \ {k} : net'[j] = net[j]
        /\ faults' \in [reused : Nat, resent : Nat, lost : Nat, answers : Nat]
        /\ faults'.lost = faults.lost + 1
        /\ faults'.resent = faults.resent /\ faults'.reused = faults.reused
    BY <1>1, <1>2, <2>1
  <2>3. Counted'
    BY <1>2, <2>2 DEF IInv, Counted
  <2>4. ASSUME NEW j \in DOMAIN active PROVE active[j] <= net'[j] + faults'.lost
    <3>1. active[j] <= net[j] + faults.lost /\ j \in Keys /\ active[j] \in Nat
      BY <1>1 DEF IInv, Covered
    <3>2. net[j] \in Nat /\ net'[j] \in Nat /\ net'[j] >= net[j] - 1
      BY <1>1, <2>2, <3>1
    <3>3. faults.lost \in Nat /\ faults'.lost = faults.lost + 1
      BY <1>1, <2>2
    <3>4. QED
      BY <3>1, <3>2, <3>3
  <2>5. Covered'
    BY <1>2, <2>4 DEF Covered
  <2>6. Exact'
    <3>1. SUFFICES ASSUME faults.reused = 0, faults.resent = 0, NEW j \in Keys
                   PROVE  IF j \in DOMAIN active
                          THEN completed[j] + 1 = sent[j] /\ net'[j] <= active[j]
                          ELSE completed[j] = sent[j] /\ net'[j] = 0
      BY <1>2, <2>2 DEF Exact
    <3>2. IF j \in DOMAIN active
          THEN completed[j] + 1 = sent[j] /\ net[j] <= active[j]
          ELSE completed[j] = sent[j] /\ net[j] = 0
      BY <3>1 DEF IInv, Exact
    <3>3. CASE j \in DOMAIN active
      <4>1. net[j] \in Nat /\ active[j] \in Nat /\ net'[j] <= net[j]
        BY <1>1, <2>2, <3>3
      <4>2. net'[j] \in Nat
        BY <1>1, <2>2
      <4>3. QED
        BY <3>2, <3>3, <4>1, <4>2
    <3>4. CASE j \notin DOMAIN active
      BY <1>2, <2>2, <3>2, <3>4
    <3>5. QED
      BY <3>3, <3>4
  <2>7. QED
    BY <1>3, <1>4, <2>3, <2>5, <2>6 DEF IInv
<1>7. QED
  BY <1>5, <1>6

\* LGS takes what the slot holds.
LEMMA ReturnStep ==
    ASSUME IInv, Return
    PROVE  IInv'
<1>1. /\ mode = "ret" /\ mode' = "lgs"
      /\ reported' = IF latest = None THEN reported ELSE [reported EXCEPT ![latest] = @ + 1]
      /\ UNCHANGED <<active, net, faults, sent, completed>>
  BY DEF Return, netVars
<1>2. completed \in [Hashes -> Nat] /\ reported \in [Hashes -> Nat]
  BY DEF IInv, Counted
<1>3. reported' \in [Hashes -> Nat]
  <2>1. CASE latest = None
    BY <1>1, <1>2, <2>1
  <2>2. CASE latest # None /\ latest \in Hashes
    BY <1>1, <1>2, <2>2
  <2>3. CASE latest # None /\ latest \notin Hashes
    <3>1. reported' = reported
      BY <1>1, <1>2, <2>3
    <3>2. QED
      BY <1>2, <3>1
  <2>4. QED
    BY <2>1, <2>2, <2>3
<1>4. UNCHANGED <<active, net, faults, sent, completed>>
  BY <1>1
<1>5. Counted'
  BY <1>4, <1>3 DEF IInv, Counted
<1>6. Covered'
  BY <1>1 DEF IInv, Covered
<1>7. Exact'
  BY <1>1 DEF IInv, Exact
<1>8. Counted' /\ Covered' /\ Exact' /\ Answered'
  BY <1>1, <1>5, <1>6, <1>7 DEF IInv, Answered
<1>9. SlotNotLost'
  <2>1. ASSUME NEW k \in Hashes PROVE completed[k] <= reported'[k]
    <3>1. completed[k] <= reported[k] + (IF latest = k THEN 1 ELSE 0)
      BY <1>1 DEF IInv, SlotNotLost
    <3>2. CASE latest = k
      <4>1. latest # None
        BY <3>2, HashFacts
      <4>2. reported'[k] = reported[k] + 1
        BY <1>1, <1>2, <3>2, <4>1
      <4>3. QED
        BY <1>2, <3>1, <3>2, <4>2
    <3>3. CASE latest # k
      <4>1. reported'[k] = reported[k]
        BY <1>1, <1>2, <3>3
      <4>2. QED
        BY <1>2, <3>1, <3>3, <4>1
    <3>4. QED
      BY <3>2, <3>3
  <2>2. QED
    BY <1>1, <1>2, <1>3, <2>1 DEF SlotNotLost
<1>10. QED
  BY <1>8, <1>9 DEF IInv

\* The runs of the network begin and end, and time passes.
LEMMA ClockStep ==
    ASSUME IInv,
           \/ \E d \in Delays : SimulateUntil(d)
           \/ SimulateForever \/ StopFires \/ RunDry \/ Idle \/ UNCHANGED vars
    PROVE  IInv'
<1>1. UNCHANGED <<active, net, faults, sent, completed, reported>>
  BY DEF SimulateUntil, SimulateForever, ns3_simulate_until, ns3_simulate_forever,
         Simulate, StopFires, RunDry, Idle, vars, netVars, history
<1>2. \/ mode # "ret" /\ mode' # "ret"
      \/ mode # "ret" /\ UNCHANGED latest
      \/ UNCHANGED <<mode, latest>>
  <2>1. CASE SimulateForever \/ \E d \in Delays : SimulateUntil(d)
    <3>1. mode = "lgs" /\ mode' = "ns3"
      BY <2>1 DEF SimulateUntil, SimulateForever, ns3_simulate_until, ns3_simulate_forever, Simulate
    <3>2. QED
      BY <3>1
  <2>2. CASE StopFires \/ RunDry
    <3>1. mode = "ns3" /\ UNCHANGED latest
      BY <2>2 DEF StopFires, RunDry
    <3>2. QED
      BY <3>1
  <2>3. CASE Idle \/ UNCHANGED vars
    BY <2>3 DEF Idle, vars
  <2>4. QED
    BY <2>1, <2>2, <2>3
<1>3. Counted' /\ Covered' /\ Exact' /\ Answered'
  BY <1>1 DEF IInv, Counted, Covered, Exact, Answered
<1>4. SlotNotLost'
  <2>1. ASSUME NEW k \in Hashes
        PROVE  completed[k] <= reported[k] + (IF mode' = "ret" /\ latest' = k THEN 1 ELSE 0)
    <3>1. completed[k] <= reported[k] + (IF mode = "ret" /\ latest = k THEN 1 ELSE 0)
      BY DEF IInv, SlotNotLost
    <3>2. completed[k] \in Nat /\ reported[k] \in Nat
      BY DEF IInv, Counted
    <3>3. QED
      BY <1>2, <3>1, <3>2
  <2>2. QED
    BY <1>1, <2>1 DEF SlotNotLost
<1>5. QED
  BY <1>3, <1>4 DEF IInv

-----------------------------------------------------------------------------
(* The theorems.                                                           *)

\* IInv holds at the start and every step of LGS and of the network keeps it.
THEOREM Inductive == Spec => []IInv
<1>1. HelperInit => IInv
  <2> SUFFICES ASSUME HelperInit PROVE IInv
    OBVIOUS
  <2>1. DOMAIN active = {} /\ active \in [DOMAIN active -> Nat]
    BY DEF HelperInit
  <2>2. faults \in [reused : Nat, resent : Nat, lost : Nat, answers : Nat]
    BY DEF HelperInit, NoFaults
  <2>3. QED
    BY <2>1, <2>2, HashFacts DEF HelperInit, IInv, Counted, Covered, Exact, SlotNotLost, Answered, NoFaults
<1>2. IInv /\ [Next]_vars => IInv'
  <2> SUFFICES ASSUME IInv, [Next]_vars PROVE IInv'
    OBVIOUS
  <2>1. CASE \E k \in Keys, p \in Sizes : Schedule(k, p)
    BY <2>1, ScheduleStep
  <2>2. CASE Network
    <3>1. CASE \E k \in Hashes, t \in 0 .. Latest(Horizon, now + 1) :
                    SinkRxPartial(k, t) \/ SinkRxComplete(k, t)
      BY <3>1, PartialStep, CompleteStep
    <3>2. CASE StopFires \/ RunDry
      BY <3>2, ClockStep
    <3>3. CASE \E k \in Keys : Resend(k) \/ Lose(k)
      BY <3>3, FaultStep
    <3>4. QED
      BY <2>2, <3>1, <3>2, <3>3 DEF Network
  <2>3. CASE Return
    BY <2>3, ReturnStep
  <2>4. CASE \/ \E d \in Delays : SimulateUntil(d)
             \/ SimulateForever \/ Idle \/ UNCHANGED vars
    BY <2>4, ClockStep
  <2>5. QED
    BY <2>1, <2>2, <2>3, <2>4 DEF Next
<1>3. QED
  BY <1>1, <1>2, PTL DEF Spec

\* Whatever is taken over, repeated or lost: a message never waits for more
\* packets than are in flight and lost.
THEOREM MessagesCovered == Spec => []Covered
BY Inductive, PTL DEF IInv

\* One global slot is enough: no message that is complete is overwritten
\* before LGS has it.
THEOREM SlotSuffices == Spec => []SlotNotLost
BY Inductive, PTL DEF IInv

\* As long as no key is taken over and no packet repeated, messages are
\* completed one for one, each by its last packet. What LGS is given beside
\* them are the answers of NICs, each of them.
THEOREM CompleteMeansReceived == Spec => []ReceivedFully
<1>1. IInv => ReceivedFully
  <2>1. ASSUME IInv, faults.reused = 0, faults.resent = 0, NEW k \in Keys
        PROVE  completed[k] <= sent[k] /\ (completed[k] = sent[k] => net[k] = 0)
    <3>1. completed[k] \in Nat /\ sent[k] \in Nat
      BY <2>1, HashFacts DEF IInv, Counted
    <3>2. IF k \in DOMAIN active
          THEN completed[k] + 1 = sent[k] /\ net[k] <= active[k]
          ELSE completed[k] = sent[k] /\ net[k] = 0
      BY <2>1 DEF IInv, Exact
    <3>3. QED
      BY <3>1, <3>2
  <2>2. QED
    BY <2>1 DEF IInv, Answered, ReceivedFully
<1>2. QED
  BY <1>1, Inductive, PTL

=============================================================================

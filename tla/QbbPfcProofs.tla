---------------------------- MODULE QbbPfcProofs ----------------------------
(***************************************************************************)
(* For any ports, NICs, classes, packets and times: every pause has its    *)
(* end, the packets queued are counted for the group they came by, and     *)
(* with the static threshold a class that is full is paused until it is    *)
(* not, by whichever device the switch checks it. So a class is over its   *)
(* threshold by what a link brings in a tick at most, and where headroom   *)
(* and buffer are laid out for that no packet of it is refused.            *)
(***************************************************************************)
EXTENDS QbbPfc, BroadcomMmuProofs

\* The frames there are: the one that ends a pause always names class 0.
Frames ==
    {f \in [class : AllClasses, time : {0, PauseTime}] : f.time = 0 => f.class = 0}

\* What the induction needs of types; the timers are any integers.
Shape ==
    /\ setup \in Setups
    /\ paused \in [Senders \X AllClasses -> BOOLEAN]
    /\ resume \in [Senders \X AllClasses -> Int]
    /\ frames \in [Senders -> Seq(Frames)]

-----------------------------------------------------------------------------
(* The frames of a check.                                                  *)

\* A set of classes is finite.
LEMMA ClassesFinite ==
    ASSUME NEW S \in SUBSET AllClasses
    PROVE  IsFiniteSet(S) /\ Cardinality(S) \in Nat
<1>1. 0 \in Int /\ 6 \in Int
  OBVIOUS
<1>2. IsFiniteSet(0..6)
  BY <1>1, FS_Interval
<1>3. S \in SUBSET (0..6)
  BY MmuAssumption DEF AllClasses
<1>4. IsFiniteSet(S)
  BY <1>2, <1>3, FS_Subset
<1>5. QED
  BY <1>4, FS_CardinalityType

\* Every class of a set gets one frame.
LEMMA PauseFrames ==
    ASSUME NEW S \in SUBSET AllClasses
    PROVE  /\ Pauses(S) \in Seq(Frames)
           /\ \A i \in DOMAIN Pauses(S) : Pauses(S)[i].time = PauseTime
           /\ \A c \in S : \E i \in DOMAIN Pauses(S) : Pauses(S)[i] = Frame(c, PauseTime)
<1> DEFINE n == Cardinality(S)
           f == SetToSeq(S)
<1>1. IsFiniteSet(S) /\ n \in Nat
  BY ClassesFinite
<1>2. IsFiniteSet(1..n) /\ Cardinality(1..n) = n
  BY <1>1, FS_Interval
<1>3. ExistsBijection(1..n, S)
  BY <1>1, <1>2, FS_SameCardinalityBij
<1>4. \E g \in [1..n -> S] : IsInjective(g)
  BY <1>3 DEF ExistsBijection, Bijection, Injection
<1>5. f \in [1..n -> S] /\ IsInjective(f)
  BY <1>4 DEF SetToSeq
<1>6. f \in Injection(1..n, S)
  BY <1>5 DEF Injection
<1>7. f \in Surjection(1..n, S)
  BY <1>1, <1>2, <1>6, FS_Injection
<1>8. \A c \in S : \E i \in 1..n : f[i] = c
  BY <1>7 DEF Surjection
<1>9. Pauses(S) = [i \in 1..n |-> Frame(f[i], PauseTime)]
  BY DEF Pauses
<1> HIDE DEF n, f
<1>10. \A i \in 1..n : Frame(f[i], PauseTime) \in Frames
  BY <1>5, PfcAssumption DEF Frame, Frames
<1>11. QED
  BY <1>1, <1>8, <1>9, <1>10 DEF Frame

\* A frame on its way to the NIC at p will pause the class c.
Announced(p, c) ==
    \E i \in DOMAIN frames[p] : frames[p][i].class = c /\ frames[p][i].time > 0

\* A check pauses classes that there are.
LEMMA PausesInRange ==
    ASSUME NEW p, NEW q \in Classes
    PROVE  /\ GetPauseClasses(p, q)' \in SUBSET AllClasses
           /\ GetPauseClasses(p, q) \in SUBSET AllClasses
  BY DEF GetPauseClasses, AllClasses

\* A check sends frames behind those on their way, and one for each class
\* that is to be paused.
LEMMA CheckSends ==
    ASSUME Shape, NEW out, NEW p \in Senders, NEW q \in Classes, NEW kept,
           CheckQueueFull(out, p, q, kept)
    PROVE  /\ setup' = setup
           /\ frames' \in [Senders -> Seq(Frames)]
           /\ \A s \in Senders, c \in AllClasses : Announced(s, c) => Announced(s, c)'
           /\ \A c \in GetPauseClasses(p, q)' : Announced(p, c)'
<1> DEFINE S == GetPauseClasses(p, q)'
           off == (pauseRemote[<<p, q>>] \/ S # {}) /\ GetResumeClasses(p, q)'
           end == IF off THEN <<Frame(0, 0)>> ELSE << >>
           old == frames[p]
           new == old \o Pauses(S) \o end
<1>1. setup' = setup /\ frames' = [frames EXCEPT ![p] = new]
  BY DEF CheckQueueFull
<1>2. S \in SUBSET AllClasses
  BY PausesInRange
<1>3. end \in Seq(Frames)
  <2>1. Frame(0, 0) \in Frames
    BY DEF Frames, Frame, AllClasses
  <2>2. <<Frame(0, 0)>> \in Seq(Frames) /\ << >> \in Seq(Frames)
    BY <2>1
  <2> HIDE DEF off
  <2>3. QED
    BY <2>2
<1>4. /\ Pauses(S) \in Seq(Frames)
      /\ \A c \in S : \E i \in DOMAIN Pauses(S) : Pauses(S)[i] = Frame(c, PauseTime)
  BY <1>2, PauseFrames
<1> DEFINE mid == Pauses(S)
<1>5. old \in Seq(Frames) /\ frames \in [Senders -> Seq(Frames)]
  BY DEF Shape
<1>6. mid \in Seq(Frames) /\ new = old \o mid \o end
  BY <1>4
<1>7. \A c \in S : \E i \in DOMAIN mid : mid[i].class = c /\ mid[i].time > 0
  <2>1. \A c : Frame(c, PauseTime).class = c /\ Frame(c, PauseTime).time > 0
    BY PfcAssumption DEF Frame
  <2>2. QED
    BY <1>4, <2>1
<1> HIDE DEF S, off, end, mid, new
<1>8. old \o mid \in Seq(Frames) /\ new \in Seq(Frames)
  BY <1>3, <1>5, <1>6
<1>9. /\ \A i \in DOMAIN old : i \in DOMAIN (old \o mid) /\ (old \o mid)[i] = old[i]
      /\ \A i \in DOMAIN mid : Len(old) + i \in DOMAIN (old \o mid) /\ (old \o mid)[Len(old) + i] = mid[i]
  BY <1>5, <1>6
<1>10. \A i \in DOMAIN (old \o mid) : i \in DOMAIN new /\ new[i] = (old \o mid)[i]
  BY <1>3, <1>6, <1>8
<1>11. frames' \in [Senders -> Seq(Frames)] /\ frames'[p] = new
  BY <1>1, <1>5, <1>8
<1>12. \A s \in Senders, c \in AllClasses : Announced(s, c) => Announced(s, c)'
  <2>1. SUFFICES ASSUME NEW s \in Senders, NEW c \in AllClasses, Announced(s, c)
                 PROVE  \E i \in DOMAIN frames'[s] : frames'[s][i].class = c /\ frames'[s][i].time > 0
    BY DEF Announced
  <2>2. CASE s = p
    <3>1. PICK i \in DOMAIN old : old[i].class = c /\ old[i].time > 0
      BY <2>1, <2>2 DEF Announced
    <3>2. i \in DOMAIN new /\ new[i] = old[i]
      BY <1>9, <1>10
    <3>3. QED
      BY <1>11, <2>2, <3>1, <3>2
  <2>3. CASE s # p
    <3>1. frames'[s] = frames[s]
      BY <1>1, <1>5, <2>3
    <3>2. QED
      BY <2>1, <3>1 DEF Announced
  <2>4. QED
    BY <2>2, <2>3
<1>13. \A c \in S : Announced(p, c)'
  <2>1. SUFFICES ASSUME NEW c \in S
                 PROVE  \E i \in DOMAIN frames'[p] : frames'[p][i].class = c /\ frames'[p][i].time > 0
    BY DEF Announced
  <2>2. PICK i \in DOMAIN mid : mid[i].class = c /\ mid[i].time > 0
    BY <1>7
  <2>3. Len(old) + i \in DOMAIN new /\ new[Len(old) + i] = mid[i]
    BY <1>9, <1>10
  <2>4. QED
    BY <1>11, <2>2, <2>3
<1>14. QED
  BY <1>1, <1>11, <1>12, <1>13 DEF S

-----------------------------------------------------------------------------
(* The inductive invariant.                                                *)

Counters ==
    /\ recheck \in [Checks -> Int]
    /\ ingressPG \in [Groups -> Nat]
    /\ queue \in [Groups -> Seq(Packets)]

Basic == Shape /\ Counters /\ PausedHasEnd

\* Some device of the switch will check the class again before its pause is
\* over, or has done so and the frame that prolongs the pause is on its way.
Renewed(p, c) ==
    \E out \in Ports :
        /\ recheck[<<out, p, c>>] \in 0..(PauseTime \div 2)
        /\ \/ Announced(p, c)
           \/ paused[<<p, c>>] /\ recheck[<<out, p, c>>] < resume[<<p, c>>]

\* That a full class is paused is not inductive: the pause runs out by itself.
Guarded ==
    ~setup.dynamicth =>
        \A p \in Senders, c \in Classes \ {0} :
            ingressPG[<<p, c>>] > pg_shared_limit_cell => Renewed(p, c)

\* A pause has a middle, before its end.
LEMMA HalfPause ==
    /\ PauseTime \div 2 \in Nat /\ PauseTime \div 2 >= 1
    /\ PauseTime \div 2 < PauseTime /\ PauseTime \in Nat
  BY PfcAssumption

\* Ports, senders and classes are what the tables are indexed by.
LEMMA Domains ==
    /\ \A p \in Senders, c \in AllClasses : <<p, c>> \in Senders \X AllClasses
    /\ \A out \in Ports, p \in Senders, c \in Classes : <<out, p, c>> \in Checks
    /\ \A p \in Ports, c \in Classes : <<p, c>> \in Groups
    /\ \A p \in Senders : p \in Ports
    /\ \A c \in Classes : c \in AllClasses
  BY PfcAssumption DEF Checks, Groups, AllClasses

\* A full class is found by the check, whatever the check of its port says.
LEMMA CheckFinds ==
    ASSUME NEW p, NEW c \in Classes,
           ~setup'.dynamicth, ingressPG'[<<p, c>>] > pg_shared_limit_cell,
           ingressPG'[<<p, c>>] \in Nat
    PROVE  c \in GetPauseClasses(p, c)' /\ ~GetResumeClasses(p, c)'
<1>1. c \in GetPauseClasses(p, c)'
  BY DEF GetPauseClasses, AllClasses
<1>2. ~(ingressPG'[<<p, c>>] < pg_shared_limit_cell_off)
  BY PfcAssumption
<1>3. ~GetResumeClasses(p, c)'
  BY <1>2 DEF GetResumeClasses
<1>4. QED
  BY <1>1, <1>3

\* CheckQueueFull after a packet has come in for the group it is called for,
\* or nothing has.
LEMMA CheckStep ==
    ASSUME Basic, NEW out \in Ports, NEW p \in Senders, NEW q \in Classes, NEW kept \in Int,
           CheckQueueFull(out, p, q, kept),
           UNCHANGED <<paused, resume>>,
           ingressPG' \in [Groups -> Nat],
           queue' \in [Groups -> Seq(Packets)],
           \A g \in Groups \ {<<p, q>>} : ingressPG'[g] = ingressPG[g]
    PROVE  Basic' /\ (Guarded => Guarded')
<1>1. /\ setup' = setup
      /\ frames' \in [Senders -> Seq(Frames)]
      /\ \A s \in Senders, c \in AllClasses : Announced(s, c) => Announced(s, c)'
      /\ \A c \in GetPauseClasses(p, q)' : Announced(p, c)'
  BY CheckSends DEF Basic
<1> DEFINE S == GetPauseClasses(p, q)'
           off == (pauseRemote[<<p, q>>] \/ S # {}) /\ GetResumeClasses(p, q)'
           next == IF off THEN None ELSE IF S # {} THEN PauseTime \div 2 ELSE kept
<1>2. recheck' = [recheck EXCEPT ![<<out, p, q>>] = next]
  BY DEF CheckQueueFull
<1>3. next \in Int
  BY HalfPause DEF None
<1>4. <<out, p, q>> \in Checks /\ recheck \in [Checks -> Int]
  BY Domains DEF Basic, Counters
<1>5. /\ recheck' \in [Checks -> Int] /\ recheck'[<<out, p, q>>] = next
      /\ \A x \in Checks \ {<<out, p, q>>} : recheck'[x] = recheck[x]
  <2> HIDE DEF next
  <2>1. QED
    BY <1>2, <1>3, <1>4
<1>6. Shape' /\ Counters' /\ PausedHasEnd'
  BY <1>1, <1>5 DEF Basic, Shape, Counters, PausedHasEnd
<1>7. ASSUME Guarded, ~setup'.dynamicth, NEW s \in Senders, NEW c \in Classes \ {0},
             ingressPG'[<<s, c>>] > pg_shared_limit_cell
      PROVE  Renewed(s, c)'
  <2>1. CASE s = p /\ c = q
    <3>1. q \in S /\ ~off
      <4>1. <<p, q>> \in Groups
        BY Domains
      <4>2. q \in GetPauseClasses(p, q)' /\ ~GetResumeClasses(p, q)'
        BY <1>7, <2>1, <4>1, CheckFinds
      <4>3. QED
        BY <4>2
    <3>2. next = PauseTime \div 2
      <4>1. S # {}
        BY <3>1
      <4> HIDE DEF off, S
      <4>2. QED
        BY <3>1, <4>1
    <3>3. recheck'[<<out, s, c>>] \in 0..(PauseTime \div 2)
      <4> HIDE DEF next
      <4>1. QED
        BY <1>5, <2>1, <3>2, HalfPause
    <3>4. Announced(s, c)'
      BY <1>1, <2>1, <3>1
    <3>5. QED
      BY <3>3, <3>4 DEF Renewed
  <2>2. CASE ~(s = p /\ c = q)
    <3>1. <<s, c>> \in Groups /\ <<s, c>> # <<p, q>>
      BY <2>2, Domains
    <3>2. ingressPG[<<s, c>>] > pg_shared_limit_cell
      BY <1>7, <3>1
    <3>3. Renewed(s, c)
      BY <1>1, <1>7, <3>2 DEF Guarded
    <3>4. PICK o \in Ports :
            /\ recheck[<<o, s, c>>] \in 0..(PauseTime \div 2)
            /\ \/ Announced(s, c)
               \/ paused[<<s, c>>] /\ recheck[<<o, s, c>>] < resume[<<s, c>>]
      BY <3>3 DEF Renewed
    <3>5. <<o, s, c>> \in Checks /\ <<o, s, c>> # <<out, p, q>>
      BY <2>2, Domains
    <3>6. recheck'[<<o, s, c>>] = recheck[<<o, s, c>>]
      <4> HIDE DEF next
      <4>1. QED
        BY <1>5, <3>5
    <3>7. Announced(s, c) => Announced(s, c)'
      BY <1>1, Domains
    <3>8. QED
      BY <3>4, <3>6, <3>7 DEF Renewed
  <2>3. QED
    BY <2>1, <2>2
<1>8. Guarded => Guarded'
  BY <1>7 DEF Guarded
<1>9. QED
  BY <1>6, <1>8 DEF Basic

\* A step that leaves timers and frames, and lets no group grow.
LEMMA QuietStep ==
    ASSUME Basic, UNCHANGED <<setup, recheck, paused, resume, frames>>,
           ingressPG' \in [Groups -> Nat],
           queue' \in [Groups -> Seq(Packets)]
    PROVE  /\ Basic'
           /\ Guarded /\ (\A g \in Groups : ingressPG'[g] <= ingressPG[g]) => Guarded'
<1>1. Basic'
  BY DEF Basic, Shape, Counters, PausedHasEnd
<1>2. ASSUME Guarded, \A g \in Groups : ingressPG'[g] <= ingressPG[g],
             ~setup'.dynamicth, NEW s \in Senders, NEW c \in Classes \ {0},
             ingressPG'[<<s, c>>] > pg_shared_limit_cell
      PROVE  Renewed(s, c)'
  <2>1. /\ <<s, c>> \in Groups /\ ingressPG[<<s, c>>] \in Nat /\ ingressPG'[<<s, c>>] \in Nat
        /\ pg_shared_limit_cell \in Nat
    BY Domains, PfcAssumption DEF Basic, Counters
  <2>2. ingressPG[<<s, c>>] > pg_shared_limit_cell
    BY <1>2, <2>1
  <2>3. Renewed(s, c)
    BY <1>2, <2>2 DEF Guarded
  <2>4. QED
    BY <2>3 DEF Renewed, Announced
<1>3. QED
  BY <1>1, <1>2 DEF Guarded

-----------------------------------------------------------------------------
(* The actions.                                                            *)

\* A packet that is handed to an egress device, whatever becomes of it.
LEMMA ForwardStep ==
    ASSUME Basic, NEW p \in Senders, Forward(p)
    PROVE  Basic' /\ (Guarded => Guarded')
<1>1. PICK pkt \in Packet :
        /\ \/ /\ UpdateIngressAdmission(p, pkt.class, pkt.size)
              /\ queue' = [queue EXCEPT ![<<pkt.out, pkt.class>>] =
                               Append(@, Element(p, pkt.size))]
           \/ Passes(p, pkt.class, pkt.size)
           \/ UNCHANGED <<ingressVars, queue>>
        /\ CheckQueueFull(pkt.out, p, pkt.class, recheck[<<pkt.out, p, pkt.class>>])
        /\ UNCHANGED <<egressVars, paused, resume, sent>>
  BY DEF Forward
<1>2. /\ pkt.class \in Classes /\ pkt.out \in Ports /\ pkt.size \in PacketSizes
      /\ pkt.size \in Nat
  BY MmuAssumption DEF Packet
<1>3. /\ ingressPG \in [Groups -> Nat] /\ recheck \in [Checks -> Int]
      /\ queue \in [Groups -> Seq(Packets)]
  BY DEF Basic, Counters
<1>4. /\ <<p, pkt.class>> \in Groups /\ <<pkt.out, pkt.class>> \in Groups
      /\ recheck[<<pkt.out, p, pkt.class>>] \in Int
  BY <1>2, <1>3, Domains
<1>5. /\ ingressPG' \in [Groups -> Nat]
      /\ \A g \in Groups \ {<<p, pkt.class>>} : ingressPG'[g] = ingressPG[g]
  <2>1. CASE UpdateIngressAdmission(p, pkt.class, pkt.size)
    <3>1. ingressPG' = [ingressPG EXCEPT ![<<p, pkt.class>>] = @ + pkt.size]
      BY <2>1 DEF UpdateIngressAdmission
    <3>2. QED
      BY <1>2, <1>3, <1>4, <3>1
  <2>2. CASE Passes(p, pkt.class, pkt.size) \/ UNCHANGED <<ingressVars, queue>>
    <3>1. ingressPG' = ingressPG
      BY <2>2 DEF Passes, ingressVars
    <3>2. QED
      BY <1>3, <3>1
  <2>3. QED
    BY <1>1, <2>1, <2>2
<1>6. queue' \in [Groups -> Seq(Packets)]
  <2>1. CASE queue' = [queue EXCEPT ![<<pkt.out, pkt.class>>] = Append(@, Element(p, pkt.size))]
    <3>1. Element(p, pkt.size) \in Packets
      BY <1>2, Domains DEF Element, Packets
    <3> HIDE DEF Element
    <3>2. QED
      BY <1>3, <1>4, <2>1, <3>1
  <2>2. CASE queue' = queue
    BY <1>3, <2>2
  <2>3. QED
    BY <1>1, <2>1, <2>2 DEF Passes
<1>7. UNCHANGED <<paused, resume>>
  BY <1>1
<1>8. QED
  BY <1>1, <1>2, <1>4, <1>5, <1>6, <1>7, CheckStep

\* A packet that is sent lets its group shrink.
LEMMA TransmitStep ==
    ASSUME Basic, NEW out \in Ports, NEW q \in Classes, Transmit(out, q)
    PROVE  Basic' /\ (Guarded /\ Accounted => Guarded')
<1> DEFINE e == Head(queue[<<out, q>>])
<1>1. /\ ingressPG \in [Groups -> Nat]
      /\ queue \in [Groups -> Seq(Packets)]
      /\ <<out, q>> \in Groups
  BY Domains DEF Basic, Counters
<1>2. /\ queue[<<out, q>>] # << >>
      /\ ingressPG' = [ingressPG EXCEPT ![<<e.in, q>>] = Word(@ - e.size)]
      /\ queue' = [queue EXCEPT ![<<out, q>>] = Tail(@)]
      /\ UNCHANGED <<setup, recheck, paused, resume, frames>>
  BY DEF Transmit, RemoveFromIngressAdmission, pfcVars
<1>3. /\ queue[<<out, q>>] \in Seq(Packets)
      /\ e \in Packets
  BY <1>1, <1>2
<1>4. e.size \in Nat /\ <<e.in, q>> \in Groups
  BY <1>3, MmuAssumption, Domains DEF Packets
<1>5. queue' \in [Groups -> Seq(Packets)]
  BY <1>1, <1>2, <1>3
<1>6. \A n \in Int : Word(n) \in Nat
  BY MmuAssumption DEF Word
<1>7. \A n \in Nat : Word(n) <= n
  BY MmuAssumption DEF Word
<1> HIDE DEF e
<1>8. ingressPG[<<e.in, q>>] \in Nat /\ ingressPG[<<e.in, q>>] - e.size \in Int
  BY <1>1, <1>4
<1>9. Word(ingressPG[<<e.in, q>>] - e.size) \in Nat
  BY <1>6, <1>8
<1>10. ingressPG' \in [Groups -> Nat]
  BY <1>1, <1>2, <1>4, <1>9
<1>11. Accounted => \A g \in Groups : ingressPG'[g] <= ingressPG[g]
  <2> SUFFICES ASSUME Accounted, NEW g \in Groups PROVE ingressPG'[g] <= ingressPG[g]
    OBVIOUS
  <2>1. e.size <= ingressPG[<<e.in, q>>]
    <3>1. Head(queue[<<out, q>>]).size <= ingressPG[<<Head(queue[<<out, q>>]).in, q>>]
      BY <1>1, <1>2 DEF Accounted
    <3>2. QED
      BY <3>1 DEF e
  <2>2. ingressPG[<<e.in, q>>] - e.size \in Nat
    BY <1>4, <1>8, <2>1
  <2>3. Word(ingressPG[<<e.in, q>>] - e.size) <= ingressPG[<<e.in, q>>] - e.size
    BY <1>7, <2>2
  <2>4. Word(ingressPG[<<e.in, q>>] - e.size) <= ingressPG[<<e.in, q>>]
    BY <1>4, <1>8, <1>9, <2>3
  <2>5. CASE g = <<e.in, q>>
    <3>1. ingressPG'[g] = Word(ingressPG[<<e.in, q>>] - e.size)
      BY <1>1, <1>2, <1>4, <2>5
    <3>2. QED
      BY <2>4, <2>5, <3>1
  <2>6. CASE g # <<e.in, q>>
    <3>1. ingressPG'[g] = ingressPG[g] /\ ingressPG[g] \in Nat
      BY <1>1, <1>2, <1>4, <2>6
    <3>2. QED
      BY <3>1
  <2>7. QED
    BY <2>5, <2>6
<1>12. QED
  BY <1>2, <1>5, <1>10, <1>11, QuietStep

\* A check that is due sets the next one, if the class is still full.
LEMMA RecheckStep ==
    ASSUME Basic, NEW out \in Ports, NEW p \in Senders, NEW q \in Classes, Recheck(out, p, q)
    PROVE  Basic' /\ (Guarded => Guarded')
<1>1. /\ CheckQueueFull(out, p, q, None) /\ None \in Int
      /\ UNCHANGED <<paused, resume, ingressPG, queue>>
  BY DEF Recheck, None, mmuVars, ingressVars
<1>2. /\ ingressPG' \in [Groups -> Nat]
      /\ queue' \in [Groups -> Seq(Packets)]
      /\ \A g \in Groups : ingressPG'[g] = ingressPG[g]
  BY <1>1 DEF Basic, Counters
<1>3. QED
  BY <1>1, <1>2, CheckStep

\* A NIC that sends does not touch the switch.
LEMMA SendPacketStep ==
    ASSUME Basic, (\E p \in Senders : SendPacket(p)) \/ UNCHANGED vars
    PROVE  Basic' /\ (Guarded => Guarded')
<1>1. UNCHANGED <<setup, recheck, paused, resume, frames, ingressPG, queue>>
  <2>1. CASE \E p \in Senders : SendPacket(p)
    BY <2>1 DEF SendPacket, mmuVars, ingressVars
  <2>2. CASE UNCHANGED vars
    BY <2>2 DEF vars, pfcVars, mmuVars, ingressVars
  <2>3. QED
    BY <2>1, <2>2
<1>2. /\ ingressPG' \in [Groups -> Nat]
      /\ queue' \in [Groups -> Seq(Packets)]
  BY <1>1 DEF Basic, Counters
<1>3. ASSUME NEW g \in Groups PROVE ingressPG'[g] <= ingressPG[g]
  <2>1. ingressPG'[g] = ingressPG[g] /\ ingressPG[g] \in Nat
    BY <1>1 DEF Basic, Counters
  <2>2. QED
    BY <2>1
<1>4. QED
  BY <1>1, <1>2, <1>3, QuietStep

\* The frame that arrives sets the timer beyond any check that is due.
LEMMA ReceivePauseStep ==
    ASSUME Basic, NEW p \in Senders, ReceivePause(p)
    PROVE  Basic' /\ (Guarded => Guarded')
<1> DEFINE f == Head(frames[p])
<1>1. /\ frames[p] # << >>
      /\ frames' = [frames EXCEPT ![p] = Tail(@)]
      /\ paused' = [paused EXCEPT ![<<p, f.class>>] = f.time > 0]
      /\ resume' = [resume EXCEPT ![<<p, f.class>>] = IF f.time > 0 THEN f.time ELSE None]
      /\ UNCHANGED <<setup, recheck, ingressPG, queue>>
  BY DEF ReceivePause, mmuVars, ingressVars
<1>2. /\ setup \in Setups /\ paused \in [Senders \X AllClasses -> BOOLEAN]
      /\ resume \in [Senders \X AllClasses -> Int] /\ frames \in [Senders -> Seq(Frames)]
  BY DEF Basic, Shape
<1>3. f \in Frames /\ frames[p] \in Seq(Frames)
  BY <1>1, <1>2
<1>4. f.class \in AllClasses /\ f.time \in {0, PauseTime} /\ f.time \in Int
  BY <1>3, HalfPause DEF Frames
<1> DEFINE time == IF f.time > 0 THEN f.time ELSE None
           on == f.time > 0
<1>5. time \in Int /\ on \in BOOLEAN /\ (on <=> time # None)
  BY <1>4 DEF None
<1>6. on => time = PauseTime
  BY <1>4
<1>7. <<p, f.class>> \in Senders \X AllClasses
  BY <1>4
<1>8. /\ frames[p] = <<f>> \o Tail(frames[p])
      /\ Tail(frames[p]) \in Seq(Frames)
      /\ \A i \in DOMAIN frames[p] :
            frames[p][i] = f \/ (i - 1 \in DOMAIN Tail(frames[p]) /\ Tail(frames[p])[i - 1] = frames[p][i])
  BY <1>1, <1>3
<1> HIDE DEF f
<1>9. /\ paused' = [paused EXCEPT ![<<p, f.class>>] = on]
      /\ resume' = [resume EXCEPT ![<<p, f.class>>] = time]
  BY <1>1
<1>10. on <=> f.time > 0
  OBVIOUS
<1> HIDE DEF time, on
<1>11. Shape'
  <2>1. frames' \in [Senders -> Seq(Frames)]
    BY <1>1, <1>2, <1>8
  <2>2. /\ paused' \in [Senders \X AllClasses -> BOOLEAN]
        /\ resume' \in [Senders \X AllClasses -> Int]
    BY <1>2, <1>5, <1>7, <1>9
  <2>3. QED
    BY <1>1, <1>2, <2>1, <2>2 DEF Shape
<1>12. Counters'
  BY <1>1 DEF Basic, Counters
<1>13. PausedHasEnd'
  <2>1. ASSUME NEW g \in Senders \X AllClasses PROVE paused'[g] <=> resume'[g] # None
    <3>1. paused[g] <=> resume[g] # None
      BY <1>2 DEF Basic, PausedHasEnd
    <3>2. CASE g = <<p, f.class>>
      BY <1>2, <1>5, <1>9, <3>2
    <3>3. CASE g # <<p, f.class>>
      BY <1>2, <1>9, <3>1, <3>3
    <3>4. QED
      BY <3>2, <3>3
  <2>2. DOMAIN paused' = Senders \X AllClasses
    BY <1>2, <1>9
  <2>3. QED
    BY <2>1, <2>2 DEF PausedHasEnd
<1>14. ASSUME Guarded, ~setup'.dynamicth, NEW s \in Senders, NEW c \in Classes \ {0},
              ingressPG'[<<s, c>>] > pg_shared_limit_cell
       PROVE  Renewed(s, c)'
  <2>1. Renewed(s, c)
    BY <1>1, <1>14 DEF Guarded
  <2>2. PICK o \in Ports :
          /\ recheck[<<o, s, c>>] \in 0..(PauseTime \div 2)
          /\ \/ Announced(s, c)
             \/ paused[<<s, c>>] /\ recheck[<<o, s, c>>] < resume[<<s, c>>]
    BY <2>1 DEF Renewed
  <2>3. recheck'[<<o, s, c>>] = recheck[<<o, s, c>>] /\ <<s, c>> \in Senders \X AllClasses
    BY <1>1, Domains
  <2>4. CASE s = p /\ c = f.class /\ on
    <3>1. paused'[<<s, c>>] /\ resume'[<<s, c>>] = PauseTime
      BY <1>2, <1>6, <1>7, <1>9, <2>4
    <3>2. recheck[<<o, s, c>>] < PauseTime
      BY <2>2, HalfPause
    <3>3. QED
      BY <2>2, <2>3, <3>1, <3>2 DEF Renewed
  <2>5. CASE s = p /\ ~(c = f.class /\ on)
    <3>1. CASE Announced(s, c)
      <4>1. PICK i \in DOMAIN frames[p] : frames[p][i].class = c /\ frames[p][i].time > 0
        BY <2>5, <3>1 DEF Announced
      <4>2. frames[p][i] # f
        BY <1>10, <2>5, <4>1
      <4>3. i - 1 \in DOMAIN Tail(frames[p]) /\ Tail(frames[p])[i - 1] = frames[p][i]
        BY <1>8, <4>2
      <4>4. frames'[p] = Tail(frames[p])
        BY <1>1, <1>2
      <4>5. Announced(s, c)'
        BY <2>5, <4>1, <4>3, <4>4 DEF Announced
      <4>6. QED
        BY <2>2, <2>3, <4>5 DEF Renewed
    <3>2. CASE ~Announced(s, c)
      <4>1. paused[<<s, c>>] /\ recheck[<<o, s, c>>] < resume[<<s, c>>]
        BY <2>2, <3>2
      <4>2. c # f.class
        <5>1. ASSUME c = f.class PROVE FALSE
          <6>1. ~on
            BY <2>5, <5>1
          <6>2. ~(f.time > 0) /\ f.time \in {0, PauseTime} /\ PauseTime > 0
            BY <1>4, <1>10, <6>1, PfcAssumption
          <6>3. f.time = 0
            BY <6>2
          <6>4. c = 0
            BY <1>3, <5>1, <6>3 DEF Frames
          <6>5. QED
            BY <1>14, <6>4
        <5>2. QED
          BY <5>1
      <4>3. paused'[<<s, c>>] = paused[<<s, c>>] /\ resume'[<<s, c>>] = resume[<<s, c>>]
        BY <1>2, <1>9, <2>3, <4>2
      <4>4. QED
        BY <2>2, <2>3, <4>1, <4>3 DEF Renewed
    <3>3. QED
      BY <3>1, <3>2
  <2>6. CASE s # p
    <3>1. frames'[s] = frames[s]
      BY <1>1, <1>2, <2>6
    <3>2. paused'[<<s, c>>] = paused[<<s, c>>] /\ resume'[<<s, c>>] = resume[<<s, c>>]
      BY <1>2, <1>9, <2>3, <2>6
    <3>3. Announced(s, c) => Announced(s, c)'
      BY <3>1 DEF Announced
    <3>4. QED
      BY <2>2, <2>3, <3>2, <3>3 DEF Renewed
  <2>7. QED
    BY <2>4, <2>5, <2>6
<1>15. QED
  BY <1>11, <1>12, <1>13, <1>14 DEF Basic, Guarded

\* A pause that ends was not that of a full class, or is about to be set anew.
LEMMA PauseFinishStep ==
    ASSUME Basic, NEW p \in Senders, NEW q \in AllClasses, PauseFinish(p, q)
    PROVE  Basic' /\ (Guarded => Guarded')
<1>1. /\ resume[<<p, q>>] = 0
      /\ paused' = [paused EXCEPT ![<<p, q>>] = FALSE]
      /\ resume' = [resume EXCEPT ![<<p, q>>] = None]
      /\ UNCHANGED <<setup, recheck, frames, ingressPG, queue>>
  BY DEF PauseFinish, mmuVars, ingressVars
<1>2. /\ setup \in Setups /\ paused \in [Senders \X AllClasses -> BOOLEAN]
      /\ resume \in [Senders \X AllClasses -> Int] /\ frames \in [Senders -> Seq(Frames)]
      /\ <<p, q>> \in Senders \X AllClasses
  BY Domains DEF Basic, Shape
<1>3. /\ paused' \in [Senders \X AllClasses -> BOOLEAN]
      /\ resume' \in [Senders \X AllClasses -> Int]
      /\ paused'[<<p, q>>] = FALSE /\ resume'[<<p, q>>] = None
      /\ \A g \in Senders \X AllClasses \ {<<p, q>>} : paused'[g] = paused[g] /\ resume'[g] = resume[g]
  <2>1. None \in Int
    BY DEF None
  <2>2. QED
    BY <1>1, <1>2, <2>1
<1>4. Shape' /\ Counters'
  BY <1>1, <1>2, <1>3 DEF Basic, Shape, Counters
<1>5. PausedHasEnd'
  <2>1. ASSUME NEW g \in Senders \X AllClasses PROVE paused'[g] <=> resume'[g] # None
    <3>1. paused[g] <=> resume[g] # None
      BY <1>2 DEF Basic, PausedHasEnd
    <3>2. QED
      BY <1>3, <3>1
  <2>2. QED
    BY <1>3, <2>1 DEF PausedHasEnd
<1>6. ASSUME Guarded, ~setup'.dynamicth, NEW s \in Senders, NEW c \in Classes \ {0},
             ingressPG'[<<s, c>>] > pg_shared_limit_cell
      PROVE  Renewed(s, c)'
  <2>1. PICK o \in Ports :
          /\ recheck[<<o, s, c>>] \in 0..(PauseTime \div 2)
          /\ \/ Announced(s, c)
             \/ paused[<<s, c>>] /\ recheck[<<o, s, c>>] < resume[<<s, c>>]
    BY <1>1, <1>6 DEF Guarded, Renewed
  <2>2. <<s, c>> \in Senders \X AllClasses
    BY Domains
  <2>3. Announced(s, c) => Announced(s, c)'
    BY <1>1 DEF Announced
  <2>4. CASE Announced(s, c)
    BY <1>1, <2>1, <2>3, <2>4 DEF Renewed
  <2>5. CASE ~Announced(s, c)
    <3>1. paused[<<s, c>>] /\ recheck[<<o, s, c>>] < resume[<<s, c>>]
      BY <2>1, <2>5
    <3>2. <<s, c>> # <<p, q>>
      <4>1. recheck[<<o, s, c>>] \in Nat /\ recheck[<<o, s, c>>] < resume[<<s, c>>]
        BY <2>1, <3>1, HalfPause
      <4>2. resume[<<s, c>>] \in Int
        BY <1>2, <2>2
      <4>3. resume[<<s, c>>] # 0
        BY <4>1, <4>2
      <4>4. QED
        BY <1>1, <4>3
    <3>3. paused'[<<s, c>>] = paused[<<s, c>>] /\ resume'[<<s, c>>] = resume[<<s, c>>]
      BY <1>3, <2>2, <3>2
    <3>4. QED
      BY <1>1, <2>1, <3>1, <3>3 DEF Renewed
  <2>6. QED
    BY <2>4, <2>5
<1>7. QED
  BY <1>4, <1>5, <1>6 DEF Basic, Guarded

\* Both timers run, and none that is due is passed over.
LEMMA TickStep ==
    ASSUME Basic, Tick
    PROVE  Basic' /\ (Guarded => Guarded')
<1>1. /\ \A x \in DOMAIN recheck : recheck[x] # 0
      /\ \A x \in DOMAIN resume : resume[x] # 0
      /\ \A p \in Senders : frames[p] = << >>
      /\ recheck' = Elapsed(recheck) /\ resume' = Elapsed(resume)
      /\ UNCHANGED <<setup, paused, frames, ingressPG, queue>>
  BY DEF Tick, mmuVars, ingressVars
<1>2. /\ setup \in Setups /\ paused \in [Senders \X AllClasses -> BOOLEAN]
      /\ resume \in [Senders \X AllClasses -> Int] /\ frames \in [Senders -> Seq(Frames)]
      /\ recheck \in [Checks -> Int]
  BY DEF Basic, Shape, Counters
<1>3. ASSUME NEW D, NEW t \in [D -> Int], \A x \in D : t[x] # 0
      PROVE  /\ Elapsed(t) \in [D -> Int]
             /\ \A x \in D : Elapsed(t)[x] # None <=> t[x] # None
             /\ \A x \in D : t[x] # None => Elapsed(t)[x] = t[x] - 1
  <2>1. \A x \in D : Elapsed(t)[x] = IF t[x] = None THEN None ELSE t[x] - 1
    BY DEF Elapsed
  <2>2. Elapsed(t) = [x \in D |-> IF t[x] = None THEN None ELSE t[x] - 1]
    BY DEF Elapsed
  <2>3. None = -1
    BY DEF None
  <2>4. QED
    BY <1>3, <2>1, <2>2, <2>3
<1>4. /\ recheck' \in [Checks -> Int]
      /\ \A x \in Checks : recheck[x] # None => recheck'[x] = recheck[x] - 1
  BY <1>1, <1>2, <1>3
<1>5. /\ resume' \in [Senders \X AllClasses -> Int]
      /\ \A g \in Senders \X AllClasses : resume'[g] # None <=> resume[g] # None
      /\ \A g \in Senders \X AllClasses : resume[g] # None => resume'[g] = resume[g] - 1
  BY <1>1, <1>2, <1>3
<1>6. Shape' /\ Counters'
  BY <1>1, <1>2, <1>4, <1>5 DEF Basic, Shape, Counters
<1>7. PausedHasEnd'
  BY <1>1, <1>2, <1>5 DEF Basic, PausedHasEnd
<1>8. ASSUME Guarded, ~setup'.dynamicth, NEW s \in Senders, NEW c \in Classes \ {0},
             ingressPG'[<<s, c>>] > pg_shared_limit_cell
      PROVE  Renewed(s, c)'
  <2>1. PICK o \in Ports :
          /\ recheck[<<o, s, c>>] \in 0..(PauseTime \div 2)
          /\ \/ Announced(s, c)
             \/ paused[<<s, c>>] /\ recheck[<<o, s, c>>] < resume[<<s, c>>]
    BY <1>1, <1>8 DEF Guarded, Renewed
  <2>2. ~Announced(s, c)
    BY <1>1 DEF Announced
  <2>3. <<s, c>> \in Senders \X AllClasses /\ <<o, s, c>> \in Checks
    BY Domains
  <2>4. recheck[<<o, s, c>>] \in 1..(PauseTime \div 2) /\ recheck[<<o, s, c>>] # None
    BY <1>1, <1>2, <2>1, <2>3, HalfPause DEF None
  <2>5. recheck'[<<o, s, c>>] = recheck[<<o, s, c>>] - 1
    BY <1>4, <2>3, <2>4
  <2>6. resume[<<s, c>>] \in Int /\ resume[<<s, c>>] # None
    BY <1>2, <2>1, <2>2, <2>3, <2>4, HalfPause DEF None
  <2>7. resume'[<<s, c>>] = resume[<<s, c>>] - 1
    BY <1>5, <2>3, <2>6
  <2>8. recheck'[<<o, s, c>>] \in 0..(PauseTime \div 2)
    BY <2>4, <2>5, HalfPause
  <2>9. recheck'[<<o, s, c>>] < resume'[<<s, c>>]
    BY <2>1, <2>2, <2>4, <2>5, <2>6, <2>7, HalfPause
  <2>10. paused'[<<s, c>>]
    BY <1>1, <2>1, <2>2
  <2>11. QED
    BY <2>8, <2>9, <2>10 DEF Renewed
<1>9. QED
  BY <1>6, <1>7, <1>8 DEF Basic, Guarded

-----------------------------------------------------------------------------
(* What comes and goes is counted.                                         *)

\* The ingress side of the memory, which is all that this module counts.
Bytes == IngressTypes /\ QueueTypes /\ Ingress

\* Where memory and queues do not change, neither do the counters.
LEMMA BytesStay ==
    ASSUME Bytes, UNCHANGED <<usedTotal, ingressSP, ingressPort, ingressPG, queue>>,
           headroom' \in [Groups -> Nat]
    PROVE  Bytes'
<1>1. IngressTypes' /\ QueueTypes'
  BY DEF Bytes, IngressTypes, QueueTypes
<1>2. \A p \in Ports, q \in Classes : BytesFrom(p, q)' = BytesFrom(p, q)
  BY DEF BytesFrom
<1>3. \A g \in Groups : g[1] \in Ports /\ g[2] \in Classes
  BY DEF Groups
<1>4. \A g \in Groups : ingressPG'[g] = BytesFrom(g[1], g[2])'
  BY <1>2, <1>3 DEF Bytes, Ingress
<1>5. Ingress'
  BY <1>4 DEF Bytes, Ingress
<1>6. QED
  BY <1>1, <1>5 DEF Bytes

\* A packet that is queued is counted; one that is sent at once, or dropped, is not.
LEMMA ForwardCounts ==
    ASSUME Bytes, NEW p \in Senders, Forward(p)
    PROVE  Bytes'
<1>1. PICK pkt \in Packet :
        \/ /\ CheckIngressAdmission(p, pkt.class, pkt.size)
           /\ UpdateIngressAdmission(p, pkt.class, pkt.size)
           /\ queue' = [queue EXCEPT ![<<pkt.out, pkt.class>>] =
                            Append(@, Element(p, pkt.size))]
        \/ Passes(p, pkt.class, pkt.size)
        \/ UNCHANGED <<ingressVars, queue>>
  BY DEF Forward
<1>2. /\ pkt.class \in Classes /\ pkt.out \in Ports /\ pkt.size \in PacketSizes
      /\ p \in Ports
  BY Domains DEF Packet
<1>3. CASE /\ CheckIngressAdmission(p, pkt.class, pkt.size)
           /\ UpdateIngressAdmission(p, pkt.class, pkt.size)
           /\ queue' = [queue EXCEPT ![<<pkt.out, pkt.class>>] =
                            Append(@, Element(p, pkt.size))]
  <2>1. usedTotal + pkt.size <= maxBufferBytes
    BY <1>3 DEF CheckIngressAdmission
  <2>2. ComesIn(p, pkt.out, pkt.class, pkt.size)
    BY <1>3, <2>1 DEF ComesIn
  <2>3. IngressTypes' /\ QueueTypes' /\ Ingress'
    BY <1>2, <2>2, PacketIn DEF Bytes
  <2>4. QED
    BY <2>3 DEF Bytes
<1>4. CASE Passes(p, pkt.class, pkt.size)
  <2> DEFINE h == headroom[<<p, pkt.class>>]
             n == pkt.size
             k == IF ingressSP[SP(pkt.class)] + n > buffer_cell_limit_sp THEN h
                  ELSE IF h > n THEN h - n ELSE 0
  <2>1. /\ headroom' = [headroom EXCEPT ![<<p, pkt.class>>] = k]
        /\ UNCHANGED <<usedTotal, ingressSP, ingressPort, ingressPG, queue>>
    BY <1>4 DEF Passes
  <2>2. headroom \in [Groups -> Nat] /\ <<p, pkt.class>> \in Groups
    BY <1>2, Domains DEF Bytes, IngressTypes
  <2>3. h \in Nat /\ n \in Nat
    BY <1>2, <2>2, PacketFacts
  <2>4. k \in Nat
    <3> HIDE DEF h, n
    <3>1. QED
      BY <2>3
  <2> HIDE DEF k
  <2>5. headroom' \in [Groups -> Nat]
    BY <2>1, <2>2, <2>4
  <2>6. QED
    BY <2>1, <2>5, BytesStay
<1>5. CASE UNCHANGED <<ingressVars, queue>>
  <2>1. headroom' \in [Groups -> Nat]
    BY <1>5 DEF Bytes, IngressTypes, ingressVars
  <2>2. UNCHANGED <<usedTotal, ingressSP, ingressPort, ingressPG, queue>>
    BY <1>5 DEF ingressVars
  <2>3. QED
    BY <2>1, <2>2, BytesStay
<1>6. QED
  BY <1>1, <1>3, <1>4, <1>5

\* A packet that is sent is relieved where it was counted.
LEMMA TransmitCounts ==
    ASSUME Bytes, NEW out \in Ports, NEW q \in Classes, Transmit(out, q)
    PROVE  Bytes'
<1>1. Leaves(out, q)
  BY DEF Transmit, Leaves
<1>2. QED
  BY <1>1, PacketOut DEF Bytes

\* Frames, timers and what is on a link do not matter to the memory.
LEMMA OthersCount ==
    ASSUME Bytes, UNCHANGED mmuVars
    PROVE  Bytes'
<1>1. UNCHANGED <<usedTotal, ingressSP, ingressPort, ingressPG, headroom, queue>>
  BY DEF mmuVars, ingressVars
<1>2. headroom' \in [Groups -> Nat]
  BY <1>1 DEF Bytes, IngressTypes
<1>3. QED
  BY <1>1, <1>2, BytesStay

\* Every step keeps the counters of the ingress side exact.
LEMMA NextCounts ==
    ASSUME Bytes, [Next]_vars
    PROVE  Bytes'
<1>1. CASE \E p \in Senders : Forward(p)
  BY <1>1, ForwardCounts
<1>2. CASE \E out \in Ports, q \in Classes : Transmit(out, q)
  BY <1>2, TransmitCounts
<1>3. CASE \/ \E p \in Senders : SendPacket(p) \/ ReceivePause(p)
           \/ \E p \in Senders, q \in AllClasses : PauseFinish(p, q)
           \/ \E c \in Checks : Recheck(c[1], c[2], c[3])
           \/ Tick
           \/ UNCHANGED vars
  <2>1. UNCHANGED mmuVars
    BY <1>3 DEF SendPacket, ReceivePause, PauseFinish, Recheck, Tick, vars
  <2>2. QED
    BY <2>1, OthersCount
<1>4. QED
  BY <1>1, <1>2, <1>3 DEF Next

\* The first packet of a queue is counted where it came by.
LEMMA BytesAccount ==
    ASSUME Bytes
    PROVE  Accounted
<1>1. SUFFICES ASSUME NEW g \in Groups, queue[g] # << >>
               PROVE  Head(queue[g]).size <= ingressPG[<<Head(queue[g]).in, g[2]>>]
  BY DEF Accounted
<1>2. PICK out \in Ports : \E q \in Classes : g = <<out, q>>
  BY DEF Groups
<1>3. PICK q \in Classes : g = <<out, q>>
  BY <1>2
<1>4. g[2] = q
  BY <1>3
<1>5. QED
  BY <1>1, <1>3, <1>4, HeadCounted DEF Bytes

-----------------------------------------------------------------------------
(* The theorems.                                                           *)

\* At first nothing is full and nothing paused.
LEMMA InitHolds ==
    ASSUME Init
    PROVE  Basic /\ Guarded
<1>1. Shape
  <2>1. None \in Int /\ << >> \in Seq(Frames)
    BY DEF None
  <2>2. QED
    BY <2>1 DEF Init, Shape
<1>2. Counters
  <2>1. None \in Int /\ << >> \in Seq(Packets)
    BY DEF None
  <2>2. QED
    BY <2>1 DEF Init, MmuInit, Counters
<1>3. PausedHasEnd
  BY DEF Init, PausedHasEnd
<1>4. Guarded
  <2>1. \A s \in Senders, c \in Classes \ {0} : ingressPG[<<s, c>>] = 0
    BY Domains DEF Init, MmuInit
  <2>2. QED
    BY <2>1, PfcAssumption DEF Guarded
<1>5. QED
  BY <1>1, <1>2, <1>3, <1>4 DEF Basic

\* Every step keeps the invariant.
LEMMA NextKeeps ==
    ASSUME Basic, [Next]_vars
    PROVE  Basic' /\ (Guarded /\ Accounted => Guarded')
<1>1. CASE (\E p \in Senders : SendPacket(p)) \/ UNCHANGED vars
  BY <1>1, SendPacketStep
<1>2. CASE \E p \in Senders : Forward(p)
  BY <1>2, ForwardStep
<1>3. CASE \E p \in Senders : ReceivePause(p)
  BY <1>3, ReceivePauseStep
<1>4. CASE \E p \in Senders, q \in AllClasses : PauseFinish(p, q)
  BY <1>4, PauseFinishStep
<1>5. CASE \E out \in Ports, q \in Classes : Transmit(out, q)
  BY <1>5, TransmitStep
<1>6. CASE \E c \in Checks : Recheck(c[1], c[2], c[3])
  <2>1. PICK c \in Checks : Recheck(c[1], c[2], c[3])
    BY <1>6
  <2>2. c[1] \in Ports /\ c[2] \in Senders /\ c[3] \in Classes
    BY DEF Checks
  <2>3. QED
    BY <2>1, <2>2, RecheckStep
<1>7. CASE Tick
  BY <1>7, TickStep
<1>8. QED
  BY <1>1, <1>2, <1>3, <1>4, <1>5, <1>6, <1>7 DEF Next

\* Whatever frames come, from however many checks: a class is paused exactly
\* as long as there is an event that will end its pause.
THEOREM EveryPauseEnds == Spec => []PausedHasEnd
<1>1. Init => Basic
  BY InitHolds
<1>2. Basic /\ [Next]_vars => Basic'
  BY NextKeeps
<1>3. Basic => PausedHasEnd
  BY DEF Basic
<1>4. QED
  BY <1>1, <1>2, <1>3, PTL DEF Spec

\* Whoever pauses whom, and whether packets are queued, sent at once or
\* dropped: what leaves is still counted, so no counter of a group wraps.
THEOREM HeadsAccounted == Spec => []Accounted
<1>1. Init => Bytes
  <2>1. SUFFICES ASSUME MmuInit PROVE Bytes
    BY DEF Init
  <2>2. MmuInv
    BY <2>1, EmptySwitch
  <2>3. QED
    BY <2>2 DEF MmuInv, Bytes
<1>2. Bytes /\ [Next]_vars => Bytes'
  BY NextCounts
<1>3. Bytes => Accounted
  BY BytesAccount
<1>4. QED
  BY <1>1, <1>2, <1>3, PTL DEF Spec

\* With the static threshold: a class that is full is paused, or the frame is
\* on its way.
THEOREM FullIsPaused == Spec => []PausedWhileFull
<1>1. Init => Basic /\ Guarded
  BY InitHolds
<1>2. Basic /\ Guarded /\ Accounted /\ [Next]_vars => Basic' /\ Guarded'
  BY NextKeeps
<1>3. Guarded => PausedWhileFull
  <2>1. SUFFICES ASSUME Guarded, ~setup.dynamicth, NEW p \in Senders, NEW q \in Classes \ {0},
                        ingressPG[<<p, q>>] > pg_shared_limit_cell
                 PROVE  paused[<<p, q>>] \/ Announced(p, q)
    BY DEF PausedWhileFull, Announced
  <2>2. Renewed(p, q)
    BY <2>1 DEF Guarded
  <2>3. QED
    BY <2>2 DEF Renewed
<1>4. Spec => []Accounted
  BY HeadsAccounted
<1>5. QED
  BY <1>1, <1>2, <1>3, <1>4, PTL DEF Spec

-----------------------------------------------------------------------------
(* The headroom of what is queued.                                         *)

\* A packet that is sent at once leaves the headroom of others alone, and
\* returns its own only below the limit of its pool.
LEMMA CoveredPasses ==
    ASSUME Bytes, IngressTypes', Covered, NEW p \in Ports, NEW q \in Classes,
           NEW size \in PacketSizes, Passes(p, q, size)
    PROVE  Covered'
<1> DEFINE z == <<p, q>>
           t == SP(q)
           h == headroom[z]
           k == IF ingressSP[t] + size > buffer_cell_limit_sp THEN h
                ELSE IF h > size THEN h - size ELSE 0
<1>1. z \in Groups /\ t \in Pools /\ \A s \in Pools : PoolGroups(s) \in SUBSET Groups /\ (z \in PoolGroups(s) <=> s = t)
  BY GroupFacts, GroupsFinite
<1>2. /\ IngressTypes /\ headroom \in [Groups -> Nat] /\ headroom' \in [Groups -> Nat]
      /\ ingressSP \in [Pools -> Nat] /\ size \in Nat
  BY PacketFacts DEF Bytes, IngressTypes
<1>3. headroom' = [headroom EXCEPT ![z] = k] /\ ingressSP' = ingressSP /\ ingressPG' = ingressPG
  BY DEF Passes
<1>4. h \in Nat /\ ingressSP[t] \in Nat
  BY <1>1, <1>2
<1>5. headroom'[z] = k /\ \A g \in Groups \ {z} : headroom'[g] = headroom[g]
  <2> HIDE DEF k
  <2>1. QED
    BY <1>1, <1>2, <1>3
<1>6. \A S \in SUBSET Groups :
        /\ Sum(headroom, S) \in Nat /\ Sum(Counted, S) \in Nat
        /\ Sum(headroom', S) = Sum(headroom, S) + (IF z \in S THEN headroom'[z] - headroom[z] ELSE 0)
        /\ Sum(Counted', S) = Sum(Counted, S)
              + (IF z \in S THEN Least(headroom'[z], Reserve) - Least(headroom[z], Reserve) ELSE 0)
  BY <1>1, <1>2, <1>5, HeadroomChanges
<1>7. \A S \in SUBSET Groups : Sum(headroom', S) \in Nat /\ Sum(Counted', S) \in Nat
  <2>1. Counted' = [g \in Groups |-> Least(headroom'[g], Reserve)]
    BY DEF Counted
  <2>2. Counted' \in [Groups -> Nat]
    BY <1>2, <2>1, CountedTypes
  <2>3. \A S \in SUBSET Groups : IsFiniteSet(S)
    BY GroupsFinite, FS_Subset
  <2>4. QED
    BY <1>2, <2>2, <2>3, SumNat
<1>8. k \in Nat /\ k <= h
  <2> HIDE DEF h, t
  <2>1. QED
    BY <1>2, <1>4
<1>9. ingressSP[t] + size > buffer_cell_limit_sp => k = h
  OBVIOUS
<1> HIDE DEF k
<1>10. \A g \in Groups : headroom'[g] <= ingressPG'[g]
  <2> TAKE g \in Groups
  <2>1. headroom[g] <= ingressPG[g] /\ ingressPG[g] \in Nat /\ headroom[g] \in Nat
    BY <1>2 DEF Covered, IngressTypes
  <2>2. headroom'[g] <= headroom[g] /\ headroom'[g] \in Nat
    BY <1>1, <1>2, <1>5, <1>8, <2>1
  <2>3. QED
    BY <1>3, <2>1, <2>2
<1>11. ASSUME NEW s \in Pools
       PROVE  /\ ingressSP'[s] <= buffer_cell_limit_sp + Sum(headroom', PoolGroups(s))
              /\ ingressSP'[s] <= buffer_cell_limit_sp + MaxPacket + Sum(Counted', PoolGroups(s))
  <2> DEFINE S == PoolGroups(s)
             a == Sum(headroom', S)
             b == Sum(Counted', S)
  <2>1. a \in Nat /\ b \in Nat /\ S \in SUBSET Groups
    BY <1>1, <1>7
  <2>2. /\ ingressSP[s] <= buffer_cell_limit_sp + Sum(headroom, S)
        /\ ingressSP[s] <= buffer_cell_limit_sp + MaxPacket + Sum(Counted, S)
    BY DEF Covered
  <2>3. ingressSP[s] \in Nat /\ buffer_cell_limit_sp \in Nat /\ MaxPacket \in Nat
    BY <1>2, ReserveFacts, PacketFacts
  <2>4. CASE s = t /\ ~ (ingressSP[t] + size > buffer_cell_limit_sp)
    <3>1. ingressSP[s] <= buffer_cell_limit_sp
      BY <1>2, <2>3, <2>4
    <3> HIDE DEF a, b
    <3>2. QED
      BY <1>3, <2>1, <2>3, <3>1 DEF a, b
  <2>5. CASE s # t \/ ingressSP[t] + size > buffer_cell_limit_sp
    <3>1. z \in S => headroom'[z] = headroom[z]
      BY <1>1, <1>5, <1>9, <2>5
    <3>2. Sum(headroom', S) = Sum(headroom, S) /\ Sum(Counted', S) = Sum(Counted, S)
      <4>1. z \notin S => a = Sum(headroom, S) + 0 /\ b = Sum(Counted, S) + 0
        BY <1>6, <2>1
      <4>2. ASSUME z \in S PROVE a = Sum(headroom, S) + (h - h) /\ b = Sum(Counted, S) + (Least(h, Reserve) - Least(h, Reserve))
        BY <1>6, <2>1, <3>1, <4>2
      <4>3. Least(h, Reserve) \in Nat /\ Sum(headroom, S) \in Nat /\ Sum(Counted, S) \in Nat
        BY <1>4, <1>6, <2>1, ReserveFacts DEF Least
      <4> HIDE DEF h
      <4>4. QED
        BY <1>4, <4>1, <4>2, <4>3
    <3>3. QED
      BY <1>3, <2>2, <3>2
  <2>6. QED
    BY <2>4, <2>5
<1>12. QED
  BY <1>10, <1>11 DEF Covered

\* The groups of ports without a NIC are empty.
Unused == \A g \in Groups : g[1] \notin Senders => ingressPG[g] = 0

\* What the memory keeps, whatever the NICs send.
Held == Bytes /\ Covered /\ Unused

LEMMA ForwardHolds ==
    ASSUME Held, NEW p \in Senders, Forward(p)
    PROVE  Held'
<1>1. Bytes /\ Bytes' /\ IngressTypes /\ IngressTypes' /\ Ingress /\ Covered
  BY ForwardCounts DEF Held, Bytes
<1>2. PICK pkt \in Packet :
        \/ /\ CheckIngressAdmission(p, pkt.class, pkt.size)
           /\ UpdateIngressAdmission(p, pkt.class, pkt.size)
        \/ Passes(p, pkt.class, pkt.size)
        \/ UNCHANGED <<ingressVars, queue>>
  BY DEF Forward
<1>3. /\ pkt.class \in Classes /\ pkt.size \in PacketSizes /\ p \in Ports
      /\ pkt.size \in Nat /\ <<p, pkt.class>> \in Groups
  BY Domains, PacketFacts DEF Packet
<1>4. Covered' /\ (\A g \in Groups : g[1] # p => ingressPG'[g] = ingressPG[g])
  <2>1. CASE /\ CheckIngressAdmission(p, pkt.class, pkt.size)
             /\ UpdateIngressAdmission(p, pkt.class, pkt.size)
    <3>1. Covered'
      BY <1>1, <1>3, <2>1, CoveredIn
    <3>2. ingressPG' = [ingressPG EXCEPT ![<<p, pkt.class>>] = @ + pkt.size]
      BY <2>1 DEF UpdateIngressAdmission
    <3>3. \A g \in Groups : g[1] # p => g # <<p, pkt.class>>
      OBVIOUS
    <3>4. QED
      BY <1>1, <3>1, <3>2, <3>3 DEF IngressTypes
  <2>2. CASE Passes(p, pkt.class, pkt.size)
    <3>1. Covered'
      BY <1>1, <1>3, <2>2, CoveredPasses
    <3>2. ingressPG' = ingressPG
      BY <2>2 DEF Passes
    <3>3. QED
      BY <3>1, <3>2
  <2>3. CASE UNCHANGED <<ingressVars, queue>>
    <3>1. UNCHANGED <<headroom, ingressPG, ingressSP>>
      BY <2>3 DEF ingressVars
    <3>2. Counted' = Counted
      BY <3>1 DEF Counted
    <3>3. QED
      BY <1>1, <3>1, <3>2 DEF Covered
  <2>4. QED
    BY <1>2, <2>1, <2>2, <2>3
<1>5. Unused'
  BY <1>4 DEF Held, Unused
<1>6. QED
  BY <1>1, <1>4, <1>5 DEF Held

\* What is sent came from a NIC: nothing else is counted.
LEMMA TransmitHolds ==
    ASSUME Held, NEW out \in Ports, NEW q \in Classes, Transmit(out, q)
    PROVE  Held'
<1>1. Bytes' /\ IngressTypes /\ IngressTypes' /\ QueueTypes /\ Ingress /\ Covered
  BY TransmitCounts DEF Held, Bytes
<1>2. Leaves(out, q)
  BY DEF Transmit, Leaves
<1> DEFINE e == Head(queue[<<out, q>>])
<1>3. e.in \in Ports /\ e.size \in PacketSizes /\ e.size \in Nat /\ Returned(e.in, q, e.size)
  BY <1>1, <1>2, NothingWraps
<1>4. e.size <= ingressPG[<<e.in, q>>] /\ e.size # 0
  BY <1>1, <1>2, <1>3, HeadCounted, PacketFacts DEF Leaves
<1> HIDE DEF e
<1>5. Covered'
  BY <1>1, <1>3, CoveredOut
<1>6. ingressPG \in [Groups -> Nat] /\ <<e.in, q>> \in Groups /\ <<e.in, q>>[1] = e.in
  BY <1>1, <1>3, GroupFacts DEF IngressTypes
<1>7. e.in \in Senders
  <2>1. ingressPG[<<e.in, q>>] # 0
    BY <1>3, <1>4, <1>6
  <2>2. QED
    BY <1>6, <2>1 DEF Held, Unused
<1>8. \A g \in Groups : g[1] \notin Senders => ingressPG'[g] = ingressPG[g]
  <2>1. \A g \in Groups : g[1] \notin Senders => g # <<e.in, q>>
    BY <1>7
  <2>2. \A g \in Groups \ {<<e.in, q>>} : ingressPG'[g] = ingressPG[g]
    BY <1>3, <1>6 DEF Returned
  <2>3. QED
    BY <2>1, <2>2
<1>9. QED
  BY <1>1, <1>5, <1>8 DEF Held, Unused

\* Every step keeps the headroom and leaves unused groups empty.
LEMMA NextHolds ==
    ASSUME Held, [Next]_vars
    PROVE  Held'
<1>1. CASE \E p \in Senders : Forward(p)
  BY <1>1, ForwardHolds
<1>2. CASE \E out \in Ports, q \in Classes : Transmit(out, q)
  BY <1>2, TransmitHolds
<1>3. CASE \/ \E p \in Senders : SendPacket(p) \/ ReceivePause(p)
           \/ \E p \in Senders, q \in AllClasses : PauseFinish(p, q)
           \/ \E c \in Checks : Recheck(c[1], c[2], c[3])
           \/ Tick
           \/ UNCHANGED vars
  <2>1. UNCHANGED mmuVars
    BY <1>3 DEF SendPacket, ReceivePause, PauseFinish, Recheck, Tick, vars
  <2>2. UNCHANGED <<ingressSP, ingressPG, headroom>>
    BY <2>1 DEF mmuVars, ingressVars
  <2>3. Counted' = Counted
    BY <2>2 DEF Counted
  <2>4. Covered' /\ Unused'
    BY <2>2, <2>3 DEF Held, Covered, Unused
  <2>5. QED
    BY <2>1, <2>4, OthersCount DEF Held
<1>4. QED
  BY <1>1, <1>2, <1>3 DEF Next

\* An empty memory needs no headroom.
LEMMA InitHeld ==
    ASSUME Init
    PROVE  Held
<1>1. MmuInit
  BY DEF Init
<1>2. MmuInv
  BY <1>1, EmptySwitch
<1>3. Unused
  BY <1>1 DEF MmuInit, Unused
<1>4. QED
  BY <1>2, <1>3 DEF MmuInv, Held, Bytes

-----------------------------------------------------------------------------
(* How much a paused class may still bring.                                *)

\* What a link carries in a tick; all of it arrives before the next.
Links ==
    /\ wire \in [Senders -> Seq(Packet)]
    /\ sent \in [Senders -> Nat]
    /\ \A p \in Senders : Len(wire[p]) <= sent[p] /\ sent[p] <= setup.perTick

\* A class that was below its threshold when the tick began has since sent
\* what it has ...
Flowing(p, c) ==
    ingressPG[<<p, c>>] + MaxPacket * Len(wire[p])
        <= pg_shared_limit_cell + MaxPacket * sent[p]

\* ... and one that was over it sends nothing until it is not.
Stopped(p, c) ==
    /\ paused[<<p, c>>] /\ resume[<<p, c>>] > 0
    /\ \A i \in DOMAIN wire[p] : wire[p][i].class # c
    /\ ingressPG[<<p, c>>] <= pg_shared_limit_cell + MaxPacket * setup.perTick

\* That the one or the other holds is inductive; that the threshold is kept
\* but for a tick, which follows, is not.
Limited ==
    ~setup.dynamicth =>
        \A p \in Senders, c \in Classes \ {0} : Flowing(p, c) \/ Stopped(p, c)

\* The numbers the bounds are made of.
LEMMA BoundTypes ==
    ASSUME Basic, Links, Bytes, NEW p \in Senders, NEW c \in Classes
    PROVE  /\ ingressPG[<<p, c>>] \in Nat /\ <<p, c>> \in Groups /\ <<p, c>> \in Senders \X AllClasses
           /\ setup.perTick \in Nat /\ sent[p] \in Nat /\ Len(wire[p]) \in Nat
           /\ wire[p] \in Seq(Packet) /\ resume[<<p, c>>] \in Int
           /\ pg_shared_limit_cell \in Nat /\ MaxPacket \in Nat
           /\ MaxPacket * sent[p] \in Nat /\ MaxPacket * Len(wire[p]) \in Nat
           /\ MaxPacket * setup.perTick \in Nat
<1>1. setup.perTick \in Nat
  BY PfcAssumption DEF Basic, Shape
<1>2. wire[p] \in Seq(Packet) /\ sent[p] \in Nat /\ Len(wire[p]) \in Nat
  BY LenProperties DEF Links
<1>3. MaxPacket \in Nat /\ pg_shared_limit_cell \in Nat
  BY PacketFacts, PfcAssumption
<1>4. <<p, c>> \in Groups /\ <<p, c>> \in Senders \X AllClasses
  BY Domains
<1>5. ingressPG[<<p, c>>] \in Nat /\ resume[<<p, c>>] \in Int
  BY <1>4 DEF Bytes, IngressTypes, Basic, Shape
<1>6. \A m, n \in Nat : m * n \in Nat
  OBVIOUS
<1>7. QED
  BY <1>1, <1>2, <1>3, <1>4, <1>5, <1>6

\* More packets weigh more.
LEMMA Weighs ==
    ASSUME NEW m \in Nat, NEW a \in Nat, NEW b \in Nat
    PROVE  /\ a <= b => m * a <= m * b
           /\ m * (a + 1) = m * a + m
           /\ a >= 1 => m * a = m * (a - 1) + m
           /\ m * 0 = 0
  OBVIOUS

\* Either way a class keeps to its threshold but for what comes in a tick.
LEMMA WithinTick ==
    ASSUME Basic, Links, Bytes, NEW p \in Senders, NEW c \in Classes, Flowing(p, c) \/ Stopped(p, c)
    PROVE  ingressPG[<<p, c>>] <= pg_shared_limit_cell + MaxPacket * setup.perTick
<1> DEFINE n == ingressPG[<<p, c>>]
           w == MaxPacket * Len(wire[p])
           s == MaxPacket * sent[p]
           t == MaxPacket * setup.perTick
<1>1. n \in Nat /\ w \in Nat /\ s \in Nat /\ t \in Nat /\ pg_shared_limit_cell \in Nat
  BY BoundTypes
<1>2. s <= t
  BY BoundTypes, Weighs DEF Links
<1>3. n + w <= pg_shared_limit_cell + s \/ n <= pg_shared_limit_cell + t
  BY DEF Flowing, Stopped
<1> HIDE DEF n, w, s, t
<1>4. n <= pg_shared_limit_cell + t
  BY <1>1, <1>2, <1>3
<1>5. QED
  BY <1>4 DEF n, t

\* A class below its threshold has a tick's packets to bring.
LEMMA BelowFlows ==
    ASSUME Basic, Links, Bytes, NEW p \in Senders, NEW c \in Classes,
           ingressPG[<<p, c>>] <= pg_shared_limit_cell
    PROVE  Flowing(p, c)
<1> DEFINE n == ingressPG[<<p, c>>]
           w == MaxPacket * Len(wire[p])
           s == MaxPacket * sent[p]
<1>1. n \in Nat /\ w \in Nat /\ s \in Nat /\ pg_shared_limit_cell \in Nat
  BY BoundTypes
<1>2. w <= s
  BY BoundTypes, Weighs DEF Links
<1>3. n <= pg_shared_limit_cell
  OBVIOUS
<1> HIDE DEF n, w, s
<1>4. n + w <= pg_shared_limit_cell + s
  BY <1>1, <1>2, <1>3
<1>5. QED
  BY <1>4 DEF Flowing, n, w, s

\* The invariant that bounds what a class holds.
Limits == Basic /\ Bytes /\ Links /\ Guarded /\ Limited

\* A packet on the wire is counted before it arrives and after.
LEMMA ForwardLimits ==
    ASSUME Limits, Basic', Bytes', NEW p \in Senders, Forward(p)
    PROVE  Links' /\ Limited'
<1>1. PICK pkt \in Packet :
        /\ wire[p] # << >> /\ pkt = Head(wire[p])
        /\ wire' = [wire EXCEPT ![p] = Tail(@)]
        /\ \/ UpdateIngressAdmission(p, pkt.class, pkt.size)
           \/ Passes(p, pkt.class, pkt.size)
           \/ UNCHANGED <<ingressVars, queue>>
        /\ CheckQueueFull(pkt.out, p, pkt.class, recheck[<<pkt.out, p, pkt.class>>])
        /\ UNCHANGED <<paused, resume, sent>>
  BY DEF Forward
<1>2. /\ pkt.class \in Classes /\ pkt.size \in Nat /\ pkt.size <= MaxPacket
      /\ <<p, pkt.class>> \in Groups
  BY Domains, PacketFacts DEF Packet
<1>3. setup' = setup
  BY <1>1 DEF CheckQueueFull
<1>4. /\ wire \in [Senders -> Seq(Packet)] /\ sent \in [Senders -> Nat]
      /\ \A s \in Senders : Len(wire[s]) <= sent[s] /\ sent[s] <= setup.perTick
  BY DEF Limits, Links
<1>5. /\ Tail(wire[p]) \in Seq(Packet) /\ Len(Tail(wire[p])) = Len(wire[p]) - 1
      /\ Len(wire[p]) \in Nat /\ Len(wire[p]) >= 1
      /\ \A i \in DOMAIN Tail(wire[p]) : i + 1 \in DOMAIN wire[p] /\ Tail(wire[p])[i] = wire[p][i + 1]
      /\ 1 \in DOMAIN wire[p] /\ wire[p][1] = pkt
  <2>1. wire[p] \in Seq(Packet) /\ wire[p] # << >>
    BY <1>1, <1>4
  <2>2. QED
    BY <1>1, <2>1
<1>6. /\ wire' \in [Senders -> Seq(Packet)] /\ wire'[p] = Tail(wire[p])
      /\ \A s \in Senders \ {p} : wire'[s] = wire[s]
  BY <1>1, <1>4, <1>5
<1>7. Links'
  <2>1. ASSUME NEW s \in Senders PROVE Len(wire'[s]) <= sent[s]
    <3>1. CASE s = p
      BY <1>4, <1>5, <1>6, <3>1
    <3>2. CASE s # p
      BY <1>4, <1>6, <3>2
    <3>3. QED
      BY <3>1, <3>2
  <2>2. QED
    BY <1>1, <1>3, <1>4, <1>6, <2>1 DEF Links
<1>8. /\ \A g \in Groups \ {<<p, pkt.class>>} : ingressPG'[g] = ingressPG[g]
      /\ ingressPG'[<<p, pkt.class>>] <= ingressPG[<<p, pkt.class>>] + pkt.size
  <2>1. ingressPG \in [Groups -> Nat]
    BY DEF Limits, Bytes, IngressTypes
  <2>2. CASE UpdateIngressAdmission(p, pkt.class, pkt.size)
    <3>1. ingressPG' = [ingressPG EXCEPT ![<<p, pkt.class>>] = @ + pkt.size]
      BY <2>2 DEF UpdateIngressAdmission
    <3>2. QED
      BY <1>2, <2>1, <3>1
  <2>3. CASE Passes(p, pkt.class, pkt.size) \/ UNCHANGED <<ingressVars, queue>>
    <3>1. ingressPG' = ingressPG
      BY <2>3 DEF Passes, ingressVars
    <3>2. QED
      BY <1>2, <2>1, <3>1
  <2>4. QED
    BY <1>1, <2>2, <2>3
<1>9. ASSUME ~setup'.dynamicth, NEW s \in Senders, NEW c \in Classes \ {0}
      PROVE  Flowing(s, c)' \/ Stopped(s, c)'
  <2>1. Flowing(s, c) \/ Stopped(s, c)
    BY <1>3, <1>9 DEF Limits, Limited
  <2>2. CASE s # p
    <3>1. <<s, c>> \in Groups /\ <<s, c>> # <<p, pkt.class>>
      BY <2>2, Domains
    <3>2. ingressPG'[<<s, c>>] = ingressPG[<<s, c>>] /\ wire'[s] = wire[s]
      BY <1>6, <1>8, <2>2, <3>1
    <3>3. QED
      BY <1>1, <1>3, <2>1, <3>2 DEF Flowing, Stopped
  <2>3. CASE s = p /\ Stopped(s, c)
    <3>1. pkt.class # c
      BY <1>5, <2>3 DEF Stopped
    <3>2. <<s, c>> \in Groups /\ <<s, c>> # <<p, pkt.class>>
      BY <3>1, Domains
    <3>3. ingressPG'[<<s, c>>] = ingressPG[<<s, c>>]
      BY <1>8, <3>2
    <3>4. \A i \in DOMAIN wire'[s] : wire'[s][i].class # c
      <4>1. \A i \in DOMAIN wire[p] : wire[p][i].class # c
        BY <2>3 DEF Stopped
      <4>2. wire'[s] = Tail(wire[p])
        BY <1>6, <2>3
      <4>3. \A i \in DOMAIN Tail(wire[p]) : Tail(wire[p])[i].class # c
        BY <1>5, <4>1
      <4>4. QED
        BY <4>2, <4>3
    <3>5. QED
      BY <1>1, <1>3, <2>3, <3>3, <3>4 DEF Stopped
  <2>4. CASE s = p /\ Flowing(s, c)
    <3> DEFINE n == ingressPG[<<s, c>>]
               n1 == ingressPG'[<<s, c>>]
               w == MaxPacket * Len(wire[s])
               w1 == MaxPacket * Len(wire'[s])
               t == MaxPacket * sent[s]
    <3>1. n \in Nat /\ w \in Nat /\ t \in Nat /\ pg_shared_limit_cell \in Nat /\ MaxPacket \in Nat
      BY BoundTypes DEF Limits
    <3>2. n1 \in Nat /\ w1 \in Nat
      <4>1. <<s, c>> \in Groups
        BY Domains
      <4>2. n1 \in Nat
        BY <4>1 DEF Bytes, IngressTypes
      <4>3. Len(wire'[s]) \in Nat
        BY <1>5, <1>6, <2>4
      <4>4. QED
        BY <3>1, <4>2, <4>3
    <3>3. w = w1 + MaxPacket
      <4>1. Len(wire'[s]) = Len(wire[s]) - 1 /\ Len(wire[s]) \in Nat /\ Len(wire[s]) >= 1
        BY <1>5, <1>6, <2>4
      <4>2. QED
        BY <3>1, <4>1, Weighs
    <3>4. n1 <= n + MaxPacket
      <4>1. <<s, c>> \in Groups
        BY Domains
      <4>2. CASE c = pkt.class
        <5>1. n1 <= n + pkt.size
          BY <1>8, <2>4, <4>2
        <5> HIDE DEF n, n1
        <5>2. QED
          BY <1>2, <3>1, <3>2, <5>1
      <4>3. CASE c # pkt.class
        <5>1. n1 = n
          BY <1>8, <4>1, <4>3
        <5> HIDE DEF n, n1
        <5>2. QED
          BY <3>1, <5>1
      <4>4. QED
        BY <4>2, <4>3
    <3>5. n + w <= pg_shared_limit_cell + t
      BY <2>4 DEF Flowing
    <3> HIDE DEF n, n1, w, w1, t
    <3>6. n1 + w1 <= pg_shared_limit_cell + t
      BY <3>1, <3>2, <3>3, <3>4, <3>5
    <3>7. QED
      BY <1>1, <3>6 DEF Flowing, n1, w1, t
  <2>5. QED
    BY <2>1, <2>2, <2>3, <2>4
<1>10. QED
  BY <1>7, <1>9 DEF Limited

\* A NIC that is not paused sends one packet more, of those it may.
LEMMA SendLimits ==
    ASSUME Limits, NEW p \in Senders, SendPacket(p)
    PROVE  Links' /\ Limited'
<1>1. PICK q \in Classes : \E out \in setup.outs \ {p}, size \in PacketSizes :
        /\ sent[p] < setup.perTick /\ ~paused[<<p, q>>]
        /\ wire' = [wire EXCEPT ![p] = Append(@, [class |-> q, out |-> out, size |-> size])]
        /\ sent' = [sent EXCEPT ![p] = @ + 1]
        /\ UNCHANGED <<mmuVars, setup, paused, resume>>
  BY DEF SendPacket
<1>2. PICK out \in setup.outs \ {p} : \E size \in PacketSizes :
        /\ sent[p] < setup.perTick /\ ~paused[<<p, q>>]
        /\ wire' = [wire EXCEPT ![p] = Append(@, [class |-> q, out |-> out, size |-> size])]
        /\ sent' = [sent EXCEPT ![p] = @ + 1]
        /\ UNCHANGED <<mmuVars, setup, paused, resume>>
  BY <1>1
<1>3. PICK size \in PacketSizes :
        /\ sent[p] < setup.perTick /\ ~paused[<<p, q>>]
        /\ wire' = [wire EXCEPT ![p] = Append(@, [class |-> q, out |-> out, size |-> size])]
        /\ sent' = [sent EXCEPT ![p] = @ + 1]
        /\ UNCHANGED <<mmuVars, setup, paused, resume>>
  BY <1>2
<1> DEFINE pkt == [class |-> q, out |-> out, size |-> size]
<1>4. pkt \in Packet /\ pkt.class = q
  <2>1. setup \in Setups
    BY DEF Limits, Basic, Shape
  <2>2. out \in Ports
    BY <2>1, PfcAssumption
  <2>3. QED
    BY <2>2 DEF Packet
<1>5. wire' = [wire EXCEPT ![p] = Append(wire[p], pkt)] /\ sent' = [sent EXCEPT ![p] = sent[p] + 1]
  BY <1>3
<1> HIDE DEF pkt
<1>6. /\ wire \in [Senders -> Seq(Packet)] /\ sent \in [Senders -> Nat] /\ setup.perTick \in Nat
      /\ \A s \in Senders : Len(wire[s]) <= sent[s] /\ sent[s] <= setup.perTick
  BY PfcAssumption DEF Limits, Links, Basic, Shape
<1>7. /\ Append(wire[p], pkt) \in Seq(Packet)
      /\ Len(Append(wire[p], pkt)) = Len(wire[p]) + 1 /\ Len(wire[p]) \in Nat
      /\ \A i \in DOMAIN Append(wire[p], pkt) :
            Append(wire[p], pkt)[i] = pkt \/ (i \in DOMAIN wire[p] /\ Append(wire[p], pkt)[i] = wire[p][i])
  BY <1>4, <1>6
<1>8. /\ wire' \in [Senders -> Seq(Packet)] /\ sent' \in [Senders -> Nat]
      /\ wire'[p] = Append(wire[p], pkt) /\ sent'[p] = sent[p] + 1
      /\ \A s \in Senders \ {p} : wire'[s] = wire[s] /\ sent'[s] = sent[s]
  BY <1>5, <1>6, <1>7
<1>9. UNCHANGED <<setup, paused, resume, ingressPG>>
  BY <1>3 DEF mmuVars, ingressVars
<1>10. Links'
  <2>1. ASSUME NEW s \in Senders PROVE Len(wire'[s]) <= sent'[s] /\ sent'[s] <= setup.perTick
    <3>1. CASE s = p
      <4>1. sent[p] \in Nat /\ sent[p] + 1 <= setup.perTick
        BY <1>3, <1>6
      <4>2. Len(wire'[p]) = Len(wire[p]) + 1 /\ Len(wire[p]) <= sent[p]
        BY <1>6, <1>7, <1>8
      <4>3. QED
        BY <1>7, <1>8, <3>1, <4>1, <4>2
    <3>2. CASE s # p
      BY <1>6, <1>8, <3>2
    <3>3. QED
      BY <3>1, <3>2
  <2>2. QED
    BY <1>8, <1>9, <2>1 DEF Links
<1>11. ASSUME ~setup'.dynamicth, NEW s \in Senders, NEW c \in Classes \ {0}
       PROVE  Flowing(s, c)' \/ Stopped(s, c)'
  <2>1. Flowing(s, c) \/ Stopped(s, c)
    BY <1>9, <1>11 DEF Limits, Limited
  <2>2. CASE s # p
    BY <1>8, <1>9, <2>1, <2>2 DEF Flowing, Stopped
  <2>3. CASE s = p /\ Stopped(s, c)
    <3>1. c # q
      BY <1>3, <2>3 DEF Stopped
    <3>2. \A i \in DOMAIN wire'[s] : wire'[s][i].class # c
      <4>1. \A i \in DOMAIN wire[p] : wire[p][i].class # c
        BY <2>3 DEF Stopped
      <4>2. wire'[s] = Append(wire[p], pkt)
        BY <1>8, <2>3
      <4>3. QED
        BY <1>4, <1>7, <3>1, <4>1, <4>2
    <3>3. QED
      BY <1>9, <2>3, <3>2 DEF Stopped
  <2>4. CASE s = p /\ Flowing(s, c)
    <3> DEFINE n == ingressPG[<<s, c>>]
               w == MaxPacket * Len(wire[s])
               w1 == MaxPacket * Len(wire'[s])
               t == MaxPacket * sent[s]
               t1 == MaxPacket * sent'[s]
    <3>1. n \in Nat /\ w \in Nat /\ t \in Nat /\ pg_shared_limit_cell \in Nat /\ MaxPacket \in Nat
      BY BoundTypes DEF Limits
    <3>2. w1 = w + MaxPacket /\ t1 = t + MaxPacket
      <4>1. Len(wire'[s]) = Len(wire[s]) + 1 /\ sent'[s] = sent[s] + 1
        BY <1>7, <1>8, <2>4
      <4>2. Len(wire[s]) \in Nat /\ sent[s] \in Nat
        BY <1>6, <1>7, <2>4
      <4>3. QED
        BY <3>1, <4>1, <4>2, Weighs
    <3>3. n + w <= pg_shared_limit_cell + t
      BY <2>4 DEF Flowing
    <3>4. ingressPG'[<<s, c>>] = n
      BY <1>9
    <3> HIDE DEF n, w, w1, t, t1
    <3>5. n + w1 <= pg_shared_limit_cell + t1
      BY <3>1, <3>2, <3>3
    <3>6. QED
      BY <3>4, <3>5 DEF Flowing, w1, t1
  <2>5. QED
    BY <2>1, <2>2, <2>3, <2>4
<1>12. QED
  BY <1>10, <1>11 DEF Limited

\* A step that leaves the links, and the pauses of full classes.
LEMMA QuietLimits ==
    ASSUME Limits, UNCHANGED <<setup, wire, sent>>, Basic', Bytes',
           \A g \in Groups : ingressPG'[g] <= ingressPG[g],
           ~setup.dynamicth =>
                \A p \in Senders, c \in Classes \ {0} :
                    Stopped(p, c) =>
                        \/ paused'[<<p, c>>] /\ resume'[<<p, c>>] > 0
                        \/ ingressPG'[<<p, c>>] <= pg_shared_limit_cell
    PROVE  Links' /\ Limited'
<1>1. Links'
  BY DEF Limits, Links
<1>2. ASSUME ~setup'.dynamicth, NEW s \in Senders, NEW c \in Classes \ {0}
      PROVE  Flowing(s, c)' \/ Stopped(s, c)'
  <2>1. Flowing(s, c) \/ Stopped(s, c)
    BY <1>2 DEF Limits, Limited
  <2> DEFINE n == ingressPG[<<s, c>>]
             n1 == ingressPG'[<<s, c>>]
             w == MaxPacket * Len(wire[s])
             t == MaxPacket * sent[s]
             u == MaxPacket * setup.perTick
  <2>2. /\ n \in Nat /\ w \in Nat /\ t \in Nat /\ u \in Nat /\ pg_shared_limit_cell \in Nat
        /\ <<s, c>> \in Groups
    BY BoundTypes DEF Limits
  <2>3. n1 \in Nat /\ n1 <= n
    BY <2>2 DEF Bytes, IngressTypes
  <2>4. CASE Flowing(s, c)
    <3>1. n + w <= pg_shared_limit_cell + t
      BY <2>4 DEF Flowing
    <3> HIDE DEF n, n1, w, t, u
    <3>2. n1 + w <= pg_shared_limit_cell + t
      BY <2>2, <2>3, <3>1
    <3>3. QED
      BY <3>2 DEF Flowing, n1, w, t
  <2>5. CASE Stopped(s, c) /\ n1 <= pg_shared_limit_cell
    <3>1. w <= t
      BY BoundTypes, Weighs DEF Limits, Links
    <3> HIDE DEF n, n1, w, t, u
    <3>2. n1 + w <= pg_shared_limit_cell + t
      BY <2>2, <2>3, <2>5, <3>1
    <3>3. QED
      BY <3>2 DEF Flowing, n1, w, t
  <2>6. CASE Stopped(s, c) /\ paused'[<<s, c>>] /\ resume'[<<s, c>>] > 0
    <3>1. n <= pg_shared_limit_cell + u
      BY <2>6 DEF Stopped
    <3> HIDE DEF n, n1, w, t, u
    <3>2. n1 <= pg_shared_limit_cell + u
      BY <2>2, <2>3, <3>1
    <3>3. QED
      BY <2>6, <3>2 DEF Stopped, n1, u
  <2>7. QED
    BY <1>2, <2>1, <2>4, <2>5, <2>6
<1>3. QED
  BY <1>1, <1>2 DEF Limited

\* A pause that ends by itself was not that of a class that is stopped, and
\* no frame ends one but that of class 0.
LEMMA PauseLimits ==
    ASSUME Limits, Basic', Bytes',
           \/ \E p \in Senders : ReceivePause(p)
           \/ \E p \in Senders, q \in AllClasses : PauseFinish(p, q)
           \/ \E c \in Checks : Recheck(c[1], c[2], c[3])
           \/ UNCHANGED vars
    PROVE  Links' /\ Limited'
<1>1. UNCHANGED <<setup, wire, sent, ingressPG>>
  <2>1. CASE (\E p \in Senders : ReceivePause(p)) \/ (\E p \in Senders, q \in AllClasses : PauseFinish(p, q))
    BY <2>1 DEF ReceivePause, PauseFinish, mmuVars, ingressVars
  <2>2. CASE \E c \in Checks : Recheck(c[1], c[2], c[3])
    BY <2>2 DEF Recheck, CheckQueueFull, mmuVars, ingressVars
  <2>3. CASE UNCHANGED vars
    BY <2>3 DEF vars, pfcVars, mmuVars, ingressVars
  <2>4. QED
    BY <2>1, <2>2, <2>3
<1>2. \A g \in Groups : ingressPG'[g] <= ingressPG[g]
  <2>1. \A g \in Groups : ingressPG[g] \in Nat
    BY DEF Limits, Bytes, IngressTypes
  <2>2. QED
    BY <1>1, <2>1
<1>3. /\ paused \in [Senders \X AllClasses -> BOOLEAN] /\ resume \in [Senders \X AllClasses -> Int]
      /\ frames \in [Senders -> Seq(Frames)]
  BY DEF Limits, Basic, Shape
<1>4. ASSUME NEW s \in Senders, NEW c \in Classes \ {0}, Stopped(s, c)
      PROVE  paused'[<<s, c>>] /\ resume'[<<s, c>>] > 0
  <2>1. paused[<<s, c>>] /\ resume[<<s, c>>] > 0 /\ <<s, c>> \in Senders \X AllClasses
    BY <1>4, Domains DEF Stopped
  <2>2. CASE \E p \in Senders : ReceivePause(p)
    <3>1. PICK p \in Senders : ReceivePause(p)
      BY <2>2
    <3> DEFINE f == Head(frames[p])
               time == IF f.time > 0 THEN f.time ELSE None
    <3>2. /\ frames[p] # << >>
          /\ paused' = [paused EXCEPT ![<<p, f.class>>] = f.time > 0]
          /\ resume' = [resume EXCEPT ![<<p, f.class>>] = time]
      BY <3>1 DEF ReceivePause
    <3>3. f \in Frames
      BY <1>3, <3>2
    <3>4. <<s, c>> = <<p, f.class>> => f.time > 0
      BY <3>3, PfcAssumption DEF Frames
    <3>5. CASE <<s, c>> = <<p, f.class>>
      <4>1. time > 0
        BY <3>4, <3>5
      <4>2. paused'[<<s, c>>] = (f.time > 0) /\ resume'[<<s, c>>] = time
        <5> HIDE DEF f, time
        <5>1. QED
          BY <1>3, <2>1, <3>2, <3>5
      <4> HIDE DEF f, time
      <4>3. QED
        BY <3>4, <3>5, <4>1, <4>2
    <3>6. CASE <<s, c>> # <<p, f.class>>
      <4> HIDE DEF f, time
      <4>1. paused'[<<s, c>>] = paused[<<s, c>>] /\ resume'[<<s, c>>] = resume[<<s, c>>]
        BY <1>3, <2>1, <3>2, <3>6
      <4>2. QED
        BY <2>1, <4>1
    <3>7. QED
      BY <3>5, <3>6
  <2>3. CASE \E p \in Senders, q \in AllClasses : PauseFinish(p, q)
    <3>1. PICK p \in Senders, q \in AllClasses : PauseFinish(p, q)
      BY <2>3
    <3>2. /\ resume[<<p, q>>] = 0
          /\ paused' = [paused EXCEPT ![<<p, q>>] = FALSE]
          /\ resume' = [resume EXCEPT ![<<p, q>>] = None]
      BY <3>1 DEF PauseFinish
    <3>3. <<s, c>> # <<p, q>>
      BY <2>1, <3>2
    <3>4. paused'[<<s, c>>] = paused[<<s, c>>] /\ resume'[<<s, c>>] = resume[<<s, c>>]
      BY <1>3, <2>1, <3>2, <3>3
    <3>5. QED
      BY <2>1, <3>4
  <2>4. CASE (\E k \in Checks : Recheck(k[1], k[2], k[3])) \/ UNCHANGED vars
    <3>1. UNCHANGED <<paused, resume>>
      BY <2>4 DEF Recheck, vars, pfcVars
    <3>2. QED
      BY <2>1, <3>1
  <2>5. QED
    BY <2>2, <2>3, <2>4
<1>5. QED
  BY <1>1, <1>2, <1>4, QuietLimits

\* What is sent makes room.
LEMMA TransmitLimits ==
    ASSUME Limits, Basic', Bytes', NEW out \in Ports, NEW q \in Classes, Transmit(out, q)
    PROVE  Links' /\ Limited'
<1>1. UNCHANGED <<setup, wire, sent, paused, resume>> /\ Leaves(out, q)
  BY DEF Transmit, Leaves, pfcVars
<1> DEFINE e == Head(queue[<<out, q>>])
<1>2. IngressTypes /\ QueueTypes /\ Ingress /\ ingressPG \in [Groups -> Nat]
  BY DEF Limits, Bytes, IngressTypes
<1>3. e.in \in Ports /\ e.size \in Nat /\ Returned(e.in, q, e.size)
  BY <1>1, <1>2, NothingWraps
<1> HIDE DEF e
<1>4. ingressPG' = [ingressPG EXCEPT ![<<e.in, q>>] = ingressPG[<<e.in, q>>] - e.size] /\ <<e.in, q>> \in Groups
  BY <1>3, Domains DEF Returned
<1>5. ASSUME NEW g \in Groups PROVE ingressPG'[g] <= ingressPG[g]
  <2>1. CASE g = <<e.in, q>>
    <3>1. ingressPG'[g] = ingressPG[g] - e.size /\ ingressPG[g] \in Nat
      BY <1>2, <1>4, <2>1
    <3>2. QED
      BY <1>3, <3>1
  <2>2. CASE g # <<e.in, q>>
    <3>1. ingressPG'[g] = ingressPG[g] /\ ingressPG[g] \in Nat
      BY <1>2, <1>4, <2>2
    <3>2. QED
      BY <3>1
  <2>3. QED
    BY <2>1, <2>2
<1>6. \A p \in Senders, c \in Classes \ {0} : Stopped(p, c) => paused'[<<p, c>>] /\ resume'[<<p, c>>] > 0
  BY <1>1 DEF Stopped
<1>7. QED
  BY <1>1, <1>5, <1>6, QuietLimits

\* A class that is full when a tick ends is stopped for the next.
LEMMA TickLimits ==
    ASSUME Limits, Basic', Bytes', Tick
    PROVE  Links' /\ Limited'
<1>1. /\ \A x \in DOMAIN recheck : recheck[x] # 0
      /\ \A p \in Senders : wire[p] = << >> /\ frames[p] = << >>
      /\ resume' = Elapsed(resume)
      /\ sent' = [p \in Senders |-> 0]
      /\ UNCHANGED <<setup, paused, wire, ingressPG>>
  BY DEF Tick, mmuVars, ingressVars
<1>2. /\ wire \in [Senders -> Seq(Packet)] /\ setup.perTick \in Nat
  BY PfcAssumption DEF Limits, Links, Basic, Shape
<1>3. Links'
  BY <1>1, <1>2 DEF Links
<1>4. ASSUME ~setup'.dynamicth, NEW s \in Senders, NEW c \in Classes \ {0}
      PROVE  Flowing(s, c)' \/ Stopped(s, c)'
  <2>1. CASE ingressPG'[<<s, c>>] <= pg_shared_limit_cell
    <3>1. Links' /\ Basic' /\ Bytes'
      BY <1>3
    <3>2. sent'[s] = 0 /\ Len(wire'[s]) = 0
      BY <1>1
    <3>3. MaxPacket * 0 = 0
      BY PacketFacts
    <3>4. ingressPG'[<<s, c>>] \in Nat /\ pg_shared_limit_cell \in Nat
      BY BoundTypes, <1>1 DEF Limits
    <3>5. ingressPG'[<<s, c>>] + 0 <= pg_shared_limit_cell + 0
      BY <2>1, <3>4
    <3>6. QED
      BY <3>2, <3>3, <3>5 DEF Flowing
  <2>2. CASE ~ (ingressPG'[<<s, c>>] <= pg_shared_limit_cell)
    <3>1. /\ ingressPG[<<s, c>>] \in Nat /\ pg_shared_limit_cell \in Nat
          /\ <<s, c>> \in Senders \X AllClasses /\ resume[<<s, c>>] \in Int
      BY BoundTypes DEF Limits
    <3>2. ingressPG[<<s, c>>] > pg_shared_limit_cell
      BY <1>1, <2>2, <3>1
    <3>3. Renewed(s, c)
      BY <1>1, <1>4, <3>2 DEF Limits, Guarded
    <3>4. ~Announced(s, c)
      BY <1>1 DEF Announced
    <3>5. PICK o \in Ports :
            recheck[<<o, s, c>>] \in 0..(PauseTime \div 2) /\ paused[<<s, c>>] /\ recheck[<<o, s, c>>] < resume[<<s, c>>]
      BY <3>3, <3>4 DEF Renewed
    <3>6. recheck[<<o, s, c>>] # 0
      BY <1>1, Domains DEF Limits, Basic, Counters
    <3>7. resume[<<s, c>>] - 1 > 0 /\ resume[<<s, c>>] # None
      BY <3>1, <3>5, <3>6, HalfPause DEF None
    <3>8. resume'[<<s, c>>] = resume[<<s, c>>] - 1
      <4>1. DOMAIN resume = Senders \X AllClasses
        BY DEF Limits, Basic, Shape
      <4>2. QED
        BY <1>1, <3>1, <3>7, <4>1 DEF Elapsed
    <3>9. ingressPG[<<s, c>>] <= pg_shared_limit_cell + MaxPacket * setup.perTick
      BY <1>1, <1>4, WithinTick DEF Limits, Limited
    <3>10. QED
      BY <1>1, <3>5, <3>7, <3>8, <3>9 DEF Stopped
  <2>3. QED
    BY <2>1, <2>2
<1>5. QED
  BY <1>3, <1>4 DEF Limited

\* At first every class is empty, and nothing is on a link.
LEMMA InitLimits ==
    ASSUME Init
    PROVE  Limits
<1>1. Basic /\ Guarded /\ Bytes
  BY InitHolds, InitHeld DEF Held
<1>2. wire = [p \in Senders |-> << >>] /\ sent = [p \in Senders |-> 0]
  BY DEF Init
<1>3. Links
  <2>1. setup.perTick \in Nat
    BY <1>1, PfcAssumption DEF Basic, Shape
  <2>2. << >> \in Seq(Packet) /\ Len(<< >>) = 0
    OBVIOUS
  <2>3. QED
    BY <1>2, <2>1, <2>2 DEF Links
<1>4. ASSUME NEW p \in Senders, NEW c \in Classes \ {0} PROVE Flowing(p, c)
  <2>1. ingressPG[<<p, c>>] = 0
    BY Domains DEF Init, MmuInit
  <2>2. ingressPG[<<p, c>>] <= pg_shared_limit_cell
    BY <2>1, PfcAssumption
  <2>3. QED
    BY <1>1, <1>3, <2>2, BelowFlows
<1>5. QED
  BY <1>1, <1>3, <1>4 DEF Limits, Limited

\* Every step keeps what a paused class may still bring.
LEMMA NextLimits ==
    ASSUME Limits, [Next]_vars
    PROVE  Limits'
<1>1. Bytes' /\ Accounted
  BY NextCounts, BytesAccount DEF Limits
<1>2. Basic' /\ Guarded'
  BY <1>1, NextKeeps DEF Limits
<1>3. CASE \E p \in Senders : SendPacket(p)
  BY <1>1, <1>2, <1>3, SendLimits DEF Limits
<1>4. CASE \E p \in Senders : Forward(p)
  BY <1>1, <1>2, <1>4, ForwardLimits DEF Limits
<1>5. CASE \/ \E p \in Senders : ReceivePause(p)
           \/ \E p \in Senders, q \in AllClasses : PauseFinish(p, q)
           \/ \E c \in Checks : Recheck(c[1], c[2], c[3])
           \/ UNCHANGED vars
  BY <1>1, <1>2, <1>5, PauseLimits DEF Limits
<1>6. CASE \E out \in Ports, q \in Classes : Transmit(out, q)
  BY <1>1, <1>2, <1>6, TransmitLimits DEF Limits
<1>7. CASE Tick
  BY <1>1, <1>2, <1>7, TickLimits DEF Limits
<1>8. QED
  BY <1>3, <1>4, <1>5, <1>6, <1>7 DEF Next

-----------------------------------------------------------------------------
(* Room for what the pauses let in.                                        *)

\* The most a class holds whose pauses are kept: its threshold, and what comes
\* in the tick in which it crosses it.
Full == pg_shared_limit_cell + MaxPacket * setup.perTick

\* What a group may take of the buffer: class 0, whose pause is lifted too
\* early, is held back only by its headroom.
Share ==
    [g \in Groups |-> IF g[1] \notin Senders THEN 0
                      ELSE IF g[2] = 0 THEN Reserve
                      ELSE Full]

\* The headroom and the buffer are laid out for it.
Provisioned ==
    /\ Full <= pg_hdrm_limit
    /\ buffer_cell_limit_sp + 2 * MaxPacket
            + Sum(Share, PoolGroups(0)) + Sum(Share, PoolGroups(1)) <= maxBufferBytes

\* A class other than 0 keeps to its share; of class 0 the headroom does.
LEMMA SharesKept ==
    ASSUME Held, Limits, ~setup.dynamicth, NEW g \in Groups
    PROVE  /\ Share[g] \in Nat /\ Counted[g] \in Nat /\ ingressPG[g] \in Nat
           /\ Counted[g] <= Share[g]
           /\ g[2] # 0 => ingressPG[g] <= Share[g]
<1>1. PICK p \in Ports : \E q \in Classes : g = <<p, q>>
  BY DEF Groups
<1>2. PICK q \in Classes : g = <<p, q>>
  BY <1>1
<1>3. g[1] = p /\ g[2] = q
  BY <1>2
<1>4. ingressPG[g] \in Nat /\ headroom[g] \in Nat /\ headroom[g] <= ingressPG[g]
  BY DEF Held, Bytes, IngressTypes, Covered
<1>5. /\ Counted[g] \in Nat /\ Counted[g] <= headroom[g] /\ Counted[g] <= Reserve
      /\ Reserve \in Nat
  BY <1>4, ReserveFacts DEF Counted, Least
<1>6. CASE p \notin Senders
  <2>1. ingressPG[g] = 0
    BY <1>3, <1>6 DEF Held, Unused
  <2>2. Share[g] = 0
    BY <1>3, <1>6 DEF Share
  <2>3. QED
    BY <1>4, <1>5, <2>1, <2>2
<1>7. CASE p \in Senders /\ q = 0
  <2>1. Share[g] = Reserve
    BY <1>3, <1>7 DEF Share
  <2>2. QED
    BY <1>3, <1>4, <1>5, <1>7, <2>1
<1>8. CASE p \in Senders /\ q # 0
  <2>1. Share[g] = Full
    BY <1>3, <1>8 DEF Share
  <2>2. Basic /\ Links /\ Bytes /\ (Flowing(p, q) \/ Stopped(p, q))
    BY <1>8 DEF Limits, Limited
  <2>3. ingressPG[<<p, q>>] <= Full
    BY <1>8, <2>2, WithinTick DEF Full
  <2>4. ingressPG[g] <= Full
    BY <1>2, <2>3
  <2>5. Full \in Nat
    <3>1. pg_shared_limit_cell \in Nat /\ MaxPacket * setup.perTick \in Nat
      BY <1>8, <2>2, BoundTypes
    <3>2. QED
      BY <3>1 DEF Full
  <2>6. QED
    BY <1>4, <1>5, <2>1, <2>4, <2>5
<1>9. QED
  BY <1>6, <1>7, <1>8

\* A packet of a class whose pause holds finds room in the buffer ...
LEMMA BufferHasRoom ==
    ASSUME Held, Limits, ~setup.dynamicth, Provisioned
    PROVE  usedTotal + MaxPacket <= maxBufferBytes
<1> DEFINE S0 == PoolGroups(0)
           S1 == PoolGroups(1)
           a == Sum(Share, S0)
           b == Sum(Share, S1)
           c == Sum(Counted, S0)
<1>1. 0 \in Pools /\ 1 \in Pools
  BY DEF Pools
<1>2. S0 \subseteq Groups /\ IsFiniteSet(S0) /\ S1 \subseteq Groups /\ IsFiniteSet(S1)
  BY <1>1, GroupsFinite
<1>3. \A g \in S1 : g[2] # 0
  BY DEF PoolGroups, SP
<1>4. c <= a
  BY <1>2, SharesKept, SumMonotone
<1>5. Sum(ingressPG, S1) <= b
  BY <1>2, <1>3, SharesKept, SumMonotone
<1>6. a \in Nat /\ b \in Nat /\ c \in Nat /\ Sum(ingressPG, S1) \in Nat
  BY <1>2, SharesKept, SumNat
<1>7. /\ ingressSP[0] <= buffer_cell_limit_sp + MaxPacket + c
      /\ ingressSP[1] = Sum(ingressPG, S1)
      /\ usedTotal = ingressSP[0] + ingressSP[1]
  BY <1>1 DEF Held, Bytes, Covered, Ingress
<1>8. /\ ingressSP[0] \in Nat /\ MaxPacket \in Nat /\ buffer_cell_limit_sp \in Nat
      /\ maxBufferBytes \in Nat
  BY <1>1, PacketFacts, MmuAssumption DEF Held, Bytes, IngressTypes
<1>9. buffer_cell_limit_sp + 2 * MaxPacket + a + b <= maxBufferBytes
  BY DEF Provisioned
<1> HIDE DEF S0, S1, a, b, c
<1>10. QED
  BY <1>4, <1>5, <1>6, <1>7, <1>8, <1>9

\* ... and in the headroom.
LEMMA Admitted ==
    ASSUME Held, Limits, ~setup.dynamicth, Provisioned, NEW p \in Senders,
           wire[p] # << >>, Head(wire[p]).class # 0
    PROVE  CheckIngressAdmission(p, Head(wire[p]).class, Head(wire[p]).size)
<1> DEFINE e == Head(wire[p])
           c == e.class
           size == e.size
<1>1. /\ wire[p] \in Seq(Packet) /\ e \in Packet /\ Len(wire[p]) >= 1
      /\ 1 \in DOMAIN wire[p] /\ e = wire[p][1]
  BY DEF Limits, Links
<1>2. c \in Classes \ {0} /\ size \in Nat /\ size <= MaxPacket
  BY <1>1, PacketFacts DEF Packet
<1>3. Flowing(p, c)
  <2>1. Flowing(p, c) \/ Stopped(p, c)
    BY <1>2 DEF Limits, Limited
  <2>2. ~Stopped(p, c)
    BY <1>1 DEF Stopped
  <2>3. QED
    BY <2>1, <2>2
<1> DEFINE n == ingressPG[<<p, c>>]
           h == headroom[<<p, c>>]
           w == MaxPacket * Len(wire[p])
           s == MaxPacket * sent[p]
           t == MaxPacket * setup.perTick
<1>4. /\ n \in Nat /\ w \in Nat /\ s \in Nat /\ t \in Nat
      /\ pg_shared_limit_cell \in Nat /\ MaxPacket \in Nat /\ <<p, c>> \in Groups
  BY <1>2, BoundTypes DEF Limits
<1>5. s <= t /\ MaxPacket <= w
  <2>1. s <= t
    BY BoundTypes, <1>2, Weighs DEF Limits, Links
  <2>2. Len(wire[p]) - 1 \in Nat /\ Len(wire[p]) \in Nat
    BY <1>1
  <2>3. w = MaxPacket * (Len(wire[p]) - 1) + MaxPacket
    BY <1>1, <1>4, <2>2, Weighs
  <2>4. MaxPacket * (Len(wire[p]) - 1) \in Nat
    BY <1>4, <2>2
  <2>5. MaxPacket <= w
    <3> HIDE DEF w
    <3>1. QED
      BY <1>4, <2>3, <2>4
  <2>6. QED
    BY <2>1, <2>5
<1>6. n + w <= pg_shared_limit_cell + s
  BY <1>3 DEF Flowing
<1>7. h \in Nat /\ h <= n
  BY <1>4 DEF Held, Bytes, Covered, IngressTypes
<1>8. pg_shared_limit_cell + t <= pg_hdrm_limit /\ pg_hdrm_limit \in Nat
  BY ReserveFacts DEF Provisioned, Full
<1>9. usedTotal + MaxPacket <= maxBufferBytes /\ usedTotal \in Nat /\ maxBufferBytes \in Nat
  BY BufferHasRoom, MmuAssumption DEF Held, Bytes, IngressTypes
<1> HIDE DEF e, c, size, n, h, w, s, t
<1>10. h + size <= pg_hdrm_limit
  BY <1>2, <1>4, <1>5, <1>6, <1>7, <1>8
<1>11. usedTotal + size <= maxBufferBytes
  BY <1>2, <1>4, <1>9
<1>12. CheckIngressAdmission(p, c, size)
  BY <1>10, <1>11 DEF CheckIngressAdmission, h
<1>13. QED
  BY <1>12 DEF c, size, e

\* What the theorem is about, with all that it rests on.
Roomy == ~setup.dynamicth /\ Provisioned => dropped \subseteq {0}

\* Only a packet that arrives can be refused.
LEMMA NextRoomy ==
    ASSUME Held, Limits, Roomy, [Next]_vars
    PROVE  Roomy'
<1>1. setup' = setup
  <2>1. CASE \/ \E p \in Senders : SendPacket(p) \/ ReceivePause(p)
             \/ \E p \in Senders, q \in AllClasses : PauseFinish(p, q)
             \/ Tick
    BY <2>1 DEF SendPacket, ReceivePause, PauseFinish, Tick
  <2>2. CASE \E p \in Senders : Forward(p)
    <3>1. PICK p \in Senders, pkt \in Packet :
            CheckQueueFull(pkt.out, p, pkt.class, recheck[<<pkt.out, p, pkt.class>>])
      BY <2>2 DEF Forward
    <3>2. QED
      BY <3>1 DEF CheckQueueFull
  <2>3. CASE \E c \in Checks : Recheck(c[1], c[2], c[3])
    <3>1. PICK c \in Checks : CheckQueueFull(c[1], c[2], c[3], None)
      BY <2>3 DEF Recheck
    <3>2. QED
      BY <3>1 DEF CheckQueueFull
  <2>4. CASE \/ \E out \in Ports, q \in Classes : Transmit(out, q)
             \/ UNCHANGED vars
    BY <2>4 DEF Transmit, vars, pfcVars
  <2>5. QED
    BY <2>1, <2>2, <2>3, <2>4 DEF Next
<1>2. Provisioned' <=> Provisioned
  BY <1>1 DEF Provisioned, Full, Share
<1>3. SUFFICES ASSUME ~setup.dynamicth, Provisioned
               PROVE  dropped' \subseteq {0}
  BY <1>1, <1>2 DEF Roomy
<1>4. dropped \subseteq {0}
  BY <1>3 DEF Roomy
<1>5. CASE \E p \in Senders : Forward(p)
  <2>1. PICK p \in Senders : Forward(p)
    BY <1>5
  <2> DEFINE e == Head(wire[p])
  <2>2. /\ wire[p] # << >>
        /\ dropped' = dropped \cup {c \in {e.class} : ~CheckIngressAdmission(p, e.class, e.size)}
    BY <2>1 DEF Forward
  <2>3. e.class # 0 => CheckIngressAdmission(p, e.class, e.size)
    BY <1>3, <2>2, Admitted
  <2>4. QED
    BY <1>4, <2>2, <2>3
<1>6. CASE \/ \E p \in Senders : SendPacket(p) \/ ReceivePause(p)
           \/ \E p \in Senders, q \in AllClasses : PauseFinish(p, q)
           \/ \E out \in Ports, q \in Classes : Transmit(out, q)
           \/ \E c \in Checks : Recheck(c[1], c[2], c[3])
           \/ Tick
           \/ UNCHANGED vars
  <2>1. dropped' = dropped
    BY <1>6 DEF SendPacket, ReceivePause, PauseFinish, Transmit, Recheck, Tick, vars, pfcVars
  <2>2. QED
    BY <1>4, <2>1
<1>7. QED
  BY <1>5, <1>6 DEF Next

\* With the static threshold and headroom for what comes in a tick, no packet
\* of data is refused of a class whose pause holds, whatever the others send.
\* (ACKs, which no pause holds back, are not sent here.)
THEOREM NoneRefused == Spec => [](~setup.dynamicth /\ Provisioned => Lossless)
<1>1. Init => Held /\ Limits /\ Roomy
  <2>1. Init => dropped = {}
    BY DEF Init
  <2>2. QED
    BY <2>1, InitHeld, InitLimits DEF Roomy
<1>2. Held /\ Limits /\ Roomy /\ [Next]_vars => Held' /\ Limits' /\ Roomy'
  BY NextHolds, NextLimits, NextRoomy
<1>3. Roomy => (~setup.dynamicth /\ Provisioned => Lossless)
  BY DEF Roomy, Lossless
<1>4. QED
  BY <1>1, <1>2, <1>3, PTL DEF Spec

=============================================================================

-------------------------- MODULE BroadcomMmuProofs --------------------------
(***************************************************************************)
(* For any number of ports, classes, packets inside and sizes of packets:  *)
(* the counters of a switch's memory are what is inside, none wraps, the   *)
(* error of the egress counters does not grow, and a pool exceeds its      *)
(* limit by no more than the headroom of its groups.                       *)
(***************************************************************************)
EXTENDS BroadcomMmu, DataLemmas

Packets == [in : Ports, size : PacketSizes]

\* What the induction needs of types: the counters that are changed by
\* subtraction are shown not to wrap.
IngressTypes ==
    /\ usedTotal \in Nat
    /\ ingressSP \in [Pools -> Nat]
    /\ ingressPort \in [Ports -> Nat]
    /\ ingressPG \in [Groups -> Nat]
    /\ headroom \in [Groups -> Nat]

EgressTypes ==
    /\ qMin \in [Groups -> 0 .. Modulus - 1]
    /\ qShared \in [Groups -> Nat]
    /\ egressPort \in [Ports -> Nat]
    /\ egressSP \in [Pools -> Nat]

QueueTypes == queue \in [Groups -> Seq(Packets)]

-----------------------------------------------------------------------------
(* Sizes and sets.                                                         *)

\* A packet is no greater than the greatest, and far from wrapping a counter.
LEMMA PacketFacts ==
    /\ MaxPacket \in PacketSizes /\ MaxPacket \in Nat
    /\ \A n \in PacketSizes : n \in Nat \ {0} /\ n <= MaxPacket
    /\ 2 * MaxPacket < Modulus /\ 2 * Cell < Modulus
    /\ Modulus \div 2 \in Nat /\ MaxPacket < Modulus \div 2 /\ Cell < Modulus \div 2
<1>1. Modulus \div 2 \in Nat /\ 2 * (Modulus \div 2) <= Modulus
  BY MmuAssumption
<1>2. PacketSizes \subseteq Nat /\ PacketSizes # {} /\ \A n \in PacketSizes : n <= Modulus \div 2
  BY <1>1, MmuAssumption, WidthAssumption
<1>3. MaxPacket \in PacketSizes /\ \A n \in PacketSizes : n <= MaxPacket
  BY <1>1, <1>2, GreatestExists DEF MaxPacket
<1>4. MaxPacket < Modulus \div 2 /\ Cell < Modulus \div 2
  BY <1>3, WidthAssumption
<1>5. QED
  BY <1>1, <1>2, <1>3, <1>4, MmuAssumption

\* Ports have finitely many classes, so sums over groups are finite.
LEMMA GroupsFinite ==
    /\ IsFiniteSet(Ports) /\ IsFiniteSet(Groups)
    /\ \A p \in Ports : PortGroups(p) \subseteq Groups /\ IsFiniteSet(PortGroups(p))
    /\ \A s \in Pools : PoolGroups(s) \subseteq Groups /\ IsFiniteSet(PoolGroups(s))
<1>1. IsFiniteSet(Classes)
  <2>1. IsFiniteSet(0 .. 6)
    BY FS_Interval, 0 \in Int, 6 \in Int
  <2>2. QED
    BY <2>1, FS_Subset, MmuAssumption
<1>2. IsFiniteSet(Ports)
  BY MmuAssumption
<1>3. IsFiniteSet(Groups)
  BY <1>1, <1>2, FS_Product DEF Groups
<1>4. \A p : PortGroups(p) \subseteq Groups /\ PoolGroups(p) \subseteq Groups
  BY DEF PortGroups, PoolGroups
<1>5. QED
  BY <1>2, <1>3, <1>4, FS_Subset

\* A port and a class are a group, of that port and of the pool of that class.
LEMMA GroupFacts ==
    ASSUME NEW p \in Ports, NEW q \in Classes
    PROVE  /\ <<p, q>> \in Groups /\ SP(q) \in Pools
           /\ <<p, q>>[1] = p /\ <<p, q>>[2] = q
           /\ \A a : <<p, q>> \in PortGroups(a) <=> a = p
           /\ \A s : <<p, q>> \in PoolGroups(s) <=> s = SP(q)
  BY DEF Groups, SP, Pools, PortGroups, PoolGroups

\* Below the modulus a word is the number itself.
LEMMA WordSmall ==
    ASSUME NEW n \in Nat, n < Modulus
    PROVE  Word(n) = n
  BY MmuAssumption DEF Word

-----------------------------------------------------------------------------
(* The bytes in a queue, and those of them that came by one port.          *)

Queued(s) == SumFunction(Sizes(s))
QueuedFrom(s, in) == SumFunction(SizesFrom(s, in))
PartFrom(e, in) == IF e.in = in THEN e.size ELSE 0

\* What a queue holds, of all ports and of one, is a sum over its packets.
LEMMA SumsOfSizes ==
    ASSUME NEW s \in Seq(Packets), NEW in
    PROVE  /\ Queued(s) = Sum(Sizes(s), 1 .. Len(s)) /\ Queued(s) \in Nat
           /\ QueuedFrom(s, in) = Sum(SizesFrom(s, in), 1 .. Len(s)) /\ QueuedFrom(s, in) \in Nat
           /\ \A i \in 1 .. Len(s) :
                /\ s[i] \in Packets
                /\ Sizes(s)[i] = s[i].size /\ Sizes(s)[i] \in Nat
                /\ SizesFrom(s, in)[i] = PartFrom(s[i], in) /\ SizesFrom(s, in)[i] \in Nat
<1>1. DOMAIN s = 1 .. Len(s) /\ Len(s) \in Nat /\ \A i \in 1 .. Len(s) : s[i] \in Packets
  BY LenProperties
<1>2. \A e \in Packets : e.size \in Nat /\ \A a : PartFrom(e, a) \in Nat
  BY PacketFacts DEF Packets, PartFrom
<1>3. \A i \in 1 .. Len(s) :
        /\ Sizes(s)[i] = s[i].size /\ Sizes(s)[i] \in Nat
        /\ SizesFrom(s, in)[i] = PartFrom(s[i], in) /\ SizesFrom(s, in)[i] \in Nat
  BY <1>1, <1>2 DEF Sizes, SizesFrom, PartFrom
<1>4. DOMAIN Sizes(s) = 1 .. Len(s) /\ DOMAIN SizesFrom(s, in) = 1 .. Len(s)
  BY <1>1 DEF Sizes, SizesFrom
<1>5. /\ Queued(s) = Sum(Sizes(s), 1 .. Len(s))
      /\ QueuedFrom(s, in) = Sum(SizesFrom(s, in), 1 .. Len(s))
  BY <1>4, SumIsSumFunctionOnSet DEF Queued, QueuedFrom, SumFunction
<1>6. IsFiniteSet(1 .. Len(s))
  BY <1>1, FS_Interval
<1>7. Queued(s) \in Nat /\ QueuedFrom(s, in) \in Nat
  <2> DEFINE f == Sizes(s)
             g == SizesFrom(s, in)
             S == 1 .. Len(s)
  <2>1. IsFiniteSet(S) /\ \A i \in S : f[i] \in Nat /\ g[i] \in Nat
    BY <1>3, <1>6
  <2>2. Queued(s) = Sum(f, S) /\ QueuedFrom(s, in) = Sum(g, S)
    BY <1>5
  <2> HIDE DEF f, g, S
  <2>3. QED
    BY <2>1, <2>2, SumNat
<1>8. QED
  BY <1>1, <1>3, <1>5, <1>7

\* A packet more at the end of a queue.
LEMMA AppendSizes ==
    ASSUME NEW s \in Seq(Packets), NEW e \in Packets, NEW in
    PROVE  /\ Append(s, e) \in Seq(Packets)
           /\ Queued(Append(s, e)) = Queued(s) + e.size
           /\ QueuedFrom(Append(s, e), in) = QueuedFrom(s, in) + PartFrom(e, in)
<1> DEFINE r == Append(s, e)
           n == Len(s)
<1>1. /\ r \in Seq(Packets) /\ n \in Nat /\ Len(r) = n + 1
      /\ \A i \in 1 .. n : r[i] = s[i]
      /\ r[n + 1] = e
  BY AppendProperties, LenProperties
<1> HIDE DEF r, n
<1> DEFINE f == Sizes(s)
           g == Sizes(r)
           ff == SizesFrom(s, in)
           gf == SizesFrom(r, in)
<1>2. /\ Queued(s) = Sum(f, 1 .. n) /\ QueuedFrom(s, in) = Sum(ff, 1 .. n)
      /\ \A i \in 1 .. n : f[i] = s[i].size /\ f[i] \in Nat /\ ff[i] = PartFrom(s[i], in) /\ ff[i] \in Nat
  BY SumsOfSizes DEF n
<1>3. /\ Queued(r) = Sum(g, 1 .. n + 1) /\ QueuedFrom(r, in) = Sum(gf, 1 .. n + 1)
      /\ \A i \in 1 .. n + 1 : g[i] = r[i].size /\ g[i] \in Nat /\ gf[i] = PartFrom(r[i], in) /\ gf[i] \in Nat
  BY <1>1, SumsOfSizes
<1> HIDE DEF f, g, ff, gf
<1>4. \A i \in 1 .. n : i \in 1 .. n + 1
  BY <1>1
<1>5. n + 1 \in 1 .. n + 1
  BY <1>1
<1>6. \A i \in 1 .. n : g[i] = f[i] /\ gf[i] = ff[i]
  BY <1>1, <1>2, <1>3, <1>4
<1>7. g[n + 1] = e.size /\ g[n + 1] \in Nat /\ gf[n + 1] = PartFrom(e, in) /\ gf[n + 1] \in Nat
  BY <1>1, <1>3, <1>5
<1>8. Sum(g, 1 .. n + 1) = Sum(f, 1 .. n) + g[n + 1]
  BY <1>1, <1>2, <1>6, <1>7, SumOfLast
<1>9. Sum(gf, 1 .. n + 1) = Sum(ff, 1 .. n) + gf[n + 1]
  BY <1>1, <1>2, <1>6, <1>7, SumOfLast, ZenonT(30)
<1>10. QED
  BY <1>1, <1>2, <1>3, <1>7, <1>8, <1>9 DEF r

\* The first packet of a queue taken.
LEMMA TailSizes ==
    ASSUME NEW s \in Seq(Packets), s # << >>, NEW in
    PROVE  /\ Tail(s) \in Seq(Packets) /\ Head(s) \in Packets
           /\ Queued(s) = Head(s).size + Queued(Tail(s))
           /\ QueuedFrom(s, in) = PartFrom(Head(s), in) + QueuedFrom(Tail(s), in)
<1> DEFINE r == Tail(s)
           n == Len(r)
<1>1. /\ r \in Seq(Packets) /\ n \in Nat /\ Len(s) = n + 1
      /\ \A i \in 1 .. n : r[i] = s[i + 1]
      /\ s[1] = Head(s) /\ Head(s) \in Packets
  BY HeadTailProperties, LenProperties
<1> HIDE DEF r, n
<1> DEFINE f == Sizes(r)
           h == Sizes(s)
           ff == SizesFrom(r, in)
           hf == SizesFrom(s, in)
<1>2. /\ Queued(r) = Sum(f, 1 .. n) /\ QueuedFrom(r, in) = Sum(ff, 1 .. n)
      /\ \A i \in 1 .. n : f[i] = r[i].size /\ f[i] \in Nat /\ ff[i] = PartFrom(r[i], in) /\ ff[i] \in Nat
  BY <1>1, SumsOfSizes DEF n
<1>3. /\ Queued(s) = Sum(h, 1 .. n + 1) /\ QueuedFrom(s, in) = Sum(hf, 1 .. n + 1)
      /\ \A i \in 1 .. n + 1 : h[i] = s[i].size /\ h[i] \in Nat /\ hf[i] = PartFrom(s[i], in) /\ hf[i] \in Nat
  BY <1>1, SumsOfSizes
<1> HIDE DEF f, h, ff, hf
<1>4. \A i \in 1 .. n : i + 1 \in 1 .. n + 1
  BY <1>1
<1>5. 1 \in 1 .. n + 1
  BY <1>1
<1>6. \A i \in 1 .. n : f[i] = h[i + 1] /\ ff[i] = hf[i + 1]
  BY <1>1, <1>2, <1>3, <1>4
<1>7. h[1] = Head(s).size /\ hf[1] = PartFrom(Head(s), in)
  BY <1>1, <1>3, <1>5
<1>8. Sum(h, 1 .. n + 1) = h[1] + Sum(f, 1 .. n)
  BY <1>1, <1>3, <1>6, SumOfHead, ZenonT(30)
<1>9. Sum(hf, 1 .. n + 1) = hf[1] + Sum(ff, 1 .. n)
  BY <1>1, <1>3, <1>6, SumOfHead, ZenonT(30)
<1>10. QED
  BY <1>1, <1>2, <1>3, <1>7, <1>8, <1>9 DEF r

\* One group of a set changes its number, or one outside it.
LEMMA GroupSums ==
    ASSUME NEW f \in [Groups -> Nat], NEW g \in [Groups -> Nat], NEW z \in Groups,
           \A x \in Groups \ {z} : g[x] = f[x], NEW S \in SUBSET Groups
    PROVE  /\ Sum(f, S) \in Nat /\ Sum(g, S) \in Nat
           /\ z \in S => Sum(g, S) = Sum(f, S) + g[z] - f[z]
           /\ z \notin S => Sum(g, S) = Sum(f, S)
           /\ z \in S => f[z] <= Sum(f, S)
<1>1. IsFiniteSet(S) /\ IsFiniteSet(S \ {z}) /\ \A x \in S : f[x] \in Nat /\ g[x] \in Nat
  BY GroupsFinite, FS_Subset, S \ {z} \in SUBSET S
<1>2. Sum(f, S) \in Nat /\ Sum(g, S) \in Nat
  BY <1>1, SumNat
<1>3. ASSUME z \in S
      PROVE  Sum(g, S) = Sum(f, S) + g[z] - f[z] /\ f[z] <= Sum(f, S)
  <2>1. Sum(g, S) = Sum(f, S) + g[z] - f[z]
    BY <1>1, <1>3, SumUpdate
  <2>2. Sum(f, S) = f[z] + Sum(f, S \ {z})
    BY <1>1, <1>3, SumWithout
  <2>3. Sum(f, S \ {z}) \in Nat
    BY <1>1, SumNat
  <2>4. QED
    BY <1>1, <1>2, <2>1, <2>2, <2>3
<1>4. ASSUME z \notin S
      PROVE  Sum(g, S) = Sum(f, S)
  BY <1>1, <1>4, SumSame
<1>5. QED
  BY <1>2, <1>3, <1>4

\* What came by a port is a sum over the queues of all ports.
LEMMA BytesSum ==
    ASSUME QueueTypes, NEW in \in Ports, NEW q \in Classes
    PROVE  /\ BytesFrom(in, q) = Sum([out \in Ports |-> QueuedFrom(queue[<<out, q>>], in)], Ports)
           /\ BytesFrom(in, q) \in Nat
           /\ \A out \in Ports : QueuedFrom(queue[<<out, q>>], in) \in Nat
           /\ BytesIn(in, q) = Queued(queue[<<in, q>>]) /\ BytesIn(in, q) \in Nat
<1> DEFINE f == [out \in Ports |-> QueuedFrom(queue[<<out, q>>], in)]
<1>1. \A out \in Ports : queue[<<out, q>>] \in Seq(Packets)
  BY DEF QueueTypes, Groups
<1>2. \A out \in Ports : QueuedFrom(queue[<<out, q>>], in) \in Nat /\ Queued(queue[<<out, q>>]) \in Nat
  BY <1>1, SumsOfSizes
<1>3. BytesFrom(in, q) = SumFunction(f) /\ BytesIn(in, q) = Queued(queue[<<in, q>>])
  BY DEF BytesFrom, QueuedFrom, BytesIn, Queued
<1>4. DOMAIN f = Ports /\ \A out \in Ports : f[out] \in Nat
  BY <1>2
<1> HIDE DEF f
<1>5. SumFunction(f) = Sum(f, Ports)
  BY <1>4, SumIsSumFunctionOnSet DEF SumFunction
<1>6. Sum(f, Ports) \in Nat
  BY <1>4, SumNat, GroupsFinite
<1>7. QED
  BY <1>2, <1>3, <1>5, <1>6 DEF f

\* One queue changes: for each port, the bytes that came by it do by as many
\* as those of them in that queue.
LEMMA QueueChanges ==
    ASSUME QueueTypes, NEW out \in Ports, NEW q \in Classes, NEW s \in Seq(Packets),
           queue' = [queue EXCEPT ![<<out, q>>] = s]
    PROVE  /\ QueueTypes'
           /\ \A g \in Groups :
                /\ BytesIn(g[1], g[2])' = IF g = <<out, q>> THEN Queued(s) ELSE BytesIn(g[1], g[2])
                /\ g[2] = q =>
                    BytesFrom(g[1], g[2])' = BytesFrom(g[1], g[2])
                        + QueuedFrom(s, g[1]) - QueuedFrom(queue[<<out, q>>], g[1])
                /\ g[2] # q => BytesFrom(g[1], g[2])' = BytesFrom(g[1], g[2])
<1>1. QueueTypes'
  BY DEF QueueTypes
<1>2. /\ queue'[<<out, q>>] = s
      /\ \A p \in Ports, c \in Classes : (p # out \/ c # q) => queue'[<<p, c>>] = queue[<<p, c>>]
  BY GroupFacts DEF QueueTypes, Groups
<1>3. ASSUME NEW p \in Ports, NEW c \in Classes
      PROVE  /\ BytesIn(p, c)' = IF p = out /\ c = q THEN Queued(s) ELSE BytesIn(p, c)
             /\ c = q => BytesFrom(p, c)' = BytesFrom(p, c) + QueuedFrom(s, p) - QueuedFrom(queue[<<out, q>>], p)
             /\ c # q => BytesFrom(p, c)' = BytesFrom(p, c)
  <2> DEFINE f == [o \in Ports |-> QueuedFrom(queue[<<o, c>>], p)]
             g == [o \in Ports |-> QueuedFrom(queue'[<<o, c>>], p)]
  <2>1. BytesFrom(p, c) = Sum(f, Ports) /\ BytesIn(p, c) = Queued(queue[<<p, c>>])
    BY BytesSum
  <2>2. /\ BytesFrom(p, c)' = Sum(g, Ports) /\ BytesIn(p, c)' = Queued(queue'[<<p, c>>])
        /\ \A o \in Ports : QueuedFrom(queue'[<<o, c>>], p) \in Nat
    <3> DEFINE k == [o \in Ports |-> SumFunction(SizesFrom(queue'[<<o, c>>], p))]
    <3>1. \A o \in Ports : queue'[<<o, c>>] \in Seq(Packets)
      BY <1>1 DEF QueueTypes, Groups
    <3>2. \A o \in Ports : QueuedFrom(queue'[<<o, c>>], p) \in Nat
      BY <3>1, SumsOfSizes
    <3>3. BytesFrom(p, c)' = SumFunction(k) /\ BytesIn(p, c)' = Queued(queue'[<<p, c>>])
      BY DEF BytesFrom, BytesIn, Queued
    <3>4. k = g /\ DOMAIN g = Ports
      BY DEF QueuedFrom
    <3> HIDE DEF k, g
    <3>5. SumFunction(g) = Sum(g, Ports)
      BY <3>4, SumIsSumFunctionOnSet DEF SumFunction
    <3>6. QED
      BY <3>2, <3>3, <3>4, <3>5
  <2>3. \A o \in Ports : f[o] \in Nat /\ g[o] \in Nat
    BY <2>2, BytesSum
  <2>4. \A o \in Ports \ {out} : g[o] = f[o]
    BY <1>2
  <2>5. c # q => g = f
    BY <1>2
  <2>6. c = q => g[out] = QueuedFrom(s, p) /\ f[out] = QueuedFrom(queue[<<out, q>>], p)
    BY <1>2
  <2> HIDE DEF f, g
  <2>7. Sum(g, Ports) = Sum(f, Ports) + g[out] - f[out]
    BY <2>3, <2>4, SumUpdate, GroupsFinite
  <2>8. QED
    BY <1>2, <2>1, <2>2, <2>5, <2>6, <2>7
<1>4. ASSUME NEW g \in Groups
      PROVE  /\ g[1] \in Ports /\ g[2] \in Classes
             /\ g = <<out, q>> <=> g[1] = out /\ g[2] = q
  BY DEF Groups
<1>5. QED
  BY <1>1, <1>3, <1>4

\* One group gains or loses: so does every sum it is part of.
LEMMA SumsChange ==
    ASSUME NEW f \in [Groups -> Nat], NEW g \in [Groups -> Nat], NEW z \in Groups,
           \A x \in Groups \ {z} : g[x] = f[x], NEW d \in Int, g[z] = f[z] + d
    PROVE  \A S \in SUBSET Groups :
              Sum(g, S) = Sum(f, S) + (IF z \in S THEN d ELSE 0) /\ Sum(f, S) \in Nat
<1> TAKE S \in SUBSET Groups
<1>1. /\ Sum(f, S) \in Nat
      /\ z \in S => Sum(g, S) = Sum(f, S) + g[z] - f[z]
      /\ z \notin S => Sum(g, S) = Sum(f, S)
  BY GroupSums
<1>2. f[z] \in Nat
  OBVIOUS
<1>3. QED
  BY <1>1, <1>2

\* One value of a function changes.
LEMMA Put ==
    ASSUME NEW S, NEW T, NEW f \in [S -> T], NEW z \in S, NEW v \in T,
           NEW g, g = [f EXCEPT ![z] = v]
    PROVE  g \in [S -> T] /\ g[z] = v /\ f[z] \in T /\ \A x \in S \ {z} : g[x] = f[x]
  OBVIOUS

-----------------------------------------------------------------------------
(* The ingress counters.                                                   *)

\* IngressExact, and that all of it fits the buffer: none of the four wraps.
Ingress ==
    /\ \A g \in Groups : ingressPG[g] = BytesFrom(g[1], g[2])
    /\ \A p \in Ports : ingressPort[p] = Sum(ingressPG, PortGroups(p))
    /\ \A s \in Pools : ingressSP[s] = Sum(ingressPG, PoolGroups(s))
    /\ usedTotal = Sum(ingressPG, Groups)
    /\ usedTotal = ingressSP[0] + ingressSP[1]
    /\ usedTotal <= maxBufferBytes

\* A packet comes in by one port and is queued at another.
ComesIn(in, out, q, size) ==
    /\ usedTotal + size <= maxBufferBytes
    /\ UpdateIngressAdmission(in, q, size)
    /\ queue' = [queue EXCEPT ![<<out, q>>] = Append(@, Element(in, size))]

\* The counters stay exact when a packet comes in.
LEMMA PacketIn ==
    ASSUME IngressTypes, QueueTypes, Ingress,
           NEW in \in Ports, NEW out \in Ports, NEW q \in Classes, NEW size \in PacketSizes,
           ComesIn(in, out, q, size)
    PROVE  IngressTypes' /\ QueueTypes' /\ Ingress'
<1> DEFINE z == <<in, q>>
           e == Element(in, size)
           s == queue[<<out, q>>]
<1>1. size \in Nat
  BY PacketFacts
<1>2. z \in Groups /\ SP(q) \in Pools /\ <<out, q>> \in Groups
  BY GroupFacts
<1>3. IngressTypes'
  <2>1. usedTotal' \in Nat
    BY <1>1 DEF IngressTypes, ComesIn, UpdateIngressAdmission
  <2>2. ingressPort' \in [Ports -> Nat]
    <3>1. ingressPort \in [Ports -> Nat] /\ ingressPort[in] + size \in Nat
      BY <1>1 DEF IngressTypes
    <3>2. QED
      BY <3>1, Put DEF ComesIn, UpdateIngressAdmission
  <2>3. ingressSP' \in [Pools -> Nat]
    <3>1. ingressSP \in [Pools -> Nat] /\ ingressSP[SP(q)] + size \in Nat
      BY <1>1, <1>2 DEF IngressTypes
    <3>2. QED
      BY <1>2, <3>1, Put DEF ComesIn, UpdateIngressAdmission
  <2>4. ingressPG' \in [Groups -> Nat]
    <3>1. ingressPG \in [Groups -> Nat] /\ ingressPG[z] + size \in Nat
      BY <1>1, <1>2 DEF IngressTypes
    <3>2. ingressPG' = [ingressPG EXCEPT ![z] = ingressPG[z] + size]
      BY DEF ComesIn, UpdateIngressAdmission
    <3> HIDE DEF z
    <3>3. QED
      BY <1>2, <3>1, <3>2, Put
  <2>5. headroom' \in [Groups -> Nat]
    <3> DEFINE v == IF ingressSP'[SP(q)] > buffer_cell_limit_sp THEN headroom[z] + size ELSE headroom[z]
    <3>1. headroom \in [Groups -> Nat] /\ v \in Nat
      BY <1>1, <1>2 DEF IngressTypes
    <3>2. headroom' = [headroom EXCEPT ![z] = v]
      BY DEF ComesIn, UpdateIngressAdmission
    <3> HIDE DEF z, v
    <3>3. QED
      BY <1>2, <3>1, <3>2, Put
  <2>6. QED
    BY <2>1, <2>2, <2>3, <2>4, <2>5 DEF IngressTypes
<1>4. s \in Seq(Packets) /\ e \in Packets /\ e.in = in /\ e.size = size
  BY <1>2 DEF QueueTypes, Element, Packets
<1> DEFINE r == Append(s, e)
<1>5. queue' = [queue EXCEPT ![<<out, q>>] = r]
  BY DEF ComesIn
<1> HIDE DEF e, s
<1>6. r \in Seq(Packets) /\ \A p : QueuedFrom(r, p) = QueuedFrom(s, p) + PartFrom(e, p)
  BY <1>4, AppendSizes
<1> HIDE DEF r
<1>7. /\ QueueTypes'
      /\ \A g \in Groups :
            /\ g[2] = q =>
                BytesFrom(g[1], g[2])' = BytesFrom(g[1], g[2])
                    + QueuedFrom(r, g[1]) - QueuedFrom(s, g[1])
            /\ g[2] # q => BytesFrom(g[1], g[2])' = BytesFrom(g[1], g[2])
  <2>1. /\ QueueTypes'
        /\ \A g \in Groups :
            /\ g[2] = q =>
                BytesFrom(g[1], g[2])' = BytesFrom(g[1], g[2])
                    + QueuedFrom(r, g[1]) - QueuedFrom(queue[<<out, q>>], g[1])
            /\ g[2] # q => BytesFrom(g[1], g[2])' = BytesFrom(g[1], g[2])
    <3>1. QueueTypes'
      BY <1>5, <1>6, QueueChanges
    <3>2. ASSUME NEW g \in Groups PROVE
            /\ g[2] = q =>
                BytesFrom(g[1], g[2])' = BytesFrom(g[1], g[2])
                    + QueuedFrom(r, g[1]) - QueuedFrom(queue[<<out, q>>], g[1])
            /\ g[2] # q => BytesFrom(g[1], g[2])' = BytesFrom(g[1], g[2])
      BY <1>5, <1>6, QueueChanges, ZenonT(30)
    <3>3. QED
      BY <3>1, <3>2
  <2>2. QED
    BY <2>1 DEF s
<1>8. \A g \in Groups :
        /\ g[1] \in Ports /\ g[2] \in Classes /\ (g = z <=> g[1] = in /\ g[2] = q)
        /\ BytesFrom(g[1], g[2]) \in Nat
        /\ QueuedFrom(s, g[1]) \in Nat
  <2> TAKE g \in Groups
  <2>1. g[1] \in Ports /\ g[2] \in Classes /\ (g = z <=> g[1] = in /\ g[2] = q)
    BY DEF Groups
  <2>2. BytesFrom(g[1], g[2]) \in Nat
    BY <2>1, BytesSum
  <2>3. QueuedFrom(s, g[1]) \in Nat
    BY <1>4, SumsOfSizes
  <2>4. QED
    BY <2>1, <2>2, <2>3
<1>9. \A p : PartFrom(e, p) = IF p = in THEN size ELSE 0
  BY <1>4 DEF PartFrom
<1>10. \A g \in Groups : BytesFrom(g[1], g[2])' = BytesFrom(g[1], g[2]) + (IF g = z THEN size ELSE 0)
  BY <1>1, <1>6, <1>7, <1>8, <1>9
<1>11. /\ ingressPG'[z] = ingressPG[z] + size /\ \A g \in Groups \ {z} : ingressPG'[g] = ingressPG[g]
       /\ ingressPG \in [Groups -> Nat] /\ ingressPG' \in [Groups -> Nat]
  BY <1>2, <1>3 DEF IngressTypes, ComesIn, UpdateIngressAdmission
<1>12. \A g \in Groups : ingressPG'[g] = BytesFrom(g[1], g[2])'
  <2> TAKE g \in Groups
  <2>1. ingressPG[g] = BytesFrom(g[1], g[2]) /\ ingressPG[g] \in Nat
    BY <1>11 DEF Ingress
  <2>2. g # z => ingressPG'[g] = ingressPG[g]
    BY <1>11
  <2>3. g = z => ingressPG'[g] = ingressPG[g] + size
    BY <1>11
  <2> HIDE DEF z
  <2>4. QED
    BY <1>10, <2>1, <2>2, <2>3
<1>13. \A S \in SUBSET Groups :
        Sum(ingressPG', S) = Sum(ingressPG, S) + (IF z \in S THEN size ELSE 0) /\ Sum(ingressPG, S) \in Nat
  <2> DEFINE f == ingressPG
             g == ingressPG'
  <2>1. /\ f \in [Groups -> Nat] /\ g \in [Groups -> Nat] /\ g[z] = f[z] + size /\ size \in Int
        /\ \A x \in Groups \ {z} : g[x] = f[x]
    BY <1>1, <1>11
  <2> HIDE DEF f, g, z
  <2>2. \A S \in SUBSET Groups :
          Sum(g, S) = Sum(f, S) + (IF z \in S THEN size ELSE 0) /\ Sum(f, S) \in Nat
    BY <1>2, <2>1, SumsChange
  <2>3. QED
    BY <2>2 DEF f, g
<1>14. \A p \in Ports : ingressPort'[p] = Sum(ingressPG', PortGroups(p))
  <2> TAKE p \in Ports
  <2>1. PortGroups(p) \in SUBSET Groups /\ (z \in PortGroups(p) <=> p = in)
    BY GroupsFinite, GroupFacts
  <2>2. ingressPort'[p] = ingressPort[p] + (IF p = in THEN size ELSE 0)
    BY <1>1 DEF ComesIn, UpdateIngressAdmission, IngressTypes
  <2>3. QED
    BY <1>13, <2>1, <2>2 DEF Ingress
<1>15. \A t \in Pools : ingressSP'[t] = ingressSP[t] + (IF t = SP(q) THEN size ELSE 0)
  BY <1>1, <1>2 DEF ComesIn, UpdateIngressAdmission, IngressTypes
<1>16. \A t \in Pools : ingressSP'[t] = Sum(ingressPG', PoolGroups(t))
  <2> TAKE t \in Pools
  <2>1. PoolGroups(t) \in SUBSET Groups /\ (z \in PoolGroups(t) <=> t = SP(q))
    BY GroupsFinite, GroupFacts
  <2>2. QED
    BY <1>13, <1>15, <2>1 DEF Ingress
<1>17. usedTotal' = usedTotal + size
  BY DEF ComesIn, UpdateIngressAdmission
<1>18. usedTotal' = Sum(ingressPG', Groups)
  BY <1>2, <1>13, <1>17 DEF Ingress
<1>19. usedTotal' = ingressSP'[0] + ingressSP'[1]
  <2>1. 0 \in Pools /\ 1 \in Pools /\ (SP(q) = 0 \/ SP(q) = 1)
    BY <1>2 DEF Pools
  <2>2. ingressSP[0] \in Nat /\ ingressSP[1] \in Nat
    BY <2>1 DEF IngressTypes
  <2>3. usedTotal = ingressSP[0] + ingressSP[1]
    BY DEF Ingress
  <2>4. QED
    BY <1>1, <1>15, <1>17, <2>1, <2>2, <2>3
<1>20. usedTotal' <= maxBufferBytes
  BY <1>17 DEF ComesIn
<1>21. QED
  BY <1>3, <1>7, <1>12, <1>14, <1>16, <1>18, <1>19, <1>20 DEF Ingress

\* What is counted of a group is counted of its port, its pool and the buffer.
LEMMA IngressBounds ==
    ASSUME IngressTypes, Ingress, NEW p \in Ports, NEW q \in Classes
    PROVE  /\ ingressPG[<<p, q>>] <= ingressPort[p]
           /\ ingressPG[<<p, q>>] <= ingressSP[SP(q)]
           /\ ingressPG[<<p, q>>] <= usedTotal
           /\ ingressPort[p] <= usedTotal /\ ingressSP[SP(q)] <= usedTotal
           /\ usedTotal < Modulus
           /\ {ingressPG[<<p, q>>], ingressPort[p], ingressSP[SP(q)], usedTotal} \subseteq Nat
<1> DEFINE z == <<p, q>>
<1>1. /\ z \in Groups /\ SP(q) \in Pools /\ z \in PortGroups(p) /\ z \in PoolGroups(SP(q))
      /\ PortGroups(p) \in SUBSET Groups /\ PoolGroups(SP(q)) \in SUBSET Groups /\ Groups \in SUBSET Groups
  BY GroupFacts, GroupsFinite
<1>2. ingressPG \in [Groups -> Nat]
  BY DEF IngressTypes
<1>3. \A S \in SUBSET Groups : z \in S => ingressPG[z] <= Sum(ingressPG, S)
  BY <1>1, <1>2, GroupSums
<1>4. \A S \in SUBSET Groups : Sum(ingressPG, S) <= Sum(ingressPG, Groups)
  BY <1>2, GroupsFinite, SumPart
<1>5. {ingressPG[z], ingressPort[p], ingressSP[SP(q)], usedTotal} \subseteq Nat
  BY <1>1 DEF IngressTypes
<1>6. /\ ingressPort[p] = Sum(ingressPG, PortGroups(p))
      /\ ingressSP[SP(q)] = Sum(ingressPG, PoolGroups(SP(q)))
      /\ usedTotal = Sum(ingressPG, Groups) /\ usedTotal <= maxBufferBytes
  BY <1>1 DEF Ingress
<1>7. usedTotal < Modulus
  BY <1>5, <1>6, MmuAssumption, WidthAssumption
<1> HIDE DEF z
<1>8. QED
  BY <1>1, <1>3, <1>4, <1>5, <1>6, <1>7 DEF z

\* What a packet returns when it leaves is still counted: of the group it came
\* by, its port, its pool and the buffer.
LEMMA HeadCounted ==
    ASSUME IngressTypes, QueueTypes, Ingress, NEW out \in Ports, NEW q \in Classes,
           queue[<<out, q>>] # << >>
    PROVE  LET e == Head(queue[<<out, q>>]) IN
           /\ e \in Packets /\ e.in \in Ports /\ e.size \in PacketSizes
           /\ e.size <= ingressPG[<<e.in, q>>]
<1> DEFINE s == queue[<<out, q>>]
           e == Head(s)
<1>1. s \in Seq(Packets) /\ s # << >>
  BY GroupFacts DEF QueueTypes
<1> HIDE DEF s
<1>2. Tail(s) \in Seq(Packets) /\ e \in Packets
  BY <1>1, TailSizes
<1>3. e.in \in Ports /\ e.size \in PacketSizes
  BY <1>2 DEF Packets
<1>4. QueuedFrom(s, e.in) = e.size + QueuedFrom(Tail(s), e.in) /\ QueuedFrom(Tail(s), e.in) \in Nat
  <2>1. PartFrom(e, e.in) = e.size
    BY DEF PartFrom
  <2>2. QED
    BY <1>1, <1>2, <2>1, TailSizes, SumsOfSizes
<1> DEFINE f == [o \in Ports |-> QueuedFrom(queue[<<o, q>>], e.in)]
<1>5. BytesFrom(e.in, q) = Sum(f, Ports) /\ \A o \in Ports : f[o] \in Nat
  BY <1>3, BytesSum
<1>6. f[out] = QueuedFrom(s, e.in)
  BY DEF s
<1> HIDE DEF f
<1>7. Sum(f, Ports) = f[out] + Sum(f, Ports \ {out}) /\ Sum(f, Ports \ {out}) \in Nat
  <2>1. IsFiniteSet(Ports \ {out}) /\ \A o \in Ports \ {out} : f[o] \in Nat
    BY <1>5, GroupsFinite, FS_RemoveElement
  <2>2. QED
    BY <1>5, <2>1, GroupsFinite, SumWithout, SumNat
<1>8. ingressPG[<<e.in, q>>] = BytesFrom(e.in, q)
  BY <1>3, GroupFacts DEF Ingress
<1>9. e.size \in Nat
  BY <1>3, PacketFacts
<1>10. e.size <= ingressPG[<<e.in, q>>]
  BY <1>4, <1>5, <1>6, <1>7, <1>8, <1>9
<1>11. QED
  BY <1>2, <1>3, <1>10 DEF s

\* The first packet of a queue leaves, and the port it came by is relieved.
Leaves(out, q) ==
    LET e == Head(queue[<<out, q>>]) IN
    /\ queue[<<out, q>>] # << >>
    /\ RemoveFromIngressAdmission(e.in, q, e.size)
    /\ queue' = [queue EXCEPT ![<<out, q>>] = Tail(@)]

\* Where nothing wraps, what is returned is subtracted.
Returned(in, q, size) ==
    /\ usedTotal' = usedTotal - size
    /\ ingressSP' = [ingressSP EXCEPT ![SP(q)] = ingressSP[SP(q)] - size]
    /\ ingressPort' = [ingressPort EXCEPT ![in] = ingressPort[in] - size]
    /\ ingressPG' = [ingressPG EXCEPT ![<<in, q>>] = ingressPG[<<in, q>>] - size]
    /\ headroom' = [headroom EXCEPT ![<<in, q>>] =
                        IF headroom[<<in, q>>] > size THEN headroom[<<in, q>>] - size ELSE 0]
    /\ usedTotal - size \in Nat /\ ingressSP[SP(q)] - size \in Nat
    /\ ingressPort[in] - size \in Nat /\ ingressPG[<<in, q>>] - size \in Nat

\* No counter of the ingress side wraps when a packet leaves.
LEMMA NothingWraps ==
    ASSUME IngressTypes, QueueTypes, Ingress, NEW out \in Ports, NEW q \in Classes, Leaves(out, q)
    PROVE  LET e == Head(queue[<<out, q>>]) IN
           /\ e \in Packets /\ e.in \in Ports /\ e.size \in PacketSizes /\ e.size \in Nat
           /\ Returned(e.in, q, e.size)
<1> DEFINE e == Head(queue[<<out, q>>])
           in == e.in
           size == e.size
           z == <<in, q>>
<1>1. e \in Packets /\ in \in Ports /\ size \in PacketSizes /\ size <= ingressPG[z]
  BY HeadCounted DEF Leaves
<1>2. RemoveFromIngressAdmission(in, q, size)
  BY DEF Leaves
<1>3. size \in Nat
  BY <1>1, PacketFacts
<1> HIDE DEF e, size
<1>4. /\ ingressPG[z] <= ingressPort[in] /\ ingressPG[z] <= ingressSP[SP(q)] /\ ingressPG[z] <= usedTotal
      /\ ingressPort[in] <= usedTotal /\ ingressSP[SP(q)] <= usedTotal /\ usedTotal < Modulus
      /\ {ingressPG[z], ingressPort[in], ingressSP[SP(q)], usedTotal} \subseteq Nat
  BY <1>1, IngressBounds
<1> HIDE DEF in, z
<1>5. \A n \in {ingressPG[z], ingressPort[in], ingressSP[SP(q)], usedTotal} :
        n - size \in Nat /\ n - size < Modulus
  <2>1. \A n \in Nat : size <= n /\ n < Modulus => n - size \in Nat /\ n - size < Modulus
    BY <1>3, MmuAssumption
  <2>2. \A n \in {ingressPG[z], ingressPort[in], ingressSP[SP(q)], usedTotal} :
          n \in Nat /\ ingressPG[z] <= n /\ n <= usedTotal
    BY <1>4
  <2>3. size <= ingressPG[z] /\ ingressPG[z] \in Nat /\ usedTotal \in Nat /\ Modulus \in Nat /\ usedTotal < Modulus
    BY <1>1, <1>4, MmuAssumption DEF z, in
  <2>4. \A n \in Nat : ingressPG[z] <= n /\ n <= usedTotal => size <= n /\ n < Modulus
    BY <1>3, <2>3
  <2>5. QED
    BY <2>1, <2>2, <2>4
<1>6. \A n \in {ingressPG[z], ingressPort[in], ingressSP[SP(q)], usedTotal} :
        Word(n - size) = n - size
  BY <1>5, WordSmall
<1>7. Returned(in, q, size)
  BY <1>2, <1>5, <1>6 DEF RemoveFromIngressAdmission, Returned, z
<1>8. QED
  BY <1>1, <1>3, <1>7 DEF e, in, size

\* The counters stay exact when a packet leaves.
LEMMA PacketOut ==
    ASSUME IngressTypes, QueueTypes, Ingress, NEW out \in Ports, NEW q \in Classes, Leaves(out, q)
    PROVE  IngressTypes' /\ QueueTypes' /\ Ingress'
<1> DEFINE s == queue[<<out, q>>]
           e == Head(s)
           in == e.in
           size == e.size
           z == <<in, q>>
           r == Tail(s)
<1>1. /\ e \in Packets /\ in \in Ports /\ size \in PacketSizes /\ size \in Nat
      /\ Returned(in, q, size)
  BY NothingWraps
<1>2. s \in Seq(Packets) /\ s # << >> /\ queue' = [queue EXCEPT ![<<out, q>>] = r]
  BY GroupFacts DEF Leaves, QueueTypes
<1> HIDE DEF s, e, in, size
<1>3. z \in Groups /\ SP(q) \in Pools
  BY <1>1, GroupFacts
<1>4. IngressTypes'
  <2>1. usedTotal' \in Nat
    BY <1>1 DEF Returned
  <2>2. ingressPort' \in [Ports -> Nat]
    BY <1>1, Put DEF Returned, IngressTypes
  <2>3. ingressSP' \in [Pools -> Nat]
    BY <1>1, <1>3, Put DEF Returned, IngressTypes
  <2>4. ingressPG' \in [Groups -> Nat]
    BY <1>1, <1>3, Put DEF Returned, IngressTypes
  <2>5. headroom' \in [Groups -> Nat]
    <3> DEFINE v == IF headroom[z] > size THEN headroom[z] - size ELSE 0
    <3>1. headroom \in [Groups -> Nat] /\ v \in Nat
      BY <1>1, <1>3 DEF IngressTypes
    <3>2. headroom' = [headroom EXCEPT ![z] = v]
      BY <1>1 DEF Returned
    <3> HIDE DEF z, v
    <3>3. QED
      BY <1>3, <3>1, <3>2, Put
  <2>6. QED
    BY <2>1, <2>2, <2>3, <2>4, <2>5 DEF IngressTypes
<1>5. r \in Seq(Packets) /\ \A p : QueuedFrom(s, p) = PartFrom(e, p) + QueuedFrom(r, p)
  BY <1>2, TailSizes DEF e
<1> HIDE DEF r
<1>6. /\ QueueTypes'
      /\ \A g \in Groups :
            /\ g[2] = q =>
                BytesFrom(g[1], g[2])' = BytesFrom(g[1], g[2]) + QueuedFrom(r, g[1]) - QueuedFrom(s, g[1])
            /\ g[2] # q => BytesFrom(g[1], g[2])' = BytesFrom(g[1], g[2])
  <2>1. /\ QueueTypes'
        /\ \A g \in Groups :
            /\ g[2] = q =>
                BytesFrom(g[1], g[2])' = BytesFrom(g[1], g[2])
                    + QueuedFrom(r, g[1]) - QueuedFrom(queue[<<out, q>>], g[1])
            /\ g[2] # q => BytesFrom(g[1], g[2])' = BytesFrom(g[1], g[2])
    BY <1>2, <1>5, QueueChanges, ZenonT(30)
  <2>2. QED
    BY <2>1 DEF s
<1>7. \A g \in Groups :
        /\ g[1] \in Ports /\ g[2] \in Classes /\ (g = z <=> g[1] = in /\ g[2] = q)
        /\ BytesFrom(g[1], g[2]) \in Nat
        /\ QueuedFrom(r, g[1]) \in Nat
  <2> TAKE g \in Groups
  <2>1. g[1] \in Ports /\ g[2] \in Classes /\ (g = z <=> g[1] = in /\ g[2] = q)
    BY DEF Groups
  <2>2. BytesFrom(g[1], g[2]) \in Nat
    BY <2>1, BytesSum
  <2>3. QueuedFrom(r, g[1]) \in Nat
    BY <1>5, SumsOfSizes
  <2>4. QED
    BY <2>1, <2>2, <2>3
<1>8. \A p : PartFrom(e, p) = IF p = in THEN size ELSE 0
  BY DEF PartFrom, in, size
<1>9. \A g \in Groups : BytesFrom(g[1], g[2])' = BytesFrom(g[1], g[2]) - (IF g = z THEN size ELSE 0)
  <2> TAKE g \in Groups
  <2> HIDE DEF z
  <2>1. PartFrom(e, g[1]) = IF g[1] = in THEN size ELSE 0
    BY <1>8
  <2>2. QueuedFrom(s, g[1]) = PartFrom(e, g[1]) + QueuedFrom(r, g[1])
    BY <1>5
  <2>3. QED
    BY <1>1, <1>6, <1>7, <2>1, <2>2
<1>10. /\ ingressPG'[z] = ingressPG[z] - size /\ \A g \in Groups \ {z} : ingressPG'[g] = ingressPG[g]
       /\ ingressPG \in [Groups -> Nat] /\ ingressPG' \in [Groups -> Nat]
  BY <1>1, <1>3, <1>4 DEF IngressTypes, Returned
<1>11. \A g \in Groups : ingressPG'[g] = BytesFrom(g[1], g[2])'
  <2> TAKE g \in Groups
  <2>1. ingressPG[g] = BytesFrom(g[1], g[2]) /\ ingressPG[g] \in Nat
    BY <1>10 DEF Ingress
  <2>2. g # z => ingressPG'[g] = ingressPG[g]
    BY <1>10
  <2>3. g = z => ingressPG'[g] = ingressPG[g] - size
    BY <1>10
  <2> HIDE DEF z
  <2>4. QED
    BY <1>9, <2>1, <2>2, <2>3
<1>12. \A S \in SUBSET Groups :
        Sum(ingressPG', S) = Sum(ingressPG, S) - (IF z \in S THEN size ELSE 0) /\ Sum(ingressPG, S) \in Nat
  <2> DEFINE f == ingressPG
             g == ingressPG'
             d == 0 - size
  <2>1. /\ f \in [Groups -> Nat] /\ g \in [Groups -> Nat] /\ g[z] = f[z] + d /\ d \in Int
        /\ \A x \in Groups \ {z} : g[x] = f[x]
    BY <1>1, <1>3, <1>10
  <2> HIDE DEF f, g, z, d
  <2>2. \A S \in SUBSET Groups :
          Sum(g, S) = Sum(f, S) + (IF z \in S THEN d ELSE 0) /\ Sum(f, S) \in Nat
    BY <1>3, <2>1, SumsChange
  <2>3. QED
    BY <1>1, <2>2 DEF f, g, d
<1>13. \A p \in Ports : ingressPort'[p] = Sum(ingressPG', PortGroups(p))
  <2> TAKE p \in Ports
  <2>1. PortGroups(p) \in SUBSET Groups /\ (z \in PortGroups(p) <=> p = in)
    BY <1>1, GroupsFinite, GroupFacts
  <2>2. ingressPort'[p] = ingressPort[p] - (IF p = in THEN size ELSE 0)
    BY <1>1 DEF Returned, IngressTypes
  <2>3. QED
    BY <1>12, <2>1, <2>2 DEF Ingress
<1>14. \A t \in Pools : ingressSP'[t] = ingressSP[t] - (IF t = SP(q) THEN size ELSE 0)
  BY <1>1, <1>3 DEF Returned, IngressTypes
<1>15. \A t \in Pools : ingressSP'[t] = Sum(ingressPG', PoolGroups(t))
  <2> TAKE t \in Pools
  <2>1. PoolGroups(t) \in SUBSET Groups /\ (z \in PoolGroups(t) <=> t = SP(q))
    BY <1>1, GroupsFinite, GroupFacts
  <2>2. QED
    BY <1>12, <1>14, <2>1 DEF Ingress
<1>16. usedTotal' = usedTotal - size
  BY <1>1 DEF Returned
<1>17. usedTotal' = Sum(ingressPG', Groups)
  BY <1>3, <1>12, <1>16 DEF Ingress
<1>18. usedTotal' = ingressSP'[0] + ingressSP'[1] /\ usedTotal' <= maxBufferBytes
  <2>1. 0 \in Pools /\ 1 \in Pools /\ (SP(q) = 0 \/ SP(q) = 1)
    BY <1>3 DEF Pools
  <2>2. ingressSP[0] \in Nat /\ ingressSP[1] \in Nat
    BY <2>1 DEF IngressTypes
  <2>3. usedTotal = ingressSP[0] + ingressSP[1] /\ usedTotal <= maxBufferBytes
    BY DEF Ingress
  <2>4. maxBufferBytes \in Nat
    BY MmuAssumption
  <2>5. QED
    BY <1>1, <1>14, <1>16, <2>1, <2>2, <2>3, <2>4
<1>19. QED
  BY <1>4, <1>6, <1>11, <1>13, <1>15, <1>17, <1>18 DEF Ingress

-----------------------------------------------------------------------------
(* Headroom.                                                               *)

\* What a group may have beyond the limit of its pool, and how much of its
\* headroom counts for that: a packet that takes a pool over its limit is
\* counted there too, however much there is already.
Reserve == Max({pg_hdrm_limit, Cell})
Least(a, b) == IF a < b THEN a ELSE b
Counted == [g \in Groups |-> Least(headroom[g], Reserve)]

\* HeadroomCoversExcess, and that but for one packet the part of the headroom
\* that counts covers the excess: after a pool has crossed its limit, what is
\* admitted fits the headroom or the cell that its group is guaranteed.
Covered ==
    /\ \A g \in Groups : headroom[g] <= ingressPG[g]
    /\ \A s \in Pools :
        /\ ingressSP[s] <= buffer_cell_limit_sp + Sum(headroom, PoolGroups(s))
        /\ ingressSP[s] <= buffer_cell_limit_sp + MaxPacket + Sum(Counted, PoolGroups(s))

\* What a group may take over the limit of its pool: headroom or its cell.
LEMMA ReserveFacts ==
    /\ Reserve \in Nat /\ pg_hdrm_limit \in Nat /\ Cell \in Nat /\ buffer_cell_limit_sp \in Nat
    /\ pg_hdrm_limit <= Reserve /\ Cell <= Reserve
<1> DEFINE S == {pg_hdrm_limit, Cell}
<1>1. pg_hdrm_limit \in Nat /\ Cell \in Nat /\ buffer_cell_limit_sp \in Nat
  BY MmuAssumption
<1>2. S \subseteq Nat /\ S # {} /\ pg_hdrm_limit + Cell \in Nat /\ \A x \in S : x <= pg_hdrm_limit + Cell
  BY <1>1
<1>3. Reserve = Max(S) /\ pg_hdrm_limit \in S /\ Cell \in S
  BY DEF Reserve
<1> HIDE DEF S
<1>4. Max(S) \in S /\ \A j \in S : j <= Max(S)
  BY <1>2, GreatestExists
<1>5. QED
  BY <1>1, <1>2, <1>3, <1>4

\* The headroom that counts is a number of each group.
LEMMA CountedTypes ==
    ASSUME NEW h \in [Groups -> Nat]
    PROVE  [g \in Groups |-> Least(h[g], Reserve)] \in [Groups -> Nat]
  BY ReserveFacts DEF Least

\* The headroom of a group changes by d, and what counts of it by c.
LEMMA HeadroomChanges ==
    ASSUME IngressTypes, IngressTypes', NEW z \in Groups,
           \A g \in Groups \ {z} : headroom'[g] = headroom[g]
    PROVE  \A S \in SUBSET Groups :
              /\ Sum(headroom, S) \in Nat /\ Sum(Counted, S) \in Nat
              /\ Sum(headroom', S) = Sum(headroom, S) + (IF z \in S THEN headroom'[z] - headroom[z] ELSE 0)
              /\ Sum(Counted', S) = Sum(Counted, S)
                    + (IF z \in S THEN Least(headroom'[z], Reserve) - Least(headroom[z], Reserve) ELSE 0)
<1> DEFINE f == headroom
           g == headroom'
           u == Counted
           v == Counted'
           d == g[z] - f[z]
           c == v[z] - u[z]
<1>1. f \in [Groups -> Nat] /\ g \in [Groups -> Nat] /\ \A x \in Groups \ {z} : g[x] = f[x]
  BY DEF IngressTypes
<1>2. u = [x \in Groups |-> Least(f[x], Reserve)] /\ v = [x \in Groups |-> Least(g[x], Reserve)]
  BY DEF Counted
<1> HIDE DEF f, g, u, v
<1>3. u \in [Groups -> Nat] /\ v \in [Groups -> Nat] /\ \A x \in Groups \ {z} : v[x] = u[x]
  BY <1>1, <1>2, CountedTypes
<1>4. d \in Int /\ c \in Int /\ g[z] = f[z] + d /\ v[z] = u[z] + c
  BY <1>1, <1>3
<1>5. d = g[z] - f[z] /\ c = Least(g[z], Reserve) - Least(f[z], Reserve)
  BY <1>2
<1> HIDE DEF d, c
<1>6. \A S \in SUBSET Groups : Sum(g, S) = Sum(f, S) + (IF z \in S THEN d ELSE 0) /\ Sum(f, S) \in Nat
  BY <1>1, <1>4, SumsChange
<1>7. \A S \in SUBSET Groups : Sum(v, S) = Sum(u, S) + (IF z \in S THEN c ELSE 0) /\ Sum(u, S) \in Nat
  BY <1>3, <1>4, SumsChange
<1>8. QED
  BY <1>5, <1>6, <1>7 DEF f, g, u, v

\* What is admitted keeps the excess covered.
LEMMA CoveredIn ==
    ASSUME IngressTypes, IngressTypes', Ingress, Covered,
           NEW in \in Ports, NEW q \in Classes, NEW size \in PacketSizes,
           CheckIngressAdmission(in, q, size), UpdateIngressAdmission(in, q, size)
    PROVE  Covered'
<1> DEFINE z == <<in, q>>
           t == SP(q)
           over == ingressSP'[t] > buffer_cell_limit_sp
<1>1. z \in Groups /\ t \in Pools /\ \A s \in Pools : PoolGroups(s) \in SUBSET Groups /\ (z \in PoolGroups(s) <=> s = t)
  BY GroupFacts, GroupsFinite
<1>2. size \in Nat /\ size <= MaxPacket /\ MaxPacket \in Nat
  BY PacketFacts
<1>3. /\ headroom'[z] = (IF over THEN headroom[z] + size ELSE headroom[z])
      /\ \A g \in Groups \ {z} : headroom'[g] = headroom[g] /\ ingressPG'[g] = ingressPG[g]
      /\ ingressPG'[z] = ingressPG[z] + size
  BY <1>1 DEF UpdateIngressAdmission, IngressTypes
<1>4. \A s \in Pools : ingressSP'[s] = ingressSP[s] + (IF s = t THEN size ELSE 0)
  BY <1>1, <1>2 DEF UpdateIngressAdmission, IngressTypes
<1>5. \A g \in Groups : headroom[g] \in Nat /\ ingressPG[g] \in Nat /\ headroom[g] <= ingressPG[g]
  BY DEF IngressTypes, Covered
<1>6. \/ ingressPG[z] + size <= Cell
      \/ ingressSP[t] <= buffer_cell_limit_sp
      \/ headroom[z] + size <= pg_hdrm_limit
  <2>1. ingressPG[z] <= ingressPort[in] /\ ingressPG[z] \in Nat /\ ingressPort[in] \in Nat
    BY IngressBounds
  <2>2. \/ ingressPG[z] + size <= Cell
        \/ ingressPort[in] + size <= Cell
        \/ ingressSP[t] <= buffer_cell_limit_sp
        \/ headroom[z] + size <= pg_hdrm_limit
    BY DEF CheckIngressAdmission
  <2>3. Cell \in Nat
    BY ReserveFacts
  <2> HIDE DEF z, t
  <2>4. QED
    BY <1>2, <2>1, <2>2, <2>3
<1> HIDE DEF z, t
<1>7. \A g \in Groups : headroom'[g] <= ingressPG'[g]
  <2> TAKE g \in Groups
  <2>1. CASE g = z
    <3>1. headroom[z] \in Nat /\ ingressPG[z] \in Nat /\ headroom[z] <= ingressPG[z]
      BY <1>1, <1>5
    <3>2. headroom'[z] = headroom[z] + size \/ headroom'[z] = headroom[z]
      BY <1>3
    <3>3. QED
      BY <1>2, <1>3, <2>1, <3>1, <3>2
  <2>2. CASE g # z
    BY <1>3, <1>5, <2>2
  <2>3. QED
    BY <2>1, <2>2
<1>8. \A S \in SUBSET Groups :
        /\ Sum(headroom, S) \in Nat /\ Sum(Counted, S) \in Nat
        /\ Sum(headroom', S) = Sum(headroom, S) + (IF z \in S THEN headroom'[z] - headroom[z] ELSE 0)
        /\ Sum(Counted', S) = Sum(Counted, S)
              + (IF z \in S THEN Least(headroom'[z], Reserve) - Least(headroom[z], Reserve) ELSE 0)
  BY <1>1, <1>3, HeadroomChanges
<1>9. /\ headroom'[z] \in Nat /\ headroom[z] \in Nat /\ headroom'[z] >= headroom[z] /\ ingressPG[z] \in Nat
      /\ headroom[z] <= ingressPG[z]
  BY <1>1, <1>2, <1>3, <1>5
<1>10. /\ Least(headroom'[z], Reserve) \in Nat /\ Least(headroom[z], Reserve) \in Nat
       /\ Least(headroom'[z], Reserve) >= Least(headroom[z], Reserve)
  BY <1>9, ReserveFacts DEF Least
<1>11. ASSUME over, ~ (ingressSP[t] <= buffer_cell_limit_sp)
       PROVE  Least(headroom'[z], Reserve) = Least(headroom[z], Reserve) + size
  <2>1. headroom'[z] = headroom[z] + size
    BY <1>3, <1>11
  <2>2. headroom[z] + size <= Reserve
    BY <1>2, <1>6, <1>9, <1>11, ReserveFacts
  <2>3. QED
    BY <1>2, <1>9, <2>1, <2>2, ReserveFacts DEF Least
<1>12. ASSUME NEW s \in Pools
       PROVE  /\ ingressSP'[s] <= buffer_cell_limit_sp + Sum(headroom', PoolGroups(s))
              /\ ingressSP'[s] <= buffer_cell_limit_sp + MaxPacket + Sum(Counted', PoolGroups(s))
  <2> DEFINE a == Sum(headroom, PoolGroups(s))
             b == Sum(Counted, PoolGroups(s))
             a1 == Sum(headroom', PoolGroups(s))
             b1 == Sum(Counted', PoolGroups(s))
             x == Least(headroom[z], Reserve)
             x1 == Least(headroom'[z], Reserve)
  <2>1. /\ a \in Nat /\ b \in Nat /\ ingressSP[s] \in Nat /\ buffer_cell_limit_sp \in Nat
        /\ ingressSP[s] <= buffer_cell_limit_sp + a
        /\ ingressSP[s] <= buffer_cell_limit_sp + MaxPacket + b
        /\ x \in Nat /\ x1 \in Nat /\ x1 >= x
    BY <1>1, <1>8, <1>10, ReserveFacts DEF Covered, IngressTypes
  <2>2. /\ s = t => a1 = a + (headroom'[z] - headroom[z]) /\ b1 = b + (x1 - x)
        /\ s # t => a1 = a + 0 /\ b1 = b + 0
    BY <1>1, <1>8
  <2>3. over /\ ~ (ingressSP[t] <= buffer_cell_limit_sp) => x1 = x + size
    BY <1>11
  <2> HIDE DEF a, b, a1, b1, x, x1
  <2>4. CASE s # t
    BY <1>4, <2>1, <2>2, <2>4 DEF a1, b1
  <2>5. CASE s = t /\ ~ over
    <3>1. ingressSP'[s] <= buffer_cell_limit_sp
      BY <1>2, <1>4, <2>1, <2>5
    <3>2. a1 \in Nat /\ b1 \in Nat
      BY <1>9, <2>1, <2>2, <2>5
    <3>3. ingressSP'[s] \in Nat
      BY <1>2, <1>4, <2>1
    <3>4. QED
      BY <1>2, <2>1, <3>1, <3>2, <3>3 DEF a1, b1
  <2>6. CASE s = t /\ over
    <3>1. ingressSP'[s] = ingressSP[s] + size /\ headroom'[z] = headroom[z] + size
      BY <1>3, <1>4, <2>6
    <3>2. a1 = a + size /\ b1 = b + (x1 - x)
      BY <1>2, <1>9, <2>2, <2>6, <3>1
    <3>3. \/ ingressSP[s] <= buffer_cell_limit_sp
          \/ x1 = x + size
      BY <2>3, <2>6
    <3>4. ingressSP'[s] <= buffer_cell_limit_sp + a1
      BY <1>2, <2>1, <3>1, <3>2
    <3>5. ingressSP'[s] <= buffer_cell_limit_sp + MaxPacket + b1
      BY <1>2, <2>1, <3>1, <3>2, <3>3
    <3>6. QED
      BY <3>4, <3>5 DEF a1, b1
  <2>7. QED
    BY <2>4, <2>5, <2>6 DEF a1, b1
<1>13. QED
  BY <1>7, <1>12 DEF Covered

\* So does what leaves.
LEMMA CoveredOut ==
    ASSUME IngressTypes, IngressTypes', Covered,
           NEW in \in Ports, NEW q \in Classes, NEW size \in Nat, Returned(in, q, size)
    PROVE  Covered'
<1> DEFINE z == <<in, q>>
           t == SP(q)
<1>1. z \in Groups /\ t \in Pools /\ \A s \in Pools : PoolGroups(s) \in SUBSET Groups /\ (z \in PoolGroups(s) <=> s = t)
  BY GroupFacts, GroupsFinite
<1>2. /\ headroom'[z] = (IF headroom[z] > size THEN headroom[z] - size ELSE 0)
      /\ \A g \in Groups \ {z} : headroom'[g] = headroom[g] /\ ingressPG'[g] = ingressPG[g]
      /\ ingressPG'[z] = ingressPG[z] - size /\ ingressPG[z] - size \in Nat
  BY <1>1 DEF Returned, IngressTypes
<1>3. \A s \in Pools : ingressSP'[s] = ingressSP[s] - (IF s = t THEN size ELSE 0)
  BY <1>1 DEF Returned, IngressTypes
<1>4. \A g \in Groups : headroom[g] \in Nat /\ ingressPG[g] \in Nat /\ headroom[g] <= ingressPG[g]
  BY DEF IngressTypes, Covered
<1> HIDE DEF z, t
<1>5. headroom[z] \in Nat /\ ingressPG[z] \in Nat /\ headroom[z] <= ingressPG[z]
  BY <1>1, <1>4
<1>6. \A g \in Groups : headroom'[g] <= ingressPG'[g]
  <2> TAKE g \in Groups
  <2>1. CASE g = z
    BY <1>2, <1>5, <2>1
  <2>2. CASE g # z
    BY <1>2, <1>4, <2>2
  <2>3. QED
    BY <2>1, <2>2
<1>7. \A S \in SUBSET Groups :
        /\ Sum(headroom, S) \in Nat /\ Sum(Counted, S) \in Nat
        /\ Sum(headroom', S) = Sum(headroom, S) + (IF z \in S THEN headroom'[z] - headroom[z] ELSE 0)
        /\ Sum(Counted', S) = Sum(Counted, S)
              + (IF z \in S THEN Least(headroom'[z], Reserve) - Least(headroom[z], Reserve) ELSE 0)
  BY <1>1, <1>2, HeadroomChanges
<1>8. headroom'[z] \in Nat /\ headroom[z] - headroom'[z] <= size
  BY <1>2, <1>5
<1>9. /\ Least(headroom'[z], Reserve) \in Nat /\ Least(headroom[z], Reserve) \in Nat
      /\ Least(headroom[z], Reserve) - Least(headroom'[z], Reserve) <= size
  BY <1>5, <1>8, ReserveFacts DEF Least
<1>10. ASSUME NEW s \in Pools
       PROVE  /\ ingressSP'[s] <= buffer_cell_limit_sp + Sum(headroom', PoolGroups(s))
              /\ ingressSP'[s] <= buffer_cell_limit_sp + MaxPacket + Sum(Counted', PoolGroups(s))
  <2> DEFINE a == Sum(headroom, PoolGroups(s))
             b == Sum(Counted, PoolGroups(s))
             a1 == Sum(headroom', PoolGroups(s))
             b1 == Sum(Counted', PoolGroups(s))
             x == Least(headroom[z], Reserve)
             x1 == Least(headroom'[z], Reserve)
  <2>1. /\ a \in Nat /\ b \in Nat /\ ingressSP[s] \in Nat /\ buffer_cell_limit_sp \in Nat
        /\ ingressSP[s] <= buffer_cell_limit_sp + a
        /\ ingressSP[s] <= buffer_cell_limit_sp + MaxPacket + b
        /\ x \in Nat /\ x1 \in Nat /\ x - x1 <= size
    BY <1>1, <1>7, <1>9, ReserveFacts DEF Covered, IngressTypes
  <2>2. /\ s = t => a1 = a + (headroom'[z] - headroom[z]) /\ b1 = b + (x1 - x)
        /\ s # t => a1 = a + 0 /\ b1 = b + 0
    BY <1>1, <1>7
  <2>3. MaxPacket \in Nat
    BY PacketFacts
  <2> HIDE DEF a, b, a1, b1, x, x1
  <2>4. CASE s # t
    BY <1>3, <2>1, <2>2, <2>4 DEF a1, b1
  <2>5. CASE s = t
    <3>1. ingressSP'[s] = ingressSP[s] - size /\ a1 = a + (headroom'[z] - headroom[z]) /\ b1 = b + (x1 - x)
      BY <1>3, <2>2, <2>5
    <3>2. QED
      BY <1>5, <1>8, <2>1, <2>3, <3>1 DEF a1, b1
  <2>6. QED
    BY <2>4, <2>5
<1>11. QED
  BY <1>6, <1>10 DEF Covered

-----------------------------------------------------------------------------
(* The egress counters.                                                    *)

\* A number less than a modulus away is brought back by adding or subtracting
\* it once.
LEMMA Remainders ==
    ASSUME NEW m \in Nat \ {0}, NEW x \in Int
    PROVE  /\ 0 <= x /\ x < m => x % m = x
           /\ m <= x /\ x < 2 * m => x % m = x - m
           /\ 0 - m <= x /\ x < 0 => x % m = x + m
<1> DEFINE k == x \div m
           r == x % m
<1>1. x = m * k + r /\ r \in 0 .. m - 1 /\ k \in Int
  OBVIOUS
<1> HIDE DEF k, r
<1>2. k >= 2 => m * k >= 2 * m
  BY <1>1
<1>3. k <= -2 => m * k <= -2 * m
  BY <1>1
<1>4. m * 0 = 0 /\ m * 1 = m /\ m * (-1) = 0 - m
  OBVIOUS
<1>5. k >= 2 \/ k = 1 \/ k = 0 \/ k = -1 \/ k <= -2
  BY <1>1
<1>6. QED
  BY <1>1, <1>2, <1>3, <1>4, <1>5 DEF r

\* Read with its sign, a word that has wrapped is what it would be had it not.
LEMMA SignedWord ==
    ASSUME NEW n \in 0 .. Modulus - 1, NEW d \in Int,
           0 - (Modulus \div 2) < Signed(n) + d, Signed(n) + d < Modulus \div 2
    PROVE  /\ Signed(Word(n + d)) = Signed(n) + d
           /\ Word(n + d) \in 0 .. Modulus - 1
<1> DEFINE h == Modulus \div 2
           m == Signed(n)
<1>1. Modulus \in Nat \ {0} /\ h \in Nat /\ 2 * h <= Modulus
  BY MmuAssumption
<1>2. n \in Int /\ (n < h => m = n) /\ (n >= h => m = n - Modulus)
  BY <1>1 DEF Signed
<1>3. 0 - h < m + d /\ m + d < h
  OBVIOUS
<1>4. \A x : Signed(x) = IF x >= h THEN x - Modulus ELSE x
  BY DEF Signed
<1>5. \A x : Word(x) = x % Modulus
  BY DEF Word
<1> HIDE DEF h, m
<1>6. \A x \in Int :
        /\ 0 <= x /\ x < Modulus => Word(x) = x
        /\ Modulus <= x /\ x < 2 * Modulus => Word(x) = x - Modulus
        /\ 0 - Modulus <= x /\ x < 0 => Word(x) = x + Modulus
  BY <1>1, <1>5, Remainders
<1>7. n + d \in Int /\ (n + d = m + d \/ n + d = m + d + Modulus) /\ m \in Int
  BY <1>1, <1>2
<1>8. CASE 0 <= m + d
  <2>1. Word(n + d) = m + d
    BY <1>1, <1>3, <1>6, <1>7, <1>8
  <2>2. QED
    BY <1>1, <1>3, <1>4, <1>7, <1>8, <2>1 DEF m
<1>9. CASE m + d < 0
  <2>1. Word(n + d) = m + d + Modulus
    BY <1>1, <1>3, <1>6, <1>7, <1>9
  <2>2. QED
    BY <1>1, <1>3, <1>4, <1>7, <1>9, <2>1 DEF m
<1>10. QED
  BY <1>7, <1>8, <1>9

\* EgressExact; and that the guaranteed part of a queue is never above the
\* cell, nor below zero by more than a packet.
Split ==
    /\ \A g \in Groups :
        /\ Signed(qMin[g]) + qShared[g] = BytesIn(g[1], g[2])
        /\ 0 - MaxPacket <= Signed(qMin[g]) /\ Signed(qMin[g]) <= Cell
        /\ qShared[g] <= maxBufferBytes
    /\ \A p \in Ports : egressPort[p] = Sum(qShared, PortGroups(p)) /\ egressPort[p] <= maxBufferBytes
    /\ \A s \in Pools : egressSP[s] = Sum(qShared, PoolGroups(s)) /\ egressSP[s] <= maxBufferBytes

\* The bytes in the queue of out for class q become bytes, and no others do.
BytesBecome(out, q, bytes) ==
    /\ BytesIn(out, q)' = bytes
    /\ \A g \in Groups \ {<<out, q>>} : BytesIn(g[1], g[2])' = BytesIn(g[1], g[2])

\* Two parts that are in their range, and add up to what the queue becomes.
GoodParts(out, q, min, shared) ==
    /\ Word(min) \in 0 .. Modulus - 1
    /\ 0 - MaxPacket <= Signed(Word(min)) /\ Signed(Word(min)) <= Cell
    /\ shared \in Nat /\ shared <= maxBufferBytes
    /\ egressPort[out] + (shared - qShared[<<out, q>>]) <= maxBufferBytes
    /\ egressSP[SP(q)] + (shared - qShared[<<out, q>>]) <= maxBufferBytes
    /\ Egress(out, q, min, shared)

\* Two new parts of a queue keep the counters of port and pool, as Egress
\* writes them.
LEMMA EgressKeeps ==
    ASSUME EgressTypes, Split, NEW out \in Ports, NEW q \in Classes, NEW min, NEW shared,
           GoodParts(out, q, min, shared),
           BytesBecome(out, q, Signed(Word(min)) + shared)
    PROVE  EgressTypes' /\ Split'
<1> DEFINE z == <<out, q>>
           t == SP(q)
           d == shared - qShared[z]
<1>1. z \in Groups /\ t \in Pools /\ z[1] = out /\ z[2] = q
  BY GroupFacts
<1>2. /\ qMin \in [Groups -> 0 .. Modulus - 1] /\ qShared \in [Groups -> Nat]
      /\ egressPort \in [Ports -> Nat] /\ egressSP \in [Pools -> Nat]
  BY DEF EgressTypes
<1>3. shared \in Nat /\ d \in Int /\ qShared[z] \in Nat /\ shared < Modulus /\ shared <= maxBufferBytes
  BY <1>1, <1>2, MmuAssumption, WidthAssumption DEF GoodParts
<1>4. Word(shared) = shared
  BY <1>3, WordSmall
<1>5. /\ qMin' = [qMin EXCEPT ![z] = Word(min)] /\ qShared' = [qShared EXCEPT ![z] = shared]
      /\ egressPort' = [egressPort EXCEPT ![out] = Word(egressPort[out] + d)]
      /\ egressSP' = [egressSP EXCEPT ![t] = Word(egressSP[t] + d)]
  BY <1>4 DEF GoodParts, Egress
<1>6. egressPort[out] + d <= maxBufferBytes /\ egressSP[t] + d <= maxBufferBytes
  BY DEF GoodParts
<1>7. Word(min) \in 0 .. Modulus - 1 /\ 0 - MaxPacket <= Signed(Word(min)) /\ Signed(Word(min)) <= Cell
  BY DEF GoodParts
<1>8. \A S : z \in S /\ S \in SUBSET Groups => qShared[z] <= Sum(qShared, S)
  BY <1>1, <1>2, GroupSums
<1>9. /\ z \in PortGroups(out) /\ z \in PoolGroups(t)
      /\ PortGroups(out) \in SUBSET Groups /\ PoolGroups(t) \in SUBSET Groups
  BY <1>1, GroupFacts, GroupsFinite
<1>10. qShared[z] <= egressPort[out] /\ qShared[z] <= egressSP[t] /\ egressPort[out] \in Nat /\ egressSP[t] \in Nat
  BY <1>1, <1>2, <1>8, <1>9 DEF Split
<1> HIDE DEF z, t
<1>11. /\ egressPort[out] + d \in Nat /\ egressPort[out] + d < Modulus
       /\ egressSP[t] + d \in Nat /\ egressSP[t] + d < Modulus
  BY <1>3, <1>6, <1>10, MmuAssumption, WidthAssumption
<1>12. Word(egressPort[out] + d) = egressPort[out] + d /\ Word(egressSP[t] + d) = egressSP[t] + d
  BY <1>11, WordSmall
<1>13. /\ qShared' \in [Groups -> Nat] /\ qShared'[z] = shared
       /\ \A g \in Groups \ {z} : qShared'[g] = qShared[g]
  BY <1>1, <1>2, <1>3, <1>5, Put
<1>14. /\ qMin' \in [Groups -> 0 .. Modulus - 1] /\ qMin'[z] = Word(min)
       /\ \A g \in Groups \ {z} : qMin'[g] = qMin[g]
  BY <1>1, <1>2, <1>5, <1>7, Put
<1>15. /\ egressPort' \in [Ports -> Nat] /\ egressPort'[out] = egressPort[out] + d
       /\ \A p \in Ports \ {out} : egressPort'[p] = egressPort[p]
  BY <1>2, <1>5, <1>11, <1>12, Put
<1>16. /\ egressSP' \in [Pools -> Nat] /\ egressSP'[t] = egressSP[t] + d
       /\ \A s \in Pools \ {t} : egressSP'[s] = egressSP[s]
  BY <1>1, <1>2, <1>5, <1>11, <1>12, Put
<1>17. EgressTypes'
  BY <1>13, <1>14, <1>15, <1>16 DEF EgressTypes
<1>18. \A S \in SUBSET Groups :
        Sum(qShared', S) = Sum(qShared, S) + (IF z \in S THEN d ELSE 0) /\ Sum(qShared, S) \in Nat
  <2> DEFINE f == qShared
             g == qShared'
  <2>1. /\ f \in [Groups -> Nat] /\ g \in [Groups -> Nat] /\ g[z] = f[z] + d
        /\ \A x \in Groups \ {z} : g[x] = f[x]
    BY <1>2, <1>3, <1>13
  <2> HIDE DEF f, g, d
  <2>2. \A S \in SUBSET Groups :
          Sum(g, S) = Sum(f, S) + (IF z \in S THEN d ELSE 0) /\ Sum(f, S) \in Nat
    BY <1>1, <1>3, <2>1, SumsChange
  <2>3. QED
    BY <2>2 DEF f, g
<1> HIDE DEF d
<1>19. ASSUME NEW p \in Ports
       PROVE  egressPort'[p] = Sum(qShared', PortGroups(p)) /\ egressPort'[p] <= maxBufferBytes
  <2>1. PortGroups(p) \in SUBSET Groups /\ (z \in PortGroups(p) <=> p = out)
    BY GroupsFinite, GroupFacts DEF z
  <2>2. egressPort[p] = Sum(qShared, PortGroups(p)) /\ egressPort[p] <= maxBufferBytes
    BY DEF Split
  <2>3. egressPort'[p] = egressPort[p] + (IF p = out THEN d ELSE 0)
    BY <1>2, <1>15
  <2>4. QED
    BY <1>6, <1>15, <1>18, <2>1, <2>2, <2>3
<1>20. ASSUME NEW s \in Pools
       PROVE  egressSP'[s] = Sum(qShared', PoolGroups(s)) /\ egressSP'[s] <= maxBufferBytes
  <2>1. PoolGroups(s) \in SUBSET Groups /\ (z \in PoolGroups(s) <=> s = t)
    BY GroupsFinite, GroupFacts DEF z, t
  <2>2. egressSP[s] = Sum(qShared, PoolGroups(s)) /\ egressSP[s] <= maxBufferBytes
    BY DEF Split
  <2>3. egressSP'[s] = egressSP[s] + (IF s = t THEN d ELSE 0)
    BY <1>2, <1>16
  <2>4. QED
    BY <1>6, <1>16, <1>18, <2>1, <2>2, <2>3
<1>21. ASSUME NEW g \in Groups
       PROVE  /\ Signed(qMin'[g]) + qShared'[g] = BytesIn(g[1], g[2])'
              /\ 0 - MaxPacket <= Signed(qMin'[g]) /\ Signed(qMin'[g]) <= Cell
              /\ qShared'[g] <= maxBufferBytes
  <2>1. CASE g = z
    <3>1. BytesIn(g[1], g[2])' = BytesIn(out, q)'
      BY <1>1, <2>1
    <3>2. BytesIn(out, q)' = Signed(Word(min)) + shared
      BY DEF BytesBecome
    <3>3. QED
      BY <1>3, <1>7, <1>13, <1>14, <2>1, <3>1, <3>2
  <2>2. CASE g # z
    <3>1. BytesIn(g[1], g[2])' = BytesIn(g[1], g[2])
      BY <2>2 DEF BytesBecome, z
    <3>2. qMin'[g] = qMin[g] /\ qShared'[g] = qShared[g]
      BY <1>13, <1>14, <2>2
    <3>3. /\ Signed(qMin[g]) + qShared[g] = BytesIn(g[1], g[2])
          /\ 0 - MaxPacket <= Signed(qMin[g]) /\ Signed(qMin[g]) <= Cell
          /\ qShared[g] <= maxBufferBytes
      BY DEF Split
    <3>4. QED
      BY <3>1, <3>2, <3>3
  <2>3. QED
    BY <2>1, <2>2
<1>22. Split'
  BY <1>19, <1>20, <1>21 DEF Split
<1>23. QED
  BY <1>17, <1>22

\* The parts of a queue as they are.
LEMMA PartFacts ==
    ASSUME EgressTypes, Split, NEW out \in Ports, NEW q \in Classes
    PROVE  LET z == <<out, q>> IN
           /\ qMin[z] \in 0 .. Modulus - 1 /\ Word(qMin[z]) = qMin[z] /\ qShared[z] \in Nat
           /\ Signed(qMin[z]) \in Int /\ 0 - MaxPacket <= Signed(qMin[z]) /\ Signed(qMin[z]) <= Cell
           /\ qMin[z] < Cell => Signed(qMin[z]) = qMin[z]
           /\ Signed(qMin[z]) = qMin[z] \/ Signed(qMin[z]) = qMin[z] - Modulus
           /\ Signed(qMin[z]) + qShared[z] = BytesIn(out, q)
           /\ qShared[z] <= maxBufferBytes
           /\ egressPort[out] \in Nat /\ egressPort[out] <= maxBufferBytes
           /\ egressSP[SP(q)] \in Nat /\ egressSP[SP(q)] <= maxBufferBytes
<1> DEFINE z == <<out, q>>
           n == qMin[z]
<1>1. z \in Groups /\ z[1] = out /\ z[2] = q /\ SP(q) \in Pools
  BY GroupFacts
<1>2. n \in 0 .. Modulus - 1 /\ qShared[z] \in Nat /\ egressPort[out] \in Nat /\ egressSP[SP(q)] \in Nat
  BY <1>1 DEF EgressTypes
<1>3. /\ Signed(n) + qShared[z] = BytesIn(out, q)
      /\ 0 - MaxPacket <= Signed(n) /\ Signed(n) <= Cell /\ qShared[z] <= maxBufferBytes
      /\ egressPort[out] <= maxBufferBytes /\ egressSP[SP(q)] <= maxBufferBytes
  BY <1>1 DEF Split
<1>4. Modulus \in Nat
  BY MmuAssumption
<1> HIDE DEF n
<1>5. n \in Nat /\ n < Modulus
  BY <1>2, <1>4
<1>6. Word(n) = n
  BY <1>5, WordSmall
<1>7. Cell < Modulus \div 2 /\ Cell \in Nat /\ Modulus \div 2 \in Nat
  BY PacketFacts, ReserveFacts
<1>8. /\ Signed(n) \in Int
      /\ n < Cell => Signed(n) = n
      /\ Signed(n) = n \/ Signed(n) = n - Modulus
  BY <1>4, <1>5, <1>7 DEF Signed
<1>9. QED
  BY <1>2, <1>3, <1>6, <1>8 DEF n

\* A packet more is counted in the guaranteed part while that is below a cell.
LEMMA CountedIn ==
    ASSUME EgressTypes, Split, NEW out \in Ports, NEW q \in Classes, NEW size \in PacketSizes,
           CheckEgressAdmission(out, q, size), UpdateEgressAdmission(out, q, size),
           BytesBecome(out, q, BytesIn(out, q) + size)
    PROVE  EgressTypes' /\ Split'
<1> DEFINE z == <<out, q>>
           n == qMin[z]
           m == Signed(n)
           k == qShared[z]
           ep == egressPort[out]
           es == egressSP[SP(q)]
           H == Modulus \div 2
<1>1. /\ n \in 0 .. Modulus - 1 /\ Word(n) = n /\ k \in Nat /\ m \in Int
      /\ 0 - MaxPacket <= m /\ m <= Cell
      /\ n < Cell => m = n
      /\ m = n \/ m = n - Modulus
      /\ m + k = BytesIn(out, q) /\ k <= maxBufferBytes
      /\ ep \in Nat /\ ep <= maxBufferBytes /\ es \in Nat /\ es <= maxBufferBytes
  BY PartFacts
<1>2. /\ es + size <= maxBufferBytes /\ ep + size <= maxBufferBytes /\ k + size <= maxBufferBytes
  BY DEF CheckEgressAdmission
<1>3. /\ Word(n + size) < Cell => Egress(out, q, n + size, k)
      /\ ~ (Word(n + size) < Cell) => EgressPatched(out, q, n, k + size)
  BY DEF UpdateEgressAdmission
<1>4. \A b :
        /\ n < Cell /\ b > Cell => (EgressPatched(out, q, n, b) => Egress(out, q, Cell, b - Cell + n))
        /\ ~ (n < Cell /\ b > Cell) => (EgressPatched(out, q, n, b) => Egress(out, q, n, b))
  BY Zenon DEF EgressPatched
<1>5. \A min, shared :
        /\ Word(min) \in 0 .. Modulus - 1 /\ 0 - MaxPacket <= Signed(Word(min)) /\ Signed(Word(min)) <= Cell
        /\ shared \in Nat /\ shared <= maxBufferBytes
        /\ ep + (shared - k) <= maxBufferBytes /\ es + (shared - k) <= maxBufferBytes
        /\ Egress(out, q, min, shared)
        => GoodParts(out, q, min, shared)
  BY DEF GoodParts
<1>6. \A x : BytesIn(out, q) + size = x => BytesBecome(out, q, x)
  OBVIOUS
<1>7. \A x \in 0 .. Modulus - 1, d \in Int :
        0 - H < Signed(x) + d /\ Signed(x) + d < H =>
            Signed(Word(x + d)) = Signed(x) + d /\ Word(x + d) \in 0 .. Modulus - 1
  BY SignedWord
<1>8. /\ H \in Nat /\ MaxPacket < H /\ Cell < H /\ 2 * H <= Modulus /\ Modulus \in Nat /\ maxBufferBytes \in Nat
      /\ MaxPacket \in Nat /\ size \in Nat \ {0} /\ size <= MaxPacket /\ Cell \in Nat
  BY PacketFacts, ReserveFacts, MmuAssumption
<1> HIDE DEF z, n, m, k, ep, es, H
<1>9. CASE Word(n + size) < Cell
  <2>1. m + size < H
    <3>1. CASE m < 0
      BY <1>1, <1>8, <3>1
    <3>2. CASE m >= 0
      <4>1. n + size \in Nat /\ n + size = m + size /\ n + size < Modulus
        BY <1>1, <1>8, <3>2
      <4>2. Word(n + size) = n + size
        BY <4>1, WordSmall
      <4>3. QED
        BY <1>1, <1>8, <1>9, <4>1, <4>2
    <3>3. QED
      BY <1>1, <3>1, <3>2
  <2>2. 0 - H < m + size
    BY <1>1, <1>8
  <2>3. Signed(Word(n + size)) = m + size /\ Word(n + size) \in 0 .. Modulus - 1
    BY <1>1, <1>7, <1>8, <2>1, <2>2 DEF m
  <2>4. m + size <= Cell
    <3>1. Word(n + size) < H /\ \A x : x < H /\ H \in Nat /\ x \in Nat => Signed(x) = x
      BY <1>8, <1>9, <2>3 DEF Signed, H
    <3>2. QED
      BY <1>1, <1>8, <1>9, <2>3, <3>1
  <2>5. 0 - MaxPacket <= m + size
    BY <1>1, <1>8
  <2>6. ep + (k - k) <= maxBufferBytes /\ es + (k - k) <= maxBufferBytes
    BY <1>1
  <2>7. Egress(out, q, n + size, k)
    BY <1>3, <1>9
  <2>8. GoodParts(out, q, n + size, k)
    BY <1>1, <1>5, <2>3, <2>4, <2>5, <2>6, <2>7
  <2>9. BytesBecome(out, q, Signed(Word(n + size)) + k)
    <3>1. BytesIn(out, q) + size = Signed(Word(n + size)) + k
      BY <1>1, <1>8, <2>3
    <3>2. QED
      BY <1>6, <3>1
  <2>10. QED
    BY <2>8, <2>9, EgressKeeps
<1>10. CASE ~ (Word(n + size) < Cell) /\ n < Cell /\ k + size > Cell
  <2> DEFINE c == k + size - Cell + n
  <2>1. Egress(out, q, Cell, c)
    <3> DEFINE b == k + size
    <3>1. EgressPatched(out, q, n, b) /\ n < Cell /\ b > Cell
      BY <1>3, <1>10
    <3>2. c = b - Cell + n
      BY <1>1, <1>8
    <3> HIDE DEF b, c
    <3>3. Egress(out, q, Cell, b - Cell + n)
      BY <1>4, <3>1
    <3>4. QED
      BY <3>2, <3>3, Zenon
  <2>2. Word(Cell) = Cell /\ Signed(Cell) = Cell /\ Cell \in 0 .. Modulus - 1
    <3>1. Cell \in Nat /\ Cell < Modulus /\ Cell < H
      BY <1>8
    <3>2. QED
      BY <1>8, <3>1, WordSmall DEF Signed, H
  <2>3. /\ c \in Nat /\ c <= maxBufferBytes
        /\ ep + (c - k) <= maxBufferBytes /\ es + (c - k) <= maxBufferBytes
        /\ 0 - MaxPacket <= Cell /\ Cell <= Cell
    BY <1>1, <1>2, <1>8, <1>10
  <2>4. BytesIn(out, q) + size = Signed(Word(Cell)) + c
    BY <1>1, <1>8, <1>10, <2>2
  <2> HIDE DEF c
  <2>5. GoodParts(out, q, Cell, c)
    BY <1>5, <2>1, <2>2, <2>3
  <2>6. BytesBecome(out, q, Signed(Word(Cell)) + c)
    BY <1>6, <2>4
  <2>7. QED
    BY <2>5, <2>6, EgressKeeps
<1>11. CASE ~ (Word(n + size) < Cell) /\ ~ (n < Cell /\ k + size > Cell)
  <2> DEFINE c == k + size
  <2>1. Egress(out, q, n, c)
    BY <1>3, <1>4, <1>11
  <2>2. /\ c \in Nat /\ c <= maxBufferBytes
        /\ ep + (c - k) <= maxBufferBytes /\ es + (c - k) <= maxBufferBytes
    BY <1>1, <1>2, <1>8
  <2>3. BytesIn(out, q) + size = Signed(Word(n)) + c
    BY <1>1, <1>8 DEF m
  <2> HIDE DEF c
  <2>4. GoodParts(out, q, n, c)
    BY <1>1, <1>5, <2>1, <2>2 DEF m
  <2>5. BytesBecome(out, q, Signed(Word(n)) + c)
    BY <1>6, <2>3
  <2>6. QED
    BY <2>4, <2>5, EgressKeeps
<1>12. QED
  BY <1>9, <1>10, <1>11

\* A packet less is taken off the shared part if that is enough, else off the
\* guaranteed one.
LEMMA CountedOut ==
    ASSUME EgressTypes, Split, NEW out \in Ports, NEW q \in Classes, NEW size \in PacketSizes,
           size <= BytesIn(out, q), RemoveFromEgressAdmission(out, q, size),
           BytesBecome(out, q, BytesIn(out, q) - size)
    PROVE  EgressTypes' /\ Split'
<1> DEFINE z == <<out, q>>
           n == qMin[z]
           m == Signed(n)
           k == qShared[z]
           ep == egressPort[out]
           es == egressSP[SP(q)]
           H == Modulus \div 2
           w == Word(n - size)
<1>1. /\ n \in 0 .. Modulus - 1 /\ Word(n) = n /\ k \in Nat /\ m \in Int
      /\ 0 - MaxPacket <= m /\ m <= Cell
      /\ m + k = BytesIn(out, q) /\ k <= maxBufferBytes
      /\ ep \in Nat /\ ep <= maxBufferBytes /\ es \in Nat /\ es <= maxBufferBytes
  BY PartFacts
<1>2. /\ k >= size => Egress(out, q, n, k - size)
      /\ ~ (k >= size) => EgressPatched(out, q, w, k)
  BY DEF RemoveFromEgressAdmission
<1>3. /\ w < Cell /\ k > Cell => (EgressPatched(out, q, w, k) => Egress(out, q, Cell, k - Cell + w))
      /\ ~ (w < Cell /\ k > Cell) => (EgressPatched(out, q, w, k) => Egress(out, q, w, k))
  BY DEF EgressPatched
<1>4. \A min, shared :
        /\ Word(min) \in 0 .. Modulus - 1 /\ 0 - MaxPacket <= Signed(Word(min)) /\ Signed(Word(min)) <= Cell
        /\ shared \in Nat /\ shared <= maxBufferBytes
        /\ ep + (shared - k) <= maxBufferBytes /\ es + (shared - k) <= maxBufferBytes
        /\ Egress(out, q, min, shared)
        => GoodParts(out, q, min, shared)
  BY DEF GoodParts
<1>5. \A x : BytesIn(out, q) - size = x => BytesBecome(out, q, x)
  OBVIOUS
<1>6. \A x \in 0 .. Modulus - 1, d \in Int :
        0 - H < Signed(x) + d /\ Signed(x) + d < H =>
            Signed(Word(x + d)) = Signed(x) + d /\ Word(x + d) \in 0 .. Modulus - 1
  BY SignedWord
<1>7. /\ H \in Nat /\ MaxPacket < H /\ Cell < H /\ 2 * H <= Modulus /\ Modulus \in Nat /\ maxBufferBytes \in Nat
      /\ MaxPacket \in Nat /\ size \in Nat \ {0} /\ size <= MaxPacket /\ Cell \in Nat
  BY PacketFacts, ReserveFacts, MmuAssumption
<1>8. size <= m + k
  BY <1>1
<1> HIDE DEF z, n, m, k, ep, es, H
<1>9. CASE k >= size
  <2> DEFINE c == k - size
  <2>1. Egress(out, q, n, c)
    BY <1>2, <1>9
  <2>2. /\ c \in Nat /\ c <= maxBufferBytes
        /\ ep + (c - k) <= maxBufferBytes /\ es + (c - k) <= maxBufferBytes
    BY <1>1, <1>7, <1>9
  <2>3. BytesIn(out, q) - size = Signed(Word(n)) + c
    BY <1>1, <1>7 DEF m
  <2> HIDE DEF c
  <2>4. GoodParts(out, q, n, c)
    BY <1>1, <1>4, <2>1, <2>2 DEF m
  <2>5. BytesBecome(out, q, Signed(Word(n)) + c)
    BY <1>5, <2>3
  <2>6. QED
    BY <2>4, <2>5, EgressKeeps
<1>10. CASE ~ (k >= size)
  <2>1. Signed(w) = m - size /\ w \in 0 .. Modulus - 1
    <3> DEFINE d == 0 - size
    <3>1. 0 - H < m + d /\ m + d < H /\ d \in Int /\ n + d = n - size /\ m + d = m - size
      BY <1>1, <1>7, <1>8, <1>10
    <3> HIDE DEF d
    <3>2. Signed(Word(n + d)) = m + d /\ Word(n + d) \in 0 .. Modulus - 1
      BY <1>1, <1>6, <3>1 DEF m
    <3>3. QED
      BY <3>1, <3>2
  <2> HIDE DEF w
  <2>2. w \in Nat /\ w < Modulus /\ Word(w) = w
    BY <1>7, <2>1, WordSmall
  <2>3. 0 - MaxPacket <= m - size /\ m - size <= Cell
    BY <1>1, <1>7, <1>8, <1>10
  <2>4. CASE w < Cell /\ k > Cell
    <3> DEFINE c == k - Cell + w
    <3>1. Egress(out, q, Cell, c)
      BY <1>2, <1>3, <1>10, <2>4
    <3>2. Word(Cell) = Cell /\ Signed(Cell) = Cell /\ Cell \in 0 .. Modulus - 1 /\ Signed(w) = w
      <4>1. Cell \in Nat /\ Cell < Modulus /\ Cell < H /\ w < H
        BY <1>7, <2>2, <2>4
      <4>2. QED
        BY <1>7, <2>2, <4>1, WordSmall DEF Signed, H
    <3>3. /\ c \in Nat /\ c <= maxBufferBytes
          /\ ep + (c - k) <= maxBufferBytes /\ es + (c - k) <= maxBufferBytes
          /\ 0 - MaxPacket <= Cell /\ Cell <= Cell
      BY <1>1, <1>7, <2>2, <2>4
    <3>4. BytesIn(out, q) - size = Signed(Word(Cell)) + c
      BY <1>1, <1>7, <2>1, <2>2, <3>2
    <3> HIDE DEF c
    <3>5. GoodParts(out, q, Cell, c)
      BY <1>4, <3>1, <3>2, <3>3
    <3>6. BytesBecome(out, q, Signed(Word(Cell)) + c)
      BY <1>5, <3>4
    <3>7. QED
      BY <3>5, <3>6, EgressKeeps
  <2>5. CASE ~ (w < Cell /\ k > Cell)
    <3>1. Egress(out, q, w, k)
      BY <1>2, <1>3, <1>10, <2>5
    <3>2. ep + (k - k) <= maxBufferBytes /\ es + (k - k) <= maxBufferBytes
      BY <1>1
    <3>3. BytesIn(out, q) - size = Signed(Word(w)) + k
      BY <1>1, <1>7, <2>1, <2>2
    <3>4. GoodParts(out, q, w, k)
      BY <1>1, <1>4, <2>1, <2>2, <2>3, <3>1, <3>2
    <3>5. BytesBecome(out, q, Signed(Word(w)) + k)
      BY <1>5, <3>3
    <3>6. QED
      BY <3>4, <3>5, EgressKeeps
  <2>6. QED
    BY <2>4, <2>5
<1>11. QED
  BY <1>9, <1>10

-----------------------------------------------------------------------------
(* The memory.                                                             *)

MmuInv ==
    /\ IngressTypes /\ EgressTypes /\ QueueTypes
    /\ Ingress /\ Covered /\ Split

\* A switch that has just been built holds nothing.
LEMMA EmptySwitch == MmuInit => MmuInv
<1> SUFFICES ASSUME MmuInit PROVE MmuInv
  OBVIOUS
<1>1. /\ usedTotal = 0 /\ ingressSP = [s \in Pools |-> 0] /\ ingressPort = [p \in Ports |-> 0]
      /\ ingressPG = [g \in Groups |-> 0] /\ headroom = [g \in Groups |-> 0]
      /\ qMin = [g \in Groups |-> 0] /\ qShared = [g \in Groups |-> 0]
      /\ egressPort = [p \in Ports |-> 0] /\ egressSP = [s \in Pools |-> 0]
      /\ queue = [g \in Groups |-> << >>]
  BY DEF MmuInit
<1>2. IngressTypes /\ QueueTypes
  BY <1>1 DEF IngressTypes, QueueTypes
<1>3. EgressTypes
  <2>1. 0 \in 0 .. Modulus - 1
    BY MmuAssumption
  <2>2. QED
    BY <1>1, <2>1 DEF EgressTypes
<1>4. \A S \in SUBSET Groups : Sum(ingressPG, S) = 0 /\ Sum(qShared, S) = 0 /\ Sum(headroom, S) = 0
  <2> TAKE S \in SUBSET Groups
  <2>1. IsFiniteSet(S) /\ \A x \in S : ingressPG[x] = 0 /\ qShared[x] = 0 /\ headroom[x] = 0
    BY <1>1, GroupsFinite, FS_Subset
  <2>2. QED
    BY <2>1, SumZero
<1>5. ASSUME NEW p \in Ports, NEW q \in Classes
      PROVE  BytesFrom(p, q) = 0 /\ BytesIn(p, q) = 0
  <2> DEFINE e == << >>
             f == [out \in Ports |-> QueuedFrom(queue[<<out, q>>], p)]
  <2>1. e \in Seq(Packets) /\ Len(e) = 0 /\ 1 .. Len(e) = {}
    OBVIOUS
  <2>2. \A out \in Ports : queue[<<out, q>>] = e
    BY <1>1, GroupFacts
  <2> HIDE DEF e
  <2>3. Queued(e) = Sum(Sizes(e), {}) /\ QueuedFrom(e, p) = Sum(SizesFrom(e, p), {})
    BY <2>1, SumsOfSizes
  <2>4. Queued(e) = 0 /\ QueuedFrom(e, p) = 0
    BY <2>3, SumEmpty
  <2>5. BytesFrom(p, q) = Sum(f, Ports) /\ BytesIn(p, q) = Queued(queue[<<p, q>>])
    BY <1>2, BytesSum
  <2>6. \A out \in Ports : f[out] = 0
    BY <2>2, <2>4
  <2> HIDE DEF f
  <2>7. Sum(f, Ports) = 0
    BY <2>6, SumZero, GroupsFinite
  <2>8. QED
    BY <2>2, <2>4, <2>5, <2>7
<1>6. \A g \in Groups : BytesFrom(g[1], g[2]) = 0 /\ BytesIn(g[1], g[2]) = 0
  BY <1>5 DEF Groups
<1>7. /\ \A p \in Ports : PortGroups(p) \in SUBSET Groups
      /\ \A s \in Pools : PoolGroups(s) \in SUBSET Groups
      /\ Groups \in SUBSET Groups
  BY GroupsFinite
<1>8. maxBufferBytes \in Nat /\ 0 \in Pools /\ 1 \in Pools
  BY MmuAssumption DEF Pools
<1>9. Ingress
  BY <1>1, <1>4, <1>6, <1>7, <1>8 DEF Ingress
<1>10. Covered
  <2>1. \A s \in Pools : Sum(Counted, PoolGroups(s)) \in Nat
    <3> DEFINE u == Counted
    <3>1. u \in [Groups -> Nat]
      BY <1>2, CountedTypes DEF Counted, IngressTypes
    <3> HIDE DEF u
    <3>2. \A s \in Pools : IsFiniteSet(PoolGroups(s)) /\ \A x \in PoolGroups(s) : u[x] \in Nat
      BY <3>1, GroupsFinite
    <3>3. \A s \in Pools : Sum(u, PoolGroups(s)) \in Nat
      BY <3>2, SumNat
    <3>4. QED
      BY <3>3 DEF u
  <2>2. buffer_cell_limit_sp \in Nat /\ MaxPacket \in Nat
    BY ReserveFacts, PacketFacts
  <2>3. QED
    BY <1>1, <1>4, <1>7, <2>1, <2>2 DEF Covered
<1>11. Split
  <2>1. Signed(0) = 0 /\ 0 - MaxPacket <= 0 /\ 0 <= Cell
    BY PacketFacts, ReserveFacts DEF Signed
  <2>2. QED
    BY <1>1, <1>4, <1>6, <1>7, <1>8, <2>1 DEF Split
<1>12. QED
  BY <1>2, <1>3, <1>9, <1>10, <1>11 DEF MmuInv

\* What arrives keeps the memory consistent.
LEMMA ArriveKeeps ==
    ASSUME MmuInv, NEW in \in Ports, NEW out \in Ports, NEW q \in Classes, NEW size \in PacketSizes,
           Arrive(in, out, q, size)
    PROVE  MmuInv'
<1> DEFINE s == queue[<<out, q>>]
           e == Element(in, size)
           r == Append(s, e)
<1>1. IngressTypes /\ EgressTypes /\ QueueTypes /\ Ingress /\ Covered /\ Split
  BY DEF MmuInv
<1>2. ComesIn(in, out, q, size) /\ CheckIngressAdmission(in, q, size) /\ UpdateIngressAdmission(in, q, size)
  BY DEF Arrive, ComesIn, CheckIngressAdmission
<1>3. IngressTypes' /\ QueueTypes' /\ Ingress'
  BY <1>1, <1>2, PacketIn
<1>4. Covered'
  BY <1>1, <1>2, <1>3, CoveredIn
<1>5. CheckEgressAdmission(out, q, size) /\ UpdateEgressAdmission(out, q, size)
  BY DEF Arrive
<1>6. s \in Seq(Packets) /\ e \in Packets /\ e.size = size
  BY <1>1, GroupFacts DEF QueueTypes, Element, Packets
<1>7. queue' = [queue EXCEPT ![<<out, q>>] = r]
  BY DEF Arrive
<1> HIDE DEF s, e
<1>8. r \in Seq(Packets) /\ Queued(r) = Queued(s) + size
  BY <1>6, AppendSizes
<1> HIDE DEF r
<1>9. \A g \in Groups :
        BytesIn(g[1], g[2])' = IF g = <<out, q>> THEN Queued(r) ELSE BytesIn(g[1], g[2])
  BY <1>1, <1>7, <1>8, QueueChanges
<1>10. BytesIn(out, q) = Queued(s)
  BY <1>1, BytesSum DEF s
<1>11. BytesBecome(out, q, BytesIn(out, q) + size)
  <2>1. <<out, q>> \in Groups /\ <<out, q>>[1] = out /\ <<out, q>>[2] = q
    BY GroupFacts
  <2>2. BytesIn(out, q)' = Queued(r)
    BY <1>9, <2>1
  <2>3. QED
    BY <1>8, <1>9, <1>10, <2>2 DEF BytesBecome
<1>12. EgressTypes' /\ Split'
  BY <1>1, <1>5, <1>11, CountedIn
<1>13. QED
  BY <1>3, <1>4, <1>12 DEF MmuInv

\* So does what departs.
LEMMA DepartKeeps ==
    ASSUME MmuInv, NEW out \in Ports, NEW q \in Classes, Depart(out, q)
    PROVE  MmuInv'
<1> DEFINE s == queue[<<out, q>>]
           e == Head(s)
           r == Tail(s)
           in == e.in
           size == e.size
<1>1. IngressTypes /\ EgressTypes /\ QueueTypes /\ Ingress /\ Covered /\ Split
  BY DEF MmuInv
<1>2. Leaves(out, q) /\ RemoveFromEgressAdmission(out, q, size)
  BY DEF Depart, Leaves
<1>3. IngressTypes' /\ QueueTypes' /\ Ingress'
  BY <1>1, <1>2, PacketOut
<1>4. in \in Ports /\ size \in PacketSizes /\ size \in Nat /\ Returned(in, q, size)
  BY <1>1, <1>2, NothingWraps
<1>5. s \in Seq(Packets) /\ s # << >> /\ queue' = [queue EXCEPT ![<<out, q>>] = r]
  BY <1>1, <1>2, GroupFacts DEF QueueTypes, Leaves
<1> HIDE DEF s, in
<1>6. r \in Seq(Packets) /\ Queued(s) = size + Queued(r)
  BY <1>5, TailSizes
<1> HIDE DEF r, size
<1>7. Covered'
  BY <1>1, <1>3, <1>4, CoveredOut
<1>8. Queued(r) \in Nat
  BY <1>6, SumsOfSizes
<1>9. \A g \in Groups :
        BytesIn(g[1], g[2])' = IF g = <<out, q>> THEN Queued(r) ELSE BytesIn(g[1], g[2])
  <2>1. QueueTypes /\ r \in Seq(Packets) /\ queue' = [queue EXCEPT ![<<out, q>>] = r]
    BY <1>1, <1>5, <1>6
  <2>2. ASSUME NEW g \in Groups
        PROVE  /\ BytesIn(g[1], g[2])' = IF g = <<out, q>> THEN Queued(r) ELSE BytesIn(g[1], g[2])
               /\ g[2] = q =>
                   BytesFrom(g[1], g[2])' = BytesFrom(g[1], g[2])
                       + QueuedFrom(r, g[1]) - QueuedFrom(queue[<<out, q>>], g[1])
               /\ g[2] # q => BytesFrom(g[1], g[2])' = BytesFrom(g[1], g[2])
    BY <2>1, QueueChanges, ZenonT(30)
  <2>3. QED
    BY <2>2
<1>10. BytesIn(out, q) = Queued(s)
  BY <1>1, BytesSum DEF s
<1>11. BytesBecome(out, q, BytesIn(out, q) - size) /\ size <= BytesIn(out, q)
  <2>1. <<out, q>> \in Groups /\ <<out, q>>[1] = out /\ <<out, q>>[2] = q
    BY GroupFacts
  <2>2. BytesIn(out, q)' = Queued(r)
    BY <1>9, <2>1
  <2>3. Queued(r) = BytesIn(out, q) - size /\ size <= BytesIn(out, q)
    BY <1>4, <1>6, <1>8, <1>10
  <2>4. QED
    BY <1>9, <2>2, <2>3 DEF BytesBecome
<1>12. EgressTypes' /\ Split'
  BY <1>1, <1>2, <1>4, <1>11, CountedOut
<1>13. QED
  BY <1>3, <1>7, <1>12 DEF MmuInv

\* MmuInv is kept by every step, so it holds of every state.
THEOREM MemoryConsistent == MmuSpec => []MmuInv
<1>1. MmuInv /\ [MmuNext]_mmuVars => MmuInv'
  <2> SUFFICES ASSUME MmuInv, [MmuNext]_mmuVars PROVE MmuInv'
    OBVIOUS
  <2>1. CASE MmuNext
    <3>1. PICK p \in Ports : \E q \in Classes :
            (\E in \in Ports \ {p}, size \in PacketSizes : Arrive(in, p, q, size)) \/ Depart(p, q)
      BY <2>1 DEF MmuNext
    <3>2. PICK q \in Classes :
            (\E in \in Ports \ {p}, size \in PacketSizes : Arrive(in, p, q, size)) \/ Depart(p, q)
      BY <3>1
    <3>3. CASE Depart(p, q)
      BY <3>3, DepartKeeps
    <3>4. CASE \E in \in Ports \ {p}, size \in PacketSizes : Arrive(in, p, q, size)
      BY <3>4, ArriveKeeps
    <3>5. QED
      BY <3>2, <3>3, <3>4
  <2>2. CASE UNCHANGED mmuVars
    <3>1. UNCHANGED <<usedTotal, ingressSP, ingressPort, ingressPG, headroom,
                      qMin, qShared, egressPort, egressSP, queue>>
      BY <2>2 DEF mmuVars, ingressVars, egressVars
    <3>2. \A p, q : BytesFrom(p, q)' = BytesFrom(p, q) /\ BytesIn(p, q)' = BytesIn(p, q)
      BY <3>1 DEF BytesFrom, BytesIn
    <3>3. QED
      BY <3>1, <3>2 DEF MmuInv, IngressTypes, EgressTypes, QueueTypes, Ingress, Covered, Counted, Split
  <2>3. QED
    BY <2>1, <2>2
<1>2. QED
  BY <1>1, EmptySwitch, PTL DEF MmuSpec

\* IngressExact: the ingress counters are the bytes of the packets inside.
THEOREM IngressCounted == MmuSpec => []IngressExact
<1>1. MmuInv => IngressExact
  <2> SUFFICES ASSUME MmuInv PROVE IngressExact
    OBVIOUS
  <2>1. Ingress
    BY DEF MmuInv
  <2>2. \A S : MapThenSumSet(LAMBDA g : ingressPG[g], S) = Sum(ingressPG, S)
    BY SumIsMapThenSumSet
  <2>3. QED
    BY <2>1, <2>2 DEF Ingress, IngressExact
<1>2. QED
  BY <1>1, MemoryConsistent, PTL

\* EgressExact: the two parts of each queue add up to the bytes in it, though
\* the guaranteed one may have wrapped; ports and pools are exact.
THEOREM EgressCounted == MmuSpec => []EgressExact
<1>1. MmuInv => EgressExact
  <2> SUFFICES ASSUME MmuInv PROVE EgressExact
    OBVIOUS
  <2>1. Split
    BY DEF MmuInv
  <2>2. \A S : MapThenSumSet(LAMBDA g : qShared[g], S) = Sum(qShared, S)
    BY SumIsMapThenSumSet
  <2>3. QED
    BY <2>1, <2>2 DEF Split, EgressExact
<1>2. QED
  BY <1>1, MemoryConsistent, PTL

\* MarkedWhenCongested: marks are wrong by a packet or a cell at most.
THEOREM MarksHonest ==
    ASSUME DctcpThreshold <= DctcpThresholdMax
    PROVE  MmuSpec => []MarkedWhenCongested
<1>1. MmuInv => MarkedWhenCongested
  <2> SUFFICES ASSUME MmuInv, NEW g \in Groups
               PROVE  LET low == IF g[2] = 1 THEN DctcpThreshold ELSE QcnThreshold
                          high == IF g[2] = 1 THEN DctcpThresholdMax ELSE QcnThreshold
                          bytes == BytesIn(g[1], g[2])
                      IN  /\ TRUE \in ShouldSendCN(g[1], g[2]) => bytes > low - MaxPacket
                          /\ FALSE \in ShouldSendCN(g[1], g[2]) => bytes <= high + Cell
    BY DEF MarkedWhenCongested
  <2> DEFINE low == IF g[2] = 1 THEN DctcpThreshold ELSE QcnThreshold
             high == IF g[2] = 1 THEN DctcpThresholdMax ELSE QcnThreshold
             k == qShared[g]
             m == Signed(qMin[g])
             bytes == BytesIn(g[1], g[2])
  <2>1. g[1] \in Ports /\ g[2] \in Classes /\ g = <<g[1], g[2]>>
    BY DEF Groups
  <2>2. m \in Int /\ k \in Nat /\ m + k = bytes /\ 0 - MaxPacket <= m /\ m <= Cell
    BY <2>1, PartFacts DEF MmuInv
  <2>3. low \in Nat /\ high \in Nat /\ low <= high /\ MaxPacket \in Nat /\ Cell \in Nat
    BY MmuAssumption, PacketFacts, ReserveFacts
  <2>4. ShouldSendCN(g[1], g[2]) =
          IF g[2] = 1 /\ low < k /\ k <= high THEN BOOLEAN ELSE {k > high}
    <3>1. CASE g[2] = 1
      <4>1. low = DctcpThreshold /\ high = DctcpThresholdMax
        BY <3>1
      <4>2. <<g[1], 1>> = g
        BY <2>1, <3>1
      <4> HIDE DEF low, high
      <4>3. QED
        BY <2>1, <3>1, <4>1, <4>2, Zenon DEF ShouldSendCN
    <3>2. CASE g[2] # 1
      <4>1. high = QcnThreshold
        BY <3>2
      <4> HIDE DEF low, high
      <4>2. QED
        BY <2>1, <3>2, <4>1, Zenon DEF ShouldSendCN
    <3>3. QED
      BY <3>1, <3>2
  <2>5. /\ TRUE \in ShouldSendCN(g[1], g[2]) => (k > low \/ k > high)
        /\ FALSE \in ShouldSendCN(g[1], g[2]) => (k <= high \/ ~ (k > high))
    <3> HIDE DEF low, high, k
    <3>1. QED
      BY <2>4, Zenon
  <2> HIDE DEF low, high, k, m, bytes
  <2>6. /\ k > low \/ k > high => bytes > low - MaxPacket
        /\ k <= high \/ ~ (k > high) => bytes <= high + Cell
    BY <2>2, <2>3
  <2>7. QED
    BY <2>5, <2>6 DEF low, high, bytes
<1>2. QED
  BY <1>1, MemoryConsistent, PTL

\* HeadroomCoversExcess: what a pool holds over its limit is in the headroom.
THEOREM ExcessCovered == MmuSpec => []HeadroomCoversExcess
<1>1. MmuInv => HeadroomCoversExcess
  <2> SUFFICES ASSUME MmuInv PROVE HeadroomCoversExcess
    OBVIOUS
  <2>1. Covered /\ IngressTypes
    BY DEF MmuInv
  <2>2. \A S : MapThenSumSet(LAMBDA g : headroom[g], S) = Sum(headroom, S)
    BY SumIsMapThenSumSet
  <2>3. ASSUME NEW s \in Pools
        PROVE  ingressSP[s] - buffer_cell_limit_sp <= Sum(headroom, PoolGroups(s))
    <3>1. ingressSP[s] \in Nat /\ buffer_cell_limit_sp \in Nat
      BY <2>1, ReserveFacts DEF IngressTypes
    <3>2. IsFiniteSet(PoolGroups(s)) /\ \A x \in PoolGroups(s) : headroom[x] \in Nat
      BY <2>1, GroupsFinite DEF IngressTypes
    <3>3. Sum(headroom, PoolGroups(s)) \in Nat
      BY <3>2, SumNat
    <3>4. ingressSP[s] <= buffer_cell_limit_sp + Sum(headroom, PoolGroups(s))
      BY <2>1 DEF Covered
    <3>5. QED
      BY <3>1, <3>3, <3>4
  <2>4. QED
    BY <2>1, <2>2, <2>3 DEF Covered, HeadroomCoversExcess
<1>2. QED
  BY <1>1, MemoryConsistent, PTL

\* PoolBounded: a pool exceeds its limit by a packet, and the headroom or the
\* cell of each of its groups.
THEOREM PoolsBounded == MmuSpec => []PoolBounded
<1>1. MmuInv => PoolBounded
  <2> SUFFICES ASSUME MmuInv, NEW s \in Pools
               PROVE  ingressSP[s] <= buffer_cell_limit_sp + MaxPacket
                          + Cardinality(PoolGroups(s)) * Reserve
    BY DEF PoolBounded, Reserve
  <2> DEFINE S == PoolGroups(s)
             u == Counted
             c == Cardinality(S) * Reserve
  <2>1. IngressTypes /\ ingressSP[s] <= buffer_cell_limit_sp + MaxPacket + Sum(u, S)
    BY DEF MmuInv, Covered
  <2>2. IsFiniteSet(S) /\ S \subseteq Groups /\ Cardinality(S) \in Nat
    BY GroupsFinite, FS_CardinalityType
  <2>3. u \in [Groups -> Nat] /\ \A x \in Groups : u[x] <= Reserve
    BY <2>1, CountedTypes, ReserveFacts DEF Counted, IngressTypes, Least
  <2> HIDE DEF S, u
  <2>4. \A x \in S : u[x] \in Nat /\ u[x] <= Reserve
    BY <2>2, <2>3
  <2>5. Sum(u, S) <= c /\ Sum(u, S) \in Nat
    BY <2>2, <2>4, ReserveFacts, SumBound, SumNat
  <2>6. c \in Nat
    BY <2>2, ReserveFacts
  <2>7. ingressSP[s] \in Nat /\ buffer_cell_limit_sp \in Nat /\ MaxPacket \in Nat
    BY <2>1, ReserveFacts, PacketFacts DEF IngressTypes
  <2> HIDE DEF c
  <2>8. ingressSP[s] <= buffer_cell_limit_sp + MaxPacket + c
    BY <2>1, <2>5, <2>6, <2>7
  <2>9. QED
    BY <2>8 DEF c, S
<1>2. QED
  BY <1>1, MemoryConsistent, PTL

=============================================================================

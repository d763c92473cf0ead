---------------------------- MODULE BroadcomMmu ----------------------------
(***************************************************************************)
(* The memory of a switch, network/model/broadcom-node.cc: how many bytes  *)
(* its packets occupy, counted on the way in by port, class ("PG") and     *)
(* pool ("SP"), and on the way out by port, queue and pool, each queue     *)
(* with a guaranteed part (QMin) and a shared one. A packet is admitted by *)
(* these counters, and they say when a class is to be paused, resumed or   *)
(* marked. QbbNetDevice::Send and DequeueAndTransmit are the callers.      *)
(*                                                                         *)
(* All counters are uint32_t: subtraction is modulo 2^32 (Modulus).        *)
(***************************************************************************)
EXTENDS Integers, Sequences, FiniteSets, FiniteSetsExt, SequencesExt, Functions

CONSTANTS
    Ports,          \* ports of the switch
    Classes,        \* queues of a port but the highest; 1 is that of TCP
    PacketSizes,    \* bytes of a packet
    Modulus,        \* 2^32
    Cell,           \* 1030: pg_min_cell, port_min_cell, q_min_cell
    maxBufferBytes, buffer_cell_limit_sp, pg_hdrm_limit,
    QcnThreshold, DctcpThreshold, DctcpThresholdMax,
    MaxInside       \* bound on the packets inside

ASSUME MmuAssumption ==
    /\ IsFiniteSet(Ports)
    /\ Classes \subseteq 0..6
    /\ {Modulus, Cell, MaxInside} \subseteq Nat \ {0}
    /\ PacketSizes \subseteq Nat \ {0} /\ PacketSizes # {}
    /\ {maxBufferBytes, buffer_cell_limit_sp, pg_hdrm_limit} \subseteq Nat
    /\ {QcnThreshold, DctcpThreshold, DctcpThresholdMax} \subseteq Nat

\* The buffer is a uint32_t; a cell and a packet are far below half of it.
ASSUME WidthAssumption ==
    /\ maxBufferBytes < Modulus
    /\ \A n \in PacketSizes \cup {Cell} : n < Modulus \div 2

VARIABLES
    usedTotal,          \* m_usedTotalBytes
    ingressSP,          \* m_usedIngressSPBytes
    ingressPort,        \* m_usedIngressPortBytes
    ingressPG,          \* m_usedIngressPGBytes
    headroom,           \* m_usedIngressPGHeadroomBytes
    qMin, qShared,      \* m_usedEgressQMinBytes, m_usedEgressQSharedBytes
    egressPort,         \* m_usedEgressPortBytes
    egressSP,           \* m_usedEgressSPBytes
    queue               \* BEgressQueue::m_queues of every port

ingressVars == <<usedTotal, ingressSP, ingressPort, ingressPG, headroom>>
egressVars == <<qMin, qShared, egressPort, egressSP>>
mmuVars == <<ingressVars, egressVars, queue>>

Pools == {0, 1}
Groups == Ports \X Classes
Word(n) == n % Modulus

\* GetIngressSP and GetEgressSP: TCP has a pool of its own.
SP(q) == IF q = 1 THEN 1 ELSE 0

MmuInit ==
    /\ usedTotal = 0
    /\ ingressSP = [s \in Pools |-> 0]
    /\ ingressPort = [p \in Ports |-> 0]
    /\ ingressPG = [g \in Groups |-> 0]
    /\ headroom = [g \in Groups |-> 0]
    /\ qMin = [g \in Groups |-> 0]
    /\ qShared = [g \in Groups |-> 0]
    /\ egressPort = [p \in Ports |-> 0]
    /\ egressSP = [s \in Pools |-> 0]
    /\ queue = [g \in Groups |-> << >>]

-----------------------------------------------------------------------------
(* Admission.                                                              *)

\* (Slip: the pool is not looked at.)
CheckIngressAdmissionByPort(p, q, size) == usedTotal + size <= maxBufferBytes

\* Over the limit of its pool a packet needs headroom, unless it is within
\* what its class or its port is guaranteed.
CheckIngressAdmission(p, q, size) ==
    /\ usedTotal + size <= maxBufferBytes
    /\ \/ ingressPG[<<p, q>>] + size <= Cell
       \/ ingressPort[p] + size <= Cell
       \/ ingressSP[SP(q)] <= buffer_cell_limit_sp
       \/ headroom[<<p, q>>] + size <= pg_hdrm_limit

\* The three limits of the egress side are those of the whole buffer.
CheckEgressAdmission(p, q, size) ==
    /\ egressSP[SP(q)] + size <= maxBufferBytes
    /\ egressPort[p] + size <= maxBufferBytes
    /\ qShared[<<p, q>>] + size <= maxBufferBytes

\* (Slip: headroom is counted only from a pool that is over its limit.)
UpdateIngressAdmissionLate(p, q, size) ==
    /\ usedTotal' = usedTotal + size
    /\ ingressSP' = [ingressSP EXCEPT ![SP(q)] = @ + size]
    /\ ingressPort' = [ingressPort EXCEPT ![p] = @ + size]
    /\ ingressPG' = [ingressPG EXCEPT ![<<p, q>>] = @ + size]
    /\ headroom' = [headroom EXCEPT ![<<p, q>>] =
                        IF ingressSP[SP(q)] > buffer_cell_limit_sp THEN @ + size ELSE @]

UpdateIngressAdmission(p, q, size) ==
    /\ usedTotal' = usedTotal + size
    /\ ingressSP' = [ingressSP EXCEPT ![SP(q)] = @ + size]
    /\ ingressPort' = [ingressPort EXCEPT ![p] = @ + size]
    /\ ingressPG' = [ingressPG EXCEPT ![<<p, q>>] = @ + size]
    /\ headroom' = [headroom EXCEPT ![<<p, q>>] =
                        IF ingressSP'[SP(q)] > buffer_cell_limit_sp THEN @ + size ELSE @]

\* Headroom is released by every packet, also one that took none.
RemoveFromIngressAdmission(p, q, size) ==
    /\ usedTotal' = Word(usedTotal - size)
    /\ ingressSP' = [ingressSP EXCEPT ![SP(q)] = Word(@ - size)]
    /\ ingressPort' = [ingressPort EXCEPT ![p] = Word(@ - size)]
    /\ ingressPG' = [ingressPG EXCEPT ![<<p, q>>] = Word(@ - size)]
    /\ headroom' = [headroom EXCEPT ![<<p, q>>] = IF @ > size THEN @ - size ELSE 0]

\* A queue gets new values of its two parts; port and pool count the shared one.
Egress(p, q, min, shared) ==
    LET change == shared - qShared[<<p, q>>] IN
    /\ qMin' = [qMin EXCEPT ![<<p, q>>] = Word(min)]
    /\ qShared' = [qShared EXCEPT ![<<p, q>>] = Word(shared)]
    /\ egressPort' = [egressPort EXCEPT ![p] = Word(@ + change)]
    /\ egressSP' = [egressSP EXCEPT ![SP(q)] = Word(@ + change)]

\* (Slip: the bytes are moved up to the cell and counted in both parts.)
EgressPatchedTwice(p, q, min, shared) ==
    IF min < Cell /\ shared > Cell
    THEN Egress(p, q, Cell, shared)
    ELSE Egress(p, q, min, shared)

\* "patch for different size of packets": the guaranteed part is filled up
\* from the shared one.
EgressPatched(p, q, min, shared) ==
    IF min < Cell /\ shared > Cell
    THEN Egress(p, q, Cell, shared - Cell + min)
    ELSE Egress(p, q, min, shared)

UpdateEgressAdmission(p, q, size) ==
    IF Word(qMin[<<p, q>>] + size) < Cell
    THEN Egress(p, q, qMin[<<p, q>>] + size, qShared[<<p, q>>])
    ELSE EgressPatched(p, q, qMin[<<p, q>>], qShared[<<p, q>>] + size)

\* A packet that does not fit the shared part is taken off the guaranteed
\* one, wherever it was counted: that one may pass below zero.
RemoveFromEgressAdmission(p, q, size) ==
    IF qShared[<<p, q>>] >= size
    THEN Egress(p, q, qMin[<<p, q>>], qShared[<<p, q>>] - size)
    ELSE EgressPatched(p, q, Word(qMin[<<p, q>>] - size), qShared[<<p, q>>])

-----------------------------------------------------------------------------
(* Marking.                                                                *)

\* (Slip: all that is counted of the queue.)
ShouldSendCNOfAll(p, q) ==
    IF q = 1
    THEN {qShared[<<p, q>>] + qMin[<<p, q>>] > DctcpThresholdMax}
    ELSE {qShared[<<p, q>>] + qMin[<<p, q>>] > QcnThreshold}

\* The answers the random number allows: the two thresholds of a class of
\* RoCE are equal, between those of TCP it is drawn.
ShouldSendCN(p, q) ==
    IF q = 1
    THEN IF DctcpThreshold < qShared[<<p, q>>] /\ qShared[<<p, q>>] <= DctcpThresholdMax
         THEN BOOLEAN
         ELSE {qShared[<<p, q>>] > DctcpThresholdMax}
    ELSE {qShared[<<p, q>>] > QcnThreshold}

-----------------------------------------------------------------------------
(* The callers, in qbb-net-device.cc. in is m_ifIndex of the device the    *)
(* packet came by, which its FlowIdTag keeps; out that of the device that  *)
(* is to send it. A packet that is not admitted is dropped.                *)

Element(in, size) == [in |-> in, size |-> size]

Arrive(in, out, q, size) ==
    /\ CheckIngressAdmission(in, q, size)
    /\ CheckEgressAdmission(out, q, size)
    /\ UpdateIngressAdmission(in, q, size)
    /\ UpdateEgressAdmission(out, q, size)
    /\ queue' = [queue EXCEPT ![<<out, q>>] = Append(@, Element(in, size))]

\* (Slip: the ingress of the device that sends is relieved.)
DepartByEgress(out, q) ==
    LET p == Head(queue[<<out, q>>]) IN
    /\ queue[<<out, q>>] # << >>
    /\ RemoveFromIngressAdmission(out, q, p.size)
    /\ RemoveFromEgressAdmission(out, q, p.size)
    /\ queue' = [queue EXCEPT ![<<out, q>>] = Tail(@)]

Depart(out, q) ==
    LET p == Head(queue[<<out, q>>]) IN
    /\ queue[<<out, q>>] # << >>
    /\ RemoveFromIngressAdmission(p.in, q, p.size)
    /\ RemoveFromEgressAdmission(out, q, p.size)
    /\ queue' = [queue EXCEPT ![<<out, q>>] = Tail(@)]

PacketsInside == MapThenSumSet(LAMBDA g : Len(queue[g]), Groups)

MmuNext ==
    \E p \in Ports, q \in Classes :
        \/ /\ PacketsInside < MaxInside
           /\ \E in \in Ports \ {p}, size \in PacketSizes : Arrive(in, p, q, size)
        \/ Depart(p, q)

MmuSpec == MmuInit /\ [][MmuNext]_mmuVars

-----------------------------------------------------------------------------
(* Properties.                                                             *)

MaxPacket == Max(PacketSizes)

\* What a wrapped counter would be had it a sign.
Signed(n) == IF n >= Modulus \div 2 THEN n - Modulus ELSE n

\* The bytes of the packets inside that came by a port, of a class.
SizesFrom(s, in) == [i \in DOMAIN s |-> IF s[i].in = in THEN s[i].size ELSE 0]
BytesFrom(in, q) == SumFunction([out \in Ports |-> SumFunction(SizesFrom(queue[<<out, q>>], in))])

\* The bytes of the packets in a queue.
Sizes(s) == [i \in DOMAIN s |-> s[i].size]
BytesIn(out, q) == SumFunction(Sizes(queue[<<out, q>>]))

PoolGroups(s) == {g \in Groups : SP(g[2]) = s}
PortGroups(p) == {g \in Groups : g[1] = p}

\* Whatever comes in by one port and leaves by another, in whatever order
\* the queues are served: the four ingress counters are the bytes of the
\* packets inside, so none is left over when the switch is empty and none
\* wraps.
IngressExact ==
    /\ \A g \in Groups : ingressPG[g] = BytesFrom(g[1], g[2])
    /\ \A p \in Ports : ingressPort[p] = MapThenSumSet(LAMBDA g : ingressPG[g], PortGroups(p))
    /\ \A s \in Pools : ingressSP[s] = MapThenSumSet(LAMBDA g : ingressPG[g], PoolGroups(s))
    /\ usedTotal = ingressSP[0] + ingressSP[1]

\* On the egress side bytes move between the two parts of a queue: together,
\* the guaranteed one read with its sign, they are the bytes queued, and
\* port and pool are the sums of the shared parts.
EgressExact ==
    /\ \A g \in Groups : Signed(qMin[g]) + qShared[g] = BytesIn(g[1], g[2])
    /\ \A p \in Ports : egressPort[p] = MapThenSumSet(LAMBDA g : qShared[g], PortGroups(p))
    /\ \A s \in Pools : egressSP[s] = MapThenSumSet(LAMBDA g : qShared[g], PoolGroups(s))

\* Congestion is marked by the shared part alone. Though bytes are taken off
\* the wrong part when packets differ in size, the error does not grow: no
\* mark in a queue that is a packet below its threshold, and none missing
\* in one that is a cell above it.
MarkedWhenCongested ==
    \A g \in Groups :
        LET low == IF g[2] = 1 THEN DctcpThreshold ELSE QcnThreshold
            high == IF g[2] = 1 THEN DctcpThresholdMax ELSE QcnThreshold
            bytes == BytesIn(g[1], g[2])
        IN  /\ TRUE \in ShouldSendCN(g[1], g[2]) => bytes > low - MaxPacket
            /\ FALSE \in ShouldSendCN(g[1], g[2]) => bytes <= high + Cell

\* Headroom is released by any packet that leaves, yet what a pool holds
\* over its limit is always accounted for in the headroom of its groups.
HeadroomCoversExcess ==
    /\ \A s \in Pools :
        ingressSP[s] - buffer_cell_limit_sp
            <= MapThenSumSet(LAMBDA g : headroom[g], PoolGroups(s))
    /\ \A g \in Groups : headroom[g] <= ingressPG[g]

\* So a pool exceeds its limit by no more than the packet that crosses it and
\* the headroom, or the guaranteed cell, of each of its groups.
PoolBounded ==
    \A s \in Pools :
        ingressSP[s] <= buffer_cell_limit_sp + MaxPacket
            + Cardinality(PoolGroups(s)) * Max({pg_hdrm_limit, Cell})

=============================================================================

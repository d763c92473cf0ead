------------------------------- MODULE QbbPfc -------------------------------
(***************************************************************************)
(* Priority flow control: a switch pauses the classes of the devices that  *)
(* send to it, network/model/broadcom-node.cc and the callers in           *)
(* point-to-point/model/qbb-net-device.cc. Every egress device runs        *)
(* CheckQueueFull for the ingress port of the packet it was handed, and    *)
(* later again; the pause it has set is remembered by the switch, the next *)
(* check by the device.                                                    *)
(*                                                                         *)
(* The senders are NICs, which send data of all classes. The ACKs and      *)
(* NACKs of a NIC are left out: they stand in queue 0 of the NIC, which no *)
(* pause holds back. A switch counts its NACKs under the class of control, *)
(* and its ACKs under class 1, of which more may come than is said here.   *)
(*                                                                         *)
(* Time goes by in ticks of a microsecond, PauseTime of them to a pause.   *)
(* What is on a link arrives within a tick, and a link carries so many     *)
(* packets in one. A timer is the ticks it still has to go.                *)
(*                                                                         *)
(* Of the memory only the ingress side has a say in this: the limits of    *)
(* the egress side are those of the whole buffer, which is asked first.    *)
(***************************************************************************)
EXTENDS BroadcomMmu

CONSTANTS
    Senders,                    \* the ports that have a NIC which sends
    PauseTime,                  \* m_pausetime: 5
    Setups,                     \* dynamicth: m_dynamicth; outs: the ports of the
                                \* destinations; perTick: packets per link and tick
    pg_shared_limit_cell, pg_shared_limit_cell_off,
    port_max_shared_cell, port_min_cell_off,
    Alpha, AlphaOffDiff         \* m_pg_shared_alpha_cell, .._off_diff: 16

ASSUME PfcAssumption ==
    /\ Senders \subseteq Ports
    /\ PauseTime \in Nat \ {0, 1}
    /\ pg_shared_limit_cell \in Nat
    /\ pg_shared_limit_cell_off \in 0..pg_shared_limit_cell
    /\ Setups \subseteq [dynamicth : BOOLEAN, outs : SUBSET Ports, perTick : Nat \ {0}]

VARIABLES
    setup,          \* what is attached to the switch, and how it is set up
    pauseRemote,    \* m_pause_remote of the switch, by ingress port and class
    recheck,        \* m_recheckEvt of each egress device, by the same
    paused,         \* m_paused of the NIC at each port, by class
    resume,         \* m_resumeEvt of the same
    wire,           \* what is on its way from a NIC to the switch
    frames,         \* the PAUSE frames on their way back
    sent,           \* how many packets a NIC has sent in this tick
    dropped         \* history: classes of packets that were refused

pfcVars == <<setup, pauseRemote, recheck, paused, resume, wire, frames, sent, dropped>>
vars == <<mmuVars, pfcVars>>

None == -1
FromNics == Senders \X Classes
Checks == Ports \X Senders \X Classes

\* Whether or not there are packets of class 0, a frame may name it.
AllClasses == Classes \cup {0}

Init ==
    /\ MmuInit
    /\ setup \in Setups
    /\ pauseRemote = [g \in FromNics |-> FALSE]
    /\ recheck = [c \in Checks |-> None]
    /\ paused = [g \in Senders \X AllClasses |-> FALSE]
    /\ resume = [g \in Senders \X AllClasses |-> None]
    /\ wire = [p \in Senders |-> << >>]
    /\ frames = [p \in Senders |-> << >>]
    /\ sent = [p \in Senders |-> 0]
    /\ dropped = {}

-----------------------------------------------------------------------------
(* The switch.                                                             *)

\* (Slip: the thresholds are a cell too high.)
GetPauseClassesLate(p, q) ==
    IF setup.dynamicth
    THEN {c \in Classes :
            /\ ingressPG[<<p, c>>] > 2 * Cell
            /\ ingressPG[<<p, c>>] - 2 * Cell
                    > Alpha * (buffer_cell_limit_sp - ingressSP[SP(q)]) + Cell}
    ELSE IF ingressPort[p] > port_max_shared_cell
         THEN AllClasses
         ELSE {c \in {q} : ingressPG[<<p, c>>] > pg_shared_limit_cell + Cell}

\* The dynamic threshold looks at every class but at the pool of the class
\* of the caller; the static one pauses a whole port, or that class.
GetPauseClasses(p, q) ==
    IF setup.dynamicth
    THEN {c \in Classes :
            /\ ingressPG[<<p, c>>] > 2 * Cell
            /\ ingressPG[<<p, c>>] - 2 * Cell
                    > Alpha * (buffer_cell_limit_sp - ingressSP[SP(q)])}
    ELSE IF ingressPort[p] > port_max_shared_cell
         THEN AllClasses
         ELSE {c \in {q} : ingressPG[<<p, c>>] > pg_shared_limit_cell}

GetResumeClasses(p, q) ==
    IF setup.dynamicth
    THEN ingressPG[<<p, q>>] - 2 * Cell
            < Alpha * (buffer_cell_limit_sp - ingressSP[SP(q)] - AlphaOffDiff)
    ELSE /\ ingressPG[<<p, q>>] < pg_shared_limit_cell_off
         /\ ingressPort[p] < port_min_cell_off

Packet == [class : Classes, out : Ports, size : PacketSizes]

Frame(class, time) == [class |-> class, time |-> time]

\* A frame for each class; which of them goes first makes no difference.
Pauses(classes) ==
    [i \in 1..Cardinality(classes) |-> Frame(SetToSeq(classes)[i], PauseTime)]

\* (Slip: a class that is paused already is not paused again.)
CheckQueueFullOnce(out, p, q, kept) ==
    LET classes == IF pauseRemote[<<p, q>>] THEN {} ELSE GetPauseClasses(p, q)'
        remote == pauseRemote[<<p, q>>] \/ classes # {}
        off == remote /\ GetResumeClasses(p, q)'
    IN
    /\ UNCHANGED setup
    /\ frames' = [frames EXCEPT ![p] =
                    @ \o Pauses(classes) \o (IF off THEN <<Frame(0, 0)>> ELSE << >>)]
    /\ pauseRemote' = [pauseRemote EXCEPT ![<<p, q>>] = remote /\ ~off]
    /\ recheck' = [recheck EXCEPT ![<<out, p, q>>] =
                    IF off THEN None
                    ELSE IF classes # {} THEN PauseTime \div 2
                    ELSE kept]

\* CheckQueueFull of the device out, on the counters as they have become;
\* kept is the event the device has for the next check. The loop that resumes
\* asks for the class q but names the one it counts by, and stops at once: the
\* frame always says class 0.
CheckQueueFull(out, p, q, kept) ==
    LET classes == GetPauseClasses(p, q)'
        remote == pauseRemote[<<p, q>>] \/ classes # {}
        off == remote /\ GetResumeClasses(p, q)'
    IN
    /\ UNCHANGED setup
    /\ frames' = [frames EXCEPT ![p] =
                    @ \o Pauses(classes) \o (IF off THEN <<Frame(0, 0)>> ELSE << >>)]
    /\ pauseRemote' = [pauseRemote EXCEPT ![<<p, q>>] = remote /\ ~off]
    /\ recheck' = [recheck EXCEPT ![<<out, p, q>>] =
                    IF off THEN None
                    ELSE IF classes # {} THEN PauseTime \div 2
                    ELSE kept]

\* (Slip: what is sent at once is returned and was never taken.)
PassesUncounted(p, q, size) ==
    /\ RemoveFromIngressAdmission(p, q, size)
    /\ UNCHANGED queue

\* A packet that is admitted, and sent at once: the memory is as before, but
\* for headroom, of which it returns what it has not taken.
Passes(p, q, size) ==
    /\ headroom' = [headroom EXCEPT ![<<p, q>>] =
                        IF ingressSP[SP(q)] + size > buffer_cell_limit_sp THEN @
                        ELSE IF @ > size THEN @ - size ELSE 0]
    /\ UNCHANGED <<usedTotal, ingressSP, ingressPort, ingressPG, queue>>

\* Only a device with nothing queued is perhaps idle.
MayBeIdle(out) == \A q \in Classes : queue[<<out, q>>] = << >>

\* Receive of the ingress device, forwarding, and Send of the egress device.
Forward(p) ==
    \E pkt \in Packet :
        LET admitted == CheckIngressAdmission(p, pkt.class, pkt.size) IN
        /\ wire[p] # << >> /\ pkt = Head(wire[p])
        /\ wire' = [wire EXCEPT ![p] = Tail(@)]
        /\ dropped' = dropped \cup {c \in {pkt.class} : ~admitted}
        /\ IF admitted
           THEN \/ /\ UpdateIngressAdmission(p, pkt.class, pkt.size)
                   /\ queue' = [queue EXCEPT ![<<pkt.out, pkt.class>>] =
                                    Append(@, Element(p, pkt.size))]
                \/ MayBeIdle(pkt.out) /\ Passes(p, pkt.class, pkt.size)
           ELSE UNCHANGED <<ingressVars, queue>>
        /\ CheckQueueFull(pkt.out, p, pkt.class, recheck[<<pkt.out, p, pkt.class>>])
        /\ UNCHANGED <<egressVars, paused, resume, sent>>

\* DequeueRR of a device that has become free.
Transmit(out, q) ==
    LET e == Head(queue[<<out, q>>]) IN
    /\ queue[<<out, q>>] # << >>
    /\ RemoveFromIngressAdmission(e.in, q, e.size)
    /\ queue' = [queue EXCEPT ![<<out, q>>] = Tail(@)]
    /\ UNCHANGED <<egressVars, pfcVars>>

Recheck(out, p, q) ==
    /\ recheck[<<out, p, q>>] = 0
    /\ UNCHANGED mmuVars
    /\ CheckQueueFull(out, p, q, None)
    /\ UNCHANGED <<paused, resume, wire, sent, dropped>>

-----------------------------------------------------------------------------
(* The NICs.                                                               *)

\* DequeueAndTransmit of a NIC: a packet of data, of a class that is not
\* paused. (Queue 0, with ACKs and NACKs, is served without asking.)
SendPacket(p) ==
    \E q \in Classes, out \in setup.outs \ {p}, size \in PacketSizes :
        /\ sent[p] < setup.perTick /\ ~paused[<<p, q>>]
        /\ wire' = [wire EXCEPT ![p] = Append(@, [class |-> q, out |-> out, size |-> size])]
        /\ sent' = [sent EXCEPT ![p] = @ + 1]
        /\ UNCHANGED <<mmuVars, setup, pauseRemote, recheck, paused, resume, frames, dropped>>

\* (Slip: a pause has no time of its own, it is ended by a frame.)
ReceivePauseForGood(p) ==
    LET f == Head(frames[p]) IN
    /\ frames[p] # << >>
    /\ frames' = [frames EXCEPT ![p] = Tail(@)]
    /\ paused' = [paused EXCEPT ![<<p, f.class>>] = f.time > 0]
    /\ UNCHANGED <<mmuVars, setup, pauseRemote, recheck, resume, wire, sent, dropped>>

\* (Slip: the event that ends a pause is not cancelled by a time of zero.)
ReceivePauseKeepsEvent(p) ==
    LET f == Head(frames[p]) IN
    /\ frames[p] # << >>
    /\ frames' = [frames EXCEPT ![p] = Tail(@)]
    /\ paused' = [paused EXCEPT ![<<p, f.class>>] = f.time > 0]
    /\ resume' = [resume EXCEPT ![<<p, f.class>>] = IF f.time > 0 THEN f.time ELSE @]
    /\ UNCHANGED <<mmuVars, setup, pauseRemote, recheck, wire, sent, dropped>>

\* Receive of a PAUSE frame; a time of zero is the end of the pause.
ReceivePause(p) ==
    LET f == Head(frames[p]) IN
    /\ frames[p] # << >>
    /\ frames' = [frames EXCEPT ![p] = Tail(@)]
    /\ paused' = [paused EXCEPT ![<<p, f.class>>] = f.time > 0]
    /\ resume' = [resume EXCEPT ![<<p, f.class>>] = IF f.time > 0 THEN f.time ELSE None]
    /\ UNCHANGED <<mmuVars, setup, pauseRemote, recheck, wire, sent, dropped>>

\* The class may go on; SendPacket is DequeueAndTransmit from then on.
PauseFinish(p, q) ==
    /\ resume[<<p, q>>] = 0
    /\ paused' = [paused EXCEPT ![<<p, q>>] = FALSE]
    /\ resume' = [resume EXCEPT ![<<p, q>>] = None]
    /\ UNCHANGED <<mmuVars, setup, pauseRemote, recheck, wire, frames, sent, dropped>>

-----------------------------------------------------------------------------
(* Time.                                                                   *)

Elapsed(timers) == [x \in DOMAIN timers |-> IF timers[x] = None THEN None ELSE timers[x] - 1]

\* No event is passed over, and all links are through with what they carry.
Tick ==
    /\ \A x \in DOMAIN recheck : recheck[x] # 0
    /\ \A x \in DOMAIN resume : resume[x] # 0
    /\ \A p \in Senders : wire[p] = << >> /\ frames[p] = << >>
    /\ recheck' = Elapsed(recheck)
    /\ resume' = Elapsed(resume)
    /\ sent' = [p \in Senders |-> 0]
    /\ UNCHANGED <<mmuVars, setup, pauseRemote, paused, wire, frames, dropped>>

Next ==
    \/ \E p \in Senders : SendPacket(p) \/ Forward(p) \/ ReceivePause(p)
    \/ \E p \in Senders, q \in AllClasses : PauseFinish(p, q)
    \/ \E out \in Ports, q \in Classes : Transmit(out, q)
    \/ \E c \in Checks : Recheck(c[1], c[2], c[3])
    \/ Tick

Spec == Init /\ [][Next]_vars

FairSpec ==
    /\ Spec
    /\ WF_vars(Tick)
    /\ \A p \in Senders : WF_vars(Forward(p)) /\ WF_vars(ReceivePause(p))
    /\ \A p \in Senders, q \in AllClasses : WF_vars(PauseFinish(p, q))
    /\ \A out \in Ports, q \in Classes : WF_vars(Transmit(out, q))
    /\ \A c \in Checks : WF_vars(Recheck(c[1], c[2], c[3]))

-----------------------------------------------------------------------------
(* Properties.                                                             *)

\* "Must be PAUSEd": whoever ends a pause finds the class paused, and no
\* class is paused without an event that will end it.
PausedHasEnd == \A g \in DOMAIN paused : paused[g] <=> resume[g] # None

\* What a packet returns to the memory when it leaves is still counted for
\* the group it came by: the counter that pauses that group cannot wrap.
Accounted ==
    \A g \in Groups :
        queue[g] # << >> =>
            LET e == Head(queue[g]) IN e.size <= ingressPG[<<e.in, g[2]>>]

\* A class over its threshold is paused, or will be when the frame arrives:
\* whichever device checks it, and when. Not so class 0, whose pause is lifted
\* by the resume of any class.
PausedWhileFull ==
    ~setup.dynamicth =>
        \A p \in Senders, q \in Classes \ {0} :
            ingressPG[<<p, q>>] > pg_shared_limit_cell =>
                \/ paused[<<p, q>>]
                \/ \E i \in DOMAIN frames[p] :
                    frames[p][i].class = q /\ frames[p][i].time > 0

\* With the headroom for that no packet of data is refused: with the dynamic threshold
\* of no class, with the static one of no class whose pause holds.
Lossless == IF setup.dynamicth THEN dropped = {} ELSE dropped \subseteq {0}

\* Though a resume names the wrong class: no class stays paused for ever, as
\* long as the switch sends what it holds.
PausedClassResumes ==
    \A p \in Senders, q \in AllClasses : paused[<<p, q>>] ~> ~paused[<<p, q>>]

=============================================================================

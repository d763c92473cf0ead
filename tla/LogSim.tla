------------------------------- MODULE LogSim -------------------------------
(***************************************************************************)
(* start_lgs of model/logsim.cc: the LogGOPSim engine as a module of NS-3. *)
(*                                                                         *)
(* The active queue aq holds the operations that may run, ordered by time  *)
(* and, within an instant, by the order of their insertion. The outer loop *)
(* runs every element that is due (the inner loop), lets NS-3 run while    *)
(* sends are on their way, takes the message NS-3 stopped for, and inserts *)
(* the operations whose dependencies are met by now. A calc occupies its   *)
(* CPU until nexto, a message waits for CPU 0 of its receiver.             *)
(*                                                                         *)
(* The engine is composed of SerializedGraph (the dependency counters),    *)
(* MessageMatching (rq and uq of each host) and LgsHelper (the network     *)
(* interface), whose operators and actions it uses.                        *)
(*                                                                         *)
(* nextgs, which the code fills with zeroes and never assigns, is left     *)
(* out: it never decides the guard of a send.                              *)
(***************************************************************************)
EXTENDS Integers, Sequences, FiniteSets, FiniteSetsExt, SequencesExt, Bags

CONSTANTS
    Hosts,          \* the ranks, 0 .. p-1
    Programs,       \* GOAL schedules, records [ops, edges], one is run
    Wildcard,       \* ANY_SOURCE and ANY_TAG
    CycleLimit,     \* 2000 in the code
    SortThreshold,  \* std::sort keeps the order of so many (libstdc++: 16)
    Unset,          \* what the uninitialised earliestfinish may hold
    Garbage,        \* what the uninitialised element of SinkRxTrace holds
    None,           \* no message
    Horizon,        \* bound: packets arrive by then, if they still can
    MaxResent       \* bound on the packets a NIC sees again

CPUs == {0, 1}

Operation ==
    [type : {"SEND", "RECV", "LOCOP"}, host : Hosts,
     target : Hosts \cup {Wildcard}, tag : Nat \cup {Wildcard},
     size : Nat, proc : CPUs]

AllOps == UNION {DOMAIN P.ops : P \in Programs}

\* The keys of active_sends.
KeyOf(src, dst, tag) == <<src, dst, tag>>
Keys == UNION {{KeyOf(P.ops[x].host, P.ops[x].target, P.ops[x].tag) :
                  x \in {y \in DOMAIN P.ops : P.ops[y].type = "SEND"}} :
               P \in Programs}

\* The key of a packet that has a default tag: -1 is no host.
DefaultTag == KeyOf(-1, -1, 0)

\* What the parser lets through: the lines of a schedule refer to each other
\* by their numbers, and a send names its receiver and its tag.
ASSUME ScheduleAssumption ==
    \A P \in Programs :
        /\ P.ops \in Seq(Operation)
        /\ \A x \in DOMAIN P.ops :
              P.ops[x].type = "SEND" => P.ops[x].target \in Hosts /\ P.ops[x].tag \in Nat
        /\ IsFiniteSet(P.edges)
        /\ P.edges \subseteq [of : DOMAIN P.ops, on : DOMAIN P.ops,
                              kind : {"requires", "irequires"}, id : Nat]

ASSUME EngineAssumption ==
    /\ Hosts \subseteq Nat
    /\ {CycleLimit, SortThreshold, Horizon, MaxResent} \subseteq Nat /\ Unset \subseteq Nat
    /\ None \notin Keys \cup {DefaultTag} \cup AllOps
    /\ Garbage \subseteq Keys \cup {None} /\ Garbage # {}

VARIABLES
    prog,       \* the schedule that is run
    depCnt,     \* DependenciesCnt of the nodes, all ranks
    executableNodes,    \* the list of each rank, one behind the other
    aq,         \* the active queue, a set of elements
    aqtime,     \* insertions so far
    temp,       \* time of temp_elem, the top before the inner loop
    rq, uq,     \* MessageMatching, by host
    nexto,      \* next time each CPU is available, by host
    nextgr,     \* next time the NIC can receive, by host
    cycles,     \* cycles of both loops
    pc,         \* where start_lgs is
    active, latest, now, stops, mode, net, eta, faults,     \* LgsHelper
    sent, completed, reported,
    started,    \* history: operations marked started, in order
    done,       \* history: operations marked done
    dropped     \* history: sends taken from aq and not inserted again

graphVars == <<depCnt, executableNodes>>
queueVars == <<rq, uq>>
clockVars == <<nexto, nextgr>>
helperVars == <<active, latest, now, stops, mode, net, eta, faults,
                sent, completed, reported>>
historyVars == <<started, done, dropped>>
engineVars == <<prog, graphVars, aq, aqtime, temp, queueVars, clockVars,
                cycles, pc, historyVars>>
vars == <<engineVars, helperVars>>

Ops == DOMAIN prog.ops
Op(x) == prog.ops[x]

\* Operations in the hands of the engine and not started: they wait in aq,
\* or have been dropped.
Handed ==
    dropped \cup {e.op : e \in {f \in aq : f.type \in {"LOCOP", "SEND", "RECV"}}}

Copies ==
    [x \in AllOps |-> Cardinality({i \in DOMAIN executableNodes : executableNodes[i] = x})]

Graph == INSTANCE SerializedGraph WITH
            Nodes <- AllOps, MaxEdges <- 0, edges <- prog.edges,
            phase <- "run", exec <- Copies, handed <- Handed,
            started <- ToSet(started)

Match == INSTANCE MessageMatching WITH
            Sources <- Hosts, Tags <- {}, MaxPosted <- 0, MaxArrived <- 0,
            posted <- << >>, arrived <- << >>, pairs <- {}

\* No NIC answers here. The message LGS is given for an answer has a host
\* that nobody has initialised, by which start_lgs indexes its vectors: what
\* it does then is undefined.
Helper == INSTANCE LgsHelper WITH
            Sizes <- {}, Delays <- {}, MaxReused <- 0, MaxSends <- 0,
            MaxLost <- 0, MaxAnswers <- 0

-----------------------------------------------------------------------------
(* The active queue.                                                       *)

\* (Slip: STRICT_ORDER not defined.)
BeforeByTime(x, y) == x.time < y.time

\* aqcompare_func: earlier time first, then earlier insertion. Nobody sets
\* the insertion stamp of a message, so it may come anywhere in its instant.
Before(x, y) ==
    \/ x.time < y.time
    \/ x.time = y.time /\ "MSG" \notin {x.type, y.type} /\ x.ts < y.ts

Tops == {e \in aq : \A f \in aq : ~Before(f, e) /\ e.time <= f.time}

OpElement(x, time, ts) ==
    [type |-> Op(x).type, op |-> x, host |-> Op(x).host,
     src |-> Op(x).target, tag |-> Op(x).tag, time |-> time, ts |-> ts]

-----------------------------------------------------------------------------
(* The dependency graph.                                                   *)

\* (Slip: the counter is compared with one.)
FreedLate(S) ==
    {x \in AllOps : depCnt[x] > 1 /\ Graph!Decremented(depCnt, S)[x] <= 0}

\* The nodes whose counter a walk over S takes to zero, and the place in
\* the walk where it does: edges are listed in the order of their creation,
\* those on the start of a node before those on its end.
Freed(S) ==
    {x \in AllOps : depCnt[x] > 0 /\ Graph!Decremented(depCnt, S)[x] <= 0}

Place(S, x) ==
    Max({IF e.kind = "irequires" THEN e.id ELSE e.id + Cardinality(prog.edges) :
            e \in Graph!Of(S, x)})

\* MarkNodeAsStarted and MarkNodeAsDone, on the entries S of their lists.
Walk(S) ==
    /\ depCnt' = Graph!Decremented(depCnt, S)
    /\ \E s \in SetToSeqs(Freed(S)) :
          /\ \A i, j \in DOMAIN s : i < j => Place(S, s[i]) < Place(S, s[j])
          /\ executableNodes' = executableNodes \o s

\* (Slip: MarkNodeAsDone is called, too, when a node starts.)
StartListAndDone(x) ==
    Graph!StartDependOnMe(prog.edges, x) \cup Graph!DependOnMe(prog.edges, x)

StartList(x) == Graph!StartDependOnMe(prog.edges, x)
DoneList(x) == Graph!DependOnMe(prog.edges, x)

\* What is sorted together for a rank: all that may run and is not started.
\* (Operations that an occupied CPU has turned away are counted again, so
\* the sort may be taken for less stable than it is.)
Batch(h) ==
    {x \in Ops : /\ Op(x).host = h /\ depCnt[x] = 0
                 /\ x \notin ToSet(started) \cup dropped}

\* Free operations are taken rank by rank, sorted by gnp_op_comp_func:
\* OP_SEND < OP_RECV < OP_LOCOP. The order of equal elements is up to
\* std::sort: libstdc++ keeps it for up to 16 elements, sorting them by
\* insertion, and not for more.
TypeRank(t) == CHOOSE i \in 1..3 : <<"SEND", "RECV", "LOCOP">>[i] = t

\* (Slip: a sort that is not stable.)
PrecedesByType(i, j) ==
    LET x == Op(executableNodes[i])
        y == Op(executableNodes[j])
    IN
    \/ x.host < y.host
    \/ x.host = y.host /\ TypeRank(x.type) < TypeRank(y.type)

Precedes(i, j) ==
    LET x == Op(executableNodes[i])
        y == Op(executableNodes[j])
    IN
    \/ x.host < y.host
    \/ /\ x.host = y.host
       /\ \/ TypeRank(x.type) < TypeRank(y.type)
          \/ /\ x.type = y.type /\ i < j
             /\ Cardinality(Batch(x.host)) <= SortThreshold

\* One free operation is stamped and pushed on aq. It is due now, also when
\* it is a calc or a receive whose CPU is occupied until later.
InsertFreeOp ==
    /\ \E i \in DOMAIN executableNodes :
          /\ \A j \in DOMAIN executableNodes : ~Precedes(j, i)
          /\ aq' = aq \cup {OpElement(executableNodes[i], now, aqtime)}
          /\ executableNodes' = RemoveAt(executableNodes, i)
    /\ aqtime' = aqtime + 1
    /\ UNCHANGED <<prog, depCnt, temp, queueVars, clockVars, cycles, pc,
                   historyVars, helperVars>>

\* The operations of S in the order of their numbers.
InOrder(S) ==
    [i \in 1..Cardinality(S) |->
        CHOOSE x \in S : Cardinality({y \in S : y <= x}) = i]

-----------------------------------------------------------------------------
Init ==
    /\ prog \in Programs
    /\ depCnt = Graph!DependenciesCnt(prog.edges)
    /\ executableNodes = InOrder({x \in Ops : depCnt[x] = 0})
    /\ aq = {} /\ aqtime = 0
    /\ temp = 0
    /\ rq = [h \in Hosts |-> << >>]
    /\ uq = [h \in Hosts |-> << >>]
    /\ nexto = [h \in Hosts |-> [c \in CPUs |-> 0]]
    /\ nextgr = [h \in Hosts |-> 0]
    /\ cycles = 0
    /\ pc = "init"
    /\ Helper!HelperInit
    /\ started = << >> /\ done = {} /\ dropped = {}

\* The loop over the ranks before the main loop.
InitialFreeOp == pc = "init" /\ InsertFreeOp

EnterMain ==
    /\ pc = "init"
    /\ executableNodes = << >>
    /\ pc' = "outer"
    /\ UNCHANGED <<prog, graphVars, aq, aqtime, temp, queueVars, clockVars,
                   cycles, historyVars, helperVars>>

QueuesEmpty == \A h \in Hosts : rq[h] = << >> /\ uq[h] = << >>

\* (Slip: the cycles are not checked.)
EnterLoopUnchecked ==
    /\ pc = "outer"
    /\ aq # {} \/ ~QueuesEmpty
    /\ temp' = IF aq = {} THEN now ELSE Min({e.time : e \in aq})
    /\ pc' = "inner"
    /\ UNCHANGED <<prog, graphVars, aq, aqtime, queueVars, clockVars, cycles,
                   historyVars, helperVars>>

\* while (!aq.empty() || size_queue(rq) > 0 || size_queue(uq) > 0), with
\* the check of the cycles, and temp_elem = aq.top(). The top of an empty
\* queue is the element popped last, which was due.
EnterLoop ==
    /\ pc = "outer"
    /\ aq # {} \/ ~QueuesEmpty
    /\ cycles <= CycleLimit
    /\ temp' = IF aq = {} THEN now ELSE Min({e.time : e \in aq})
    /\ pc' = "inner"
    /\ UNCHANGED <<prog, graphVars, aq, aqtime, queueVars, clockVars, cycles,
                   historyVars, helperVars>>

\* Leave the main loop: all is empty, or the cycles are used up.
LeaveLoop ==
    /\ pc = "outer"
    /\ \/ aq = {} /\ QueuesEmpty
       \/ cycles > CycleLimit
    /\ pc' = "terminated"
    /\ UNCHANGED <<prog, graphVars, aq, aqtime, temp, queueVars, clockVars,
                   cycles, historyVars, helperVars>>

-----------------------------------------------------------------------------
(* The inner loop: while (!aq.empty() && aq.top().time <= ns3_time).       *)

\* e is the top of aq, it is due, and the cycles are not used up.
Due(e) ==
    /\ pc = "inner"
    /\ cycles <= CycleLimit
    /\ e \in Tops
    /\ e.time <= now

Popped == cycles' = cycles + 1 /\ UNCHANGED <<prog, aqtime, temp, pc>>

Pop(e) == Due(e) /\ Popped /\ UNCHANGED helperVars

CPU(e) == Op(e.op).proc

\* case OP_LOCOP, CPU available: occupy it, mark the node as started and
\* push the element again, with its time unchanged.
CalcStart(e) ==
    /\ e.type = "LOCOP" /\ Pop(e)
    /\ nexto[e.host][CPU(e)] <= e.time
    /\ nexto' = [nexto EXCEPT ![e.host][CPU(e)] = Op(e.op).size + now]
    /\ Walk(StartList(e.op))
    /\ started' = Append(started, e.op)
    /\ aq' = (aq \ {e}) \cup {[e EXCEPT !.type = "LOCOP_IN_PROGRESS"]}
    /\ UNCHANGED <<queueVars, nextgr, done, dropped>>

\* case OP_LOCOP, CPU occupied: try again when it is available.
CalcReinsert(e) ==
    /\ e.type = "LOCOP" /\ Pop(e)
    /\ nexto[e.host][CPU(e)] > e.time
    /\ aq' = (aq \ {e}) \cup {[e EXCEPT !.time = nexto[e.host][CPU(e)]]}
    /\ UNCHANGED <<graphVars, queueVars, clockVars, historyVars>>

\* case OP_LOCOP_IN_PROGRESS.
CalcDone(e) ==
    /\ e.type = "LOCOP_IN_PROGRESS" /\ Pop(e)
    /\ Walk(DoneList(e.op))
    /\ done' = done \cup {e.op}
    /\ aq' = aq \ {e}
    /\ UNCHANGED <<queueVars, clockVars, started, dropped>>

\* case OP_SEND, CPU available: the message is handed to NS-3, and the node
\* is started and done at once.
SendStart(e) ==
    /\ e.type = "SEND" /\ Due(e) /\ Popped
    /\ nexto[e.host][CPU(e)] <= e.time
    /\ Helper!ns3_schedule(KeyOf(e.host, e.src, e.tag), Op(e.op).size)
    /\ Walk(StartList(e.op) \cup DoneList(e.op))
    /\ started' = Append(started, e.op)
    /\ done' = done \cup {e.op}
    /\ aq' = aq \ {e}
    /\ UNCHANGED <<queueVars, clockVars, dropped>>

\* case OP_SEND, CPU occupied: the branch that would insert it again is
\* commented out.
SendDrop(e) ==
    /\ e.type = "SEND" /\ Pop(e)
    /\ nexto[e.host][CPU(e)] > e.time
    /\ dropped' = dropped \cup {e.op}
    /\ aq' = aq \ {e}
    /\ UNCHANGED <<graphVars, queueVars, clockVars, started, done>>

\* case OP_RECV, a message waits in uq.
RecvMatched(e) ==
    /\ e.type = "RECV" /\ Pop(e)
    /\ Match!Matches(e, uq[e.host]) # {}
    /\ uq' = [uq EXCEPT ![e.host] = RemoveAt(@, Match!FirstMatch(e, @))]
    /\ Walk(StartList(e.op) \cup DoneList(e.op))
    /\ started' = Append(started, e.op)
    /\ done' = done \cup {e.op}
    /\ aq' = aq \ {e}
    /\ UNCHANGED <<rq, clockVars, dropped>>

\* (Slip: the receive is queued without a look at uq.)
RecvQueuedBlindly(e) ==
    /\ e.type = "RECV" /\ Pop(e)
    /\ rq' = [rq EXCEPT ![e.host] = Append(@, Match!Element(e, e.op))]
    /\ Walk(StartList(e.op))
    /\ started' = Append(started, e.op)
    /\ aq' = aq \ {e}
    /\ UNCHANGED <<uq, clockVars, done, dropped>>

\* (Slip: the receive is done as soon as it is queued.)
RecvQueuedDone(e) ==
    /\ e.type = "RECV" /\ Pop(e)
    /\ Match!Matches(e, uq[e.host]) = {}
    /\ rq' = [rq EXCEPT ![e.host] = Append(@, Match!Element(e, e.op))]
    /\ Walk(StartList(e.op) \cup DoneList(e.op))
    /\ started' = Append(started, e.op)
    /\ done' = done \cup {e.op}
    /\ aq' = aq \ {e}
    /\ UNCHANGED <<uq, clockVars, dropped>>

\* case OP_RECV, no message waits: the receive is queued.
RecvQueued(e) ==
    /\ e.type = "RECV" /\ Pop(e)
    /\ Match!Matches(e, uq[e.host]) = {}
    /\ rq' = [rq EXCEPT ![e.host] = Append(@, Match!Element(e, e.op))]
    /\ Walk(StartList(e.op))
    /\ started' = Append(started, e.op)
    /\ aq' = aq \ {e}
    /\ UNCHANGED <<uq, clockVars, done, dropped>>

\* (Slip: only the NIC is looked at.)
AvailableOnNic(e) == nextgr[e.host] <= e.time

\* case OP_MSG, local o and g available on CPU 0 and the NIC.
Available(e) == Helper!Latest(nexto[e.host][0], nextgr[e.host]) <= e.time

Occupy(e) ==
    /\ nexto' = [nexto EXCEPT ![e.host][0] = e.time]
    /\ nextgr' = [nextgr EXCEPT ![e.host] = e.time]

\* ... and a receive waits in rq: that node is done.
MsgMatched(e) ==
    LET i == Match!FirstMatch(e, rq[e.host])
        x == rq[e.host][i].offset
    IN
    /\ e.type = "MSG" /\ Pop(e)
    /\ Available(e)
    /\ Match!Matches(e, rq[e.host]) # {}
    /\ Occupy(e)
    /\ rq' = [rq EXCEPT ![e.host] = RemoveAt(@, i)]
    /\ Walk(DoneList(x))
    /\ done' = done \cup {x}
    /\ aq' = aq \ {e}
    /\ UNCHANGED <<uq, started, dropped>>

\* ... and no receive waits: the message is unexpected.
MsgQueued(e) ==
    /\ e.type = "MSG" /\ Pop(e)
    /\ Available(e)
    /\ Match!Matches(e, rq[e.host]) = {}
    /\ Occupy(e)
    /\ uq' = [uq EXCEPT ![e.host] = Append(@, Match!Element(e, e.op))]
    /\ aq' = aq \ {e}
    /\ UNCHANGED <<graphVars, rq, historyVars>>

\* (Slip: not inserted again, as for sends.)
MsgReinsertNot(e) ==
    /\ e.type = "MSG" /\ Pop(e)
    /\ ~Available(e)
    /\ aq' = aq \ {e}
    /\ UNCHANGED <<graphVars, queueVars, clockVars, historyVars>>

\* case OP_MSG, o or g not available: inserted again, for the latest of the
\* two and of earliestfinish, which nobody has assigned.
MsgReinsert(e) ==
    /\ e.type = "MSG" /\ Pop(e)
    /\ ~Available(e)
    /\ \E u \in Unset :
          aq' = (aq \ {e}) \cup
             {[e EXCEPT !.time = Max({nexto[e.host][0], nextgr[e.host], u})]}
    /\ UNCHANGED <<graphVars, queueVars, clockVars, historyVars>>

\* The cycles are used up with an element due: exit(0).
Exit ==
    /\ pc = "inner"
    /\ cycles > CycleLimit
    /\ \E e \in Tops : e.time <= now
    /\ pc' = "exited"
    /\ UNCHANGED <<prog, graphVars, aq, aqtime, temp, queueVars, clockVars,
                   cycles, historyVars, helperVars>>

Element ==
    \E e \in aq :
        \/ CalcStart(e) \/ CalcReinsert(e) \/ CalcDone(e)
        \/ SendStart(e) \/ SendDrop(e)
        \/ RecvMatched(e) \/ RecvQueued(e)
        \/ MsgMatched(e) \/ MsgQueued(e) \/ MsgReinsert(e)

-----------------------------------------------------------------------------
(* After the inner loop.                                                   *)

NothingDue == \A e \in aq : e.time > now

\* Nothing is on its way: NS-3 is not run.
SkipNs3 ==
    /\ pc = "inner" /\ NothingDue
    /\ Helper!all_sends_delivered
    /\ pc' = "free"
    /\ UNCHANGED <<prog, graphVars, aq, aqtime, temp, queueVars, clockVars,
                   cycles, historyVars, helperVars>>

\* NS-3 is run: for the time of temp_elem, counted by NS-3 from now, if
\* that lies ahead, and otherwise until a message is received.
RunNs3 ==
    /\ pc = "inner" /\ NothingDue
    /\ IF temp > now THEN Helper!ns3_simulate_until(temp)
                     ELSE Helper!ns3_simulate_forever
    /\ pc' = "sim"
    /\ UNCHANGED <<prog, graphVars, aq, aqtime, temp, queueVars, clockVars,
                   cycles, historyVars>>

\* Inside Simulator::Run.
Network ==
    /\ pc = "sim"
    /\ Helper!Network
    /\ UNCHANGED engineVars

\* (Slip: an overhead is added to the time of arrival.)
MsgElementLater(k) ==
    [type |-> "MSG", op |-> None, host |-> k[2], src |-> k[1], tag |-> k[3],
     time |-> now + 1, ts |-> cycles]

\* ns3_simulate_until returns; the message, if one is reported, is pushed
\* on aq: type OP_MSG, its target the sender, its time the time of arrival. Its
\* stamp, which Before does not look at, tells equal messages apart.
MsgElement(k) ==
    [type |-> "MSG", op |-> None, host |-> k[2], src |-> k[1], tag |-> k[3],
     time |-> now, ts |-> cycles]

Return ==
    /\ pc = "sim"
    /\ Helper!Return
    /\ aq' = aq \cup (IF latest = None THEN {} ELSE {MsgElement(latest)})
    /\ pc' = "free"
    /\ UNCHANGED <<prog, graphVars, aqtime, temp, queueVars, clockVars,
                   cycles, historyVars>>

\* The loop over the ranks at the end of a cycle.
FreeOp == pc = "free" /\ InsertFreeOp

EndCycle ==
    /\ pc = "free"
    /\ executableNodes = << >>
    /\ cycles' = cycles + 1
    /\ pc' = "outer"
    /\ UNCHANGED <<prog, graphVars, aq, aqtime, temp, queueVars, clockVars,
                   historyVars, helperVars>>

Terminated == pc \in {"terminated", "exited"} /\ UNCHANGED vars

Next ==
    \/ InitialFreeOp \/ EnterMain \/ EnterLoop \/ LeaveLoop
    \/ Element \/ Exit
    \/ SkipNs3 \/ RunNs3 \/ Network \/ Return
    \/ FreeOp \/ EndCycle
    \/ Terminated

Spec == Init /\ [][Next]_vars

\* start_lgs is one sequential program and NS-3 one sequential simulator:
\* whichever has the control goes on.
FairSpec == Spec /\ WF_vars(Next)

-----------------------------------------------------------------------------
(* Properties.                                                             *)

ElementType ==
    [type : {"SEND", "RECV", "LOCOP", "LOCOP_IN_PROGRESS", "MSG"},
     op : AllOps \cup {None}, host : Hosts, src : Hosts \cup {Wildcard},
     tag : Nat \cup {Wildcard}, time : Nat, ts : Nat]

TypeOK ==
    /\ prog \in Programs
    /\ depCnt \in [AllOps -> Int]
    /\ executableNodes \in Seq(Ops)
    /\ aq \subseteq ElementType
    /\ aqtime \in Nat /\ temp \in Nat /\ cycles \in 0 .. CycleLimit + 2
    /\ \A h \in Hosts : \A i \in DOMAIN rq[h] : rq[h][i].offset \in Ops
    /\ \A h \in Hosts : \A i \in DOMAIN uq[h] : uq[h][i].src \in Hosts
    /\ nexto \in [Hosts -> [CPUs -> Nat]]
    /\ nextgr \in [Hosts -> Nat]
    /\ pc \in {"init", "outer", "inner", "sim", "free", "terminated", "exited"}
    /\ Helper!TypeOK
    /\ ToSet(started) \cup done \cup dropped \subseteq Ops

\* The counters agree with what the engine has started and finished: so an
\* operation is taken up when its requirements are met, and not before.
CountersAgree == Graph!CounterExact

\* Every operation whose requirements are met is in exactly one place: on
\* executableNodes, in aq, started, or dropped for good.
EachOpOnce ==
    \A x \in Ops :
        Copies[x]
        + Cardinality({e \in aq : e.op = x /\ e.type # "LOCOP_IN_PROGRESS"})
        + Cardinality({i \in DOMAIN started : started[i] = x})
        + Cardinality({x} \cap dropped)
            = IF depCnt[x] = 0 THEN 1 ELSE 0

\* A posted receive and an arrived message that fit never both wait,
\* whatever time the engine and the network took in between.
NoMissedMatch ==
    \A h \in Hosts : \A i \in DOMAIN rq[h], j \in DOMAIN uq[h] :
        ~Match!Fits(rq[h][i], uq[h][j])

\* The receives that wait in rq are those started and not done, once each.
ReceivesConserved ==
    /\ \A h \in Hosts :
          {rq[h][i].offset : i \in DOMAIN rq[h]}
            = {x \in ToSet(started) \ done : Op(x).type = "RECV" /\ Op(x).host = h}
    /\ \A h \in Hosts : Len(rq[h]) = Cardinality({rq[h][i].offset : i \in DOMAIN rq[h]})

\* Every message reported by NS-3 is in aq, in uq, or has finished exactly
\* one receive of its host; none is lost on the way, also when it finds its
\* CPU occupied and is inserted again.
MessagesConserved ==
    \A h \in Hosts :
        SumFunction([k \in {l \in Keys : l[2] = h} |-> reported[k]])
          = Cardinality({e \in aq : e.type = "MSG" /\ e.host = h})
            + Len(uq[h])
            + Cardinality({x \in done : Op(x).type = "RECV" /\ Op(x).host = h})

\* The clocks of CPUs and NICs and of NS-3 never run backwards: a CPU that
\* has been promised to a calc is not given away before.
ClocksMonotone ==
    [][/\ \A h \in Hosts, c \in CPUs : nexto'[h][c] >= nexto[h][c]
       /\ \A h \in Hosts : nextgr'[h] >= nextgr[h]
       /\ now' >= now]_vars

Rivals(e, f) ==
    /\ e.type = f.type /\ e.type # "MSG"
    /\ e.host = f.host /\ CPU(e) = CPU(f)

\* "(original) insertion order of elements in the queue ... Needed for
\* correctness": of the operations of one type that wait for one CPU, the
\* one inserted first starts first, however often the CPU turned them away.
InsertionOrder ==
    [][\A e \in aq : \A f \in {g \in aq : Rivals(e, g) /\ e.ts < g.ts} :
          started' # Append(started, f.op)]_vars

\* Receives that may be posted from the beginning are posted in the order
\* of the schedule, unless their rank has so many operations to begin with
\* that std::sort may mix them up: sorting by type does not, and neither do
\* the queue and the other ranks.
FromTheBeginning(h) ==
    {x \in Ops : Op(x).host = h /\ \A e \in prog.edges : e.of # x}

ListedOrder ==
    LET roots(h) == {x \in FromTheBeginning(h) : Op(x).type = "RECV"}
    IN  \A h \in Hosts, i, j \in DOMAIN started :
            Cardinality(FromTheBeginning(h)) <= SortThreshold =>
                (i < j /\ {started[i], started[j]} \subseteq roots(h)
                    => started[i] < started[j])

\* "retry later": a send whose CPU is occupied stays in the active queue; a
\* send is on executableNodes, in aq or done from the moment it may run.
SendsNotLost ==
    \A x \in Ops :
        Op(x).type = "SEND" /\ depCnt[x] = 0
            => Copies[x] = 1 \/ x \in done \/ \E e \in aq : e.op = x

\* A calc is marked done when its time on the CPU is over, so what requires
\* it comes after it in simulated time.
CalcTakesTime ==
    [][\A x \in done' \ done :
          Op(x).type = "LOCOP" => nexto[Op(x).host][Op(x).proc] <= now]_vars

\* temp_elem has been read before the inner loop: whenever sends are on
\* their way it was due, so NS-3 always runs until a message is received.
StaleTop ==
    pc = "inner" /\ NothingDue /\ ~Helper!all_sends_delivered => temp <= now

\* A schedule of communication alone is run to its end: every operation is
\* done and the queues are empty before the cycles are used up. (It has to
\* keep sends with the same peer and tag apart: see the run of the ring.)
CommunicationCompletes ==
    (pc = "init" /\ \A x \in Ops : Op(x).type # "LOCOP")
        ~> (pc = "terminated" /\ done = Ops /\ QueuesEmpty)

\* The simulation ends with everything done.
Completes == <>(pc = "terminated" /\ done = Ops /\ QueuesEmpty)

=============================================================================

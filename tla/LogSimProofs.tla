---------------------------- MODULE LogSimProofs ----------------------------
(***************************************************************************)
(* For any schedules, network delays, repeated packets and initial values  *)
(* of what nobody initialises: the engine keeps every operation in one     *)
(* place, matches whatever fits, and keeps the order of insertion.         *)
(***************************************************************************)
EXTENDS LogSim, DataLemmas, TLAPS

-----------------------------------------------------------------------------
(* The schedule that is run.                                               *)

Edges == prog.edges

\* What ScheduleAssumption says of the schedule that is run.
LEMMA ScheduleTypes ==
    ASSUME prog \in Programs
    PROVE  /\ prog.ops \in Seq(Operation)
           /\ Ops = 1 .. Len(prog.ops) /\ Len(prog.ops) \in Nat
           /\ Ops \subseteq AllOps /\ Ops \subseteq Nat /\ IsFiniteSet(Ops)
           /\ \A x \in Ops : Op(x) \in Operation
           /\ \A x \in Ops : Op(x).type = "SEND" =>
                 /\ Op(x).target \in Hosts /\ Op(x).tag \in Nat
                 /\ KeyOf(Op(x).host, Op(x).target, Op(x).tag) \in Keys
           /\ IsFiniteSet(Edges)
           /\ \A e \in Edges : e.of \in Ops /\ e.on \in Ops
<1>1. /\ prog.ops \in Seq(Operation)
      /\ \A x \in Ops : Op(x).type = "SEND" => Op(x).target \in Hosts /\ Op(x).tag \in Nat
      /\ IsFiniteSet(Edges)
      /\ Edges \subseteq [of : Ops, on : Ops, kind : {"requires", "irequires"}, id : Nat]
  BY ScheduleAssumption DEF Ops, Op, Edges
<1>2. /\ Ops = 1 .. Len(prog.ops) /\ Len(prog.ops) \in Nat
      /\ \A x \in Ops : Op(x) \in Operation
  BY <1>1, LenProperties DEF Ops, Op
<1>3. IsFiniteSet(Ops) /\ Ops \subseteq Nat
  BY <1>2, FS_Interval
<1>4. Ops \subseteq AllOps
  BY DEF Ops, AllOps
<1>5. \A x \in Ops : Op(x).type = "SEND" =>
            KeyOf(Op(x).host, Op(x).target, Op(x).tag) \in Keys
  BY DEF Ops, Op, Keys
<1>6. \A e \in Edges : e.of \in Ops /\ e.on \in Ops
  BY <1>1
<1>7. QED
  BY <1>1, <1>2, <1>3, <1>4, <1>5, <1>6

\* A key is two hosts and a tag.
LEMMA KeyTypes ==
    ASSUME NEW k \in Keys
    PROVE  k[1] \in Hosts /\ k[2] \in Hosts /\ k[3] \in Nat
<1>1. PICK P \in Programs :
          \E x \in DOMAIN P.ops :
              /\ P.ops[x].type = "SEND"
              /\ k = KeyOf(P.ops[x].host, P.ops[x].target, P.ops[x].tag)
  BY DEF Keys
<1>2. PICK x \in DOMAIN P.ops :
          /\ P.ops[x].type = "SEND"
          /\ k = KeyOf(P.ops[x].host, P.ops[x].target, P.ops[x].tag)
  BY <1>1
<1>3. P.ops[x] \in Operation /\ P.ops[x].target \in Hosts /\ P.ops[x].tag \in Nat
  BY <1>2, ScheduleAssumption, LenProperties
<1>4. QED
  BY <1>2, <1>3 DEF KeyOf, Operation

\* InOrder lists the members of a finite set of numbers, each once, the
\* smaller before the greater: the i-th is the one with i members up to it.
LEMMA InOrderLists ==
    ASSUME NEW S, S \subseteq Nat, IsFiniteSet(S)
    PROVE  /\ InOrder(S) \in Seq(S) /\ ToSet(InOrder(S)) = S
           /\ \A i, j \in DOMAIN InOrder(S) : i < j => InOrder(S)[i] < InOrder(S)[j]
<1> DEFINE n == Cardinality(S)
           upTo(x) == {y \in S : y <= x}
           rank == [x \in S |-> Cardinality(upTo(x))]
<1>1. \A x \in S : x \in Nat
  OBVIOUS
<1>2. n \in Nat /\ IsFiniteSet(1 .. n) /\ Cardinality(1 .. n) = n
  BY FS_CardinalityType, FS_Interval
<1>3. ASSUME NEW x \in S
      PROVE  /\ IsFiniteSet(upTo(x)) /\ x \in upTo(x)
             /\ rank[x] = Cardinality(upTo(x)) /\ rank[x] \in 1 .. n
  <2>1. upTo(x) \in SUBSET S /\ x \in upTo(x)
    OBVIOUS
  <2>2. IsFiniteSet(upTo(x)) /\ Cardinality(upTo(x)) <= n
    BY <2>1, FS_Subset
  <2>3. Cardinality(upTo(x)) \in Nat /\ Cardinality(upTo(x)) # 0
    BY <2>1, <2>2, FS_CardinalityType, FS_EmptySet
  <2>4. rank[x] = Cardinality(upTo(x))
    OBVIOUS
  <2> HIDE DEF upTo, rank, n
  <2>5. QED
    BY <1>2, <2>1, <2>2, <2>3, <2>4
<1>4. ASSUME NEW x \in S, NEW y \in S, x < y PROVE rank[x] < rank[y]
  <2>1. upTo(x) \in SUBSET upTo(y) /\ y \in upTo(y) /\ y \notin upTo(x)
    <3>1. x \in Nat /\ y \in Nat
      BY <1>1
    <3>2. ASSUME NEW z \in S, z <= x PROVE z <= y
      BY <1>1, <1>4, <3>1, <3>2
    <3>3. ~ (y <= x) /\ y <= y
      BY <1>4, <3>1
    <3>4. QED
      BY <3>2, <3>3
  <2>2. /\ Cardinality(upTo(x)) <= Cardinality(upTo(y))
        /\ Cardinality(upTo(x)) # Cardinality(upTo(y))
    <3> HIDE DEF upTo
    <3>1. QED
      BY <1>3, <2>1, FS_Subset
  <2> HIDE DEF upTo, rank
  <2>3. QED
    BY <1>2, <1>3, <2>2
<1>5. \A x, y \in S : rank[x] = rank[y] => x = y
  <2>1. SUFFICES ASSUME NEW x \in S, NEW y \in S, rank[x] = rank[y], x # y PROVE FALSE
    OBVIOUS
  <2> HIDE DEF rank
  <2>2. x < y \/ y < x
    BY <1>1, <2>1
  <2>3. rank[x] \in Nat
    <3> HIDE DEF n, upTo
    <3>1. rank[x] \in 1 .. n
      BY <1>3
    <3>2. QED
      BY <1>2, <3>1
  <2>4. QED
    BY <1>4, <2>1, <2>2, <2>3
<1>6. rank \in Injection(S, 1 .. n)
  <2>1. rank \in [S -> 1 .. n] /\ DOMAIN rank = S
    BY <1>3
  <2> HIDE DEF rank, n
  <2>2. QED
    BY <1>5, <2>1 DEF Injection, IsInjective
<1>7. rank \in Surjection(S, 1 .. n)
  <2> HIDE DEF rank
  <2>1. QED
    BY <1>2, <1>6, FS_Injection
<1>8. ASSUME NEW i \in 1 .. n
      PROVE  InOrder(S)[i] \in S /\ rank[InOrder(S)[i]] = i
  <2>1. PICK x \in S : rank[x] = i
    <3> HIDE DEF rank
    <3>1. QED
      BY <1>7 DEF Surjection
  <2>2. InOrder(S)[i] = CHOOSE y \in S : Cardinality(upTo(y)) = i
    BY DEF InOrder
  <2>3. Cardinality(upTo(x)) = i
    BY <1>3, <2>1
  <2>4. InOrder(S)[i] \in S /\ Cardinality(upTo(InOrder(S)[i])) = i
    <3> HIDE DEF upTo
    <3>1. QED
      BY <2>2, <2>3
  <2>5. QED
    BY <1>3, <2>4
<1>9. DOMAIN InOrder(S) = 1 .. n /\ InOrder(S) \in [1 .. n -> S]
  BY <1>8 DEF InOrder
<1>10. ToSet(InOrder(S)) = S
  <2>1. ASSUME NEW x \in S PROVE \E i \in 1 .. n : InOrder(S)[i] = x
    <3> HIDE DEF rank
    <3>1. QED
      BY <1>3, <1>5, <1>8
  <2>2. QED
    BY <1>8, <1>9, <2>1, ZenonT(30) DEF ToSet
<1>11. ASSUME NEW i \in 1 .. n, NEW j \in 1 .. n, i < j
       PROVE  InOrder(S)[i] < InOrder(S)[j]
  <2> DEFINE x == InOrder(S)[i]
             y == InOrder(S)[j]
  <2>1. x \in S /\ y \in S /\ rank[x] = i /\ rank[y] = j
    BY <1>8
  <2> HIDE DEF rank, x, y
  <2>2. x # y /\ ~ (y < x)
    BY <1>2, <1>4, <1>11, <2>1
  <2>3. x < y
    BY <1>1, <2>1, <2>2
  <2>4. QED
    BY <2>3 DEF x, y
<1>12. InOrder(S) \in Seq(S)
  BY <1>2, <1>9
<1>13. QED
  BY <1>9, <1>10, <1>11, <1>12

-----------------------------------------------------------------------------
(* Types. They say where an element of aq comes from, too.                 *)

GraphTypes ==
    /\ prog \in Programs
    /\ depCnt \in [AllOps -> Int]
    /\ \A x \in AllOps \ Ops : depCnt[x] <= 0
    /\ executableNodes \in Seq(Ops)

\* An element of an operation repeats it, that of a message comes from NS-3.
OfOperation(e) ==
    /\ e.op \in Ops
    /\ e.host = Op(e.op).host /\ e.src = Op(e.op).target /\ e.tag = Op(e.op).tag
    /\ \/ e.type = Op(e.op).type
       \/ e.type = "LOCOP_IN_PROGRESS" /\ Op(e.op).type = "LOCOP"

OfMessage(e) == e.op = None /\ e.src \in Hosts /\ e.tag \in Nat

Genuine(e) == IF e.type = "MSG" THEN OfMessage(e) ELSE OfOperation(e)

AqTypes ==
    /\ \A e \in aq : e \in ElementType /\ Genuine(e)
    /\ aqtime \in Nat /\ temp \in Nat

RecvWaiting ==
    [src : Hosts \cup {Wildcard}, tag : Nat \cup {Wildcard}, offset : Ops]
MsgWaiting == [src : Hosts, tag : Nat, offset : {None}]

QueueTypes ==
    /\ rq \in [Hosts -> Seq(RecvWaiting)]
    /\ uq \in [Hosts -> Seq(MsgWaiting)]

ClockTypes ==
    /\ nexto \in [Hosts -> [CPUs -> Nat]]
    /\ nextgr \in [Hosts -> Nat]

ControlTypes ==
    /\ pc \in {"init", "outer", "inner", "sim", "free", "terminated", "exited"}
    /\ cycles \in Nat /\ cycles <= CycleLimit + 2
    /\ pc \in {"init", "inner", "sim", "free"} => cycles <= CycleLimit + 1

HistoryTypes == started \in Seq(Ops) /\ done \subseteq Ops /\ dropped \subseteq Ops

\* No NIC answers: no packet in flight and no message has a default tag.
HelperTypes == Helper!TypeOK /\ net[DefaultTag] = 0 /\ latest # DefaultTag

Types ==
    /\ GraphTypes /\ AqTypes /\ QueueTypes /\ ClockTypes /\ ControlTypes
    /\ HistoryTypes /\ HelperTypes

\* The modules composed count with operators of their own instances.
LEMMA SameCardinality == \A S : Graph!Cardinality(S) = Cardinality(S)
BY DEF Graph!Cardinality, Cardinality

\* What a walk over the edges S does to the counters and to the list of the
\* nodes that are free.
LEMMA WalkEffect ==
    ASSUME GraphTypes, NEW S \in SUBSET Edges, Walk(S)
    PROVE  /\ depCnt' \in [AllOps -> Int]
           /\ \A x \in AllOps :
                 /\ Cardinality(Graph!Of(S, x)) \in Nat
                 /\ depCnt'[x] = depCnt[x] - Cardinality(Graph!Of(S, x))
           /\ Freed(S) = {x \in Ops : depCnt[x] > 0 /\ depCnt'[x] <= 0}
           /\ \E s \in Seq(Ops) :
                 /\ IsInjective(s) /\ ToSet(s) = Freed(S)
                 /\ executableNodes' = executableNodes \o s
<1>1. /\ IsFiniteSet(Edges) /\ Ops \subseteq AllOps /\ IsFiniteSet(Ops)
      /\ \A e \in Edges : e.of \in Ops
  BY ScheduleTypes DEF GraphTypes
<1>2. ASSUME NEW x \in AllOps PROVE Cardinality(Graph!Of(S, x)) \in Nat
  <2>1. Graph!Of(S, x) \in SUBSET Edges
    BY DEF Graph!Of
  <2>2. QED
    BY <1>1, <2>1, FS_Subset, FS_CardinalityType
<1>3. depCnt' = [x \in AllOps |-> depCnt[x] - Cardinality(Graph!Of(S, x))]
  BY SameCardinality DEF Walk, Graph!Decremented
<1>4. /\ depCnt' \in [AllOps -> Int]
      /\ \A x \in AllOps : depCnt'[x] = depCnt[x] - Cardinality(Graph!Of(S, x))
  BY <1>2, <1>3 DEF GraphTypes
<1>5. Freed(S) = {x \in AllOps : depCnt[x] > 0 /\ depCnt'[x] <= 0}
  BY <1>3, SameCardinality DEF Freed, Graph!Decremented
<1>6. \A x \in AllOps : depCnt[x] > 0 => x \in Ops
  BY DEF GraphTypes
<1>7. Freed(S) = {x \in Ops : depCnt[x] > 0 /\ depCnt'[x] <= 0}
  BY <1>1, <1>5, <1>6
<1>8. Freed(S) \subseteq Ops /\ IsFiniteSet(Freed(S))
  BY <1>1, <1>7, FS_Subset
<1>9. PICK s \in SetToSeqs(Freed(S)) : executableNodes' = executableNodes \o s
  BY DEF Walk
<1>10. s \in Seq(Freed(S)) /\ IsInjective(s) /\ ToSet(s) = Freed(S)
  BY <1>8, SetToSeqsLists
<1>11. s \in Seq(Ops)
  BY <1>8, <1>10, SeqMonotonic
<1>12. QED
  BY <1>2, <1>4, <1>7, <1>9, <1>10, <1>11

\* The lists of a node are edges of the schedule.
LEMMA ListsAreEdges ==
    ASSUME NEW x
    PROVE  /\ StartList(x) \in SUBSET Edges /\ DoneList(x) \in SUBSET Edges
           /\ StartList(x) \cup DoneList(x) \in SUBSET Edges
BY DEF StartList, DoneList, Graph!StartDependOnMe, Graph!DependOnMe, Edges

\* A walk over edges of the schedule keeps the types of the graph.
LEMMA WalkTypes ==
    ASSUME GraphTypes, NEW S \in SUBSET Edges, Walk(S), prog' = prog
    PROVE  GraphTypes'
<1>1. /\ depCnt' \in [AllOps -> Int]
      /\ \A x \in AllOps :
            /\ Cardinality(Graph!Of(S, x)) \in Nat
            /\ depCnt'[x] = depCnt[x] - Cardinality(Graph!Of(S, x))
  BY WalkEffect
<1>2. PICK s \in Seq(Ops) : executableNodes' = executableNodes \o s
  BY WalkEffect
<1>3. executableNodes' \in Seq(Ops)
  BY <1>2, ConcatProperties DEF GraphTypes
<1>4. Ops' = Ops
  BY DEF Ops
<1>5. \A x \in AllOps \ Ops : depCnt'[x] <= 0
  BY <1>1 DEF GraphTypes
<1>6. QED
  BY <1>1, <1>3, <1>4, <1>5 DEF GraphTypes

\* What a step leaves alone keeps its type.
LEMMA Frame ==
    ASSUME Types, prog' = prog
    PROVE  /\ UNCHANGED graphVars => GraphTypes'
           /\ UNCHANGED <<aq, aqtime, temp>> => AqTypes'
           /\ UNCHANGED queueVars => QueueTypes'
           /\ UNCHANGED clockVars => ClockTypes'
           /\ UNCHANGED historyVars => HistoryTypes'
           /\ UNCHANGED helperVars => HelperTypes'
<1>1. Ops' = Ops /\ RecvWaiting' = RecvWaiting
  BY DEF Ops, RecvWaiting
<1>2. \A e : Genuine(e)' <=> Genuine(e)
  BY <1>1 DEF Genuine, OfMessage, OfOperation, Op
<1>3. UNCHANGED graphVars => GraphTypes'
  BY <1>1 DEF Types, GraphTypes, graphVars
<1>4. UNCHANGED <<aq, aqtime, temp>> => AqTypes'
  BY <1>2 DEF Types, AqTypes
<1>5. UNCHANGED queueVars => QueueTypes'
  BY <1>1 DEF Types, QueueTypes, queueVars
<1>6. UNCHANGED clockVars => ClockTypes'
  BY DEF Types, ClockTypes, clockVars
<1>7. UNCHANGED historyVars => HistoryTypes'
  BY <1>1 DEF Types, HistoryTypes, historyVars
<1>8. UNCHANGED helperVars => HelperTypes'
  BY DEF Types, HelperTypes, Helper!TypeOK, helperVars, Helper!IsABag, Helper!BagToSet
<1>9. QED
  BY <1>3, <1>4, <1>5, <1>6, <1>7, <1>8

\* A pop takes an element off aq and puts back at most one.
Replaces(e, put) == aq' = (aq \ {e}) \cup put

\* An element taken from aq, and genuine ones put there, keep the types of aq.
LEMMA ReplaceTypes ==
    ASSUME Types, prog' = prog, UNCHANGED <<aqtime, temp>>, NEW e, NEW put, Replaces(e, put),
           \A f \in put : f \in ElementType /\ Genuine(f)
    PROVE  AqTypes'
<1>1. \A f : Genuine(f)' <=> Genuine(f)
  BY DEF Genuine, OfMessage, OfOperation, Op, Ops
<1>2. \A f \in aq' : f \in aq \/ f \in put
  BY DEF Replaces
<1>3. QED
  BY <1>1, <1>2 DEF Types, AqTypes

\* Popping keeps the control, and what is popped was in aq and is due.
LEMMA PopControl ==
    ASSUME Types, NEW e, Due(e), Popped
    PROVE  /\ ControlTypes' /\ prog' = prog /\ UNCHANGED <<aqtime, temp>> /\ e \in aq
           /\ e \in ElementType /\ Genuine(e) /\ e.time <= now
<1>1. CycleLimit \in Nat
  BY EngineAssumption
<1>2. cycles' = cycles + 1 /\ UNCHANGED <<prog, aqtime, temp, pc>> /\ pc = "inner" /\ cycles <= CycleLimit
  BY DEF Due, Popped
<1>3. ControlTypes'
  BY <1>1, <1>2 DEF Types, ControlTypes
<1>4. e \in aq /\ e.time <= now
  BY DEF Due, Tops
<1>5. QED
  BY <1>2, <1>3, <1>4 DEF Types, AqTypes

\* The three cases of a calc keep the types.
LEMMA CalcTypes ==
    ASSUME Types, NEW e, CalcStart(e) \/ CalcReinsert(e) \/ CalcDone(e)
    PROVE  Types'
<1>1. Due(e) /\ Popped /\ UNCHANGED helperVars
  BY DEF CalcStart, CalcReinsert, CalcDone, Pop
<1>2. /\ ControlTypes' /\ prog' = prog /\ UNCHANGED <<aqtime, temp>> /\ e \in aq
      /\ e \in ElementType /\ Genuine(e)
  BY <1>1, PopControl
<1>3. e.type \in {"LOCOP", "LOCOP_IN_PROGRESS"} /\ OfOperation(e) /\ Op(e.op) \in Operation
  <2>1. e.type \in {"LOCOP", "LOCOP_IN_PROGRESS"}
    BY DEF CalcStart, CalcReinsert, CalcDone
  <2>2. QED
    BY <1>2, <2>1, ScheduleTypes DEF Genuine, OfOperation, Types, GraphTypes
<1>4. e.op \in Ops /\ e.host \in Hosts /\ CPU(e) \in CPUs /\ Op(e.op).size \in Nat /\ now \in Nat
  BY <1>2, <1>3 DEF OfOperation, CPU, Operation, ElementType, Types, HelperTypes, Helper!TypeOK
<1>5. nexto \in [Hosts -> [CPUs -> Nat]] /\ nexto[e.host][CPU(e)] \in Nat
  BY <1>4 DEF Types, ClockTypes
<1>6. CASE CalcStart(e)
  <2> DEFINE f == [e EXCEPT !.type = "LOCOP_IN_PROGRESS"]
  <2>1. Walk(StartList(e.op)) /\ UNCHANGED queueVars /\ UNCHANGED <<nextgr, done, dropped>>
    BY <1>6 DEF CalcStart
  <2>2. GraphTypes' /\ QueueTypes' /\ HelperTypes'
    BY <1>1, <1>2, <2>1, WalkTypes, ListsAreEdges, Frame DEF Types
  <2>3. f \in ElementType /\ Genuine(f)
    BY <1>2, <1>3, <1>6 DEF Genuine, OfOperation, ElementType, CalcStart
  <2>4. AqTypes'
    <3>1. Replaces(e, {f})
      BY <1>6 DEF CalcStart, Replaces
    <3> HIDE DEF f
    <3>2. QED
      BY <1>2, <2>3, <3>1, ReplaceTypes
  <2>5. ClockTypes'
    <3>1. nexto' = [nexto EXCEPT ![e.host][CPU(e)] = Op(e.op).size + now]
      BY <1>6 DEF CalcStart
    <3>2. QED
      BY <1>4, <1>5, <2>1, <3>1 DEF Types, ClockTypes
  <2>6. HistoryTypes'
    <3>1. started' = Append(started, e.op) /\ Ops' = Ops
      BY <1>2, <1>6 DEF CalcStart, Ops
    <3>2. QED
      BY <1>4, <2>1, <3>1, AppendProperties DEF Types, HistoryTypes
  <2>7. QED
    BY <1>2, <2>2, <2>4, <2>5, <2>6 DEF Types
<1>7. CASE CalcReinsert(e)
  <2> DEFINE f == [e EXCEPT !.time = nexto[e.host][CPU(e)]]
  <2>1. UNCHANGED <<graphVars, queueVars, clockVars, historyVars>>
    BY <1>7 DEF CalcReinsert
  <2>2. GraphTypes' /\ QueueTypes' /\ ClockTypes' /\ HistoryTypes' /\ HelperTypes'
    BY <1>1, <1>2, <2>1, Frame
  <2>3. f \in ElementType /\ Genuine(f)
    BY <1>2, <1>3, <1>5 DEF Genuine, OfOperation, ElementType
  <2>4. AqTypes'
    <3>1. Replaces(e, {f})
      BY <1>7 DEF CalcReinsert, Replaces
    <3> HIDE DEF f
    <3>2. QED
      BY <1>2, <2>3, <3>1, ReplaceTypes
  <2>5. QED
    BY <1>2, <2>2, <2>4 DEF Types
<1>8. CASE CalcDone(e)
  <2>1. /\ Walk(DoneList(e.op)) /\ UNCHANGED queueVars /\ UNCHANGED clockVars
        /\ UNCHANGED <<started, dropped>> /\ done' = done \cup {e.op}
    BY <1>8 DEF CalcDone
  <2>2. GraphTypes' /\ QueueTypes' /\ ClockTypes' /\ HelperTypes'
    BY <1>1, <1>2, <2>1, WalkTypes, ListsAreEdges, Frame DEF Types
  <2>3. AqTypes'
    <3>1. Replaces(e, {})
      BY <1>8 DEF CalcDone, Replaces
    <3>2. QED
      BY <1>2, <3>1, ReplaceTypes
  <2>4. HistoryTypes'
    BY <1>2, <1>4, <2>1 DEF Types, HistoryTypes, Ops
  <2>5. QED
    BY <1>2, <2>2, <2>3, <2>4 DEF Types
<1>9. QED
  BY <1>6, <1>7, <1>8

-----------------------------------------------------------------------------
(* The steps of the network interface keep its types.                      *)

\* No message has the default tag: its sender is no host.
LEMMA DefaultTagApart ==
    /\ DefaultTag \notin Keys /\ DefaultTag \in Helper!Hashes /\ Keys \subseteq Helper!Hashes
    /\ \A k \in Helper!Hashes : k \in Keys \/ k = DefaultTag
<1>1. DefaultTag \notin Keys
  <2>1. DefaultTag[1] = -1
    BY DEF DefaultTag, KeyOf
  <2>2. DefaultTag[1] \notin Hosts
    BY <2>1, EngineAssumption
  <2>3. QED
    BY <2>2, KeyTypes
<1>2. QED
  BY <1>1 DEF Helper!Hashes, DefaultTag

\* What the types of the interface say of the messages LGS has sent.
LEMMA HelperFacts ==
    ASSUME HelperTypes
    PROVE  /\ DOMAIN active \subseteq Keys /\ \A k \in DOMAIN active : active[k] \in Nat
           /\ latest \in Keys \cup {None} /\ now \in Nat /\ mode \in {"lgs", "ns3", "ret"}
           /\ net \in [Helper!Hashes -> Nat] /\ eta \in [Helper!Hashes -> Nat]
           /\ completed \in [Helper!Hashes -> Nat] /\ reported \in [Helper!Hashes -> Nat]
           /\ sent \in [Keys -> Nat]
           /\ faults \in [reused : Nat, resent : 0 .. MaxResent, lost : 0 .. 0, answers : 0 .. 0]
           /\ \A k \in Keys : net[k] \in Nat
BY DefaultTagApart DEF HelperTypes, Helper!TypeOK

\* A packet leaves the network, and nothing else.
LEMMA DeliverEffect ==
    ASSUME HelperTypes, NEW k \in Keys, NEW t, Helper!Deliver(k, t)
    PROVE  net' = [net EXCEPT ![k] = @ - 1] /\ UNCHANGED <<eta, faults>>
<1>1. /\ faults \in [reused : Nat, resent : 0 .. MaxResent, lost : 0 .. 0, answers : 0 .. 0]
      /\ net \in [Helper!Hashes -> Nat] /\ eta \in [Helper!Hashes -> Nat]
  BY HelperFacts
<1>2. faults.answers = 0
  BY <1>1
<1>3. PICK n \in 0 .. (0 - faults.answers) :
          /\ net' = [net EXCEPT ![k] = @ - 1, ![DefaultTag] = @ + n]
          /\ eta' = [eta EXCEPT ![DefaultTag] =
                          IF n > 0 /\ net[DefaultTag] = 0 THEN t + 1 ELSE @]
          /\ faults' = [faults EXCEPT !.answers = @ + n]
  BY DEF Helper!Deliver
<1>4. n = 0
  BY <1>2, <1>3
<1>5. net' = [net EXCEPT ![k] = @ - 1]
  <2>1. k # DefaultTag /\ net[DefaultTag] \in Nat
    BY <1>1, DefaultTagApart
  <2>2. net[DefaultTag] + n = net[DefaultTag]
    BY <1>4, <2>1
  <2>3. QED
    BY <1>1, <1>3, <2>1, <2>2
<1>6. eta' = eta
  BY <1>1, <1>3, <1>4
<1>7. faults' = faults
  BY <1>1, <1>2, <1>3, <1>4
<1>8. QED
  BY <1>5, <1>6, <1>7

\* Whatever the network does is about a message that LGS has sent.
LEMMA NetworkOfData ==
    ASSUME HelperTypes, Helper!Network
    PROVE  \/ \E k \in Keys, t \in Nat : Helper!SinkRxPartial(k, t) \/ Helper!SinkRxComplete(k, t)
           \/ Helper!StopFires
           \/ Helper!RunDry
           \/ \E k \in Keys : Helper!Resend(k) \/ Helper!Lose(k)
<1>1. CASE \E k \in Helper!Hashes, t \in 0 .. Helper!Latest(Horizon, now + 1) :
              Helper!SinkRxPartial(k, t) \/ Helper!SinkRxComplete(k, t)
  <2>1. PICK k \in Helper!Hashes, t \in 0 .. Helper!Latest(Horizon, now + 1) :
            Helper!SinkRxPartial(k, t) \/ Helper!SinkRxComplete(k, t)
    BY <1>1
  <2>2. net[k] > 0
    BY <2>1 DEF Helper!SinkRxPartial, Helper!SinkRxComplete
  <2>3. net[DefaultTag] = 0
    BY DEF HelperTypes
  <2>4. k \in Keys
    BY <2>2, <2>3, DefaultTagApart
  <2>5. t \in Nat
    OBVIOUS
  <2>6. QED
    BY <2>1, <2>4, <2>5
<1>2. QED
  BY <1>1 DEF Helper!Network

\* LGS lets NS-3 run: a Stop event more at most, at a time to come.
LEMMA SimulateTypes ==
    ASSUME HelperTypes, NEW t \in Nat, Helper!ns3_simulate_until(t) \/ Helper!ns3_simulate_forever
    PROVE  HelperTypes' /\ UNCHANGED <<now, active>> /\ mode' = "ns3"
<1>1. \/ stops' = stops
      \/ stops' = Helper!(+)(stops, Helper!SetToBag({now + t}))
  BY DEF Helper!ns3_simulate_until, Helper!ns3_simulate_forever, Helper!Simulate
<1>2. /\ latest' = None /\ mode' = "ns3"
      /\ UNCHANGED <<active, now, net, eta, faults, sent, completed, reported>>
  BY DEF Helper!ns3_simulate_until, Helper!ns3_simulate_forever, Helper!Simulate, Helper!netVars, Helper!history
<1>3. Helper!IsABag(stops') /\ Helper!BagToSet(stops') \subseteq Nat
 BY <1>1 DEF HelperTypes, Helper!TypeOK, Helper!(+), Helper!SetToBag, Helper!IsABag, Helper!BagToSet
<1>4. Helper!TypeOK'
  BY <1>2, <1>3 DEF HelperTypes, Helper!TypeOK
<1>5. latest' # DefaultTag
  BY <1>2, EngineAssumption
<1>6. QED
  BY <1>2, <1>4, <1>5 DEF HelperTypes

\* LGS hands a message over.
LEMMA ScheduleKeepsTypes ==
    ASSUME HelperTypes, NEW k \in Keys, NEW p \in Nat, Helper!ns3_schedule(k, p)
    PROVE  HelperTypes' /\ UNCHANGED now
<1>1. /\ active' = [j \in DOMAIN active \cup {k} |-> IF j = k THEN p ELSE active[j]]
      /\ net' = [net EXCEPT ![k] = @ + p]
      /\ eta' = [eta EXCEPT ![k] = IF net[k] = 0 THEN now + 1 ELSE @]
      /\ faults' = IF Helper!InFlight(k) THEN [faults EXCEPT !.reused = @ + 1] ELSE faults
      /\ sent' = [sent EXCEPT ![k] = @ + 1]
      /\ UNCHANGED <<latest, now, stops, mode, completed, reported>>
  BY DEF Helper!ns3_schedule
<1>2. DOMAIN active' \subseteq Keys /\ \A j \in DOMAIN active' : active'[j] \in Nat
  BY <1>1, HelperFacts
<1>3. net' \in [Helper!Hashes -> Nat] /\ eta' \in [Helper!Hashes -> Nat] /\ sent' \in [Keys -> Nat]
  BY <1>1, HelperFacts, DefaultTagApart
<1>4. faults' \in [reused : Nat, resent : 0 .. MaxResent, lost : 0 .. 0, answers : 0 .. 0]
  BY <1>1, HelperFacts
<1>5. Helper!IsABag(stops') /\ Helper!BagToSet(stops') \subseteq Nat
  BY <1>1 DEF HelperTypes, Helper!TypeOK, Helper!IsABag, Helper!BagToSet
<1>6. Helper!TypeOK'
  BY <1>1, <1>2, <1>3, <1>4, <1>5 DEF HelperTypes, Helper!TypeOK
<1>7. net'[DefaultTag] = net[DefaultTag]
  BY <1>1, HelperFacts, DefaultTagApart
<1>8. QED
  BY <1>1, <1>6, <1>7 DEF HelperTypes

\* A packet reaches a NIC.
LEMMA ArrivalTypes ==
    ASSUME HelperTypes, NEW k \in Keys, NEW t \in Nat,
           Helper!SinkRxPartial(k, t) \/ Helper!SinkRxComplete(k, t)
    PROVE  HelperTypes' /\ now' >= now
<1>1. /\ net[k] > 0 /\ t \in Helper!ArrivalTimes(k) /\ now' = t
      /\ Helper!update_active_map(k) /\ Helper!Deliver(k, t)
      /\ latest' \in Keys \cup {None} /\ mode' \in {"lgs", "ns3", "ret"}
      /\ UNCHANGED <<stops, sent, reported>>
      /\ completed' = completed \/ completed' = [completed EXCEPT ![k] = @ + 1]
  BY EngineAssumption, HelperFacts DEF Helper!SinkRxPartial, Helper!SinkRxComplete, Helper!history
<1>2. net' = [net EXCEPT ![k] = @ - 1] /\ UNCHANGED <<eta, faults>>
  BY <1>1, DeliverEffect
<1>3. now' \in Nat /\ now' >= now
  <2>1. now \in Nat /\ eta[k] \in Nat
    BY HelperFacts, DefaultTagApart
  <2>2. Helper!Latest(now, eta[k]) \in Nat /\ Helper!Latest(now, eta[k]) >= now
    BY <2>1 DEF Helper!Latest
  <2>3. t >= Helper!Latest(now, eta[k])
    <3>1. Helper!Latest(Helper!Latest(now, eta[k]), Horizon) \in Nat
      BY <2>2, EngineAssumption DEF Helper!Latest
    <3>2. QED
      BY <1>1, <2>2, <3>1 DEF Helper!ArrivalTimes
  <2>4. QED
    BY <1>1, <2>1, <2>2, <2>3
<1>4. DOMAIN active' \subseteq Keys /\ \A j \in DOMAIN active' : active'[j] \in Nat
  <2>1. DOMAIN active \subseteq Keys /\ \A j \in DOMAIN active : active[j] \in Nat
    BY HelperFacts
  <2>2. Helper!LeftAfter(k) \in Int
    BY <2>1 DEF Helper!LeftAfter
  <2>3. CASE Helper!LeftAfter(k) <= 0
    BY <1>1, <2>1, <2>3 DEF Helper!update_active_map
  <2>4. CASE Helper!LeftAfter(k) > 0
    <3>1. active' = [active EXCEPT ![k] = Helper!LeftAfter(k)]
      BY <1>1, <2>2, <2>4 DEF Helper!update_active_map
    <3>2. QED
      BY <2>1, <2>2, <2>4, <3>1
  <2>5. QED
    BY <2>2, <2>3, <2>4
<1>5. net' \in [Helper!Hashes -> Nat] /\ net'[DefaultTag] = net[DefaultTag]
  BY <1>1, <1>2, HelperFacts, DefaultTagApart
<1>6. completed' \in [Helper!Hashes -> Nat]
  BY <1>1, HelperFacts, DefaultTagApart
<1>7. Helper!IsABag(stops') /\ Helper!BagToSet(stops') \subseteq Nat
  BY <1>1 DEF HelperTypes, Helper!TypeOK, Helper!IsABag, Helper!BagToSet
<1>8. latest' \in Helper!Hashes \cup {None} /\ latest' # DefaultTag
  BY <1>1, DefaultTagApart, EngineAssumption
<1>9. Helper!TypeOK'
  BY <1>1, <1>2, <1>3, <1>4, <1>5, <1>6, <1>7, <1>8 DEF HelperTypes, Helper!TypeOK
<1>10. QED
  BY <1>3, <1>5, <1>8, <1>9 DEF HelperTypes

\* A run ends, and packets are repeated.
LEMMA EventTypes ==
    ASSUME HelperTypes,
           Helper!StopFires \/ Helper!RunDry \/ \E k \in Keys : Helper!Resend(k) \/ Helper!Lose(k)
    PROVE  HelperTypes'
<1>1. UNCHANGED <<active, latest, eta, sent, completed, reported>>
  BY DEF Helper!StopFires, Helper!RunDry, Helper!Resend, Helper!Lose, Helper!netVars, Helper!history
<1>2. MaxResent \in Nat
  BY EngineAssumption
<1>3. Helper!IsABag(stops) /\ Helper!BagToSet(stops) \subseteq Nat
  BY DEF HelperTypes, Helper!TypeOK
<1>4. CASE Helper!StopFires
  <2>1. PICK s \in Helper!BagToSet(stops) :
            now' = s /\ stops' = Helper!(-)(stops, Helper!SetToBag({s}))
    BY <1>4 DEF Helper!StopFires
  <2>2. mode' = "ret" /\ UNCHANGED <<net, faults>>
    BY <1>4 DEF Helper!StopFires, Helper!netVars
  <2>3. Helper!IsABag(stops') /\ Helper!BagToSet(stops') \subseteq Nat /\ now' \in Nat
    BY <1>3, <2>1 DEF Helper!(-), Helper!SetToBag, Helper!IsABag, Helper!BagToSet
  <2>4. QED
    BY <1>1, <2>2, <2>3 DEF HelperTypes, Helper!TypeOK
<1>5. CASE Helper!RunDry
  <2>1. mode' = "ret" /\ UNCHANGED <<net, faults, stops>> /\ now' \in Nat
    BY <1>5, HelperFacts DEF Helper!RunDry, Helper!netVars, Helper!Latest, Helper!EndOfTime
  <2>2. Helper!IsABag(stops') /\ Helper!BagToSet(stops') \subseteq Nat
    BY <1>3, <2>1 DEF Helper!IsABag, Helper!BagToSet
  <2>3. QED
    BY <1>1, <2>1, <2>2 DEF HelperTypes, Helper!TypeOK
<1>6. CASE \E k \in Keys : Helper!Resend(k) \/ Helper!Lose(k)
  <2>1. PICK k \in Keys : Helper!Resend(k) \/ Helper!Lose(k)
    BY <1>6
  <2>2. UNCHANGED <<now, stops, mode>> /\ net[k] > 0
    BY <2>1 DEF Helper!Resend, Helper!Lose
  <2>3. net' \in [Helper!Hashes -> Nat] /\ net'[DefaultTag] = net[DefaultTag]
    <3>1. net' = [net EXCEPT ![k] = @ + 1] \/ net' = [net EXCEPT ![k] = @ - 1]
      BY <2>1 DEF Helper!Resend, Helper!Lose
    <3>2. QED
      BY <2>2, <3>1, HelperFacts, DefaultTagApart
  <2>4. faults' \in [reused : Nat, resent : 0 .. MaxResent, lost : 0 .. 0, answers : 0 .. 0]
    BY <1>2, <2>1, HelperFacts DEF Helper!Resend, Helper!Lose
  <2>5. Helper!IsABag(stops') /\ Helper!BagToSet(stops') \subseteq Nat
    BY <1>3, <2>2 DEF Helper!IsABag, Helper!BagToSet
  <2>6. QED
    BY <1>1, <2>2, <2>3, <2>4, <2>5 DEF HelperTypes, Helper!TypeOK
<1>7. QED
  BY <1>4, <1>5, <1>6

\* A step of NS-3 keeps the types of the interface.
LEMMA NetworkTypes == ASSUME HelperTypes, Helper!Network PROVE HelperTypes'
BY NetworkOfData, ArrivalTypes, EventTypes

\* A message is returned to LGS.
LEMMA ReturnTypes ==
    ASSUME HelperTypes, Helper!Return
    PROVE  HelperTypes' /\ UNCHANGED now
<1>1. UNCHANGED <<active, latest, now, stops, net, eta, faults, sent, completed>> /\ mode' = "lgs"
  BY DEF Helper!Return, Helper!netVars
<1>2. reported' \in [Helper!Hashes -> Nat]
  BY HelperFacts, DefaultTagApart DEF Helper!Return
<1>3. Helper!IsABag(stops') /\ Helper!BagToSet(stops') \subseteq Nat
  BY <1>1 DEF HelperTypes, Helper!TypeOK, Helper!IsABag, Helper!BagToSet
<1>4. QED
  BY <1>1, <1>2, <1>3 DEF HelperTypes, Helper!TypeOK

-----------------------------------------------------------------------------
(* The steps of the engine keep its types.                                 *)

\* Both cases of a send keep the types.
LEMMA SendTypes ==
    ASSUME Types, NEW e, SendStart(e) \/ SendDrop(e)
    PROVE  Types'
<1>1. Due(e) /\ Popped /\ e.type = "SEND" /\ Replaces(e, {})
  BY DEF SendStart, SendDrop, Pop, Replaces
<1>2. /\ ControlTypes' /\ prog' = prog /\ UNCHANGED <<aqtime, temp>> /\ e \in aq
      /\ e \in ElementType /\ Genuine(e)
  BY <1>1, PopControl
<1>3. AqTypes'
  BY <1>1, <1>2, ReplaceTypes
<1>4. OfOperation(e) /\ Op(e.op) \in Operation /\ e.op \in Ops /\ e.host \in Hosts
  BY <1>1, <1>2, ScheduleTypes DEF Genuine, OfOperation, ElementType, Types, GraphTypes
<1>5. Ops' = Ops
  BY <1>2 DEF Ops
<1>6. CASE SendStart(e)
  <2>1. /\ Walk(StartList(e.op) \cup DoneList(e.op)) /\ UNCHANGED <<queueVars, clockVars, dropped>>
        /\ started' = Append(started, e.op) /\ done' = done \cup {e.op}
        /\ Helper!ns3_schedule(KeyOf(e.host, e.src, e.tag), Op(e.op).size)
    BY <1>6 DEF SendStart
  <2>2. GraphTypes' /\ QueueTypes' /\ ClockTypes'
    BY <1>2, <2>1, WalkTypes, ListsAreEdges, Frame DEF Types
  <2>3. HistoryTypes'
    BY <1>4, <1>5, <2>1, AppendProperties DEF Types, HistoryTypes
  <2>4. KeyOf(e.host, e.src, e.tag) \in Keys /\ Op(e.op).size \in Nat
    BY <1>1, <1>4, ScheduleTypes DEF OfOperation, Operation, Types, GraphTypes
  <2>5. HelperTypes'
    BY <2>1, <2>4, ScheduleKeepsTypes DEF Types
  <2>6. QED
    BY <1>2, <1>3, <2>2, <2>3, <2>5 DEF Types
<1>7. CASE SendDrop(e)
  <2>1. /\ UNCHANGED <<graphVars, queueVars, clockVars, started, done>>
        /\ UNCHANGED helperVars /\ dropped' = dropped \cup {e.op}
    BY <1>7 DEF SendDrop, Pop
  <2>2. GraphTypes' /\ QueueTypes' /\ ClockTypes' /\ HelperTypes'
    BY <1>2, <2>1, Frame
  <2>3. HistoryTypes'
    BY <1>4, <1>5, <2>1 DEF Types, HistoryTypes
  <2>4. QED
    BY <1>2, <1>3, <2>2, <2>3 DEF Types
<1>8. QED
  BY <1>6, <1>7

\* match finds the first element of a queue that fits.
LEMMA FirstMatchFits ==
    ASSUME NEW S, NEW q \in Seq(S), NEW e, Match!Matches(e, q) # {}
    PROVE  /\ Match!FirstMatch(e, q) \in DOMAIN q
           /\ Match!Fits(e, q[Match!FirstMatch(e, q)])
<1>1. Match!Matches(e, q) \subseteq Nat
  BY LenProperties DEF Match!Matches
<1>2. Match!FirstMatch(e, q) = Min(Match!Matches(e, q))
  BY DEF Match!FirstMatch, Match!Min, Min
<1>3. Match!FirstMatch(e, q) \in Match!Matches(e, q)
  BY <1>1, <1>2, LeastExists
<1>4. QED
  BY <1>3 DEF Match!Matches

\* Both cases of a receive keep the types.
LEMMA RecvTypes ==
    ASSUME Types, NEW e, RecvMatched(e) \/ RecvQueued(e)
    PROVE  Types'
<1>1. Due(e) /\ Popped /\ UNCHANGED helperVars /\ e.type = "RECV" /\ Replaces(e, {})
  BY DEF RecvMatched, RecvQueued, Pop, Replaces
<1>2. /\ ControlTypes' /\ prog' = prog /\ UNCHANGED <<aqtime, temp>> /\ e \in aq
      /\ e \in ElementType /\ Genuine(e)
  BY <1>1, PopControl
<1>3. AqTypes' /\ HelperTypes'
  BY <1>1, <1>2, ReplaceTypes, Frame
<1>4. OfOperation(e) /\ e.op \in Ops /\ e.host \in Hosts
  BY <1>1, <1>2 DEF Genuine, OfOperation, ElementType
<1>5. Ops' = Ops /\ RecvWaiting' = RecvWaiting
  BY <1>2 DEF Ops, RecvWaiting
<1>6. CASE RecvMatched(e)
  <2> DEFINE i == Match!FirstMatch(e, uq[e.host])
  <2>1. /\ Walk(StartList(e.op) \cup DoneList(e.op)) /\ UNCHANGED <<rq, clockVars, dropped>>
        /\ started' = Append(started, e.op) /\ done' = done \cup {e.op}
        /\ Match!Matches(e, uq[e.host]) # {}
        /\ uq' = [uq EXCEPT ![e.host] = RemoveAt(uq[e.host], i)]
    BY <1>6 DEF RecvMatched
  <2>2. GraphTypes' /\ ClockTypes'
    BY <1>2, <2>1, WalkTypes, ListsAreEdges, Frame DEF Types
  <2>3. HistoryTypes'
    BY <1>4, <1>5, <2>1, AppendProperties DEF Types, HistoryTypes
  <2>4. QueueTypes'
    <3>1. uq[e.host] \in Seq(MsgWaiting)
      BY <1>4 DEF Types, QueueTypes
    <3>2. i \in DOMAIN uq[e.host]
      BY <2>1, <3>1, FirstMatchFits
    <3> HIDE DEF i
    <3>3. RemoveAt(uq[e.host], i) \in Seq(MsgWaiting)
      BY <3>1, <3>2, RemoveAtProperties
    <3>4. QED
      BY <1>5, <2>1, <3>3 DEF Types, QueueTypes
  <2>5. QED
    BY <1>2, <1>3, <2>2, <2>3, <2>4 DEF Types
<1>7. CASE RecvQueued(e)
  <2>1. /\ Walk(StartList(e.op)) /\ UNCHANGED <<uq, clockVars, done, dropped>>
        /\ started' = Append(started, e.op)
        /\ rq' = [rq EXCEPT ![e.host] = Append(rq[e.host], Match!Element(e, e.op))]
    BY <1>7 DEF RecvQueued
  <2>2. GraphTypes' /\ ClockTypes'
    BY <1>2, <2>1, WalkTypes, ListsAreEdges, Frame DEF Types
  <2>3. HistoryTypes'
    BY <1>4, <1>5, <2>1, AppendProperties DEF Types, HistoryTypes
  <2>4. Match!Element(e, e.op) \in RecvWaiting
    BY <1>2, <1>4 DEF Match!Element, RecvWaiting, ElementType
  <2>5. QueueTypes'
    <3>1. rq[e.host] \in Seq(RecvWaiting)
      BY <1>4 DEF Types, QueueTypes
    <3>2. Append(rq[e.host], Match!Element(e, e.op)) \in Seq(RecvWaiting)
      BY <2>4, <3>1, AppendProperties
    <3>3. QED
      BY <1>5, <2>1, <3>2 DEF Types, QueueTypes
  <2>6. QED
    BY <1>2, <1>3, <2>2, <2>3, <2>5 DEF Types
<1>8. QED
  BY <1>6, <1>7

\* The three cases of a message keep the types.
LEMMA MsgTypes ==
    ASSUME Types, NEW e, MsgMatched(e) \/ MsgQueued(e) \/ MsgReinsert(e)
    PROVE  Types'
<1>1. Due(e) /\ Popped /\ UNCHANGED helperVars /\ e.type = "MSG"
  BY DEF MsgMatched, MsgQueued, MsgReinsert, Pop
<1>2. /\ ControlTypes' /\ prog' = prog /\ UNCHANGED <<aqtime, temp>> /\ e \in aq
      /\ e \in ElementType /\ Genuine(e)
  BY <1>1, PopControl
<1>3. HelperTypes'
  BY <1>1, <1>2, Frame
<1>4. OfMessage(e) /\ e.host \in Hosts /\ e.time \in Nat
  BY <1>1, <1>2 DEF Genuine, ElementType
<1>5. Ops' = Ops /\ RecvWaiting' = RecvWaiting
  BY <1>2 DEF Ops, RecvWaiting
<1>6. /\ nexto \in [Hosts -> [CPUs -> Nat]] /\ nextgr \in [Hosts -> Nat] /\ 0 \in CPUs
  BY DEF Types, ClockTypes, CPUs
<1>7. ASSUME Occupy(e) PROVE ClockTypes'
  <2>1. nexto' = [nexto EXCEPT ![e.host][0] = e.time] /\ nextgr' = [nextgr EXCEPT ![e.host] = e.time]
    BY <1>7 DEF Occupy
  <2>2. nexto' \in [Hosts -> [CPUs -> Nat]]
    BY <1>4, <1>6, <2>1
  <2>3. nextgr' \in [Hosts -> Nat]
    BY <1>4, <1>6, <2>1
  <2>4. QED
    BY <2>2, <2>3 DEF ClockTypes
<1>8. CASE MsgMatched(e)
  <2> DEFINE i == Match!FirstMatch(e, rq[e.host])
             x == rq[e.host][i].offset
  <2>1. /\ Walk(DoneList(x)) /\ UNCHANGED <<uq, started, dropped>> /\ done' = done \cup {x}
        /\ Match!Matches(e, rq[e.host]) # {} /\ Occupy(e) /\ Replaces(e, {})
        /\ rq' = [rq EXCEPT ![e.host] = RemoveAt(rq[e.host], i)]
    BY <1>8 DEF MsgMatched, Replaces
  <2>2. rq[e.host] \in Seq(RecvWaiting) /\ rq \in [Hosts -> Seq(RecvWaiting)]
    BY <1>4 DEF Types, QueueTypes
  <2>3. i \in DOMAIN rq[e.host]
    BY <2>1, <2>2, FirstMatchFits
  <2> HIDE DEF i
  <2>4. x \in Ops
    <3>1. rq[e.host][i] \in RecvWaiting
      <4> HIDE DEF x
      <4>1. QED
        BY <2>2, <2>3, LenProperties
    <3>2. QED
      BY <3>1 DEF RecvWaiting
  <2>5. QueueTypes'
    <3>1. RemoveAt(rq[e.host], i) \in Seq(RecvWaiting)
      BY <2>2, <2>3, RemoveAtProperties
    <3>2. rq' \in [Hosts -> Seq(RecvWaiting)]
      BY <2>1, <2>2, <3>1
    <3>3. uq' \in [Hosts -> Seq(MsgWaiting)] /\ MsgWaiting' = MsgWaiting
      BY <2>1 DEF Types, QueueTypes, MsgWaiting
    <3>4. QED
      BY <1>5, <3>2, <3>3 DEF QueueTypes
  <2> HIDE DEF x
  <2>6. GraphTypes' /\ AqTypes'
    BY <1>2, <2>1, WalkTypes, ListsAreEdges, ReplaceTypes DEF Types
  <2>7. HistoryTypes'
    BY <1>5, <2>1, <2>4 DEF Types, HistoryTypes
  <2>8. QED
    BY <1>2, <1>3, <1>7, <2>1, <2>5, <2>6, <2>7 DEF Types
<1>9. CASE MsgQueued(e)
  <2>1. /\ UNCHANGED <<graphVars, rq, historyVars>> /\ Occupy(e) /\ Replaces(e, {})
        /\ uq' = [uq EXCEPT ![e.host] = Append(uq[e.host], Match!Element(e, e.op))]
    BY <1>9 DEF MsgQueued, Replaces
  <2>2. GraphTypes' /\ HistoryTypes' /\ AqTypes'
    BY <1>2, <2>1, Frame, ReplaceTypes
  <2>3. Match!Element(e, e.op) \in MsgWaiting
    BY <1>2, <1>4 DEF Match!Element, MsgWaiting, OfMessage
  <2>4. QueueTypes'
    <3>1. uq[e.host] \in Seq(MsgWaiting)
      BY <1>4 DEF Types, QueueTypes
    <3>2. Append(uq[e.host], Match!Element(e, e.op)) \in Seq(MsgWaiting)
      BY <2>3, <3>1, AppendProperties
    <3>3. QED
      BY <1>5, <2>1, <3>2 DEF Types, QueueTypes
  <2>5. QED
    BY <1>2, <1>3, <1>7, <2>1, <2>2, <2>4 DEF Types
<1>10. CASE MsgReinsert(e)
  <2>1. PICK u \in Unset :
            Replaces(e, {[e EXCEPT !.time = Max({nexto[e.host][0], nextgr[e.host], u})]})
    BY <1>10 DEF MsgReinsert, Replaces
  <2> DEFINE t == Max({nexto[e.host][0], nextgr[e.host], u})
             f == [e EXCEPT !.time = t]
  <2>2. t \in Nat
    <3>1. nexto[e.host][0] \in Nat /\ nextgr[e.host] \in Nat /\ u \in Nat
      BY <1>4, <1>6, EngineAssumption
    <3>2. QED
      BY <3>1, MaxOfThree
  <2>3. UNCHANGED <<graphVars, queueVars, clockVars, historyVars>>
    BY <1>10 DEF MsgReinsert
  <2>4. GraphTypes' /\ QueueTypes' /\ ClockTypes' /\ HistoryTypes'
    BY <1>2, <2>3, Frame
  <2> HIDE DEF t
  <2>5. f \in ElementType /\ Genuine(f)
    BY <1>1, <1>2, <2>2 DEF Genuine, OfMessage, ElementType
  <2>6. AqTypes'
    <3>1. Replaces(e, {f})
      BY <2>1 DEF t
    <3> HIDE DEF f
    <3>2. QED
      BY <1>2, <2>5, <3>1, ReplaceTypes
  <2>7. QED
    BY <1>2, <1>3, <2>4, <2>6 DEF Types
<1>11. QED
  BY <1>8, <1>9, <1>10
\* The steps outside of the inner loop.
LEMMA LoopTypes ==
    ASSUME Types,
           \/ EnterMain \/ EnterLoop \/ LeaveLoop \/ Exit \/ SkipNs3 \/ EndCycle
    PROVE  Types'
<1>1. /\ UNCHANGED <<prog, graphVars, aq, aqtime, queueVars, clockVars, historyVars, helperVars>>
  BY DEF EnterMain, EnterLoop, LeaveLoop, Exit, SkipNs3, EndCycle
<1>2. GraphTypes' /\ QueueTypes' /\ ClockTypes' /\ HistoryTypes' /\ HelperTypes'
  BY <1>1, Frame
<1>3. temp' \in Nat
  <2>1. temp \in Nat /\ now \in Nat
    BY DEF Types, AqTypes, HelperTypes, Helper!TypeOK
  <2>2. ASSUME aq # {} PROVE Min({e.time : e \in aq}) \in Nat
    <3>1. {e.time : e \in aq} \subseteq Nat
      BY DEF Types, AqTypes, ElementType
    <3>2. {e.time : e \in aq} # {}
      BY <2>2
    <3>3. QED
      BY <3>1, <3>2, LeastExists
  <2>3. temp' = temp \/ temp' = IF aq = {} THEN now ELSE Min({e.time : e \in aq})
    BY DEF EnterMain, EnterLoop, LeaveLoop, Exit, SkipNs3, EndCycle
  <2>4. QED
    BY <2>1, <2>2, <2>3
<1>4. AqTypes'
  <2>1. \A e : Genuine(e)' <=> Genuine(e)
    BY <1>1 DEF Genuine, OfMessage, OfOperation, Op, Ops
  <2>2. QED
    BY <1>1, <1>3, <2>1 DEF Types, AqTypes
<1>5. ControlTypes'
  <2>1. CycleLimit \in Nat
    BY EngineAssumption
  <2>2. CASE EnterMain
    BY <2>1, <2>2 DEF EnterMain, Types, ControlTypes
  <2>3. CASE EnterLoop
    BY <2>1, <2>3 DEF EnterLoop, Types, ControlTypes
  <2>4. CASE LeaveLoop
    BY <2>1, <2>4 DEF LeaveLoop, Types, ControlTypes
  <2>5. CASE Exit
    BY <2>1, <2>5 DEF Exit, Types, ControlTypes
  <2>6. CASE SkipNs3
    BY <2>1, <2>6 DEF SkipNs3, Types, ControlTypes
  <2>7. CASE EndCycle
    BY <2>1, <2>7 DEF EndCycle, Types, ControlTypes
  <2>8. QED
    BY <2>2, <2>3, <2>4, <2>5, <2>6, <2>7
<1>6. QED
  BY <1>2, <1>4, <1>5 DEF Types

\* A free operation goes to aq.
LEMMA InsertTypes ==
    ASSUME Types, InsertFreeOp, pc \in {"init", "free"}
    PROVE  Types'
<1>1. PICK i \in DOMAIN executableNodes :
          /\ aq' = aq \cup {OpElement(executableNodes[i], now, aqtime)}
          /\ executableNodes' = RemoveAt(executableNodes, i)
  BY DEF InsertFreeOp
<1>2. /\ UNCHANGED <<prog, depCnt, temp, queueVars, clockVars, cycles, pc, historyVars, helperVars>>
      /\ aqtime' = aqtime + 1
  BY DEF InsertFreeOp
<1>3. QueueTypes' /\ ClockTypes' /\ HistoryTypes' /\ HelperTypes'
  BY <1>2, Frame
<1>4. executableNodes \in Seq(Ops) /\ executableNodes[i] \in Ops
  BY LenProperties DEF Types, GraphTypes
<1>5. GraphTypes'
  <2>1. executableNodes' \in Seq(Ops)
    BY <1>1, <1>4, RemoveAtProperties
  <2>2. QED
    BY <1>2, <2>1 DEF Types, GraphTypes, Ops
<1> DEFINE x == executableNodes[i]
           f == OpElement(x, now, aqtime)
<1>6. f \in ElementType /\ Genuine(f)
  <2> HIDE DEF x
  <2>1. x \in Ops /\ x \in AllOps /\ Op(x) \in Operation /\ now \in Nat /\ aqtime \in Nat
    BY <1>4, ScheduleTypes DEF x, Types, GraphTypes, AqTypes, HelperTypes, Helper!TypeOK
  <2>2. f \in ElementType
    BY <2>1 DEF OpElement, ElementType, Operation
  <2>3. f.type # "MSG" /\ OfOperation(f)
    BY <2>1 DEF OpElement, OfOperation, Operation
  <2>4. QED
    BY <2>2, <2>3 DEF Genuine
<1> HIDE DEF x
<1>7. AqTypes'
  <2>1. \A e : Genuine(e)' <=> Genuine(e)
    BY <1>2 DEF Genuine, OfMessage, OfOperation, Op, Ops
  <2>2. aqtime' \in Nat /\ temp' \in Nat
    BY <1>2 DEF Types, AqTypes
  <2>3. aq' = aq \cup {f}
    BY <1>1 DEF x
  <2> HIDE DEF f
  <2>4. QED
    BY <1>6, <2>1, <2>2, <2>3 DEF Types, AqTypes
<1>8. ControlTypes'
  BY <1>2 DEF Types, ControlTypes
<1>9. QED
  BY <1>3, <1>5, <1>7, <1>8 DEF Types

\* NS-3 has the control, and gives it back.
LEMMA Ns3Types ==
    ASSUME Types, RunNs3 \/ Network \/ Return
    PROVE  Types'
<1>1. UNCHANGED <<prog, graphVars, aqtime, temp, queueVars, clockVars, cycles, historyVars>>
  BY DEF RunNs3, Network, Return, engineVars
<1>2. GraphTypes' /\ QueueTypes' /\ ClockTypes' /\ HistoryTypes'
  BY <1>1, Frame
<1>3. ControlTypes'
  <2>1. pc \in {"inner", "sim"} /\ pc' \in {"sim", "free"}
    BY DEF RunNs3, Network, Return, engineVars
  <2>2. QED
    BY <1>1, <2>1 DEF Types, ControlTypes
<1>4. HelperTypes'
  <2>1. CASE RunNs3
    <3>1. temp \in Nat
      BY DEF Types, AqTypes
    <3>2. QED
      BY <2>1, <3>1, SimulateTypes DEF RunNs3, Types
  <2>2. CASE Network
    BY <2>2, NetworkTypes DEF Network, Types
  <2>3. CASE Return
    BY <2>3, ReturnTypes DEF Return, Types
  <2>4. QED
    BY <2>1, <2>2, <2>3
<1>5. AqTypes'
  <2>1. CASE UNCHANGED aq
    BY <1>1, <2>1, Frame
  <2>2. CASE Return /\ latest # None
    <3>1. aq' = aq \cup {MsgElement(latest)}
      BY <2>2 DEF Return
    <3>2. latest \in Keys /\ now \in Nat /\ cycles \in Nat
      BY <2>2, HelperFacts DEF Types, ControlTypes
    <3>3. MsgElement(latest) \in ElementType /\ Genuine(MsgElement(latest))
      BY <3>2, KeyTypes DEF MsgElement, ElementType, Genuine, OfMessage
    <3>4. \A e : Genuine(e)' <=> Genuine(e)
      BY <1>1 DEF Genuine, OfMessage, OfOperation, Op, Ops
    <3>5. QED
      BY <1>1, <3>1, <3>3, <3>4 DEF Types, AqTypes
  <2>3. QED
    BY <2>1, <2>2 DEF RunNs3, Network, Return, engineVars
<1>6. QED
  BY <1>2, <1>3, <1>4, <1>5 DEF Types

\* What waits in the queues of a host.
LEMMA QueueElements ==
    ASSUME QueueTypes, NEW h \in Hosts
    PROVE  /\ rq[h] \in Seq(RecvWaiting) /\ uq[h] \in Seq(MsgWaiting)
           /\ \A i \in DOMAIN rq[h] : rq[h][i] \in RecvWaiting
           /\ \A i \in DOMAIN uq[h] : uq[h][i] \in MsgWaiting
<1>1. rq[h] \in Seq(RecvWaiting) /\ uq[h] \in Seq(MsgWaiting)
  BY DEF QueueTypes
<1>2. QED
  BY <1>1, LenProperties

\* The types hold when a schedule has been read.
LEMMA InitTypes == Init => Types
<1> SUFFICES ASSUME Init PROVE Types
  OBVIOUS
<1>1. /\ Ops \subseteq AllOps /\ Ops \subseteq Nat /\ IsFiniteSet(Ops) /\ IsFiniteSet(Edges)
      /\ \A e \in Edges : e.of \in Ops /\ e.on \in Ops
  BY ScheduleTypes DEF Init
<1>2. GraphTypes
  <2>1. depCnt = [x \in AllOps |-> Cardinality(Graph!Of(Edges, x))]
    BY SameCardinality DEF Init, Graph!DependenciesCnt, Edges
  <2>2. \A x \in AllOps : Graph!Of(Edges, x) \in SUBSET Edges
    BY DEF Graph!Of
  <2>3. depCnt \in [AllOps -> Int]
    <3>1. \A x \in AllOps : Cardinality(Graph!Of(Edges, x)) \in Nat
      BY <1>1, <2>2, FS_Subset, FS_CardinalityType
    <3>2. QED
      BY <2>1, <3>1
  <2>4. ASSUME NEW x \in AllOps \ Ops PROVE depCnt[x] <= 0
    <3>1. Graph!Of(Edges, x) = {}
      BY <1>1, <2>4 DEF Graph!Of
    <3>2. QED
      BY <2>1, <3>1, FS_EmptySet
  <2>5. executableNodes \in Seq(Ops)
    <3> DEFINE S == {x \in Ops : depCnt[x] = 0}
    <3>1. S \in SUBSET Ops
      OBVIOUS
    <3>2. executableNodes = InOrder(S)
      BY DEF Init
    <3> HIDE DEF S
    <3>3. S \subseteq Nat /\ IsFiniteSet(S)
      BY <1>1, <3>1, FS_Subset
    <3>4. InOrder(S) \in Seq(S)
      BY <3>3, InOrderLists
    <3>5. QED
      BY <3>1, <3>2, <3>4, SeqMonotonic
  <2>6. QED
    BY <2>3, <2>4, <2>5 DEF Init, GraphTypes
<1>3. AqTypes /\ QueueTypes /\ ClockTypes /\ ControlTypes /\ HistoryTypes
  BY EngineAssumption DEF Init, AqTypes, QueueTypes, ClockTypes, ControlTypes, HistoryTypes
<1>4. HelperTypes
  BY EngineAssumption, DefaultTagApart DEF Init, Helper!HelperInit, HelperTypes, Helper!TypeOK,
     Helper!NoFaults, Helper!EmptyBag, Helper!SetToBag, Helper!IsABag, Helper!BagToSet
<1>5. QED
  BY <1>2, <1>3, <1>4 DEF Types

\* Every step keeps the types.
LEMMA NextTypes == Types /\ [Next]_vars => Types'
<1> SUFFICES ASSUME Types, [Next]_vars PROVE Types'
  OBVIOUS
<1>1. CASE InitialFreeOp \/ FreeOp
  BY <1>1, InsertTypes DEF InitialFreeOp, FreeOp
<1>2. CASE EnterMain \/ EnterLoop \/ LeaveLoop \/ Exit \/ SkipNs3 \/ EndCycle
  BY <1>2, LoopTypes
<1>3. CASE Element
  BY <1>3, CalcTypes, SendTypes, RecvTypes, MsgTypes DEF Element
<1>4. CASE RunNs3 \/ Network \/ Return
  BY <1>4, Ns3Types
<1>5. CASE UNCHANGED vars
  <2>1. UNCHANGED <<engineVars, helperVars>>
    BY <1>5 DEF vars
  <2>2. prog' = prog /\ UNCHANGED <<graphVars, aq, aqtime, temp, queueVars, clockVars, historyVars>>
    BY <2>1 DEF engineVars
  <2>3. ControlTypes'
    BY <2>1 DEF engineVars, Types, ControlTypes
  <2>4. QED
    BY <2>1, <2>2, <2>3, Frame DEF Types
<1>6. QED
  BY <1>1, <1>2, <1>3, <1>4, <1>5 DEF Next, Terminated

\* Whatever is run, whatever the network does and whatever the variables hold
\* that nobody initialises: the engine stays within its types, an operation
\* in hand belongs to the schedule, and the cycles end.
THEOREM TypeCorrect == Spec => []TypeOK
<1>1. Types => TypeOK
  <2> SUFFICES ASSUME Types PROVE TypeOK
    OBVIOUS
  <2>1. \A h \in Hosts : \A i \in DOMAIN rq[h] : rq[h][i].offset \in Ops
    <3>1. ASSUME NEW h \in Hosts, NEW i \in DOMAIN rq[h] PROVE rq[h][i].offset \in Ops
      <4>1. rq[h][i] \in RecvWaiting
        BY QueueElements DEF Types
      <4>2. QED
        BY <4>1 DEF RecvWaiting
    <3>2. QED
      BY <3>1
  <2>2. \A h \in Hosts : \A i \in DOMAIN uq[h] : uq[h][i].src \in Hosts
    <3>1. ASSUME NEW h \in Hosts, NEW i \in DOMAIN uq[h] PROVE uq[h][i].src \in Hosts
      <4>1. uq[h][i] \in MsgWaiting
        BY QueueElements DEF Types
      <4>2. QED
        BY <4>1 DEF MsgWaiting
    <3>2. QED
      BY <3>1
  <2>3. cycles \in 0 .. CycleLimit + 2
    BY EngineAssumption DEF Types, ControlTypes
  <2>4. ToSet(started) \subseteq Ops
    BY LenProperties DEF Types, HistoryTypes, ToSet
  <2>5. QED
    BY <2>1, <2>2, <2>3, <2>4
       DEF TypeOK, Types, GraphTypes, AqTypes, ClockTypes, ControlTypes, HistoryTypes, HelperTypes
<1>2. QED
  BY <1>1, InitTypes, NextTypes, PTL DEF Spec

-----------------------------------------------------------------------------
(* Matching.                                                               *)

\* Whoever is queued has found no one in the other queue, and no one else
\* comes into a queue.
LEMMA NothingMissedStep ==
    ASSUME Types, NoMissedMatch, [Next]_vars
    PROVE  NoMissedMatch'
<1>1. CASE UNCHANGED queueVars
  BY <1>1 DEF NoMissedMatch, queueVars
<1>2. ASSUME NEW e \in aq, RecvMatched(e) PROVE NoMissedMatch'
  <2> DEFINE i == Match!FirstMatch(e, uq[e.host])
  <2>1. e.host \in Hosts
    BY DEF Types, AqTypes, ElementType
  <2>2. uq[e.host] \in Seq(MsgWaiting) /\ uq \in [Hosts -> Seq(MsgWaiting)]
    BY <2>1 DEF Types, QueueTypes
  <2>3. rq' = rq /\ uq' = [uq EXCEPT ![e.host] = RemoveAt(uq[e.host], i)] /\ i \in DOMAIN uq[e.host]
    BY <1>2, <2>2, FirstMatchFits DEF RecvMatched
  <2> HIDE DEF i
  <2>4. \A j \in DOMAIN RemoveAt(uq[e.host], i) :
            \E k \in DOMAIN uq[e.host] : RemoveAt(uq[e.host], i)[j] = uq[e.host][k]
    BY <2>2, <2>3, RemoveAtSources
  <2>5. \A h \in Hosts : \A j \in DOMAIN uq'[h] : \E k \in DOMAIN uq[h] : uq'[h][j] = uq[h][k]
    BY <2>1, <2>2, <2>3, <2>4
  <2>6. QED
    BY <2>3, <2>5 DEF NoMissedMatch
<1>3. ASSUME NEW e \in aq, MsgMatched(e) PROVE NoMissedMatch'
  <2> DEFINE i == Match!FirstMatch(e, rq[e.host])
  <2>1. e.host \in Hosts
    BY DEF Types, AqTypes, ElementType
  <2>2. rq[e.host] \in Seq(RecvWaiting) /\ rq \in [Hosts -> Seq(RecvWaiting)]
    BY <2>1 DEF Types, QueueTypes
  <2>3. uq' = uq /\ rq' = [rq EXCEPT ![e.host] = RemoveAt(rq[e.host], i)] /\ i \in DOMAIN rq[e.host]
    BY <1>3, <2>2, FirstMatchFits DEF MsgMatched
  <2> HIDE DEF i
  <2>4. \A j \in DOMAIN RemoveAt(rq[e.host], i) :
            \E k \in DOMAIN rq[e.host] : RemoveAt(rq[e.host], i)[j] = rq[e.host][k]
    BY <2>2, <2>3, RemoveAtSources
  <2>5. \A h \in Hosts : \A j \in DOMAIN rq'[h] : \E k \in DOMAIN rq[h] : rq'[h][j] = rq[h][k]
    BY <2>1, <2>2, <2>3, <2>4
  <2>6. QED
    BY <2>3, <2>5 DEF NoMissedMatch
<1>4. ASSUME NEW e \in aq, RecvQueued(e) PROVE NoMissedMatch'
  <2> DEFINE x == Match!Element(e, e.op)
  <2>1. e.host \in Hosts
    BY DEF Types, AqTypes, ElementType
  <2>2. rq[e.host] \in Seq(RecvWaiting) /\ rq \in [Hosts -> Seq(RecvWaiting)]
    BY <2>1 DEF Types, QueueTypes
  <2>3. uq' = uq /\ rq' = [rq EXCEPT ![e.host] = Append(rq[e.host], x)]
    BY <1>4 DEF RecvQueued
  <2>4. \A j \in DOMAIN uq[e.host] : ~Match!Fits(x, uq[e.host][j])
    BY <1>4 DEF RecvQueued, Match!Matches, Match!Fits, Match!Element
  <2> HIDE DEF x
  <2>5. \A j \in DOMAIN Append(rq[e.host], x) :
            \/ Append(rq[e.host], x)[j] = x
            \/ \E k \in DOMAIN rq[e.host] : Append(rq[e.host], x)[j] = rq[e.host][k]
    BY <2>2, AppendElements
  <2>6. \A h \in Hosts : \A j \in DOMAIN rq'[h] :
            \/ h = e.host /\ rq'[h][j] = x
            \/ \E k \in DOMAIN rq[h] : rq'[h][j] = rq[h][k]
    BY <2>1, <2>2, <2>3, <2>5
  <2>7. QED
    BY <2>3, <2>4, <2>6 DEF NoMissedMatch
<1>5. ASSUME NEW e \in aq, MsgQueued(e) PROVE NoMissedMatch'
  <2> DEFINE x == Match!Element(e, e.op)
  <2>1. e.host \in Hosts
    BY DEF Types, AqTypes, ElementType
  <2>2. uq[e.host] \in Seq(MsgWaiting) /\ uq \in [Hosts -> Seq(MsgWaiting)]
    BY <2>1 DEF Types, QueueTypes
  <2>3. rq' = rq /\ uq' = [uq EXCEPT ![e.host] = Append(uq[e.host], x)]
    BY <1>5 DEF MsgQueued
  <2>4. \A j \in DOMAIN rq[e.host] : ~Match!Fits(rq[e.host][j], x)
    BY <1>5 DEF MsgQueued, Match!Matches, Match!Fits, Match!Element
  <2> HIDE DEF x
  <2>5. \A j \in DOMAIN Append(uq[e.host], x) :
            \/ Append(uq[e.host], x)[j] = x
            \/ \E k \in DOMAIN uq[e.host] : Append(uq[e.host], x)[j] = uq[e.host][k]
    BY <2>2, AppendElements
  <2>6. \A h \in Hosts : \A j \in DOMAIN uq'[h] :
            \/ h = e.host /\ uq'[h][j] = x
            \/ \E k \in DOMAIN uq[h] : uq'[h][j] = uq[h][k]
    BY <2>1, <2>2, <2>3, <2>5
  <2>7. QED
    BY <2>3, <2>4, <2>6 DEF NoMissedMatch
<1>6. QED
  <2>1. ASSUME NEW e \in aq, \/ CalcStart(e) \/ CalcReinsert(e) \/ CalcDone(e)
                              \/ SendStart(e) \/ SendDrop(e) \/ MsgReinsert(e)
        PROVE  UNCHANGED queueVars
    BY <2>1 DEF CalcStart, CalcReinsert, CalcDone, SendStart, SendDrop, MsgReinsert
  <2>2. CASE Element
    BY <1>1, <1>2, <1>3, <1>4, <1>5, <2>1, <2>2 DEF Element
  <2>3. CASE \/ InitialFreeOp \/ EnterMain \/ EnterLoop \/ LeaveLoop \/ Exit \/ SkipNs3
             \/ RunNs3 \/ Network \/ Return \/ FreeOp \/ EndCycle \/ Terminated \/ UNCHANGED vars
    <3>1. UNCHANGED queueVars
      BY <2>3 DEF InitialFreeOp, EnterMain, EnterLoop, LeaveLoop, Exit, SkipNs3, RunNs3,
         Network, Return, FreeOp, EndCycle, Terminated, InsertFreeOp, vars, engineVars
    <3>2. QED
      BY <1>1, <3>1
  <2>4. QED
    BY <2>2, <2>3 DEF Next

\* A receive and a message that fit never both wait: the property of the
\* matching alone, MessageMatching, carried over to the engine, where time
\* passes and the clocks of CPUs and NICs stand between the two.
THEOREM NothingMissed == Spec => []NoMissedMatch
<1>1. Init => NoMissedMatch
  BY DEF Init, NoMissedMatch
<1>2. QED
  BY <1>1, InitTypes, NextTypes, NothingMissedStep, PTL DEF Spec

-----------------------------------------------------------------------------
(* Places. An operation whose requirements are met is listed, waits in aq, *)
(* is started, or has been dropped; a calc in progress is started and not  *)
(* done; the receives in rq are those started and not done.                *)

Free == {x \in Ops : depCnt[x] = 0}
Listed == ToSet(executableNodes)
Pending == {"LOCOP", "SEND", "RECV"}
Waiting == {e.op : e \in {f \in aq : f.type \in Pending}}
Started == ToSet(started)

NoneTwice ==
    /\ IsInjective(executableNodes) /\ IsInjective(started)
    /\ \A e, f \in aq : e.type # "MSG" /\ f.type # "MSG" /\ e.op = f.op => e = f

Partition ==
    /\ Listed \cup Waiting \cup Started \cup dropped = Free
    /\ Listed \cap (Waiting \cup Started \cup dropped) = {}
    /\ Waiting \cap (Started \cup dropped) = {}
    /\ Started \cap dropped = {}

Finished ==
    /\ done \subseteq Started
    /\ \A e \in aq : e.type = "LOCOP_IN_PROGRESS" => e.op \in Started \ done

Posted(h) == {x \in Started \ done : Op(x).type = "RECV" /\ Op(x).host = h}

Offsets(q) == {q[i].offset : i \in DOMAIN q}
Distinct(q) == \A i, j \in DOMAIN q : q[i].offset = q[j].offset => i = j

Receives == \A h \in Hosts : Offsets(rq[h]) = Posted(h) /\ Distinct(rq[h])

Places == NoneTwice /\ Partition /\ Finished /\ Receives /\ CountersAgree

\* The edges that still keep a node waiting are edges of the schedule.
LEMMA UnsatisfiedEdges ==
    ASSUME Types, NEW x
    PROVE  /\ Graph!Unsatisfied(x) \in SUBSET Edges /\ IsFiniteSet(Graph!Unsatisfied(x))
           /\ Cardinality(Graph!Unsatisfied(x)) \in Nat
<1>1. Graph!Unsatisfied(x) \in SUBSET Edges /\ IsFiniteSet(Edges)
  BY ScheduleTypes DEF Types, GraphTypes, Graph!Unsatisfied, Graph!Of, Edges
<1>2. QED
  BY <1>1, FS_Subset, FS_CardinalityType

\* A walk over edges that have just been satisfied, and over all of them,
\* keeps the counters exact and lists whatever has become free, once.
Satisfies(S) ==
    \A x \in AllOps :
        /\ Graph!Of(S, x) \subseteq Graph!Unsatisfied(x)
        /\ Graph!Unsatisfied(x)' = Graph!Unsatisfied(x) \ Graph!Of(S, x)

\* A walk that satisfies its edges once keeps the counters exact and lists
\* what it frees.
LEMMA WalkFrees ==
    ASSUME Types, Places, NEW S \in SUBSET Edges, Walk(S), prog' = prog, Satisfies(S)
    PROVE  /\ CountersAgree' /\ IsInjective(executableNodes)'
           /\ Free \subseteq Free' /\ Listed' = Listed \cup (Free' \ Free)
<1>1. /\ depCnt' \in [AllOps -> Int]
      /\ \A x \in AllOps : depCnt'[x] = depCnt[x] - Cardinality(Graph!Of(S, x))
      /\ Freed(S) = {x \in Ops : depCnt[x] > 0 /\ depCnt'[x] <= 0}
  BY WalkEffect DEF Types
<1>2. PICK s \in Seq(Ops) :
          IsInjective(s) /\ ToSet(s) = Freed(S) /\ executableNodes' = executableNodes \o s
  BY WalkEffect DEF Types
<1>3. \A x \in AllOps : depCnt[x] = Cardinality(Graph!Unsatisfied(x))
  BY SameCardinality DEF Places, CountersAgree, Graph!CounterExact
<1>4. ASSUME NEW x \in AllOps
      PROVE  /\ depCnt[x] \in Nat /\ depCnt'[x] \in Nat /\ depCnt'[x] <= depCnt[x]
             /\ depCnt'[x] = Cardinality(Graph!Unsatisfied(x)')
  <2> DEFINE U == Graph!Unsatisfied(x)
             R == Graph!Of(S, x)
  <2>1. IsFiniteSet(U) /\ Cardinality(U) \in Nat
    BY UnsatisfiedEdges
  <2>2. R \in SUBSET U /\ Graph!Unsatisfied(x)' = U \ R
    BY DEF Satisfies
  <2>3. depCnt[x] = Cardinality(U) /\ depCnt'[x] = depCnt[x] - Cardinality(R)
    BY <1>1, <1>3
  <2> HIDE DEF U, R
  <2>4. /\ Cardinality(U \ R) = Cardinality(U) - Cardinality(R)
        /\ Cardinality(R) \in Nat /\ Cardinality(U \ R) \in Nat
    BY <2>1, <2>2, CardinalityDifference
  <2>5. QED
    BY <2>1, <2>2, <2>3, <2>4
<1>5. CountersAgree'
  BY <1>4, SameCardinality DEF CountersAgree, Graph!CounterExact
<1>6. Ops' = Ops /\ Ops \subseteq AllOps
  BY ScheduleTypes DEF Ops, Types, GraphTypes
<1>7. Free \subseteq Free'
  BY <1>4, <1>6 DEF Free
<1>8. Freed(S) = Free' \ Free
  <2>1. \A x \in Ops : depCnt[x] > 0 /\ depCnt'[x] <= 0 <=> depCnt'[x] = 0 /\ depCnt[x] # 0
    BY <1>4, <1>6
  <2>2. QED
    BY <1>1, <1>6, <2>1 DEF Free
<1>9. Listed \subseteq Free
  BY DEF Places, Partition
<1>10. /\ IsInjective(executableNodes) /\ executableNodes \in Seq(Ops)
       /\ ToSet(executableNodes) \cap ToSet(s) = {}
  BY <1>2, <1>8, <1>9 DEF Places, NoneTwice, Types, GraphTypes, Listed
<1>11. IsInjective(executableNodes \o s) /\ ToSet(executableNodes \o s) = ToSet(executableNodes) \cup ToSet(s)
  BY <1>2, <1>10, ConcatInjective
<1>12. IsInjective(executableNodes)' /\ Listed' = Listed \cup (Free' \ Free)
  BY <1>2, <1>8, <1>11 DEF Listed, IsInjective
<1>13. QED
  BY <1>5, <1>7, <1>12

\* Which edges a start and an end satisfy.
LEMMA StartSatisfies ==
    ASSUME Types, Places, NEW x, x \notin Started, prog' = prog, Started' = Started \cup {x}, done' = done
    PROVE  Satisfies(StartList(x))
BY DEF Satisfies, StartList, Graph!StartDependOnMe, Graph!Of, Graph!Unsatisfied, Started

\* The end of a node satisfies the edges on its end.
LEMMA EndSatisfies ==
    ASSUME Types, Places, NEW x, x \notin done, prog' = prog, Started' = Started, done' = done \cup {x}
    PROVE  Satisfies(DoneList(x))
BY DEF Satisfies, DoneList, Graph!DependOnMe, Graph!Of, Graph!Unsatisfied, Started

\* A node that starts and ends at once satisfies both kinds of edges on it.
LEMMA BothSatisfy ==
    ASSUME Types, Places, NEW x, x \notin Started, prog' = prog,
           Started' = Started \cup {x}, done' = done \cup {x}
    PROVE  Satisfies(StartList(x) \cup DoneList(x))
<1>1. x \notin done
  BY DEF Places, Finished
<1>2. \A e \in Edges : e.kind \in {"requires", "irequires"}
  BY ScheduleAssumption DEF Edges, Types, GraphTypes
<1>3. QED
  BY <1>1, <1>2 DEF Satisfies, StartList, DoneList, Graph!StartDependOnMe, Graph!DependOnMe,
      Graph!Of, Graph!Unsatisfied, Started

\* What is left in aq when an element is popped, or pushed again.
LEMMA PoppedElement ==
    ASSUME Places, NEW e \in aq, e.type # "MSG", Replaces(e, {})
    PROVE  /\ \A f, g \in aq' : f.type # "MSG" /\ g.type # "MSG" /\ f.op = g.op => f = g
           /\ Waiting' = Waiting \ {e.op}
           /\ \A f \in aq' : f.type = "LOCOP_IN_PROGRESS" => f \in aq /\ f.op # e.op
<1>1. \A f, g \in aq : f.type # "MSG" /\ g.type # "MSG" /\ f.op = g.op => f = g
  BY DEF Places, NoneTwice
<1>2. aq' = aq \ {e}
  BY DEF Replaces
<1>3. \A f \in aq' : f \in aq /\ (f.type # "MSG" => f.op # e.op)
  BY <1>1, <1>2
<1>4. \A f \in aq : f.op # e.op => f \in aq'
  BY <1>2
<1>5. Waiting' = Waiting \ {e.op}
  BY <1>3, <1>4 DEF Waiting, Pending
<1>6. QED
  BY <1>1, <1>3, <1>5

\* An element of an operation that is pushed again takes the place of the old
\* one.
LEMMA PushedElement ==
    ASSUME Places, NEW e \in aq, e.type # "MSG", NEW f, f.op = e.op, f.type # "MSG", Replaces(e, {f})
    PROVE  /\ \A g, k \in aq' : g.type # "MSG" /\ k.type # "MSG" /\ g.op = k.op => g = k
           /\ f.type \in Pending => Waiting' = Waiting \cup {e.op}
           /\ f.type \notin Pending => Waiting' = Waiting \ {e.op}
           /\ \A g \in aq' : g = f \/ (g \in aq /\ (g.type # "MSG" => g.op # e.op))
<1>1. \A g, k \in aq : g.type # "MSG" /\ k.type # "MSG" /\ g.op = k.op => g = k
  BY DEF Places, NoneTwice
<1>2. aq' = (aq \ {e}) \cup {f}
  BY DEF Replaces
<1>3. \A g \in aq' : g = f \/ (g \in aq /\ (g.type # "MSG" => g.op # e.op))
  BY <1>1, <1>2
<1>4. (\A g \in aq : g.op # e.op => g \in aq') /\ f \in aq'
  BY <1>2
<1>5. f.type \in Pending => Waiting' = Waiting \cup {e.op}
  BY <1>3, <1>4 DEF Waiting, Pending
<1>6. f.type \notin Pending => Waiting' = Waiting \ {e.op}
  BY <1>3, <1>4 DEF Waiting, Pending
<1>7. QED
  BY <1>1, <1>3, <1>5, <1>6

\* A message in aq has no say in where the operations are.
LEMMA MessageElement ==
    ASSUME Places, NEW e \in aq, e.type = "MSG", NEW put, Replaces(e, put), \A f \in put : f.type = "MSG"
    PROVE  /\ \A f, g \in aq' : f.type # "MSG" /\ g.type # "MSG" /\ f.op = g.op => f = g
           /\ Waiting' = Waiting
           /\ \A f \in aq' : f.type = "LOCOP_IN_PROGRESS" => f \in aq
<1>1. \A f, g \in aq : f.type # "MSG" /\ g.type # "MSG" /\ f.op = g.op => f = g
  BY DEF Places, NoneTwice
<1>2. \A f : f.type # "MSG" => (f \in aq' <=> f \in aq)
  BY DEF Replaces
<1>3. Waiting' = Waiting
  BY <1>2 DEF Waiting, Pending
<1>4. QED
  BY <1>1, <1>2, <1>3

\* An operation moves on, from aq to those started or dropped.
Grown == Free \subseteq Free' /\ Listed' = Listed \cup (Free' \ Free)

\* An operation that leaves aq has been started or dropped.
LEMMA MovesOn ==
    ASSUME Partition, NEW x \in Waiting, Waiting' = Waiting \ {x}, Grown,
           \/ Started' = Started \cup {x} /\ dropped' = dropped
           \/ Started' = Started /\ dropped' = dropped \cup {x}
    PROVE  Partition'
<1> DEFINE N == Free' \ Free
<1>1. /\ Listed \cup Waiting \cup Started \cup dropped = Free
      /\ Listed \cap (Waiting \cup Started \cup dropped) = {}
      /\ Waiting \cap (Started \cup dropped) = {}
      /\ Started \cap dropped = {}
  BY DEF Partition
<1>2. Free' = Free \cup N /\ Free \cap N = {} /\ Listed' = Listed \cup N
  BY DEF Grown
<1> HIDE DEF N
<1>3. Listed' \cup Waiting' \cup Started' \cup dropped' = Free'
  BY <1>1, <1>2
<1>4. QED
  BY <1>1, <1>2, <1>3 DEF Partition

\* Where no operation moves, none is in two places.
LEMMA StaysInPlace ==
    ASSUME Partition, Waiting' = Waiting, Started' = Started, dropped' = dropped, Grown
    PROVE  Partition'
<1> DEFINE N == Free' \ Free
<1>1. /\ Listed \cup Waiting \cup Started \cup dropped = Free
      /\ Listed \cap (Waiting \cup Started \cup dropped) = {}
      /\ Waiting \cap (Started \cup dropped) = {}
      /\ Started \cap dropped = {}
  BY DEF Partition
<1>2. Free' = Free \cup N /\ Free \cap N = {} /\ Listed' = Listed \cup N
  BY DEF Grown
<1> HIDE DEF N
<1>3. QED
  BY <1>1, <1>2 DEF Partition

\* The list of those started grows by an operation that has waited.
LEMMA StartsOnce ==
    ASSUME Types, Places, NEW x \in Ops, x \in Waiting, started' = Append(started, x)
    PROVE  x \notin Started /\ Started' = Started \cup {x} /\ IsInjective(started)'
<1>1. x \notin ToSet(started) /\ started \in Seq(Ops) /\ IsInjective(started)
  BY DEF Places, Partition, NoneTwice, Types, HistoryTypes, Started
<1>2. IsInjective(Append(started, x)) /\ ToSet(Append(started, x)) = ToSet(started) \cup {x}
  BY <1>1, AppendUnlisted
<1>3. QED
  BY <1>1, <1>2 DEF Started, IsInjective

\* Receives stay as they are when what starts or ends is none.
LEMMA OtherReceives ==
    ASSUME Receives, prog' = prog, rq' = rq,
           \A x \in Ops : Op(x).type = "RECV" =>
               (x \in Started' \ done' <=> x \in Started \ done),
           Started \subseteq Ops, Started' \subseteq Ops
    PROVE  Receives'
<1>1. \A h \in Hosts : Posted(h)' = Posted(h)
  BY DEF Posted, Op
<1>2. QED
  BY <1>1 DEF Receives

\* Only operations of the schedule are started.
LEMMA StartedOps ==
    ASSUME Types, Types', prog' = prog
    PROVE  Started \subseteq Ops /\ Started' \subseteq Ops
<1>1. \A s : s \in Seq(Ops) => ToSet(s) \subseteq Ops
  BY LenProperties DEF ToSet
<1>2. started \in Seq(Ops) /\ started' \in Seq(Ops)
  BY DEF Types, HistoryTypes, Ops
<1>3. QED
  BY <1>1, <1>2 DEF Started

\* The three cases of a calc leave every operation in one place.
LEMMA CalcPlaces ==
    ASSUME Types, Types', Places, NEW e \in aq, CalcStart(e) \/ CalcReinsert(e) \/ CalcDone(e)
    PROVE  Places'
<1>1. Due(e) /\ Popped /\ e.type \in {"LOCOP", "LOCOP_IN_PROGRESS"}
  BY DEF CalcStart, CalcReinsert, CalcDone, Pop
<1>2. e.op \in Ops /\ Op(e.op).type = "LOCOP" /\ prog' = prog
  <2>1. OfOperation(e) /\ prog' = prog
    BY <1>1 DEF Types, AqTypes, Genuine, Popped
  <2>2. Op(e.op).type \in {"SEND", "RECV", "LOCOP"}
    BY <2>1, ScheduleTypes DEF OfOperation, Operation, Types, GraphTypes
  <2>3. QED
    BY <1>1, <2>1, <2>2 DEF OfOperation
<1>3. Started \subseteq Ops /\ Started' \subseteq Ops
  BY <1>2, StartedOps
<1>4. CASE CalcStart(e)
  <2> DEFINE f == [e EXCEPT !.type = "LOCOP_IN_PROGRESS"]
  <2>1. /\ Walk(StartList(e.op)) /\ UNCHANGED <<rq, done, dropped>>
        /\ started' = Append(started, e.op) /\ Replaces(e, {f}) /\ e.type = "LOCOP"
    BY <1>4 DEF CalcStart, Replaces, queueVars
  <2>2. e.op \in Waiting
    BY <2>1 DEF Waiting, Pending
  <2>3. e.op \notin Started /\ Started' = Started \cup {e.op} /\ IsInjective(started)'
    BY <1>2, <2>1, <2>2, StartsOnce
  <2>4. CountersAgree' /\ IsInjective(executableNodes)' /\ Grown
    BY <1>2, <2>1, <2>3, WalkFrees, StartSatisfies, ListsAreEdges DEF Grown
  <2>5. f.op = e.op /\ f.type = "LOCOP_IN_PROGRESS"
    BY DEF Types, AqTypes, ElementType
  <2>6. /\ \A g, k \in aq' : g.type # "MSG" /\ k.type # "MSG" /\ g.op = k.op => g = k
        /\ Waiting' = Waiting \ {e.op}
        /\ \A g \in aq' : g = f \/ (g \in aq /\ (g.type # "MSG" => g.op # e.op))
    <3> HIDE DEF f
    <3>1. QED
      BY <2>1, <2>5, PushedElement DEF Pending
  <2>7. NoneTwice' /\ Partition'
    BY <2>1, <2>2, <2>3, <2>4, <2>6, MovesOn DEF NoneTwice, Places
  <2>8. Finished'
    <3>1. e.op \notin done
      BY <2>3 DEF Places, Finished
    <3> HIDE DEF f
    <3>2. QED
      BY <2>1, <2>3, <2>5, <2>6, <3>1 DEF Finished, Places
  <2>9. Receives'
    BY <1>2, <1>3, <2>1, <2>3, OtherReceives DEF Places
  <2>10. QED
    BY <2>4, <2>7, <2>8, <2>9 DEF Places
<1>5. CASE CalcReinsert(e)
  <2> DEFINE f == [e EXCEPT !.time = nexto[e.host][CPU(e)]]
  <2>1. /\ UNCHANGED <<graphVars, queueVars, historyVars>> /\ Replaces(e, {f}) /\ e.type = "LOCOP"
    BY <1>5 DEF CalcReinsert, Replaces
  <2>2. f.op = e.op /\ f.type = "LOCOP"
    BY <2>1 DEF Types, AqTypes, ElementType
  <2>3. /\ \A g, k \in aq' : g.type # "MSG" /\ k.type # "MSG" /\ g.op = k.op => g = k
        /\ Waiting' = Waiting \cup {e.op}
        /\ \A g \in aq' : g = f \/ (g \in aq /\ (g.type # "MSG" => g.op # e.op))
    <3> HIDE DEF f
    <3>1. QED
      BY <2>1, <2>2, PushedElement DEF Pending
  <2>4. Waiting' = Waiting
    BY <2>1, <2>3 DEF Waiting, Pending
  <2>5. UNCHANGED <<executableNodes, depCnt, started, done, dropped, rq>>
    BY <2>1 DEF graphVars, queueVars, historyVars
  <2>6. Started' = Started /\ Listed' = Listed /\ Free' = Free
    BY <1>2, <2>5 DEF Started, Listed, Free, Ops
  <2>7. NoneTwice' /\ Partition'
    BY <2>3, <2>4, <2>5, <2>6 DEF NoneTwice, Partition, Places, IsInjective
  <2>8. Finished'
    <3> HIDE DEF f
    <3>1. QED
      BY <2>2, <2>3, <2>5, <2>6 DEF Finished, Places
  <2>9. Receives'
    BY <1>2, <1>3, <2>5, <2>6, OtherReceives DEF Places
  <2>10. CountersAgree'
    BY <1>2, <2>5 DEF Places, CountersAgree, Graph!CounterExact, Graph!Unsatisfied, Graph!Of
  <2>11. QED
    BY <2>7, <2>8, <2>9, <2>10 DEF Places
<1>6. CASE CalcDone(e)
  <2>1. /\ Walk(DoneList(e.op)) /\ UNCHANGED <<rq, started, dropped>>
        /\ done' = done \cup {e.op} /\ Replaces(e, {}) /\ e.type = "LOCOP_IN_PROGRESS"
    BY <1>6 DEF CalcDone, Replaces, queueVars
  <2>2. e.op \in Started \ done /\ Started' = Started
    BY <2>1 DEF Places, Finished, Started
  <2>3. CountersAgree' /\ IsInjective(executableNodes)' /\ Grown
    BY <1>2, <2>1, <2>2, WalkFrees, EndSatisfies, ListsAreEdges DEF Grown
  <2>4. /\ \A f, g \in aq' : f.type # "MSG" /\ g.type # "MSG" /\ f.op = g.op => f = g
        /\ Waiting' = Waiting \ {e.op}
        /\ \A f \in aq' : f.type = "LOCOP_IN_PROGRESS" => f \in aq /\ f.op # e.op
    BY <2>1, PoppedElement
  <2>5. Waiting' = Waiting
    BY <2>2, <2>4 DEF Places, Partition
  <2>6. NoneTwice' /\ Partition'
    BY <2>1, <2>2, <2>3, <2>4, <2>5, StaysInPlace DEF NoneTwice, Places, IsInjective
  <2>7. Finished'
    BY <2>1, <2>2, <2>4 DEF Finished, Places
  <2>8. Receives'
    BY <1>2, <1>3, <2>1, <2>2, OtherReceives DEF Places
  <2>9. QED
    BY <2>3, <2>6, <2>7, <2>8 DEF Places
<1>7. QED
  BY <1>4, <1>5, <1>6

\* Both cases of a send leave every operation in one place.
LEMMA SendPlaces ==
    ASSUME Types, Types', Places, NEW e \in aq, SendStart(e) \/ SendDrop(e)
    PROVE  Places'
<1>1. Due(e) /\ Popped /\ e.type = "SEND" /\ Replaces(e, {}) /\ rq' = rq
  BY DEF SendStart, SendDrop, Pop, Replaces, queueVars
<1>2. e.op \in Ops /\ Op(e.op).type = "SEND" /\ prog' = prog /\ e.op \in Waiting
  BY <1>1 DEF Types, AqTypes, Genuine, OfOperation, Popped, Waiting, Pending
<1>3. Started \subseteq Ops /\ Started' \subseteq Ops
  BY <1>2, StartedOps
<1>4. /\ \A f, g \in aq' : f.type # "MSG" /\ g.type # "MSG" /\ f.op = g.op => f = g
      /\ Waiting' = Waiting \ {e.op}
      /\ \A f \in aq' : f.type = "LOCOP_IN_PROGRESS" => f \in aq /\ f.op # e.op
  BY <1>1, PoppedElement
<1>5. CASE SendStart(e)
  <2>1. /\ Walk(StartList(e.op) \cup DoneList(e.op)) /\ dropped' = dropped
        /\ started' = Append(started, e.op) /\ done' = done \cup {e.op}
    BY <1>5 DEF SendStart
  <2>2. e.op \notin Started /\ Started' = Started \cup {e.op} /\ IsInjective(started)'
    BY <1>2, <2>1, StartsOnce
  <2>3. CountersAgree' /\ IsInjective(executableNodes)' /\ Grown
    BY <1>2, <2>1, <2>2, WalkFrees, BothSatisfy, ListsAreEdges DEF Grown
  <2>4. NoneTwice' /\ Partition'
    BY <1>2, <1>4, <2>1, <2>2, <2>3, MovesOn DEF NoneTwice, Places
  <2>5. Finished'
    BY <1>4, <2>1, <2>2 DEF Finished, Places
  <2>6. Receives'
    BY <1>1, <1>2, <1>3, <2>1, <2>2, OtherReceives DEF Places
  <2>7. QED
    BY <2>3, <2>4, <2>5, <2>6 DEF Places
<1>6. CASE SendDrop(e)
  <2>1. UNCHANGED <<depCnt, executableNodes, started, done>> /\ dropped' = dropped \cup {e.op}
    BY <1>6 DEF SendDrop, graphVars
  <2>2. Started' = Started /\ Listed' = Listed /\ Free' = Free
    BY <1>2, <2>1 DEF Started, Listed, Free, Ops
  <2>3. Grown
    BY <2>2 DEF Grown
  <2>4. NoneTwice' /\ Partition'
    BY <1>2, <1>4, <2>1, <2>2, <2>3, MovesOn DEF NoneTwice, Places, IsInjective
  <2>5. Finished'
    BY <1>4, <2>1, <2>2 DEF Finished, Places
  <2>6. Receives'
    BY <1>1, <1>2, <1>3, <2>1, <2>2, OtherReceives DEF Places
  <2>7. CountersAgree'
    BY <1>2, <2>1 DEF Places, CountersAgree, Graph!CounterExact, Graph!Unsatisfied, Graph!Of
  <2>8. QED
    BY <2>4, <2>5, <2>6, <2>7 DEF Places
<1>7. QED
  BY <1>5, <1>6

\* A receive is queued behind the others, and one is taken out.
LEMMA QueuedOffsets ==
    ASSUME NEW S, NEW q \in Seq(S), Distinct(q), NEW w, w.offset \notin Offsets(q)
    PROVE  Distinct(Append(q, w)) /\ Offsets(Append(q, w)) = Offsets(q) \cup {w.offset}
<1> DEFINE r == Append(q, w)
<1>1. q \in Seq(S \cup {w})
  BY SeqMonotonic
<1>2. /\ DOMAIN r = 1 .. Len(q) + 1 /\ Len(q) \in Nat /\ DOMAIN q = 1 .. Len(q)
      /\ \A i \in 1 .. Len(q) : r[i] = q[i]
      /\ r[Len(q) + 1] = w
  BY <1>1, AppendProperties, LenProperties
<1> HIDE DEF r
<1>3. \A i \in DOMAIN r : (i \in DOMAIN q /\ r[i] = q[i]) \/ (i = Len(q) + 1 /\ r[i] = w)
  BY <1>2
<1>4. (\A i \in DOMAIN q : i \in DOMAIN r /\ r[i] = q[i]) /\ Len(q) + 1 \in DOMAIN r
  BY <1>2
<1>5. Offsets(r) = Offsets(q) \cup {w.offset}
  BY <1>2, <1>3, <1>4 DEF Offsets
<1>6. Distinct(r)
  BY <1>3 DEF Distinct, Offsets
<1>7. QED
  BY <1>5, <1>6 DEF r

\* Taking an element from a queue takes its offset, and no other.
LEMMA TakenOffsets ==
    ASSUME NEW S, NEW q \in Seq(S), Distinct(q), NEW i \in DOMAIN q
    PROVE  /\ Distinct(RemoveAt(q, i))
           /\ Offsets(RemoveAt(q, i)) = Offsets(q) \ {q[i].offset}
<1> DEFINE r == RemoveAt(q, i)
<1>1. /\ r \in Seq(S)
      /\ \A j \in DOMAIN r : Source(j, i) \in DOMAIN q \ {i} /\ r[j] = q[Source(j, i)]
      /\ \A k \in DOMAIN q \ {i} : \E j \in DOMAIN r : Source(j, i) = k
  BY RemoveAtSources
<1>2. \A j, k \in DOMAIN r : Source(j, i) = Source(k, i) => j = k
  <2>1. DOMAIN r = 1 .. Len(r) /\ DOMAIN q = 1 .. Len(q) /\ Len(r) \in Nat /\ Len(q) \in Nat
    BY <1>1, LenProperties
  <2> HIDE DEF r
  <2>2. QED
    BY <1>1, <2>1 DEF Source
<1> HIDE DEF r
<1>3. Distinct(r)
  BY <1>1, <1>2, ZenonT(30) DEF Distinct
<1>4. ASSUME NEW x \in Offsets(r) PROVE x \in Offsets(q) \ {q[i].offset}
  <2>1. PICK j \in DOMAIN r : x = r[j].offset
    BY DEF Offsets
  <2>2. QED
    BY <1>1, <2>1 DEF Offsets, Distinct
<1>5. ASSUME NEW x \in Offsets(q) \ {q[i].offset} PROVE x \in Offsets(r)
  <2>1. PICK k \in DOMAIN q : x = q[k].offset
    BY DEF Offsets
  <2>2. PICK j \in DOMAIN r : Source(j, i) = k
    BY <1>1, <1>5, <2>1
  <2>3. QED
    BY <1>1, <2>1, <2>2 DEF Offsets
<1>6. QED
  BY <1>3, <1>4, <1>5 DEF r

\* Both cases of a receive leave every operation in one place.
LEMMA RecvPlaces ==
    ASSUME Types, Types', Places, NEW e \in aq, RecvMatched(e) \/ RecvQueued(e)
    PROVE  Places'
<1>1. Due(e) /\ Popped /\ e.type = "RECV" /\ Replaces(e, {}) /\ dropped' = dropped
  BY DEF RecvMatched, RecvQueued, Pop, Replaces
<1>2. e.op \in Ops /\ Op(e.op).type = "RECV" /\ prog' = prog /\ e.op \in Waiting
  BY <1>1 DEF Types, AqTypes, Genuine, OfOperation, Popped, Waiting, Pending
<1>3. Started \subseteq Ops /\ Started' \subseteq Ops
  BY <1>2, StartedOps
<1>4. /\ \A f, g \in aq' : f.type # "MSG" /\ g.type # "MSG" /\ f.op = g.op => f = g
      /\ Waiting' = Waiting \ {e.op}
      /\ \A f \in aq' : f.type = "LOCOP_IN_PROGRESS" => f \in aq /\ f.op # e.op
  BY <1>1, PoppedElement
<1>5. e.op \notin Started /\ Started' = Started \cup {e.op} /\ IsInjective(started)' /\ e.op \notin done
  <2>1. started' = Append(started, e.op)
    BY DEF RecvMatched, RecvQueued
  <2>2. e.op \notin Started /\ Started' = Started \cup {e.op} /\ IsInjective(started)'
    BY <1>2, <2>1, StartsOnce
  <2>3. QED
    BY <2>2 DEF Places, Finished
<1>6. CASE RecvMatched(e)
  <2>1. Walk(StartList(e.op) \cup DoneList(e.op)) /\ done' = done \cup {e.op} /\ rq' = rq
    BY <1>6 DEF RecvMatched
  <2>2. CountersAgree' /\ IsInjective(executableNodes)' /\ Grown
    BY <1>2, <1>5, <2>1, WalkFrees, BothSatisfy, ListsAreEdges DEF Grown
  <2>3. NoneTwice' /\ Partition'
    BY <1>1, <1>2, <1>4, <1>5, <2>2, MovesOn DEF NoneTwice, Places
  <2>4. Finished'
    BY <1>4, <1>5, <2>1 DEF Finished, Places
  <2>5. Receives'
    BY <1>2, <1>3, <1>5, <2>1, OtherReceives DEF Places
  <2>6. QED
    BY <2>2, <2>3, <2>4, <2>5 DEF Places
<1>7. CASE RecvQueued(e)
  <2> DEFINE w == Match!Element(e, e.op)
  <2>1. /\ Walk(StartList(e.op)) /\ done' = done
        /\ rq' = [rq EXCEPT ![e.host] = Append(rq[e.host], w)]
    BY <1>7 DEF RecvQueued
  <2>2. CountersAgree' /\ IsInjective(executableNodes)' /\ Grown
    BY <1>2, <1>5, <2>1, WalkFrees, StartSatisfies, ListsAreEdges DEF Grown
  <2>3. NoneTwice' /\ Partition'
    BY <1>1, <1>2, <1>4, <1>5, <2>2, MovesOn DEF NoneTwice, Places
  <2>4. Finished'
    BY <1>4, <1>5, <2>1 DEF Finished, Places
  <2>5. Receives'
    <3>1. /\ rq \in [Hosts -> Seq(RecvWaiting)] /\ e.host \in Hosts /\ Op(e.op).host = e.host
      BY <1>1 DEF Types, QueueTypes, AqTypes, ElementType, Genuine, OfOperation
    <3>2. w.offset = e.op
      BY DEF Match!Element
    <3> HIDE DEF w
    <3>3. ASSUME NEW h \in Hosts, h # e.host
          PROVE  Offsets(rq'[h]) = Posted(h)' /\ Distinct(rq'[h])
      <4>1. rq'[h] = rq[h] /\ Offsets(rq[h]) = Posted(h) /\ Distinct(rq[h])
        BY <2>1, <3>1, <3>3 DEF Places, Receives
      <4>2. Posted(h)' = Posted(h)
        BY <1>2, <1>5, <2>1, <3>1, <3>3 DEF Posted, Op
      <4>3. QED
        BY <4>1, <4>2
    <3>4. Offsets(rq'[e.host]) = Posted(e.host)' /\ Distinct(rq'[e.host])
      <4>1. /\ rq[e.host] \in Seq(RecvWaiting) /\ rq'[e.host] = Append(rq[e.host], w)
            /\ Offsets(rq[e.host]) = Posted(e.host) /\ Distinct(rq[e.host])
        BY <2>1, <3>1 DEF Places, Receives
      <4>2. e.op \notin Posted(e.host)
        BY <1>5 DEF Posted
      <4>3. Posted(e.host)' = Posted(e.host) \cup {e.op}
        BY <1>2, <1>5, <2>1, <3>1 DEF Posted, Op
      <4>4. QED
        BY <3>2, <4>1, <4>2, <4>3, QueuedOffsets
    <3>5. QED
      BY <3>3, <3>4 DEF Receives
  <2>6. QED
    BY <2>2, <2>3, <2>4, <2>5 DEF Places
<1>8. QED
  BY <1>6, <1>7

\* What has not to do with operations leaves them where they are.
LEMMA PlacesFrame ==
    ASSUME Types, Places, prog' = prog, Waiting' = Waiting, rq' = rq,
           UNCHANGED graphVars, UNCHANGED historyVars,
           \A f, g \in aq' : f.type # "MSG" /\ g.type # "MSG" /\ f.op = g.op => f = g,
           \A f \in aq' : f.type = "LOCOP_IN_PROGRESS" => f \in aq
    PROVE  Places'
<1>1. UNCHANGED <<depCnt, executableNodes, started, done, dropped>> /\ Ops' = Ops
  BY DEF graphVars, historyVars, Ops
<1>2. Started' = Started /\ Listed' = Listed /\ Free' = Free
  BY <1>1 DEF Started, Listed, Free
<1>3. NoneTwice' /\ Partition'
  BY <1>1, <1>2 DEF Places, NoneTwice, Partition, IsInjective
<1>4. Finished'
  BY <1>1, <1>2 DEF Places, Finished
<1>5. Receives'
  BY <1>1, <1>2 DEF Places, Receives, Posted, Op
<1>6. CountersAgree'
  BY <1>1 DEF Places, CountersAgree, Graph!CounterExact, Graph!Unsatisfied, Graph!Of
<1>7. QED
  BY <1>3, <1>4, <1>5, <1>6 DEF Places

\* The three cases of a message leave every operation in one place.
LEMMA MsgPlaces ==
    ASSUME Types, Types', Places, NEW e \in aq, MsgMatched(e) \/ MsgQueued(e) \/ MsgReinsert(e)
    PROVE  Places'
<1>1. Due(e) /\ Popped /\ e.type = "MSG" /\ prog' = prog /\ e.host \in Hosts
  BY DEF MsgMatched, MsgQueued, MsgReinsert, Pop, Popped, Types, AqTypes, ElementType
<1>2. Started \subseteq Ops /\ Started' \subseteq Ops
  BY <1>1, StartedOps
<1>3. CASE MsgQueued(e)
  <2>1. UNCHANGED <<graphVars, rq, historyVars>> /\ Replaces(e, {})
    BY <1>3 DEF MsgQueued, Replaces
  <2>2. QED
    BY <1>1, <2>1, MessageElement, PlacesFrame
<1>4. CASE MsgReinsert(e)
  <2>1. PICK u \in Unset :
            Replaces(e, {[e EXCEPT !.time = Max({nexto[e.host][0], nextgr[e.host], u})]})
    BY <1>4 DEF MsgReinsert, Replaces
  <2>2. UNCHANGED <<graphVars, rq, historyVars>>
    BY <1>4 DEF MsgReinsert, queueVars
  <2>3. [e EXCEPT !.time = Max({nexto[e.host][0], nextgr[e.host], u})].type = "MSG"
    BY <1>1 DEF Types, AqTypes, ElementType
  <2>4. QED
    BY <1>1, <2>1, <2>2, <2>3, MessageElement, PlacesFrame
<1>5. CASE MsgMatched(e)
  <2> DEFINE i == Match!FirstMatch(e, rq[e.host])
             x == rq[e.host][i].offset
  <2>1. /\ Walk(DoneList(x)) /\ started' = started /\ dropped' = dropped /\ done' = done \cup {x}
        /\ Replaces(e, {}) /\ rq' = [rq EXCEPT ![e.host] = RemoveAt(rq[e.host], i)]
        /\ Match!Matches(e, rq[e.host]) # {}
    BY <1>5 DEF MsgMatched, Replaces
  <2>2. rq[e.host] \in Seq(RecvWaiting) /\ rq \in [Hosts -> Seq(RecvWaiting)]
    BY <1>1 DEF Types, QueueTypes
  <2>3. i \in DOMAIN rq[e.host]
    BY <2>1, <2>2, FirstMatchFits
  <2> HIDE DEF i
  <2>4. Offsets(rq[e.host]) = Posted(e.host) /\ Distinct(rq[e.host])
    BY <1>1 DEF Places, Receives
  <2>5. x \in Posted(e.host)
    BY <2>3, <2>4 DEF Offsets
  <2>6. x \in Started \ done /\ Op(x).type = "RECV" /\ Op(x).host = e.host /\ Started' = Started
    BY <2>1, <2>5 DEF Posted, Started
  <2>7. /\ \A f, g \in aq' : f.type # "MSG" /\ g.type # "MSG" /\ f.op = g.op => f = g
        /\ Waiting' = Waiting
        /\ \A f \in aq' : f.type = "LOCOP_IN_PROGRESS" => f \in aq
    BY <1>1, <2>1, MessageElement
  <2>8. Receives'
    <3>1. ASSUME NEW h \in Hosts, h # e.host
          PROVE  Offsets(rq'[h]) = Posted(h)' /\ Distinct(rq'[h])
      <4>1. rq'[h] = rq[h] /\ Offsets(rq[h]) = Posted(h) /\ Distinct(rq[h])
        BY <2>1, <2>2, <3>1 DEF Places, Receives
      <4>2. Posted(h)' = Posted(h)
        BY <1>1, <2>1, <2>6, <3>1 DEF Posted, Op
      <4>3. QED
        BY <4>1, <4>2
    <3>2. Offsets(rq'[e.host]) = Posted(e.host)' /\ Distinct(rq'[e.host])
      <4>1. rq'[e.host] = RemoveAt(rq[e.host], i)
        BY <1>1, <2>1, <2>2
      <4>2. Posted(e.host)' = Posted(e.host) \ {x}
        BY <1>1, <2>1, <2>6 DEF Posted, Op
      <4>3. QED
        BY <2>2, <2>3, <2>4, <4>1, <4>2, TakenOffsets
    <3>3. QED
      BY <3>1, <3>2 DEF Receives
  <2> HIDE DEF x
  <2>9. CountersAgree' /\ IsInjective(executableNodes)' /\ Grown
    BY <1>1, <2>1, <2>6, WalkFrees, EndSatisfies, ListsAreEdges DEF Grown
  <2>10. NoneTwice' /\ Partition'
    BY <2>1, <2>6, <2>7, <2>9, StaysInPlace DEF NoneTwice, Places, IsInjective
  <2>11. Finished'
    <3>1. \A f \in aq : f.type = "LOCOP_IN_PROGRESS" => f.op # x
      <4>1. \A f \in aq : f.type = "LOCOP_IN_PROGRESS" => Op(f.op).type = "LOCOP"
        <5>1. ASSUME NEW f \in aq, f.type = "LOCOP_IN_PROGRESS" PROVE Op(f.op).type = "LOCOP"
          <6>1. OfOperation(f)
            BY <5>1 DEF Types, AqTypes, Genuine
          <6>2. Op(f.op).type \in {"SEND", "RECV", "LOCOP"}
            BY <6>1, ScheduleTypes DEF OfOperation, Operation, Types, GraphTypes
          <6>3. QED
            BY <5>1, <6>1, <6>2 DEF OfOperation
        <5>2. QED
          BY <5>1
      <4>2. QED
        BY <2>6, <4>1
    <3>2. QED
      BY <2>1, <2>6, <2>7, <3>1 DEF Finished, Places
  <2>12. QED
    BY <2>8, <2>9, <2>10, <2>11 DEF Places
<1>6. QED
  BY <1>3, <1>4, <1>5

\* A free operation is moved from the list to aq.
LEMMA InsertPlaces ==
    ASSUME Types, Places, InsertFreeOp
    PROVE  Places'
<1>1. PICK i \in DOMAIN executableNodes :
          /\ aq' = aq \cup {OpElement(executableNodes[i], now, aqtime)}
          /\ executableNodes' = RemoveAt(executableNodes, i)
  BY DEF InsertFreeOp
<1>2. UNCHANGED <<prog, depCnt, rq, started, done, dropped>>
  BY DEF InsertFreeOp, queueVars, historyVars
<1> DEFINE x == executableNodes[i]
           f == OpElement(x, now, aqtime)
<1>3. executableNodes \in Seq(Ops) /\ IsInjective(executableNodes)
  BY DEF Types, GraphTypes, Places, NoneTwice
<1>4. /\ IsInjective(executableNodes') /\ Listed' = Listed \ {x} /\ x \in Listed /\ x \in Ops
  <2>1. /\ IsInjective(RemoveAt(executableNodes, i))
        /\ ToSet(RemoveAt(executableNodes, i)) = ToSet(executableNodes) \ {executableNodes[i]}
    BY <1>3, RemoveAtInjective
  <2>2. executableNodes[i] \in Ops /\ executableNodes[i] \in ToSet(executableNodes)
    BY <1>3, LenProperties DEF ToSet
  <2>3. QED
    BY <1>1, <2>1, <2>2 DEF Listed
<1> HIDE DEF x
<1>5. f.op = x /\ f.type = Op(x).type /\ f.type \in Pending
  BY <1>4, ScheduleTypes DEF OpElement, Pending, Operation, Types, GraphTypes
<1>6. aq' = aq \cup {f}
  BY <1>1 DEF x
<1> HIDE DEF f
<1>7. Waiting' = Waiting \cup {x}
  BY <1>5, <1>6 DEF Waiting, Pending
<1>8. ASSUME NEW g \in aq, g.type # "MSG" PROVE g.op # x
  <2>1. g.type \in Pending \/ g.type = "LOCOP_IN_PROGRESS"
    BY <1>8 DEF Types, AqTypes, ElementType, Pending
  <2>2. g.op \in Waiting \/ g.op \in Started
    BY <2>1 DEF Waiting, Places, Finished
  <2>3. QED
    BY <1>4, <2>2 DEF Places, Partition
<1>9. \A g, k \in aq' : g.type # "MSG" /\ k.type # "MSG" /\ g.op = k.op => g = k
  BY <1>5, <1>6, <1>8 DEF Places, NoneTwice
<1>10. Started' = Started /\ Free' = Free
  BY <1>2 DEF Started, Free, Ops
<1>11. NoneTwice' /\ Partition'
  BY <1>2, <1>4, <1>7, <1>9, <1>10 DEF Places, NoneTwice, Partition, IsInjective
<1>12. Finished'
  BY <1>2, <1>5, <1>6, <1>10 DEF Places, Finished, Pending
<1>13. Receives'
  BY <1>2, <1>10 DEF Places, Receives, Posted, Op
<1>14. CountersAgree'
  BY <1>2 DEF Places, CountersAgree, Graph!CounterExact, Graph!Unsatisfied, Graph!Of
<1>15. QED
  BY <1>11, <1>12, <1>13, <1>14 DEF Places

\* Every step leaves every operation in one place.
LEMMA NextPlaces == Types /\ Types' /\ Places /\ [Next]_vars => Places'
<1> SUFFICES ASSUME Types, Types', Places, [Next]_vars PROVE Places'
  OBVIOUS
<1>1. CASE InitialFreeOp \/ FreeOp
  BY <1>1, InsertPlaces DEF InitialFreeOp, FreeOp
<1>2. CASE Element
  BY <1>2, CalcPlaces, SendPlaces, RecvPlaces, MsgPlaces DEF Element
<1>3. CASE \/ EnterMain \/ EnterLoop \/ LeaveLoop \/ Exit \/ SkipNs3
           \/ RunNs3 \/ Network \/ Return \/ EndCycle \/ Terminated \/ UNCHANGED vars
  <2>1. /\ UNCHANGED <<prog, rq>> /\ UNCHANGED graphVars /\ UNCHANGED historyVars
        /\ aq' = aq \/ aq' = aq \cup (IF latest = None THEN {} ELSE {MsgElement(latest)})
    BY <1>3 DEF EnterMain, EnterLoop, LeaveLoop, Exit, SkipNs3, RunNs3, Network, Return,
       EndCycle, Terminated, vars, engineVars, queueVars
  <2>2. \A f \in aq' : f \in aq \/ f.type = "MSG"
    BY <2>1 DEF MsgElement
  <2>3. aq \subseteq aq'
    BY <2>1
  <2>4. Waiting' = Waiting
    BY <2>2, <2>3 DEF Waiting, Pending
  <2>5. \A f, g \in aq' : f.type # "MSG" /\ g.type # "MSG" /\ f.op = g.op => f = g
    BY <2>2 DEF Places, NoneTwice
  <2>6. QED
    BY <2>1, <2>2, <2>4, <2>5, PlacesFrame
<1>4. QED
  BY <1>1, <1>2, <1>3 DEF Next

\* Before the first step the free operations are listed, once each.
LEMMA InitPlaces == Init => Places
<1> SUFFICES ASSUME Init PROVE Places
  OBVIOUS
<1>1. Types /\ Ops \subseteq Nat /\ IsFiniteSet(Ops)
  BY InitTypes, ScheduleTypes DEF Init
<1>2. /\ aq = {} /\ started = << >> /\ done = {} /\ dropped = {}
      /\ executableNodes = InOrder(Free) /\ Free \in SUBSET Ops
  BY DEF Init, Free
<1>3. Waiting = {} /\ Started = {}
  BY <1>2 DEF Waiting, Started, ToSet
<1>4. Free \subseteq Nat /\ IsFiniteSet(Free)
  BY <1>1, <1>2, FS_Subset
<1>5. /\ executableNodes \in Seq(Free) /\ ToSet(executableNodes) = Free
      /\ \A i, j \in DOMAIN executableNodes : i < j => executableNodes[i] < executableNodes[j]
  BY <1>2, <1>4, InOrderLists
<1>6. IsInjective(executableNodes)
  <2>1. SUFFICES ASSUME NEW i \in DOMAIN executableNodes, NEW j \in DOMAIN executableNodes,
                        executableNodes[i] = executableNodes[j], i # j
                 PROVE  FALSE
    BY DEF IsInjective
  <2>2. i \in Nat /\ j \in Nat /\ executableNodes[i] \in Nat
    <3>1. executableNodes[i] \in Free /\ DOMAIN executableNodes = 1 .. Len(executableNodes)
      BY <1>5, LenProperties
    <3>2. QED
      <4>1. i \in Nat /\ j \in Nat
        BY <1>5, <3>1, LenProperties
      <4>2. QED
        BY <1>4, <3>1, <4>1
  <2>3. QED
    BY <1>5, <2>1, <2>2
<1>7. NoneTwice /\ Partition /\ Finished
  BY <1>2, <1>3, <1>5, <1>6 DEF NoneTwice, Partition, Finished, Listed, IsInjective
<1>8. Receives
  BY <1>3 DEF Init, Receives, Offsets, Distinct, Posted
<1>9. CountersAgree
  <2>1. \A x \in AllOps : Graph!Unsatisfied(x) = Graph!Of(Edges, x)
    BY <1>2, <1>3 DEF Graph!Unsatisfied, Graph!Of, Edges, Started
  <2>2. QED
    BY <2>1 DEF Init, Graph!DependenciesCnt, CountersAgree, Graph!CounterExact, Edges
<1>10. QED
  BY <1>7, <1>8, <1>9 DEF Places

\* Types and Places hold at the start and every step keeps them.
THEOREM Inductive == Spec => [](Types /\ Places)
BY InitTypes, InitPlaces, NextTypes, NextPlaces, PTL DEF Spec

\* The counters of the dependency graph agree with what has been started and
\* done, for any schedule, also one that repeats its lines or has cycles.
THEOREM CountersCorrect == Spec => []CountersAgree
BY Inductive, PTL DEF Places

\* An operation whose requirements are met is in exactly one place, and one
\* whose requirements are not met in none: nothing is run twice, and nothing
\* is lost, but for the sends that the engine drops.
THEOREM HandedOutOnce == Spec => []EachOpOnce
<1>1. Types /\ Places => EachOpOnce
  <2> SUFFICES ASSUME Types, Places, NEW x \in Ops
               PROVE  Copies[x]
                      + Cardinality({e \in aq : e.op = x /\ e.type # "LOCOP_IN_PROGRESS"})
                      + Cardinality({i \in DOMAIN started : started[i] = x})
                      + Cardinality({x} \cap dropped)
                          = IF depCnt[x] = 0 THEN 1 ELSE 0
    BY DEF EachOpOnce
  <2>1. x \in AllOps
    BY ScheduleTypes DEF Types, GraphTypes
  <2>2. Copies[x] = IF x \in Listed THEN 1 ELSE 0
    <3>1. Copies[x] = Cardinality({i \in DOMAIN executableNodes : executableNodes[i] = x})
      BY <2>1 DEF Copies
    <3>2. QED
      BY <3>1, ListedOnce DEF Places, NoneTwice, Listed
  <2>3. Cardinality({i \in DOMAIN started : started[i] = x}) = IF x \in Started THEN 1 ELSE 0
    BY ListedOnce DEF Places, NoneTwice, Started
  <2>4. Cardinality({x} \cap dropped) = IF x \in dropped THEN 1 ELSE 0
    <3>1. CASE x \in dropped
      BY <3>1, FS_Singleton, {x} \cap dropped = {x}
    <3>2. CASE x \notin dropped
      BY <3>2, FS_EmptySet, {x} \cap dropped = {}
    <3>3. QED
      BY <3>1, <3>2
  <2> DEFINE Q == {e \in aq : e.op = x /\ e.type # "LOCOP_IN_PROGRESS"}
  <2>5. Cardinality(Q) = IF x \in Waiting THEN 1 ELSE 0
    <3>1. \A e \in Q : e \in aq /\ e.op = x /\ e.type \in Pending
      <4>1. ASSUME NEW e \in Q PROVE e.type \in Pending
        <5>1. x # None
          BY <2>1, EngineAssumption
        <5>2. e.type # "MSG"
          BY <5>1 DEF Types, AqTypes, Genuine, OfMessage
        <5>3. QED
          BY <5>2 DEF Types, AqTypes, ElementType, Pending
      <4>2. QED
        BY <4>1
    <3>2. \A e, f \in Q : e = f
      BY <3>1 DEF Places, NoneTwice, Pending
    <3>3. CASE x \in Waiting
      <4>1. PICK e \in aq : e.type \in Pending /\ e.op = x
        BY <3>3 DEF Waiting
      <4>2. e \in Q
        BY <4>1 DEF Pending
      <4> HIDE DEF Q
      <4>3. Q = {e}
        BY <3>2, <4>2
      <4>4. QED
        BY <3>3, <4>3, FS_Singleton
    <3>4. CASE x \notin Waiting
      <4>1. Q = {}
        BY <3>1, <3>4 DEF Waiting
      <4> HIDE DEF Q
      <4>2. QED
        BY <3>4, <4>1, FS_EmptySet
    <3>5. QED
      BY <3>3, <3>4
  <2>6. x \in Free <=> depCnt[x] = 0
    BY DEF Free
  <2>7. Partition
    BY DEF Places
  <2> HIDE DEF Q
  <2>8. QED
    <3>1. CASE depCnt[x] = 0
      <4>1. x \in Listed \cup Waiting \cup Started \cup dropped
        BY <2>6, <2>7, <3>1 DEF Partition
      <4>2. /\ x \in Listed => x \notin Waiting /\ x \notin Started /\ x \notin dropped
            /\ x \in Waiting => x \notin Started /\ x \notin dropped
            /\ x \in Started => x \notin dropped
        BY <2>7 DEF Partition
      <4>3. QED
        BY <2>2, <2>3, <2>4, <2>5, <3>1, <4>1, <4>2 DEF Q
    <3>2. CASE depCnt[x] # 0
      <4>1. x \notin Listed /\ x \notin Waiting /\ x \notin Started /\ x \notin dropped
        BY <2>6, <2>7, <3>2 DEF Partition
      <4>2. QED
        BY <2>2, <2>3, <2>4, <2>5, <3>2, <4>1 DEF Q
    <3>3. QED
      BY <3>1, <3>2
<1>2. QED
  BY <1>1, Inductive, PTL

\* rq holds the receives that are started and not done, each of them once:
\* no receive is marked done while it waits, and none waits for ever because
\* it has been marked done.
THEOREM ReceivesKept == Spec => []ReceivesConserved
<1>1. Types /\ Places => ReceivesConserved
  <2> SUFFICES ASSUME Types, Places, NEW h \in Hosts
               PROVE  /\ Offsets(rq[h]) = Posted(h)
                      /\ Len(rq[h]) = Cardinality(Offsets(rq[h]))
    BY DEF ReceivesConserved, Posted, Started, Offsets
  <2>1. Offsets(rq[h]) = Posted(h) /\ Distinct(rq[h])
    BY DEF Places, Receives
  <2> DEFINE f == [i \in DOMAIN rq[h] |-> rq[h][i].offset]
  <2>2. Len(rq[h]) \in Nat /\ DOMAIN rq[h] = 1 .. Len(rq[h])
    BY QueueElements, LenProperties DEF Types
  <2>3. f \in Bijection(1 .. Len(rq[h]), Offsets(rq[h]))
    BY <2>1, <2>2 DEF Bijection, Injection, Surjection, IsInjective, Offsets, Distinct
  <2>4. QED
    BY <2>1, <2>2, <2>3, FS_CountingElements DEF ExistsBijection
<1>2. QED
  BY <1>1, Inductive, PTL

-----------------------------------------------------------------------------
(* The clocks, and the order in which operations get their turn.           *)

StopsAhead == \A s \in Helper!BagToSet(stops) : s >= now

ClockStep ==
    /\ \A h \in Hosts, c \in CPUs : nexto'[h][c] >= nexto[h][c]
    /\ \A h \in Hosts : nextgr'[h] >= nextgr[h]
    /\ now' >= now

\* An element that starts a calc or takes a message finds its CPU and NIC
\* free before it sets their clocks.
LEMMA ElementClocks ==
    ASSUME Types, NEW e \in aq,
           \/ CalcStart(e) \/ CalcReinsert(e) \/ CalcDone(e)
           \/ SendStart(e) \/ SendDrop(e) \/ RecvMatched(e) \/ RecvQueued(e)
           \/ MsgMatched(e) \/ MsgQueued(e) \/ MsgReinsert(e)
    PROVE  ClockStep /\ now' = now /\ stops' = stops
<1>1. /\ nexto \in [Hosts -> [CPUs -> Nat]] /\ nextgr \in [Hosts -> Nat] /\ now \in Nat
      /\ e.host \in Hosts /\ e.time \in Nat /\ 0 \in CPUs
  BY DEF Types, ClockTypes, AqTypes, ElementType, HelperTypes, Helper!TypeOK, CPUs
<1>2. UNCHANGED <<now, stops>>
  BY DEF CalcStart, CalcReinsert, CalcDone, SendStart, SendDrop, RecvMatched, RecvQueued,
     MsgMatched, MsgQueued, MsgReinsert, Pop, helperVars, Helper!ns3_schedule
<1>3. CASE UNCHANGED clockVars
  BY <1>1, <1>2, <1>3 DEF ClockStep, clockVars
<1>4. CASE CalcStart(e)
  <2>1. Due(e) /\ Popped /\ e.type = "LOCOP" /\ e.time <= now
    BY <1>4 DEF CalcStart, Pop, Due
  <2>2. CPU(e) \in CPUs /\ Op(e.op).size \in Nat
    <3>1. Genuine(e)
      BY DEF Types, AqTypes
    <3>2. Op(e.op) \in Operation
      BY <2>1, <3>1, ScheduleTypes DEF Genuine, OfOperation, Types, GraphTypes
    <3>3. QED
      BY <3>2 DEF CPU, Operation
  <2>3. /\ nexto[e.host][CPU(e)] <= e.time /\ nextgr' = nextgr
        /\ nexto' = [nexto EXCEPT ![e.host][CPU(e)] = Op(e.op).size + now]
    BY <1>4 DEF CalcStart
  <2>4. nexto[e.host][CPU(e)] \in Nat /\ Op(e.op).size + now >= nexto[e.host][CPU(e)]
    BY <1>1, <2>1, <2>2, <2>3
  <2>5. \A h \in Hosts, c \in CPUs :
            nexto'[h][c] = IF h = e.host /\ c = CPU(e) THEN Op(e.op).size + now ELSE nexto[h][c]
    BY <1>1, <2>2, <2>3
  <2>6. \A h \in Hosts, c \in CPUs : nexto[h][c] \in Nat
    BY <1>1
  <2>7. QED
    BY <1>1, <1>2, <2>3, <2>4, <2>5, <2>6 DEF ClockStep
<1>5. CASE Occupy(e) /\ Available(e)
  <2>1. /\ nexto' = [nexto EXCEPT ![e.host][0] = e.time]
        /\ nextgr' = [nextgr EXCEPT ![e.host] = e.time]
    BY <1>5 DEF Occupy
  <2>2. nexto[e.host][0] <= e.time /\ nextgr[e.host] <= e.time
    <3>1. nexto[e.host][0] \in Nat /\ nextgr[e.host] \in Nat
      BY <1>1
    <3>2. QED
      BY <1>1, <1>5, <3>1 DEF Available, Helper!Latest
  <2>3. \A h \in Hosts, c \in CPUs :
            nexto'[h][c] = IF h = e.host /\ c = 0 THEN e.time ELSE nexto[h][c]
    BY <1>1, <2>1
  <2>4. \A h \in Hosts : nextgr'[h] = IF h = e.host THEN e.time ELSE nextgr[h]
    BY <1>1, <2>1
  <2>5. /\ \A h \in Hosts, c \in CPUs : nexto[h][c] \in Nat
        /\ \A h \in Hosts : nextgr[h] \in Nat
    BY <1>1
  <2>6. QED
    BY <1>1, <1>2, <2>2, <2>3, <2>4, <2>5 DEF ClockStep
<1>6. QED
  <2>1. UNCHANGED clockVars \/ CalcStart(e) \/ (Occupy(e) /\ Available(e))
    BY DEF CalcReinsert, CalcDone, SendStart, SendDrop, RecvMatched, RecvQueued,
       MsgMatched, MsgQueued, MsgReinsert
  <2>2. QED
    BY <1>2, <1>3, <1>4, <1>5, <2>1

\* NS-3 moves its clock from event to event, and every Stop lies ahead.
LEMMA Ns3Clocks ==
    ASSUME Types, StopsAhead, RunNs3 \/ Network \/ Return
    PROVE  ClockStep /\ StopsAhead'
<1>1. /\ nexto \in [Hosts -> [CPUs -> Nat]] /\ nextgr \in [Hosts -> Nat] /\ now \in Nat
      /\ temp \in Nat /\ UNCHANGED <<nexto, nextgr>>
  BY DEF Types, ClockTypes, AqTypes, HelperTypes, Helper!TypeOK, RunNs3, Network, Return, engineVars, clockVars
<1>2. /\ \A h \in Hosts, c \in CPUs : nexto[h][c] \in Nat
      /\ \A h \in Hosts : nextgr[h] \in Nat
  BY <1>1
<1>3. Helper!BagToSet(stops) \subseteq Nat
  BY DEF Types, HelperTypes, Helper!TypeOK
<1>4. now' >= now /\ StopsAhead'
  <2>1. CASE RunNs3
    <3>1. \/ stops' = stops
          \/ stops' = Helper!(+)(stops, Helper!SetToBag({now + temp}))
      BY <2>1 DEF RunNs3, Helper!ns3_simulate_until, Helper!ns3_simulate_forever, Helper!Simulate
    <3>2. now' = now
      BY <2>1 DEF RunNs3, Helper!ns3_simulate_until, Helper!ns3_simulate_forever, Helper!Simulate
    <3>3. \A s \in Helper!BagToSet(stops)' : s \in Helper!BagToSet(stops) \/ s = now + temp
      BY <3>1 DEF Helper!(+), Helper!SetToBag, Helper!BagToSet
    <3>4. QED
      BY <1>1, <3>2, <3>3 DEF StopsAhead
  <2>2. ASSUME NEW k \in Keys, NEW t \in Nat, Helper!SinkRxPartial(k, t) \/ Helper!SinkRxComplete(k, t)
        PROVE  now' >= now /\ StopsAhead'
    <3>1. now' = t /\ stops' = stops /\ t \in Helper!ArrivalTimes(k)
      BY <2>2 DEF Helper!SinkRxPartial, Helper!SinkRxComplete
    <3>2. now' >= now
      BY <2>2, ArrivalTypes DEF Types
    <3>3. QED
      BY <3>1, <3>2 DEF StopsAhead, Helper!ArrivalTimes, Helper!BagToSet
  <2>3. CASE Helper!StopFires
    <3>1. PICK s \in Helper!BagToSet(stops) :
              /\ \A r \in Helper!BagToSet(stops) : s <= r
              /\ now' = s /\ stops' = Helper!(-)(stops, Helper!SetToBag({s}))
      BY <2>3 DEF Helper!StopFires
    <3>2. \A r \in Helper!BagToSet(stops)' : r \in Helper!BagToSet(stops)
      BY <3>1 DEF Helper!(-), Helper!SetToBag, Helper!BagToSet
    <3>3. \A r \in Helper!BagToSet(stops) : r \in Nat
      BY <1>3
    <3>4. QED
      BY <1>1, <3>1, <3>2, <3>3 DEF StopsAhead
  <2>4. CASE Helper!RunDry
    BY <1>1, <2>4 DEF Helper!RunDry, StopsAhead, Helper!Latest, Helper!EndOfTime, Helper!netVars,
       Helper!EmptyBag, Helper!SetToBag, Helper!BagToSet
  <2>5. CASE UNCHANGED <<now, stops>>
    BY <1>1, <2>5 DEF StopsAhead, Helper!BagToSet
  <2>6. QED
    <3>1. CASE Network
      <4>1. CASE \E k \in Keys : Helper!Resend(k) \/ Helper!Lose(k)
        BY <2>5, <4>1 DEF Helper!Resend, Helper!Lose
      <4>2. HelperTypes /\ Helper!Network
        BY <3>1 DEF Network, Types
      <4>3. QED
        BY <2>2, <2>3, <2>4, <4>1, <4>2, NetworkOfData
    <3>2. CASE Return
      BY <2>5, <3>2 DEF Return, Helper!Return
    <3>3. QED
      BY <2>1, <3>1, <3>2
<1>5. QED
  BY <1>1, <1>2, <1>4 DEF ClockStep

\* No step sets a clock back or leaves a Stop event behind.
LEMMA NextClocks ==
    ASSUME Types, StopsAhead, [Next]_vars
    PROVE  ClockStep /\ StopsAhead'
<1>1. /\ nexto \in [Hosts -> [CPUs -> Nat]] /\ nextgr \in [Hosts -> Nat] /\ now \in Nat
  BY DEF Types, ClockTypes, HelperTypes, Helper!TypeOK
<1>2. CASE Element
  <2>1. ClockStep /\ now' = now /\ stops' = stops
    BY <1>2, ElementClocks DEF Element
  <2>2. QED
    BY <2>1 DEF StopsAhead, Helper!BagToSet
<1>3. CASE RunNs3 \/ Network \/ Return
  BY <1>3, Ns3Clocks
<1>4. CASE \/ InitialFreeOp \/ EnterMain \/ EnterLoop \/ LeaveLoop \/ Exit \/ SkipNs3
           \/ FreeOp \/ EndCycle \/ Terminated \/ UNCHANGED vars
  <2>1. UNCHANGED <<nexto, nextgr, now, stops>>
    BY <1>4 DEF InitialFreeOp, EnterMain, EnterLoop, LeaveLoop, Exit, SkipNs3, FreeOp, EndCycle,
       Terminated, InsertFreeOp, vars, engineVars, clockVars, helperVars
  <2>2. /\ \A h \in Hosts, c \in CPUs : nexto[h][c] \in Nat
        /\ \A h \in Hosts : nextgr[h] \in Nat
    BY <1>1
  <2>3. QED
    BY <1>1, <2>1, <2>2 DEF ClockStep, StopsAhead, Helper!BagToSet
<1>5. QED
  BY <1>2, <1>3, <1>4 DEF Next

\* An operation waits for a time up to t, or for its CPU.
InTime(e, t) == e.time <= t \/ (e.type = "LOCOP" /\ e.time <= nexto[e.host][CPU(e)])

Stamped == \A e \in aq : e.type \in Pending => e.ts < aqtime /\ InTime(e, now)

InTurn ==
    \A e, f \in aq : e.type \in Pending /\ Rivals(e, f) /\ e.ts < f.ts => InTime(e, f.time)

Turns == StopsAhead /\ Stamped /\ InTurn

\* The CPU of an operation.
LEMMA CpuOf ==
    ASSUME Types, NEW e \in aq, e.type \in Pending
    PROVE  /\ e \in ElementType /\ e.time \in Nat /\ e.ts \in Nat /\ e.host \in Hosts /\ CPU(e) \in CPUs
           /\ nexto[e.host][CPU(e)] \in Nat
<1>1. e \in ElementType /\ OfOperation(e)
  BY DEF Types, AqTypes, Genuine, Pending
<1>2. CPU(e) \in CPUs
  BY <1>1, ScheduleTypes DEF OfOperation, CPU, Operation, Types, GraphTypes
<1>3. QED
  BY <1>1, <1>2 DEF ElementType, Types, ClockTypes

\* What was in time stays so.
LEMMA StaysInTime ==
    ASSUME Types, Types', ClockStep, prog' = prog, NEW e \in aq, e.type \in Pending,
           NEW t \in Nat, NEW u \in Nat, t <= u, InTime(e, t)
    PROVE  e.time <= u \/ (e.type = "LOCOP" /\ e.time <= nexto'[e.host][CPU(e)'])
<1>1. e.time \in Nat /\ e.host \in Hosts /\ CPU(e) \in CPUs /\ nexto[e.host][CPU(e)] \in Nat
  BY CpuOf
<1>2. CPU(e)' = CPU(e)
  BY DEF CPU, Op
<1>3. nexto'[e.host][CPU(e)] >= nexto[e.host][CPU(e)] /\ nexto'[e.host][CPU(e)] \in Nat
  BY <1>1 DEF ClockStep, Types, ClockTypes
<1>4. QED
  BY <1>1, <1>2, <1>3 DEF InTime

\* Turns are kept by a step that moves no clock back and brings no operation
\* into aq.
LEMMA TurnsFrame ==
    ASSUME Types, Types', Turns, ClockStep, prog' = prog, aqtime' = aqtime,
           \A e \in aq' : e.type \in Pending => e \in aq
    PROVE  Stamped' /\ InTurn'
<1>1. now \in Nat /\ now' \in Nat /\ now <= now'
  BY DEF Types, HelperTypes, Helper!TypeOK, ClockStep
<1>2. Stamped'
  <2>1. ASSUME NEW e \in aq', e.type \in Pending PROVE e.ts < aqtime' /\ InTime(e, now)'
    <3>1. e \in aq /\ e.ts < aqtime /\ InTime(e, now)
      BY <2>1 DEF Turns, Stamped
    <3>2. e.time <= now' \/ (e.type = "LOCOP" /\ e.time <= nexto'[e.host][CPU(e)'])
      BY <1>1, <2>1, <3>1, StaysInTime
    <3>3. QED
      BY <3>1, <3>2 DEF InTime
  <2>2. QED
    BY <2>1 DEF Stamped
<1>3. InTurn'
  <2>1. ASSUME NEW e \in aq', NEW f \in aq', e.type \in Pending, Rivals(e, f)', e.ts < f.ts
        PROVE  InTime(e, f.time)'
    <3>1. Rivals(e, f) /\ f.type \in Pending
      BY <2>1 DEF Rivals, CPU, Op
    <3>2. e \in aq /\ f \in aq /\ InTime(e, f.time) /\ f.time \in Nat
      BY <2>1, <3>1, CpuOf DEF Turns, InTurn
    <3>3. QED
      BY <2>1, <3>2, StaysInTime DEF InTime
  <2>2. QED
    BY <2>1 DEF InTurn
<1>4. QED
  BY <1>2, <1>3

\* A calc is turned away, and waits for its CPU.
LEMMA TurnedAway ==
    ASSUME Types, Types', Turns, ClockStep, NEW e \in aq, CalcReinsert(e)
    PROVE  Stamped' /\ InTurn'
<1> DEFINE f == [e EXCEPT !.time = nexto[e.host][CPU(e)]]
<1>1. /\ e.type = "LOCOP" /\ Replaces(e, {f}) /\ prog' = prog /\ aqtime' = aqtime
      /\ nexto' = nexto /\ now' = now /\ nexto[e.host][CPU(e)] > e.time
  BY DEF CalcReinsert, Pop, Popped, Replaces, clockVars, helperVars
<1>2. e \in ElementType /\ e.time \in Nat /\ nexto[e.host][CPU(e)] \in Nat /\ now \in Nat /\ aqtime \in Nat
  BY <1>1, CpuOf DEF Pending, Types, AqTypes, HelperTypes, Helper!TypeOK
<1>3. /\ f.type = "LOCOP" /\ f.op = e.op /\ f.host = e.host /\ f.ts = e.ts
      /\ f.time = nexto[e.host][CPU(e)]
  BY <1>1, <1>2 DEF ElementType
<1>4. CPU(f) = CPU(e)
  BY <1>3 DEF CPU
<1>5. aq' = (aq \ {e}) \cup {f}
  BY <1>1 DEF Replaces
<1> HIDE DEF f
<1>6. \A g : CPU(g)' = CPU(g) /\ (\A t : InTime(g, t)' <=> InTime(g, t))
  BY <1>1 DEF CPU, Op, InTime
<1>7. \A t : InTime(f, t)
  BY <1>2, <1>3, <1>4 DEF InTime
<1>8. Stamped'
  <2>1. ASSUME NEW g \in aq', g.type \in Pending PROVE g.ts < aqtime /\ InTime(g, now)
    <3>1. CASE g = f
      BY <1>1, <1>3, <1>7, <3>1 DEF Turns, Stamped, Pending
    <3>2. CASE g # f
      BY <1>5, <2>1, <3>2 DEF Turns, Stamped
    <3>3. QED
      BY <3>1, <3>2
  <2>2. QED
    BY <1>1, <1>6, <2>1 DEF Stamped, InTime
<1>9. InTurn'
  <2>1. ASSUME NEW g \in aq', NEW k \in aq', g.type \in Pending, Rivals(g, k)', g.ts < k.ts
        PROVE  InTime(g, k.time)
    <3>1. Rivals(g, k)
      BY <1>6, <2>1 DEF Rivals
    <3>2. CASE g = f
      BY <1>7, <3>2
    <3>3. CASE g # f /\ k # f
      BY <1>5, <2>1, <3>1, <3>3 DEF Turns, InTurn
    <3>4. CASE g # f /\ k = f
      <4>1. g \in aq /\ Rivals(g, e) /\ g.ts < e.ts
        BY <1>1, <1>3, <1>4, <1>5, <2>1, <3>1, <3>4 DEF Rivals
      <4>2. InTime(g, e.time)
        BY <2>1, <4>1 DEF Turns, InTurn
      <4>3. g.time \in Nat
        BY <2>1, <4>1, CpuOf
      <4>4. QED
        BY <1>1, <1>2, <1>3, <3>4, <4>2, <4>3 DEF InTime
    <3>5. QED
      BY <3>2, <3>3, <3>4
  <2>2. QED
    BY <1>6, <2>1 DEF InTurn, InTime
<1>10. QED
  BY <1>8, <1>9

\* An operation comes into aq behind those that are there.
LEMMA ComesLast ==
    ASSUME Types, Turns, InsertFreeOp
    PROVE  Stamped' /\ InTurn'
<1>1. PICK x : aq' = aq \cup {OpElement(x, now, aqtime)}
  BY DEF InsertFreeOp
<1> DEFINE f == OpElement(x, now, aqtime)
<1>2. f.time = now /\ f.ts = aqtime
  BY DEF OpElement
<1>3. aq' = aq \cup {f}
  BY <1>1
<1> HIDE DEF f
<1>4. /\ aqtime' = aqtime + 1 /\ aqtime \in Nat /\ now \in Nat /\ now' = now
      /\ prog' = prog /\ nexto' = nexto
  BY DEF InsertFreeOp, clockVars, helperVars, Types, AqTypes, HelperTypes, Helper!TypeOK
<1>5. \A g : CPU(g)' = CPU(g) /\ (\A t : InTime(g, t)' <=> InTime(g, t))
  BY <1>4 DEF CPU, Op, InTime
<1>6. ASSUME NEW g \in aq, g.type \in Pending PROVE g.ts < aqtime /\ InTime(g, now) /\ g.ts \in Nat
  BY <1>6, CpuOf DEF Turns, Stamped
<1>7. InTime(f, now)
  BY <1>2, <1>4 DEF InTime
<1>8. Stamped'
  <2>1. ASSUME NEW g \in aq', g.type \in Pending PROVE g.ts < aqtime' /\ InTime(g, now)
    <3>1. CASE g = f
      BY <1>2, <1>4, <1>7, <3>1
    <3>2. CASE g # f
      BY <1>3, <1>4, <1>6, <2>1, <3>2
    <3>3. QED
      BY <3>1, <3>2
  <2>2. QED
    BY <1>4, <1>5, <2>1 DEF Stamped, InTime
<1>9. InTurn'
  <2>1. ASSUME NEW g \in aq', NEW k \in aq', g.type \in Pending, Rivals(g, k)', g.ts < k.ts
        PROVE  InTime(g, k.time)
    <3>1. Rivals(g, k) /\ k.type \in Pending
      BY <1>5, <2>1 DEF Rivals
    <3>2. CASE g = f
      <4>1. k # f
        BY <1>2, <1>4, <2>1, <3>2
      <4>2. k.ts < aqtime /\ k.ts \in Nat
        BY <1>3, <1>6, <3>1, <4>1
      <4>3. QED
        BY <1>2, <1>4, <2>1, <3>2, <4>2
    <3>3. CASE g # f /\ k # f
      BY <1>3, <2>1, <3>1, <3>3 DEF Turns, InTurn
    <3>4. CASE g # f /\ k = f
      BY <1>2, <1>3, <1>6, <2>1, <3>4
    <3>5. QED
      BY <3>2, <3>3, <3>4
  <2>2. QED
    BY <1>5, <2>1 DEF InTurn, InTime
<1>10. QED
  BY <1>8, <1>9

\* Every step keeps what the program counter says of aq and the lists.
LEMMA NextTurns == Types /\ Types' /\ Turns /\ [Next]_vars => Turns'
<1> SUFFICES ASSUME Types, Types', Turns, [Next]_vars PROVE Turns'
  OBVIOUS
<1>1. ClockStep /\ StopsAhead'
  BY NextClocks DEF Turns
<1>2. CASE InitialFreeOp \/ FreeOp
  BY <1>1, <1>2, ComesLast DEF InitialFreeOp, FreeOp, Turns
<1>3. ASSUME NEW e \in aq, CalcReinsert(e) PROVE Turns'
  BY <1>1, <1>3, TurnedAway DEF Turns
<1>4. ASSUME NEW e \in aq,
             \/ CalcStart(e) \/ CalcDone(e)
             \/ SendStart(e) \/ SendDrop(e) \/ RecvMatched(e) \/ RecvQueued(e)
             \/ MsgMatched(e) \/ MsgQueued(e) \/ MsgReinsert(e)
      PROVE  Turns'
  <2>1. prog' = prog /\ aqtime' = aqtime
    BY <1>4 DEF CalcStart, CalcDone, SendStart, SendDrop, RecvMatched, RecvQueued,
       MsgMatched, MsgQueued, MsgReinsert, Pop, Popped
  <2>2. \A f \in aq' : f.type \in Pending => f \in aq
    <3>1. e \in ElementType
      BY DEF Types, AqTypes
    <3>2. CASE aq' = aq \ {e}
      BY <3>2
    <3>3. CASE CalcStart(e)
      BY <3>1, <3>3 DEF CalcStart, ElementType, Pending
    <3>4. CASE MsgReinsert(e)
      BY <3>1, <3>4 DEF MsgReinsert, ElementType, Pending
    <3>5. QED
      BY <1>4, <3>2, <3>3, <3>4 DEF CalcDone, SendStart, SendDrop, RecvMatched, RecvQueued,
         MsgMatched, MsgQueued
  <2>3. QED
    BY <1>1, <2>1, <2>2, TurnsFrame DEF Turns
<1>5. CASE \/ EnterMain \/ EnterLoop \/ LeaveLoop \/ Exit \/ SkipNs3
           \/ RunNs3 \/ Network \/ Return \/ EndCycle \/ Terminated \/ UNCHANGED vars
  <2>1. /\ UNCHANGED <<prog, aqtime>>
        /\ aq' = aq \/ aq' = aq \cup (IF latest = None THEN {} ELSE {MsgElement(latest)})
    BY <1>5 DEF EnterMain, EnterLoop, LeaveLoop, Exit, SkipNs3, RunNs3, Network, Return,
       EndCycle, Terminated, vars, engineVars
  <2>2. \A f \in aq' : f.type \in Pending => f \in aq
    BY <2>1 DEF MsgElement, Pending
  <2>3. QED
    BY <1>1, <2>1, <2>2, TurnsFrame DEF Turns
<1>6. QED
  BY <1>2, <1>3, <1>4, <1>5 DEF Next, Element

\* The engine as a whole.
IInv == Types /\ Places /\ Turns

\* The inductive invariant of the engine holds in every reachable state.
THEOREM Invariance == Spec => []IInv
<1>1. Init => Turns
  BY DEF Init, Turns, StopsAhead, Stamped, InTurn, Helper!HelperInit, Helper!EmptyBag,
     Helper!SetToBag, Helper!BagToSet
<1>2. QED
  BY <1>1, InitTypes, InitPlaces, NextTypes, NextPlaces, NextTurns, PTL DEF Spec, IInv

\* The clocks of CPUs, of NICs and of NS-3 never run backwards: a message
\* does not take back the time that a calc has reserved.
THEOREM ClocksForward == Spec => ClocksMonotone
<1>1. IInv /\ [Next]_vars =>
          [/\ \A h \in Hosts, c \in CPUs : nexto'[h][c] >= nexto[h][c]
           /\ \A h \in Hosts : nextgr'[h] >= nextgr[h]
           /\ now' >= now]_vars
  BY NextClocks DEF IInv, Turns, ClockStep
<1>2. QED
  BY <1>1, Invariance, PTL DEF Spec, ClocksMonotone

\* Who starts: the element on top of aq, whose CPU is available.
LEMMA WhoStarts ==
    ASSUME IInv, [Next]_vars, NEW f \in aq, f.type # "MSG", started' = Append(started, f.op)
    PROVE  /\ f \in Tops /\ f.type \in Pending
           /\ f.type = "LOCOP" => nexto[f.host][CPU(f)] <= f.time
<1>1. started \in Seq(Ops) /\ Types /\ Places
  BY DEF IInv, Types, HistoryTypes
<1>2. \A x : started # Append(started, x)
  BY <1>1, AppendProperties
<1>3. started' # started
  BY <1>2
<1>4. PICK e \in aq : /\ CalcStart(e) \/ SendStart(e) \/ RecvMatched(e) \/ RecvQueued(e)
  BY <1>3 DEF Next, InitialFreeOp, EnterMain, EnterLoop, LeaveLoop, Exit, SkipNs3, RunNs3,
     Network, Return, FreeOp, EndCycle, Terminated, InsertFreeOp, vars, engineVars, historyVars,
     Element, CalcReinsert, CalcDone, SendDrop, MsgMatched, MsgQueued, MsgReinsert
<1>5. started' = Append(started, e.op) /\ e \in Tops /\ e.type \in Pending /\ e.type # "MSG"
  BY <1>4 DEF CalcStart, SendStart, RecvMatched, RecvQueued, Pop, Due, Pending
<1>6. e.op = f.op
  <2>1. Append(started, e.op)[Len(started) + 1] = e.op /\ Append(started, f.op)[Len(started) + 1] = f.op
    <3>1. e.op \in Ops /\ f.op \in Ops
      BY <1>1, <1>5 DEF Types, AqTypes, Genuine, OfOperation
    <3>2. QED
      BY <1>1, <3>1, AppendProperties
  <2>2. QED
    BY <1>5, <2>1
<1>7. e = f
  BY <1>1, <1>5, <1>6 DEF Places, NoneTwice
<1>8. f.type = "LOCOP" => nexto[f.host][CPU(f)] <= f.time
  BY <1>4, <1>7 DEF CalcStart, SendStart, RecvMatched, RecvQueued
<1>9. QED
  BY <1>5, <1>7, <1>8

\* Of the operations of one type that wait for one CPU, the first inserted
\* is the first to start, however often the CPU turned it away.
THEOREM StartInOrder == Spec => InsertionOrder
<1>1. IInv /\ [Next]_vars =>
          [\A e \in aq : \A f \in {g \in aq : Rivals(e, g) /\ e.ts < g.ts} :
              started' # Append(started, f.op)]_vars
  <2> SUFFICES ASSUME IInv, [Next]_vars, NEW e \in aq, NEW f \in aq, Rivals(e, f), e.ts < f.ts,
                      started' = Append(started, f.op)
               PROVE  FALSE
    OBVIOUS
  <2>1. f.type # "MSG" /\ e.type = f.type
    BY DEF Rivals
  <2>2. /\ f \in Tops /\ f.type \in Pending
        /\ f.type = "LOCOP" => nexto[f.host][CPU(f)] <= f.time
    BY <2>1, WhoStarts
  <2>3. InTime(e, f.time)
    BY <2>1, <2>2 DEF IInv, Turns, InTurn
  <2>4. e.host = f.host /\ CPU(e) = CPU(f)
    BY DEF Rivals
  <2>5. e.time \in Nat /\ f.time \in Nat /\ nexto[e.host][CPU(e)] \in Nat
    BY <2>1, <2>2, CpuOf DEF IInv
  <2>6. e.time <= f.time
    BY <2>1, <2>2, <2>3, <2>4, <2>5 DEF InTime
  <2>7. ~Before(e, f) /\ f.time <= e.time
    BY <2>2 DEF Tops
  <2>8. e.time = f.time
    BY <2>5, <2>6, <2>7
  <2>9. "MSG" \notin {e.type, f.type}
    BY <2>1
  <2>10. QED
    BY <2>7, <2>8, <2>9 DEF Before
<1>2. QED
  BY <1>1, Invariance, PTL DEF Spec, InsertionOrder

-----------------------------------------------------------------------------
(* How long NS-3 runs.                                                     *)

\* A message has at least one packet (one of no bytes is never completed).
SendsHavePackets ==
    \A P \in Programs : \A x \in DOMAIN P.ops : P.ops[x].type = "SEND" => P.ops[x].size >= 1

\* The packets that a message waits for are on their way, no Stop event is
\* pending, and LGS and NS-3 have the control in turn.
InTransit == \A k \in DOMAIN active : 1 <= active[k] /\ active[k] <= net[k]

NoStops == Helper!BagToSet(stops) = {}

InControl ==
    /\ pc # "sim" => mode = "lgs"
    /\ pc = "sim" => \/ mode = "ns3" /\ DOMAIN active # {}
                     \/ mode = "ret" /\ latest \in Keys

\* As long as sends are on their way, something is due when the inner loop
\* is entered.
DueFirst ==
    /\ pc = "init" => DOMAIN active = {}
    /\ pc \in {"free", "outer"} /\ DOMAIN active # {} => \E e \in aq : e.time <= now
    /\ pc = "inner" => temp <= now \/ (NothingDue /\ DOMAIN active = {})

Waits == InTransit /\ NoStops /\ InControl /\ DueFirst

\* A send hands its packets over.
LEMMA SendWaits ==
    ASSUME SendsHavePackets, Types, Waits, NEW e \in aq, SendStart(e)
    PROVE  InTransit' /\ NoStops' /\ UNCHANGED <<now, mode>>
<1>1. e.type = "SEND" /\ Helper!ns3_schedule(KeyOf(e.host, e.src, e.tag), Op(e.op).size)
  BY DEF SendStart
<1> DEFINE k == KeyOf(e.host, e.src, e.tag)
           p == Op(e.op).size
<1>2. OfOperation(e) /\ Op(e.op).type = "SEND"
  BY <1>1 DEF Types, AqTypes, Genuine, OfOperation
<1>3. k \in Keys /\ p \in Nat /\ p >= 1
  <2>1. Op(e.op) \in Operation /\ k \in Keys
    BY <1>2, ScheduleTypes DEF OfOperation, Types, GraphTypes
  <2>2. p >= 1
    BY <1>2 DEF SendsHavePackets, Types, GraphTypes, OfOperation, Op, Ops
  <2>3. QED
    BY <2>1, <2>2 DEF Operation
<1>4. /\ active' = [j \in DOMAIN active \cup {k} |-> IF j = k THEN p ELSE active[j]]
      /\ net' = [net EXCEPT ![k] = @ + p]
      /\ UNCHANGED <<now, stops, mode>>
  BY <1>1 DEF Helper!ns3_schedule
<1>5. /\ net \in [Helper!Hashes -> Nat] /\ DOMAIN active \subseteq Keys /\ Keys \subseteq Helper!Hashes
      /\ \A j \in DOMAIN active : active[j] \in Nat
  BY HelperFacts, DefaultTagApart DEF Types
<1> HIDE DEF k, p
<1>6. InTransit'
  BY <1>3, <1>4, <1>5 DEF Waits, InTransit
<1>7. QED
  BY <1>4, <1>6 DEF Waits, NoStops, Helper!BagToSet

\* In NS-3, a packet arrives, or is repeated: the run neither ends at a Stop
\* nor without an event, and comes back with a message.
LEMMA NetworkWaits ==
    ASSUME Types, Waits, Network
    PROVE  Waits'
<1>1. pc = "sim" /\ pc' = "sim" /\ mode \in {"ns3", "ret"}
  BY DEF Network, engineVars, Waits, InControl
<1>2. /\ net \in [Helper!Hashes -> Nat] /\ DOMAIN active \subseteq Keys /\ Keys \subseteq Helper!Hashes
      /\ \A j \in DOMAIN active : active[j] \in Nat
      /\ faults.lost = 0
  BY HelperFacts, DefaultTagApart DEF Types
<1>3. mode = "ns3" => DOMAIN active # {}
  BY <1>1 DEF Waits, InControl
<1>4. ASSUME NEW k \in Keys, NEW t, Helper!SinkRxPartial(k, t) PROVE Waits'
  <2>1. /\ mode = "ns3" /\ Helper!LeftAfter(k) > 0 /\ Helper!update_active_map(k)
        /\ net' = [net EXCEPT ![k] = @ - 1] /\ UNCHANGED <<stops, mode>>
    BY <1>4, DeliverEffect DEF Helper!SinkRxPartial, Types
  <2>2. k \in DOMAIN active /\ Helper!LeftAfter(k) = active[k] - 1 /\ active[k] > 1
    BY <1>2, <2>1 DEF Helper!LeftAfter
  <2>3. active' = [active EXCEPT ![k] = active[k] - 1]
    BY <1>2, <2>1, <2>2 DEF Helper!update_active_map
  <2>4. InTransit'
    BY <1>2, <2>1, <2>2, <2>3 DEF Waits, InTransit
  <2>5. NoStops'
    BY <2>1 DEF Waits, NoStops, Helper!BagToSet
  <2>6. QED
    BY <1>1, <2>1, <2>2, <2>3, <2>4, <2>5 DEF Waits, InControl, DueFirst
<1>5. ASSUME NEW k \in Keys, NEW t, Helper!SinkRxComplete(k, t) PROVE Waits'
  <2>1. /\ mode' = "ret" /\ latest' = k /\ Helper!LeftAfter(k) <= 0 /\ Helper!update_active_map(k)
        /\ net' = [net EXCEPT ![k] = @ - 1] /\ UNCHANGED stops
    BY <1>5, DeliverEffect DEF Helper!SinkRxComplete, Types
  <2>2. active' = [j \in DOMAIN active \ {k} |-> active[j]]
    BY <2>1 DEF Helper!update_active_map
  <2>3. InTransit'
    BY <1>2, <2>1, <2>2 DEF Waits, InTransit
  <2>4. NoStops'
    BY <2>1 DEF Waits, NoStops, Helper!BagToSet
  <2>5. QED
    BY <1>1, <2>1, <2>3, <2>4 DEF Waits, InControl, DueFirst
<1>6. ASSUME NEW k \in Keys, Helper!Resend(k) PROVE Waits'
  <2>1. net' = [net EXCEPT ![k] = @ + 1] /\ UNCHANGED <<active, latest, stops, mode>>
    BY <1>6 DEF Helper!Resend
  <2>2. InTransit'
    BY <1>2, <2>1 DEF Waits, InTransit
  <2>3. QED
    BY <1>1, <2>1, <2>2 DEF Waits, InControl, DueFirst, NoStops, Helper!BagToSet
<1>7. ~Helper!StopFires
  BY DEF Helper!StopFires, Waits, NoStops
<1>8. ~Helper!RunDry
  <2>1. SUFFICES ASSUME Helper!RunDry PROVE FALSE
    OBVIOUS
  <2>2. mode = "ns3" /\ \A k \in Keys : net[k] = 0
    BY <1>2, <2>1 DEF Helper!RunDry
  <2>3. PICK k \in DOMAIN active : TRUE
    BY <1>3, <2>2
  <2>4. QED
    BY <1>2, <2>2, <2>3 DEF Waits, InTransit
<1>9. \A k \in Keys : ~Helper!Lose(k)
  BY <1>2 DEF Helper!Lose
<1>10. HelperTypes /\ Helper!Network
  BY DEF Network, Types
<1>11. QED
  BY <1>4, <1>5, <1>6, <1>7, <1>8, <1>9, <1>10, NetworkOfData

\* Every step keeps what is known of the top that was copied early.
LEMMA NextWaits == SendsHavePackets /\ Types /\ Types' /\ Waits /\ [Next]_vars => Waits'
<1> SUFFICES ASSUME SendsHavePackets, Types, Types', Waits, [Next]_vars PROVE Waits'
  OBVIOUS
<1>1. now \in Nat /\ temp \in Nat /\ \A e \in aq : e.time \in Nat
  BY DEF Types, AqTypes, ElementType, HelperTypes, Helper!TypeOK
<1>2. ASSUME UNCHANGED <<active, net>> PROVE InTransit'
  BY <1>2 DEF Waits, InTransit
<1>3. ASSUME UNCHANGED stops PROVE NoStops'
  BY <1>3 DEF Waits, NoStops, Helper!BagToSet
<1>4. CASE Element
  <2>1. PICK e \in aq :
            \/ CalcStart(e) \/ CalcReinsert(e) \/ CalcDone(e)
            \/ SendStart(e) \/ SendDrop(e) \/ RecvMatched(e) \/ RecvQueued(e)
            \/ MsgMatched(e) \/ MsgQueued(e) \/ MsgReinsert(e)
    BY <1>4 DEF Element
  <2>2. Due(e) /\ Popped /\ (SendStart(e) \/ UNCHANGED helperVars)
    BY <2>1 DEF CalcStart, CalcReinsert, CalcDone, SendStart, SendDrop, RecvMatched, RecvQueued,
       MsgMatched, MsgQueued, MsgReinsert, Pop
  <2>3. InTransit' /\ NoStops' /\ UNCHANGED <<now, mode>>
    <3>1. CASE SendStart(e)
      BY <3>1, SendWaits
    <3>2. CASE UNCHANGED helperVars
      BY <1>2, <1>3, <3>2 DEF helperVars
    <3>3. QED
      BY <2>2, <3>1, <3>2
  <2>4. pc = "inner" /\ pc' = "inner" /\ temp' = temp /\ e.time <= now
    BY <2>2 DEF Due, Popped
  <2>5. temp <= now
    BY <1>1, <2>4 DEF Waits, DueFirst, NothingDue
  <2>6. QED
    BY <2>3, <2>4, <2>5 DEF Waits, InControl, DueFirst
<1>5. CASE Network
  BY <1>5, NetworkWaits
<1>6. CASE RunNs3
  <2>1. pc = "inner" /\ pc' = "sim" /\ DOMAIN active # {}
    BY <1>6 DEF RunNs3, Helper!ns3_simulate_until, Helper!ns3_simulate_forever, Helper!Simulate,
       Helper!all_sends_delivered
  <2>2. ~ (temp > now)
    BY <1>1, <2>1 DEF Waits, DueFirst
  <2>3. mode' = "ns3" /\ UNCHANGED <<active, net, stops>>
    BY <1>6, <2>2 DEF RunNs3, Helper!ns3_simulate_forever, Helper!Simulate, Helper!netVars
  <2>4. QED
    BY <1>2, <1>3, <2>1, <2>3 DEF Waits, InControl, DueFirst
<1>7. CASE Return
  <2>1. /\ pc = "sim" /\ pc' = "free" /\ mode = "ret" /\ mode' = "lgs"
        /\ UNCHANGED <<active, net, stops, now>>
    BY <1>7 DEF Return, Helper!Return, Helper!netVars
  <2>2. latest \in Keys /\ latest # None
    BY <2>1, EngineAssumption DEF Waits, InControl
  <2>3. MsgElement(latest) \in aq' /\ MsgElement(latest).time = now
    BY <1>7, <2>2 DEF Return, MsgElement
  <2>4. \E e \in aq' : e.time <= now'
    BY <1>1, <2>1, <2>3
  <2>5. QED
    BY <1>2, <1>3, <2>1, <2>4 DEF Waits, InControl, DueFirst
<1>8. CASE EnterLoop
  <2>1. /\ pc = "outer" /\ pc' = "inner" /\ UNCHANGED <<aq, helperVars>>
        /\ temp' = IF aq = {} THEN now ELSE Min({e.time : e \in aq})
    BY <1>8 DEF EnterLoop
  <2>2. UNCHANGED <<active, net, stops, now, mode>>
    BY <2>1 DEF helperVars
  <2>3. temp' <= now \/ (NothingDue /\ DOMAIN active = {})
    <3>1. CASE aq = {}
      BY <1>1, <2>1, <3>1
    <3>2. CASE aq # {}
      <4> DEFINE T == {e.time : e \in aq}
      <4>1. T \subseteq Nat /\ T # {}
        BY <1>1, <3>2
      <4>2. temp' = Min(T)
        BY <2>1, <3>2
      <4>3. \A e \in aq : e.time \in T
        OBVIOUS
      <4> HIDE DEF T
      <4>4. Min(T) \in T /\ \A t \in T : Min(T) <= t
        BY <4>1, LeastExists
      <4>5. \A e \in aq : temp' <= e.time /\ temp' \in Nat
        BY <4>1, <4>2, <4>3, <4>4
      <4>6. DOMAIN active # {} => \E e \in aq : e.time <= now
        BY <2>1 DEF Waits, DueFirst
      <4>7. CASE temp' <= now
        BY <4>7
      <4>8. CASE ~ (temp' <= now)
        <5>1. \A e \in aq : e.time > now
          BY <1>1, <4>5, <4>8
        <5>2. \A e \in aq : ~ (e.time <= now)
          BY <1>1, <5>1
        <5>3. QED
          BY <4>6, <5>1, <5>2 DEF NothingDue
      <4>9. QED
        BY <4>7, <4>8
    <3>3. QED
      BY <3>1, <3>2
  <2>4. NothingDue' <=> NothingDue
    BY <2>1, <2>2 DEF NothingDue
  <2>5. QED
    BY <1>2, <1>3, <2>1, <2>2, <2>3, <2>4 DEF Waits, InControl, DueFirst
<1>9. CASE InitialFreeOp \/ FreeOp
  <2>1. /\ pc \in {"init", "free"} /\ pc' = pc /\ UNCHANGED helperVars /\ aq \subseteq aq'
    BY <1>9 DEF InitialFreeOp, FreeOp, InsertFreeOp
  <2>2. UNCHANGED <<active, net, stops, now, mode>>
    BY <2>1 DEF helperVars
  <2>3. QED
    BY <1>2, <1>3, <2>1, <2>2 DEF Waits, InControl, DueFirst
<1>10. CASE EnterMain \/ LeaveLoop \/ Exit \/ SkipNs3 \/ EndCycle
  <2>1. UNCHANGED helperVars /\ UNCHANGED <<aq, temp>>
    BY <1>10 DEF EnterMain, LeaveLoop, Exit, SkipNs3, EndCycle
  <2>2. UNCHANGED <<active, net, stops, now, mode, latest>>
    BY <2>1 DEF helperVars
  <2>3. DueFirst'
    BY <1>10, <2>1, <2>2 DEF Waits, DueFirst, EnterMain, LeaveLoop, Exit, SkipNs3, EndCycle,
       Helper!all_sends_delivered
  <2>4. InControl'
    BY <1>10, <2>1, <2>2 DEF Waits, InControl, EnterMain, LeaveLoop, Exit, SkipNs3, EndCycle
  <2>5. QED
    BY <1>2, <1>3, <2>2, <2>3, <2>4 DEF Waits
<1>11. CASE Terminated \/ UNCHANGED vars
  <2>1. UNCHANGED <<active, net, stops, now, mode, latest, pc, aq, temp>>
    BY <1>11 DEF Terminated, vars, engineVars, helperVars
  <2>2. QED
    BY <1>2, <1>3, <2>1 DEF Waits, InControl, DueFirst, NothingDue
<1>12. QED
  BY <1>4, <1>5, <1>6, <1>7, <1>8, <1>9, <1>10, <1>11 DEF Next

\* The time of temp_elem, read before the inner loop, is never ahead when
\* NS-3 is about to run: NS-3 always runs until a message has been received,
\* and no Stop event of an earlier call can cut a run short.
THEOREM TopIsDue ==
    ASSUME SendsHavePackets
    PROVE  Spec => []StaleTop
<1>1. Init => Waits
  BY DEF Init, Waits, InTransit, NoStops, InControl, DueFirst, Helper!HelperInit, Helper!EmptyBag,
     Helper!SetToBag, Helper!BagToSet
<1>2. Waits => StaleTop
  BY DEF Waits, DueFirst, StaleTop, Helper!all_sends_delivered
<1>3. SendsHavePackets
  OBVIOUS
<1>4. QED
  BY <1>1, <1>2, <1>3, InitTypes, NextTypes, NextWaits, PTL DEF Spec

-----------------------------------------------------------------------------
(* The receives that may be posted from the beginning.                     *)

\* Those of the ranks whose first operations std::sort does not mix up.
Roots ==
    {x \in Ops : /\ Op(x).type = "RECV" /\ \A e \in prog.edges : e.of # x
                 /\ Cardinality(FromTheBeginning(Op(x).host)) <= SortThreshold}

SameHost(x, y) == Op(x).host = Op(y).host

\* They leave the list before the clock of NS-3 does its first step, and no
\* receive is dropped.
FromTheStart ==
    /\ pc = "init" => /\ now = 0 /\ started = << >>
                      /\ \A i, j \in DOMAIN executableNodes :
                            i < j => executableNodes[i] < executableNodes[j]
    /\ pc # "init" => Listed \cap Roots = {}
    /\ \A x \in dropped : Op(x).type = "SEND"

\* They wait in aq, all for the same time, with stamps in their order.
RootsQueued ==
    \A f \in aq : f.op \in Roots =>
        /\ f.time = 0
        /\ \A x \in Roots : SameHost(x, f.op) /\ x < f.op => x \notin Listed
        /\ \A e \in aq : e.op \in Roots /\ SameHost(e.op, f.op) /\ e.op < f.op => e.ts < f.ts

\* One is started when those before it are.
RootsStarted ==
    \A y \in Roots \cap Started, x \in Roots : SameHost(x, y) /\ x < y => x \in Started

InListedOrder ==
    \A i, j \in DOMAIN started :
        i < j /\ {started[i], started[j]} \subseteq Roots /\ SameHost(started[i], started[j])
            => started[i] < started[j]

RootsInOrder == FromTheStart /\ RootsQueued /\ RootsStarted /\ InListedOrder

\* A root may run from the beginning, and is in aq only as a receive.
LEMMA RootFacts ==
    ASSUME Types, Places
    PROVE  /\ Roots \subseteq Ops /\ Roots \subseteq Nat /\ Roots \subseteq Free
           /\ \A e \in aq : e.op \in Roots => e.type = "RECV"
<1>1. Ops \subseteq Nat /\ Ops \subseteq AllOps
  BY ScheduleTypes DEF Types, GraphTypes
<1>2. ASSUME NEW x \in Roots PROVE x \in Free
  <2>1. x \in Ops /\ Graph!Unsatisfied(x) = {}
    BY DEF Roots, Graph!Unsatisfied, Graph!Of
  <2>2. depCnt[x] = Cardinality(Graph!Unsatisfied(x))
    BY <1>1, <2>1, SameCardinality DEF Places, CountersAgree, Graph!CounterExact
  <2>3. QED
    BY <2>1, <2>2, FS_EmptySet DEF Free
<1>3. ASSUME NEW e \in aq, e.op \in Roots PROVE e.type = "RECV"
  <2>1. e.op # None
    BY <1>1, <1>3, EngineAssumption DEF Roots
  <2>2. QED
    BY <1>3, <2>1 DEF Types, AqTypes, Genuine, OfMessage, OfOperation, Roots
<1>4. QED
  BY <1>1, <1>2, <1>3 DEF Roots

\* A walk lists no root: nothing keeps it waiting that could be satisfied.
LEMMA WalkListsNoRoot ==
    ASSUME Types, Places, NEW S \in SUBSET Edges, Walk(S)
    PROVE  \A x \in Roots : x \in Listed' => x \in Listed
<1>1. PICK s \in Seq(Ops) : ToSet(s) = Freed(S) /\ executableNodes' = executableNodes \o s
  BY WalkEffect DEF Types
<1>2. executableNodes \in Seq(Ops)
  BY DEF Types, GraphTypes
<1>3. ASSUME NEW x \in Listed', x \notin Listed PROVE x \in Freed(S)
  <2>1. PICK i \in DOMAIN (executableNodes \o s) : (executableNodes \o s)[i] = x
    BY <1>1, <1>3 DEF Listed, ToSet
  <2>2. /\ Len(executableNodes) \in Nat /\ Len(s) \in Nat
        /\ DOMAIN executableNodes = 1 .. Len(executableNodes) /\ DOMAIN s = 1 .. Len(s)
    BY <1>2, LenProperties
  <2>3. i \in 1 .. Len(executableNodes) + Len(s)
    BY <1>2, <2>1, <2>2, ConcatProperties
  <2>4. (executableNodes \o s)[i] =
            IF i <= Len(executableNodes) THEN executableNodes[i] ELSE s[i - Len(executableNodes)]
    BY <1>2, <2>3, ConcatProperties
  <2>5. ~ (i <= Len(executableNodes))
    BY <1>3, <2>1, <2>2, <2>3, <2>4 DEF Listed, ToSet
  <2>6. i - Len(executableNodes) \in DOMAIN s
    BY <2>2, <2>3, <2>5
  <2>7. QED
    BY <1>1, <2>1, <2>4, <2>5, <2>6 DEF ToSet
<1>4. \A x \in Roots : x \notin Freed(S)
  BY RootFacts DEF Freed, Free
<1>5. QED
  BY <1>3, <1>4

\* A step that starts nothing, and brings no root into aq or onto the list.
LEMMA OrderFrame ==
    ASSUME Types, Types', RootsInOrder, prog' = prog, started' = started,
           \A e \in aq' : e.op \in Roots => e \in aq,
           \A x \in Roots : x \in Listed' => x \in Listed,
           \A x \in dropped' : x \in dropped \/ Op(x).type = "SEND",
           pc' = "init" => pc = "init" /\ UNCHANGED <<now, executableNodes>>,
           pc = "init" /\ pc' # "init" => Listed = {}
    PROVE  RootsInOrder'
<1>1. Roots' = Roots /\ Started' = Started /\ \A x, y : SameHost(x, y)' <=> SameHost(x, y)
  BY DEF Roots, FromTheBeginning, Started, SameHost, Op, Ops
<1>2. \A x : Op(x)' = Op(x)
  BY DEF Op
<1>3. FromTheStart'
  <2>1. pc' = "init" => now' = 0 /\ started' = << >>
    BY DEF RootsInOrder, FromTheStart
  <2>2. pc' = "init" => \A i, j \in DOMAIN executableNodes' :
                            i < j => executableNodes'[i] < executableNodes'[j]
    BY DEF RootsInOrder, FromTheStart
  <2>3. pc' # "init" => Listed' \cap Roots = {}
    BY DEF RootsInOrder, FromTheStart
  <2>4. \A x \in dropped' : Op(x).type = "SEND"
    BY DEF RootsInOrder, FromTheStart
  <2>5. QED
    BY <1>1, <1>2, <2>1, <2>2, <2>3, <2>4 DEF FromTheStart
<1>4. RootsQueued'
  BY <1>1 DEF RootsInOrder, RootsQueued
<1>5. RootsStarted' /\ InListedOrder'
  BY <1>1 DEF RootsInOrder, RootsStarted, InListedOrder
<1>6. QED
  BY <1>3, <1>4, <1>5 DEF RootsInOrder

\* What is sorted together is a part of the schedule.
LEMMA RankCounts ==
    ASSUME Types, NEW h
    PROVE  Cardinality(Batch(h)) \in Nat /\ Cardinality(FromTheBeginning(h)) \in Nat
<1>1. IsFiniteSet(Ops) /\ Batch(h) \in SUBSET Ops /\ FromTheBeginning(h) \in SUBSET Ops
  BY ScheduleTypes DEF Batch, FromTheBeginning, Types, GraphTypes
<1>2. QED
  BY <1>1, FS_Subset, FS_CardinalityType

\* What is sorted together before the main loop is what may run from the
\* beginning: nothing that could free another operation is started or done.
LEMMA FirstBatch ==
    ASSUME Types, Places, RootsInOrder, pc = "init", NEW h
    PROVE  Cardinality(Batch(h)) <= Cardinality(FromTheBeginning(h))
<1>1. started = << >> /\ Started = {} /\ done = {}
  <2>1. started = << >>
    BY DEF RootsInOrder, FromTheStart
  <2>2. Started = {}
    BY <2>1 DEF Started, ToSet
  <2>3. QED
    BY <2>1, <2>2 DEF Places, Finished
<1>2. ASSUME NEW x \in Batch(h) PROVE x \in FromTheBeginning(h)
  <2>1. x \in Ops /\ Op(x).host = h /\ x \in AllOps /\ depCnt[x] = 0
    BY ScheduleTypes DEF Batch, Types, GraphTypes
  <2>2. Cardinality(Graph!Unsatisfied(x)) = 0
    BY <2>1, SameCardinality DEF Places, CountersAgree, Graph!CounterExact
  <2>3. Graph!Unsatisfied(x) = {}
    BY <2>2, UnsatisfiedEdges, FS_EmptySet
  <2>4. \A e \in prog.edges : e.of # x
    BY <1>1, <2>3 DEF Graph!Unsatisfied, Graph!Of, Started
  <2>5. QED
    BY <2>1, <2>4 DEF FromTheBeginning
<1>3. IsFiniteSet(FromTheBeginning(h))
  <2>1. FromTheBeginning(h) \in SUBSET Ops /\ IsFiniteSet(Ops)
    BY ScheduleTypes DEF FromTheBeginning, Types, GraphTypes
  <2>2. QED
    BY <2>1, FS_Subset
<1>4. Batch(h) \in SUBSET FromTheBeginning(h)
  BY <1>2
<1>5. QED
  BY <1>3, <1>4, FS_Subset

\* A root goes from the list to aq: those before it have gone.
LEMMA InsertOrder ==
    ASSUME Types, Types', Places, Turns, RootsInOrder, pc = "init", InsertFreeOp
    PROVE  RootsInOrder'
<1>1. PICK i \in DOMAIN executableNodes :
          /\ \A j \in DOMAIN executableNodes : ~Precedes(j, i)
          /\ aq' = aq \cup {OpElement(executableNodes[i], now, aqtime)}
          /\ executableNodes' = RemoveAt(executableNodes, i)
  BY DEF InsertFreeOp
<1>2. UNCHANGED <<prog, started, dropped, pc, now>>
  BY DEF InsertFreeOp, historyVars, helperVars
<1> DEFINE x == executableNodes[i]
           f == OpElement(x, now, aqtime)
<1>3. executableNodes \in Seq(Ops) /\ IsInjective(executableNodes)
  BY DEF Types, GraphTypes, Places, NoneTwice
<1>4. /\ \A j, k \in DOMAIN executableNodes :
            j < k => executableNodes[j] < executableNodes[k]
      /\ now = 0 /\ started = << >> /\ \A y \in dropped : Op(y).type = "SEND"
  BY DEF RootsInOrder, FromTheStart
<1>5. Listed' = Listed \ {x} /\ x \in Listed /\ x \in Ops
  <2>1. ToSet(RemoveAt(executableNodes, i)) = ToSet(executableNodes) \ {executableNodes[i]}
    BY <1>3, RemoveAtInjective
  <2>2. executableNodes[i] \in Ops /\ executableNodes[i] \in ToSet(executableNodes)
    BY <1>3, LenProperties DEF ToSet
  <2>3. QED
    BY <1>1, <2>1, <2>2 DEF Listed
<1>6. ASSUME NEW j \in DOMAIN executableNodes', NEW k \in DOMAIN executableNodes', j < k
      PROVE  executableNodes'[j] < executableNodes'[k]
  <2>1. /\ Source(j, i) \in DOMAIN executableNodes /\ Source(k, i) \in DOMAIN executableNodes
        /\ executableNodes'[j] = executableNodes[Source(j, i)]
        /\ executableNodes'[k] = executableNodes[Source(k, i)]
        /\ Source(j, i) < Source(k, i)
    BY <1>1, <1>3, <1>6, RemoveAtSources
  <2>2. QED
    BY <1>4, <2>1
<1>7. Roots' = Roots /\ Started' = Started /\ \A y, z : SameHost(y, z)' <=> SameHost(y, z)
  BY <1>2 DEF Roots, FromTheBeginning, Started, SameHost, Op, Ops
<1>8. FromTheStart'
  <2>1. \A y : Op(y)' = Op(y)
    BY <1>2 DEF Op
  <2>2. pc' = "init" /\ now' = 0 /\ started' = << >> /\ dropped' = dropped
    BY <1>2, <1>4
  <2> HIDE DEF x, f
  <2>3. QED
    BY <1>4, <1>6, <2>1, <2>2 DEF FromTheStart
<1>9. \A y \in Roots : y \in Nat
  BY RootFacts
<1>10. ASSUME x \in Roots, NEW y \in Roots, SameHost(y, x), y < x PROVE y \notin Listed
  <2>1. SUFFICES ASSUME NEW j \in DOMAIN executableNodes, executableNodes[j] = y PROVE FALSE
    BY DEF Listed, ToSet
  <2>2. x \in Nat /\ y \in Nat
    BY <1>9, <1>10
  <2>3. i \in Nat /\ j \in Nat
    BY <1>3, LenProperties
  <2>4. j < i
    <3>1. j # i
      BY <1>10, <2>1, <2>2
    <3>2. ~ (i < j)
      <4>1. SUFFICES ASSUME i < j PROVE FALSE
        OBVIOUS
      <4>2. x < y
        BY <1>4, <2>1, <4>1
      <4> HIDE DEF x
      <4>3. QED
        BY <1>10, <2>2, <4>2
    <3>3. QED
      BY <2>3, <3>1, <3>2
  <2>5. Cardinality(Batch(Op(y).host)) <= SortThreshold
    <3>1. /\ Cardinality(Batch(Op(y).host)) <= Cardinality(FromTheBeginning(Op(y).host))
          /\ Cardinality(FromTheBeginning(Op(y).host)) <= SortThreshold
      BY FirstBatch DEF Roots
    <3>2. /\ Cardinality(Batch(Op(y).host)) \in Nat
          /\ Cardinality(FromTheBeginning(Op(y).host)) \in Nat
      BY RankCounts
    <3>3. QED
      BY <3>1, <3>2, EngineAssumption
  <2>6. Precedes(j, i)
    BY <1>10, <2>1, <2>4, <2>5 DEF Precedes, Roots, SameHost
  <2>7. QED
    BY <1>1, <2>6
<1>11. f.op = x /\ f.time = 0 /\ f.ts = aqtime
  BY <1>4 DEF OpElement
<1>12. aq' = aq \cup {f}
  BY <1>1
<1> HIDE DEF x, f
<1>13. \A g \in aq : g.op \in Roots => g.ts < aqtime /\ g.ts \in Nat
  BY RootFacts, CpuOf DEF Turns, Stamped, Pending
<1>14. RootsQueued'
  <2>1. SUFFICES ASSUME NEW g \in aq', g.op \in Roots
                 PROVE  /\ g.time = 0
                        /\ \A y \in Roots : SameHost(y, g.op) /\ y < g.op => y \notin Listed'
                        /\ \A e \in aq' : e.op \in Roots /\ SameHost(e.op, g.op) /\ e.op < g.op
                              => e.ts < g.ts
    BY <1>7 DEF RootsQueued
  <2>2. CASE g \in aq
    <3>1. /\ g.time = 0
          /\ \A y \in Roots : SameHost(y, g.op) /\ y < g.op => y \notin Listed
          /\ \A e \in aq : e.op \in Roots /\ SameHost(e.op, g.op) /\ e.op < g.op => e.ts < g.ts
      BY <2>1, <2>2 DEF RootsInOrder, RootsQueued
    <3>2. f.op \in Roots /\ SameHost(f.op, g.op) => ~ (f.op < g.op)
      BY <1>5, <1>11, <3>1
    <3>3. QED
      BY <1>5, <1>12, <3>1, <3>2
  <2>3. CASE g = f
    <3>1. \A y \in Roots : SameHost(y, g.op) /\ y < g.op => y \notin Listed'
      BY <1>5, <1>10, <1>11, <2>1, <2>3
    <3>2. ~ (f.op < f.op)
      BY <1>9, <2>1, <2>3
    <3>3. \A e \in aq' : e.op \in Roots /\ SameHost(e.op, g.op) /\ e.op < g.op => e.ts < g.ts
      BY <1>11, <1>12, <1>13, <2>3, <3>2
    <3>4. QED
      BY <1>11, <2>3, <3>1, <3>3
  <2>4. QED
    BY <1>12, <2>1, <2>2, <2>3
<1>15. RootsStarted' /\ InListedOrder'
  BY <1>2, <1>7 DEF RootsInOrder, RootsStarted, InListedOrder
<1>16. QED
  BY <1>8, <1>14, <1>15 DEF RootsInOrder

\* A root is started from the top of aq: those before it are started.
LEMMA StartOrder ==
    ASSUME IInv, Types', RootsInOrder, NEW f \in aq, f \in Tops, f.type \in Pending,
           started' = Append(started, f.op), prog' = prog, dropped' = dropped,
           pc # "init", pc' # "init",
           \A e \in aq' : e.op \in Roots => e \in aq,
           \A x \in Roots : x \in Listed' => x \in Listed
    PROVE  RootsInOrder'
<1>1. Types /\ Places /\ Partition
  BY DEF IInv, Places
<1>2. f.op \in Ops /\ f.op \in Waiting /\ f.type # "MSG"
  BY <1>1 DEF Types, AqTypes, Genuine, OfOperation, Waiting, Pending
<1>3. f.op \notin Started /\ Started' = Started \cup {f.op}
  BY <1>1, <1>2, StartsOnce
<1>4. Roots' = Roots /\ \A x, y : SameHost(x, y)' <=> SameHost(x, y)
  BY DEF Roots, FromTheBeginning, SameHost, Op, Ops
<1>5. Listed \cap Roots = {} /\ \A x \in dropped : Op(x).type = "SEND"
  BY DEF RootsInOrder, FromTheStart
<1>6. FromTheStart'
  <2>1. \A x : Op(x)' = Op(x)
    BY DEF Op
  <2>2. Listed' \cap Roots = {}
    BY <1>5
  <2>3. QED
    BY <1>4, <1>5, <2>1, <2>2 DEF FromTheStart
<1>7. RootsQueued'
  BY <1>4 DEF RootsInOrder, RootsQueued
<1>8. ASSUME f.op \in Roots, NEW x \in Roots, SameHost(x, f.op), x < f.op PROVE x \in Started
  <2>1. x \in Listed \cup Waiting \cup Started \cup dropped
    BY <1>1, RootFacts DEF Partition
  <2>2. x \notin Listed /\ x \notin dropped
    BY <1>5 DEF Roots
  <2>3. x \notin Waiting
    <3>1. SUFFICES ASSUME NEW e \in aq, e.op = x PROVE FALSE
      BY DEF Waiting
    <3>2. e.time = 0 /\ f.time = 0 /\ e.ts < f.ts
      BY <1>8, <3>1 DEF RootsInOrder, RootsQueued
    <3>3. e.type = "RECV" /\ f.type = "RECV"
      BY <1>1, <1>8, <3>1, RootFacts
    <3>4. Before(e, f)
      BY <3>2, <3>3 DEF Before
    <3>5. QED
      BY <3>4 DEF Tops
  <2>4. QED
    BY <2>1, <2>2, <2>3
<1>9. RootsStarted'
  <2>1. ASSUME NEW y \in Roots, y \in Started \cup {f.op}, NEW x \in Roots, SameHost(x, y), x < y
        PROVE  x \in Started
    BY <1>8, <2>1 DEF RootsInOrder, RootsStarted
  <2>2. QED
    BY <1>3, <1>4, <2>1 DEF RootsStarted
<1>10. InListedOrder'
  <2>1. SUFFICES ASSUME NEW i \in DOMAIN started', NEW j \in DOMAIN started', i < j,
                        started'[i] \in Roots, started'[j] \in Roots,
                        SameHost(started'[i], started'[j])
                 PROVE  started'[i] < started'[j]
    BY <1>4 DEF InListedOrder
  <2>2. /\ started \in Seq(Ops) /\ Len(started) \in Nat /\ DOMAIN started = 1 .. Len(started)
        /\ DOMAIN started' = 1 .. Len(started) + 1
        /\ \A k \in DOMAIN started : started'[k] = started[k]
        /\ started'[Len(started) + 1] = f.op
    BY <1>1, <1>2, AppendProperties, LenProperties DEF Types, HistoryTypes
  <2>3. i \in DOMAIN started /\ (j \in DOMAIN started \/ j = Len(started) + 1)
    BY <2>1, <2>2
  <2>4. CASE j \in DOMAIN started
    BY <2>1, <2>2, <2>3, <2>4 DEF RootsInOrder, InListedOrder
  <2>5. CASE j = Len(started) + 1
    <3>1. started'[j] = f.op /\ started'[i] \in Started
      BY <2>2, <2>3, <2>5 DEF Started, ToSet
    <3>2. started'[i] \in Nat /\ f.op \in Nat
      BY <1>1, <2>1, <3>1, RootFacts
    <3>3. started'[i] # f.op
      BY <1>3, <3>1
    <3>4. ~ (f.op < started'[i])
      <4>1. SameHost(f.op, started'[i])
        BY <2>1, <3>1 DEF SameHost
      <4>2. QED
        BY <1>3, <2>1, <3>1, <4>1 DEF RootsInOrder, RootsStarted
    <3>5. QED
      BY <3>1, <3>2, <3>3, <3>4
  <2>6. QED
    BY <2>3, <2>4, <2>5
<1>11. QED
  BY <1>6, <1>7, <1>9, <1>10 DEF RootsInOrder

\* An element is taken off aq.
LEMMA ElementOrder ==
    ASSUME IInv, Types', RootsInOrder, NEW e \in aq,
           \/ CalcStart(e) \/ CalcReinsert(e) \/ CalcDone(e)
           \/ SendStart(e) \/ SendDrop(e) \/ RecvMatched(e) \/ RecvQueued(e)
           \/ MsgMatched(e) \/ MsgQueued(e) \/ MsgReinsert(e)
    PROVE  RootsInOrder'
<1>1. Types /\ Places /\ e \in ElementType
  BY DEF IInv, Types, AqTypes
<1>2. Due(e) /\ Popped /\ pc = "inner" /\ pc' = "inner" /\ prog' = prog
  BY DEF CalcStart, CalcReinsert, CalcDone, SendStart, SendDrop, RecvMatched, RecvQueued,
     MsgMatched, MsgQueued, MsgReinsert, Pop, Due, Popped
<1>3. \A x \in Roots : x \in Listed' => x \in Listed
  <2>1. CASE UNCHANGED executableNodes
    BY <2>1 DEF Listed
  <2>2. CASE \E S \in SUBSET Edges : Walk(S)
    BY <1>1, <2>2, WalkListsNoRoot
  <2>3. QED
    BY <2>1, <2>2, ListsAreEdges DEF CalcStart, CalcReinsert, CalcDone, SendStart, SendDrop,
       RecvMatched, RecvQueued, MsgMatched, MsgQueued, MsgReinsert, graphVars
<1>4. \A g \in aq' : g.op \in Roots => g \in aq
  <2>1. CASE aq' = aq \ {e}
    BY <2>1
  <2>2. ASSUME NEW f, f.op = e.op, e.type # "RECV", aq' = (aq \ {e}) \cup {f}
        PROVE  \A g \in aq' : g.op \in Roots => g \in aq
    BY <1>1, <2>2, RootFacts
  <2>3. CASE CalcStart(e)
    <3>1. [e EXCEPT !.type = "LOCOP_IN_PROGRESS"].op = e.op /\ e.type # "RECV"
      BY <1>1, <2>3 DEF CalcStart, ElementType
    <3>2. QED
      BY <2>2, <2>3, <3>1 DEF CalcStart
  <2>4. CASE CalcReinsert(e)
    <3>1. [e EXCEPT !.time = nexto[e.host][CPU(e)]].op = e.op /\ e.type # "RECV"
      BY <1>1, <2>4 DEF CalcReinsert, ElementType
    <3>2. QED
      BY <2>2, <2>4, <3>1 DEF CalcReinsert
  <2>5. CASE MsgReinsert(e)
    <3>1. PICK t : aq' = (aq \ {e}) \cup {[e EXCEPT !.time = t]}
      BY <2>5 DEF MsgReinsert
    <3>2. [e EXCEPT !.time = t].op = e.op /\ e.type # "RECV"
      BY <1>1, <2>5 DEF MsgReinsert, ElementType
    <3>3. QED
      BY <2>2, <3>1, <3>2
  <2>6. QED
    BY <2>1, <2>3, <2>4, <2>5 DEF CalcDone, SendStart, SendDrop, RecvMatched, RecvQueued,
       MsgMatched, MsgQueued
<1>5. CASE started' = started
  <2>1. CASE dropped' = dropped
    BY <1>1, <1>2, <1>3, <1>4, <1>5, <2>1, OrderFrame
  <2>2. CASE SendDrop(e)
    <3>1. dropped' = dropped \cup {e.op} /\ e.type = "SEND"
      BY <2>2 DEF SendDrop
    <3>2. Op(e.op).type = "SEND"
      BY <1>1, <3>1 DEF Types, AqTypes, Genuine, OfOperation
    <3>3. \A x \in dropped' : x \in dropped \/ Op(x).type = "SEND"
      BY <3>1, <3>2
    <3>4. QED
      BY <1>1, <1>2, <1>3, <1>4, <1>5, <3>3, OrderFrame
  <2>3. QED
    BY <2>1, <2>2 DEF CalcStart, CalcReinsert, CalcDone, SendStart, RecvMatched, RecvQueued,
       MsgMatched, MsgQueued, MsgReinsert, historyVars
<1>6. CASE CalcStart(e) \/ SendStart(e) \/ RecvMatched(e) \/ RecvQueued(e)
  <2>1. started' = Append(started, e.op) /\ dropped' = dropped /\ e.type \in Pending
    BY <1>6 DEF CalcStart, SendStart, RecvMatched, RecvQueued, Pending
  <2>2. e \in Tops
    BY <1>2 DEF Due
  <2>3. QED
    BY <1>2, <1>3, <1>4, <2>1, <2>2, StartOrder
<1>7. QED
  BY <1>5, <1>6 DEF CalcReinsert, CalcDone, SendDrop, MsgMatched, MsgQueued, MsgReinsert, historyVars

\* Every step keeps the roots in the order of the schedule until they are
\* inserted.
LEMMA NextOrder ==
    IInv /\ Types' /\ RootsInOrder /\ [Next]_vars => RootsInOrder'
<1> SUFFICES ASSUME IInv, Types', RootsInOrder, [Next]_vars PROVE RootsInOrder'
  OBVIOUS
<1>1. Types /\ Places /\ Turns
  BY DEF IInv
<1>2. CASE Element
  BY <1>2, ElementOrder DEF Element
<1>3. CASE InitialFreeOp
  BY <1>1, <1>3, InsertOrder DEF InitialFreeOp
<1>4. CASE FreeOp
  <2>1. pc = "free" /\ InsertFreeOp
    BY <1>4 DEF FreeOp
  <2>2. PICK i \in DOMAIN executableNodes :
            /\ aq' = aq \cup {OpElement(executableNodes[i], now, aqtime)}
            /\ executableNodes' = RemoveAt(executableNodes, i)
    BY <2>1 DEF InsertFreeOp
  <2>3. executableNodes \in Seq(Ops) /\ IsInjective(executableNodes)
    BY <1>1 DEF Types, GraphTypes, Places, NoneTwice
  <2>4. Listed' \subseteq Listed /\ executableNodes[i] \in Listed
    <3>1. ToSet(RemoveAt(executableNodes, i)) = ToSet(executableNodes) \ {executableNodes[i]}
      BY <2>3, RemoveAtInjective
    <3>2. executableNodes[i] \in ToSet(executableNodes)
      BY DEF ToSet
    <3>3. QED
      BY <2>2, <3>1, <3>2 DEF Listed
  <2>5. executableNodes[i] \notin Roots
    BY <2>1, <2>4 DEF RootsInOrder, FromTheStart
  <2>6. \A e \in aq' : e.op \in Roots => e \in aq
    BY <2>2, <2>5 DEF OpElement
  <2>7. UNCHANGED <<prog, started, dropped, pc>>
    BY <2>1 DEF InsertFreeOp, historyVars
  <2>8. QED
    BY <1>1, <2>1, <2>4, <2>6, <2>7, OrderFrame
<1>5. CASE \/ EnterMain \/ EnterLoop \/ LeaveLoop \/ Exit \/ SkipNs3
           \/ RunNs3 \/ Network \/ Return \/ EndCycle \/ Terminated \/ UNCHANGED vars
  <2>1. /\ UNCHANGED <<prog, executableNodes, started, dropped>>
        /\ aq' = aq \/ aq' = aq \cup (IF latest = None THEN {} ELSE {MsgElement(latest)})
    BY <1>5 DEF EnterMain, EnterLoop, LeaveLoop, Exit, SkipNs3, RunNs3, Network, Return,
       EndCycle, Terminated, vars, engineVars, graphVars, historyVars
  <2>2. None \notin Roots
    BY <1>1, EngineAssumption, ScheduleTypes DEF Roots, Types, GraphTypes
  <2>3. \A e \in aq' : e.op \in Roots => e \in aq
    BY <2>1, <2>2 DEF MsgElement
  <2>4. pc' = "init" => pc = "init" /\ UNCHANGED <<now, executableNodes>>
    BY <1>5, <2>1 DEF EnterMain, EnterLoop, LeaveLoop, Exit, SkipNs3, RunNs3, Network, Return,
       EndCycle, Terminated, vars, engineVars, helperVars
  <2>5. pc = "init" /\ pc' # "init" => Listed = {}
    BY <1>5 DEF EnterMain, EnterLoop, LeaveLoop, Exit, SkipNs3, RunNs3, Network, Return,
       EndCycle, Terminated, vars, engineVars, Listed, ToSet
  <2>6. \A x \in Roots : x \in Listed' => x \in Listed
    BY <2>1 DEF Listed
  <2>7. QED
    BY <1>1, <2>1, <2>3, <2>4, <2>5, <2>6, OrderFrame
<1>6. QED
  BY <1>2, <1>3, <1>4, <1>5 DEF Next

\* The receives that may be posted from the beginning are posted in the order
\* of the schedule, and so match messages in that order, on every rank that
\* begins with no more operations than std::sort keeps in order, whatever it
\* does to those of the other ranks.
THEOREM PostedAsListed == Spec => []ListedOrder
<1>1. Init => RootsInOrder
  <2> SUFFICES ASSUME Init PROVE RootsInOrder
    OBVIOUS
  <2>1. /\ aq = {} /\ started = << >> /\ dropped = {} /\ now = 0 /\ pc = "init"
        /\ executableNodes = InOrder(Free) /\ Free \in SUBSET Ops
    BY DEF Init, Free, Helper!HelperInit
  <2>2. Ops \subseteq Nat /\ IsFiniteSet(Ops)
    BY ScheduleTypes DEF Init
  <2>3. Free \subseteq Nat /\ IsFiniteSet(Free)
    BY <2>1, <2>2, FS_Subset
  <2>4. \A i, j \in DOMAIN executableNodes : i < j => executableNodes[i] < executableNodes[j]
    BY <2>1, <2>3, InOrderLists
  <2>5. QED
    BY <2>1, <2>4 DEF RootsInOrder, FromTheStart, RootsQueued, RootsStarted, InListedOrder, Started, ToSet
<1>2. IInv /\ RootsInOrder => ListedOrder
  <2> SUFFICES ASSUME InListedOrder,
                      NEW h \in Hosts, NEW i \in DOMAIN started, NEW j \in DOMAIN started,
                      Cardinality(FromTheBeginning(h)) <= SortThreshold, i < j,
                      \A x \in {started[i], started[j]} :
                          x \in FromTheBeginning(h) /\ Op(x).type = "RECV"
               PROVE  started[i] < started[j]
    BY DEF RootsInOrder, ListedOrder
  <2>1. started[i] \in Roots /\ started[j] \in Roots /\ SameHost(started[i], started[j])
    BY DEF Roots, FromTheBeginning, SameHost
  <2>2. QED
    BY <2>1 DEF InListedOrder
<1>3. IInv /\ IInv' => Types'
  BY DEF IInv
<1>4. QED
  BY <1>1, <1>2, <1>3, Invariance, NextOrder, PTL DEF Spec

-----------------------------------------------------------------------------
(* The messages NS-3 reports. Their stamps tell them apart: NS-3 returns   *)
(* at most one in a cycle, and cycles go on.                               *)

MsgStamps ==
    /\ IsFiniteSet(aq)
    /\ \A e \in aq : e.type = "MSG" =>
          /\ e.ts <= cycles
          /\ pc \in {"init", "outer", "inner", "sim"} => e.ts < cycles
    /\ \A e, f \in aq : e.type = "MSG" /\ f.type = "MSG" /\ e.ts = f.ts => e = f

Msgs(h) == {e \in aq : e.type = "MSG" /\ e.host = h}
Received(h) == {x \in done : Op(x).type = "RECV" /\ Op(x).host = h}
KeysTo(h) == {k \in Keys : k[2] = h}

Balanced ==
    \A h \in Hosts :
        Sum(reported, KeysTo(h)) = Cardinality(Msgs(h)) + Len(uq[h]) + Cardinality(Received(h))

\* The sets that are counted are finite.
LEMMA Countable ==
    ASSUME Types, MsgStamps, NEW h \in Hosts
    PROVE  /\ IsFiniteSet(Msgs(h)) /\ Cardinality(Msgs(h)) \in Nat
           /\ IsFiniteSet(Received(h)) /\ Cardinality(Received(h)) \in Nat
           /\ Len(uq[h]) \in Nat
<1>1. Msgs(h) \in SUBSET aq /\ IsFiniteSet(aq)
  BY DEF Msgs, MsgStamps
<1>2. Received(h) \in SUBSET Ops /\ IsFiniteSet(Ops)
  BY ScheduleTypes DEF Received, Types, GraphTypes, HistoryTypes
<1>3. uq[h] \in Seq(MsgWaiting)
  BY DEF Types, QueueTypes
<1>4. QED
  BY <1>1, <1>2, <1>3, FS_Subset, FS_CardinalityType, LenProperties

\* An element popped comes back as what it was, or not at all.
LEMMA ElementPut ==
    ASSUME Types, NEW e \in aq,
           \/ CalcStart(e) \/ CalcReinsert(e) \/ CalcDone(e)
           \/ SendStart(e) \/ SendDrop(e) \/ RecvMatched(e) \/ RecvQueued(e)
           \/ MsgMatched(e) \/ MsgQueued(e) \/ MsgReinsert(e)
    PROVE  /\ Due(e) /\ Popped
           /\ \/ aq' = aq \ {e}
              \/ \E f : /\ aq' = (aq \ {e}) \cup {f}
                        /\ f.ts = e.ts /\ f.host = e.host
                        /\ f.type = "MSG" <=> e.type = "MSG"
<1>1. e \in ElementType
  BY DEF Types, AqTypes
<1>2. Due(e) /\ Popped
  BY DEF CalcStart, CalcReinsert, CalcDone, SendStart, SendDrop, RecvMatched, RecvQueued,
     MsgMatched, MsgQueued, MsgReinsert, Pop
<1>3. CASE CalcStart(e)
  <2> DEFINE f == [e EXCEPT !.type = "LOCOP_IN_PROGRESS"]
  <2>1. aq' = (aq \ {e}) \cup {f} /\ e.type = "LOCOP"
    BY <1>3 DEF CalcStart
  <2>2. f.ts = e.ts /\ f.host = e.host /\ f.type = "LOCOP_IN_PROGRESS"
    BY <1>1 DEF ElementType
  <2> HIDE DEF f
  <2>3. f.type = "MSG" <=> e.type = "MSG"
    BY <2>1, <2>2
  <2>4. QED
    BY <1>2, <2>1, <2>2, <2>3
<1>4. CASE CalcReinsert(e) \/ MsgReinsert(e)
  <2>1. PICK t : aq' = (aq \ {e}) \cup {[e EXCEPT !.time = t]}
    BY <1>4 DEF CalcReinsert, MsgReinsert
  <2> DEFINE f == [e EXCEPT !.time = t]
  <2>2. f.ts = e.ts /\ f.host = e.host /\ f.type = e.type
    BY <1>1 DEF ElementType
  <2>3. aq' = (aq \ {e}) \cup {f}
    BY <2>1
  <2> HIDE DEF f
  <2>4. QED
    BY <1>2, <2>2, <2>3
<1>5. QED
  BY <1>2, <1>3, <1>4 DEF CalcDone, SendStart, SendDrop, RecvMatched, RecvQueued, MsgMatched, MsgQueued

\* Every step keeps the stamps of messages in the past.
LEMMA NextStamps == Types /\ MsgStamps /\ [Next]_vars => MsgStamps'
<1> SUFFICES ASSUME Types, MsgStamps, [Next]_vars PROVE MsgStamps'
  OBVIOUS
<1>1. cycles \in Nat /\ IsFiniteSet(aq) /\ \A e \in aq : e.ts \in Nat
  BY DEF Types, ControlTypes, AqTypes, ElementType, MsgStamps
<1>2. CASE Element
  <2>1. PICK e \in aq :
            \/ CalcStart(e) \/ CalcReinsert(e) \/ CalcDone(e)
            \/ SendStart(e) \/ SendDrop(e) \/ RecvMatched(e) \/ RecvQueued(e)
            \/ MsgMatched(e) \/ MsgQueued(e) \/ MsgReinsert(e)
    BY <1>2 DEF Element
  <2>2. pc = "inner" /\ cycles' = cycles + 1
    BY <2>1, ElementPut DEF Due, Popped
  <2>3. \A f \in aq : f.type = "MSG" => f.ts < cycles'
    BY <1>1, <2>2 DEF MsgStamps
  <2>4. cycles' \in Nat
    BY <1>1, <2>2
  <2>5. CASE aq' = aq \ {e}
    <3>1. IsFiniteSet(aq')
      BY <1>1, <2>5, FS_RemoveElement
    <3>2. \A f \in aq' : f.type = "MSG" => f.ts < cycles' /\ f.ts <= cycles'
      BY <1>1, <2>3, <2>4, <2>5
    <3>3. QED
      BY <2>5, <3>1, <3>2 DEF MsgStamps
  <2>6. CASE \E f : /\ aq' = (aq \ {e}) \cup {f}
                    /\ f.ts = e.ts /\ f.host = e.host
                    /\ f.type = "MSG" <=> e.type = "MSG"
    <3>1. PICK f : /\ aq' = (aq \ {e}) \cup {f}
                   /\ f.ts = e.ts
                   /\ f.type = "MSG" <=> e.type = "MSG"
      BY <2>6
    <3>2. IsFiniteSet(aq')
      BY <1>1, <3>1, FS_RemoveElement, FS_AddElement
    <3>3. \A g \in aq' : g.type = "MSG" => g.ts < cycles' /\ g.ts <= cycles'
      BY <1>1, <2>3, <2>4, <3>1
    <3>4. \A g, k \in aq' : g.type = "MSG" /\ k.type = "MSG" /\ g.ts = k.ts => g = k
      BY <3>1 DEF MsgStamps
    <3>5. QED
      BY <3>2, <3>3, <3>4 DEF MsgStamps
  <2>7. QED
    BY <2>1, <2>5, <2>6, ElementPut
<1>3. CASE InitialFreeOp \/ FreeOp
  <2>1. PICK i \in DOMAIN executableNodes :
            aq' = aq \cup {OpElement(executableNodes[i], now, aqtime)}
    BY <1>3 DEF InitialFreeOp, FreeOp, InsertFreeOp
  <2> DEFINE f == OpElement(executableNodes[i], now, aqtime)
  <2>2. f.type # "MSG"
    <3>1. executableNodes[i] \in Ops
      BY LenProperties DEF Types, GraphTypes
    <3>2. QED
      BY <3>1, ScheduleTypes DEF OpElement, Operation, Types, GraphTypes
  <2>3. UNCHANGED <<cycles, pc>>
    BY <1>3 DEF InitialFreeOp, FreeOp, InsertFreeOp
  <2>4. aq' = aq \cup {f}
    BY <2>1
  <2> HIDE DEF f
  <2>5. IsFiniteSet(aq')
    BY <1>1, <2>4, FS_AddElement
  <2>6. QED
    BY <2>2, <2>3, <2>4, <2>5 DEF MsgStamps
<1>4. CASE Return /\ latest # None
  <2>1. aq' = aq \cup {MsgElement(latest)} /\ pc = "sim" /\ pc' = "free" /\ cycles' = cycles
    BY <1>4 DEF Return
  <2>2. MsgElement(latest).ts = cycles
    BY DEF MsgElement
  <2>3. \A e \in aq : e.type = "MSG" => e.ts < cycles
    BY <2>1 DEF MsgStamps
  <2>4. IsFiniteSet(aq')
    BY <1>1, <2>1, FS_AddElement
  <2>5. \A e \in aq' : e.type = "MSG" => e.ts <= cycles'
    BY <1>1, <2>1, <2>2, <2>3
  <2>6. \A e \in aq : e.type = "MSG" => e.ts # cycles
    BY <1>1, <2>3
  <2>7. \A e, f \in aq' : e.type = "MSG" /\ f.type = "MSG" /\ e.ts = f.ts => e = f
    BY <2>1, <2>2, <2>6 DEF MsgStamps
  <2>8. QED
    BY <2>1, <2>4, <2>5, <2>7 DEF MsgStamps
<1>5. CASE \/ EnterMain \/ EnterLoop \/ LeaveLoop \/ Exit \/ SkipNs3 \/ RunNs3 \/ Network
           \/ (Return /\ latest = None) \/ EndCycle \/ Terminated \/ UNCHANGED vars
  <2>1. /\ aq' = aq
        /\ \/ cycles' = cycles + 1
           \/ /\ cycles' = cycles
              /\ pc' \in {"init", "outer", "inner", "sim"} => pc \in {"init", "outer", "inner", "sim"}
    BY <1>5 DEF EnterMain, EnterLoop, LeaveLoop, Exit, SkipNs3, RunNs3, Network, Return, EndCycle,
       Terminated, vars, engineVars
  <2>2. \A e \in aq : e.type = "MSG" => e.ts <= cycles' /\ (cycles' = cycles + 1 => e.ts < cycles')
    BY <1>1, <2>1 DEF MsgStamps
  <2>3. QED
    BY <2>1, <2>2 DEF MsgStamps
<1>6. QED
  BY <1>2, <1>3, <1>4, <1>5 DEF Next

\* A step that neither brings, moves nor takes a message.
LEMMA BalanceFrame ==
    ASSUME Balanced, UNCHANGED <<reported, uq>>, \A h \in Hosts : Msgs(h)' = Msgs(h),
           \A h \in Hosts : Received(h)' = Received(h)
    PROVE  Balanced'
BY DEF Balanced

\* NS-3 returns a message, and it goes into aq.
LEMMA ReturnBalance ==
    ASSUME IsFiniteSet(Keys), Types, MsgStamps, Balanced, Return, latest # None
    PROVE  Balanced'
<1>1. /\ aq' = aq \cup {MsgElement(latest)} /\ pc = "sim" /\ UNCHANGED <<prog, uq, done>>
      /\ reported' = [reported EXCEPT ![latest] = @ + 1]
  BY DEF Return, Helper!Return, queueVars, historyVars
<1>2. latest \in Keys /\ reported \in [Helper!Hashes -> Nat] /\ Keys \subseteq Helper!Hashes
  BY HelperFacts, DefaultTagApart DEF Types
<1>3. MsgElement(latest) \notin aq
  <2>1. MsgElement(latest).type = "MSG" /\ MsgElement(latest).ts = cycles
    BY DEF MsgElement
  <2>2. \A e \in aq : e.type = "MSG" => e.ts < cycles
    BY <1>1 DEF MsgStamps
  <2>3. ~ (cycles < cycles)
    BY DEF Types, ControlTypes
  <2>4. QED
    BY <2>1, <2>2, <2>3
<1>4. ASSUME NEW h \in Hosts
      PROVE  Sum(reported, KeysTo(h))' = (Cardinality(Msgs(h)) + Len(uq[h]) + Cardinality(Received(h)))'
  <2>1. /\ Sum(reported, KeysTo(h)) = Cardinality(Msgs(h)) + Len(uq[h]) + Cardinality(Received(h))
        /\ IsFiniteSet(Msgs(h)) /\ Cardinality(Msgs(h)) \in Nat
        /\ Cardinality(Received(h)) \in Nat /\ Len(uq[h]) \in Nat
    BY Countable DEF Balanced
  <2>2. Received(h)' = Received(h) /\ uq'[h] = uq[h]
    BY <1>1 DEF Received, Op
  <2>3. KeysTo(h) \in SUBSET Keys /\ IsFiniteSet(KeysTo(h)) /\ KeysTo(h)' = KeysTo(h)
    BY FS_Subset DEF KeysTo
  <2>4. \A k \in KeysTo(h) : reported[k] \in Nat /\ reported'[k] \in Nat
    BY <1>1, <1>2, <2>3
  <2>5. MsgElement(latest).type = "MSG" /\ MsgElement(latest).host = latest[2]
    BY DEF MsgElement
  <2>6. CASE latest[2] = h
    <3>1. latest \in KeysTo(h) /\ reported'[latest] = reported[latest] + 1
      BY <1>1, <1>2, <2>6 DEF KeysTo
    <3>2. \A k \in KeysTo(h) \ {latest} : reported'[k] = reported[k]
      BY <1>1, <1>2, <2>3
    <3>3. Sum(reported', KeysTo(h)) = Sum(reported, KeysTo(h)) + reported'[latest] - reported[latest]
      BY <2>3, <2>4, <3>1, <3>2, SumUpdate
    <3>4. Msgs(h)' = Msgs(h) \cup {MsgElement(latest)} /\ MsgElement(latest) \notin Msgs(h)
      BY <1>1, <1>3, <2>5, <2>6 DEF Msgs
    <3>5. Cardinality(Msgs(h)') = Cardinality(Msgs(h)) + 1
      BY <2>1, <3>4, FS_AddElement
    <3>6. Sum(reported, KeysTo(h)) \in Nat /\ reported[latest] \in Nat
      BY <1>2, <2>3, <2>4, SumNat
    <3>7. Sum(reported', KeysTo(h)) = Sum(reported, KeysTo(h)) + 1
      BY <3>1, <3>3, <3>6
    <3>8. Sum(reported, KeysTo(h))' = Sum(reported', KeysTo(h))
      BY <2>3
    <3> DEFINE m == Cardinality(Msgs(h))
               l == Len(uq[h])
               r == Cardinality(Received(h))
    <3>9. /\ m \in Nat /\ l \in Nat /\ r \in Nat
          /\ Sum(reported, KeysTo(h))' = m + l + r + 1
      BY <2>1, <3>7, <3>8
    <3>10. m' = m + 1 /\ l' = l /\ r' = r
      BY <2>2, <3>5
    <3>11. (m + l + r)' = m' + l' + r'
      OBVIOUS
    <3> HIDE DEF m, l, r
    <3>12. m' + l' + r' = m + l + r + 1
      BY <3>9, <3>10
    <3>13. QED
      BY <3>9, <3>11, <3>12 DEF m, l, r
  <2>7. CASE latest[2] # h
    <3>1. \A k \in KeysTo(h) : reported'[k] = reported[k]
      BY <1>1, <1>2, <2>7 DEF KeysTo
    <3>2. Sum(reported', KeysTo(h)) = Sum(reported, KeysTo(h))
      BY <2>3, <3>1, SumSame
    <3>3. Msgs(h)' = Msgs(h)
      BY <1>1, <2>5, <2>7 DEF Msgs
    <3>4. QED
      BY <2>1, <2>2, <2>3, <3>2, <3>3
  <2>8. QED
    BY <2>6, <2>7
<1>5. QED
  BY <1>4 DEF Balanced

\* A receive is done, that was not.
LEMMA ReceivedOne ==
    ASSUME Types, MsgStamps, NEW x \in Ops, x \notin done, Op(x).type = "RECV",
           prog' = prog, done' = done \cup {x}
    PROVE  \A h \in Hosts : Cardinality(Received(h)') =
               Cardinality(Received(h)) + (IF h = Op(x).host THEN 1 ELSE 0)
<1>1. SUFFICES ASSUME NEW h \in Hosts
               PROVE  Cardinality(Received(h)') =
                          Cardinality(Received(h)) + (IF h = Op(x).host THEN 1 ELSE 0)
  OBVIOUS
<1>2. IsFiniteSet(Received(h)) /\ Cardinality(Received(h)) \in Nat
  BY Countable
<1>3. CASE h = Op(x).host
  <2>1. Received(h)' = Received(h) \cup {x} /\ x \notin Received(h)
    BY <1>3 DEF Received, Op
  <2>2. QED
    BY <1>2, <1>3, <2>1, FS_AddElement
<1>4. CASE h # Op(x).host
  <2>1. Received(h)' = Received(h)
    BY <1>4 DEF Received, Op
  <2>2. QED
    BY <1>2, <1>4, <2>1
<1>5. QED
  BY <1>3, <1>4

\* A message is taken off aq.
LEMMA MsgTaken ==
    ASSUME Types, MsgStamps, NEW e \in aq, e.type = "MSG", aq' = aq \ {e}
    PROVE  \A h \in Hosts : /\ Cardinality(Msgs(h)') \in Nat
                            /\ Cardinality(Msgs(h)') =
                                  Cardinality(Msgs(h)) - (IF h = e.host THEN 1 ELSE 0)
<1>1. SUFFICES ASSUME NEW h \in Hosts
               PROVE  /\ Cardinality(Msgs(h)') \in Nat
                      /\ Cardinality(Msgs(h)') =
                            Cardinality(Msgs(h)) - (IF h = e.host THEN 1 ELSE 0)
  OBVIOUS
<1>2. IsFiniteSet(Msgs(h)) /\ Cardinality(Msgs(h)) \in Nat
  BY Countable
<1>3. CASE h = e.host
  <2>1. Msgs(h)' = Msgs(h) \ {e} /\ e \in Msgs(h)
    BY <1>3 DEF Msgs
  <2>2. IsFiniteSet(Msgs(h) \ {e}) /\ Cardinality(Msgs(h) \ {e}) = Cardinality(Msgs(h)) - 1
    BY <1>2, <2>1, FS_RemoveElement
  <2>3. QED
    BY <1>2, <1>3, <2>1, <2>2, FS_CardinalityType
<1>4. CASE h # e.host
  <2>1. Msgs(h)' = Msgs(h)
    BY <1>4 DEF Msgs
  <2>2. QED
    BY <1>2, <1>4, <2>1
<1>5. QED
  BY <1>3, <1>4

\* A message and a receive meet, or one of them has to wait.
LEMMA MeetBalance ==
    ASSUME Types, Places, MsgStamps, Balanced, NEW e \in aq,
           RecvMatched(e) \/ MsgMatched(e) \/ MsgQueued(e) \/ MsgReinsert(e)
    PROVE  Balanced'
<1>1. /\ UNCHANGED <<prog, reported>> /\ e.host \in Hosts
  BY DEF RecvMatched, MsgMatched, MsgQueued, MsgReinsert, Pop, Popped, helperVars,
     Types, AqTypes, ElementType
<1>2. uq \in [Hosts -> Seq(MsgWaiting)] /\ uq[e.host] \in Seq(MsgWaiting)
  BY <1>1 DEF Types, QueueTypes
<1>3. ASSUME NEW h \in Hosts
      PROVE  /\ Sum(reported, KeysTo(h)) = Cardinality(Msgs(h)) + Len(uq[h]) + Cardinality(Received(h))
             /\ IsFiniteSet(Msgs(h)) /\ Cardinality(Msgs(h)) \in Nat
             /\ Cardinality(Received(h)) \in Nat /\ Len(uq[h]) \in Nat
  BY Countable DEF Balanced
<1>4. \A h \in Hosts : Sum(reported, KeysTo(h))' = Sum(reported, KeysTo(h))
  BY <1>1 DEF KeysTo
<1>5. CASE RecvMatched(e)
  <2> DEFINE i == Match!FirstMatch(e, uq[e.host])
  <2>1. /\ uq' = [uq EXCEPT ![e.host] = RemoveAt(uq[e.host], i)] /\ i \in DOMAIN uq[e.host]
        /\ done' = done \cup {e.op} /\ aq' = aq \ {e} /\ e.type = "RECV"
    BY <1>2, <1>5, FirstMatchFits DEF RecvMatched
  <2> HIDE DEF i
  <2>2. Len(RemoveAt(uq[e.host], i)) = Len(uq[e.host]) - 1
    BY <1>2, <2>1, RemoveAtProperties
  <2>3. \A h \in Hosts : Len(uq'[h]) = Len(uq[h]) - (IF h = e.host THEN 1 ELSE 0)
    BY <1>2, <1>3, <2>1, <2>2
  <2>4. OfOperation(e) /\ Op(e.op).type = "RECV"
    BY <2>1 DEF Types, AqTypes, Genuine, OfOperation
  <2>5. e.op \in Ops /\ e.host = Op(e.op).host /\ e.op \notin done
    <3>1. e.op \in Waiting
      BY <2>1 DEF Waiting, Pending
    <3>2. QED
      BY <2>4, <3>1 DEF OfOperation, Places, Partition, Finished
  <2>6. \A h \in Hosts : Cardinality(Received(h)') =
               Cardinality(Received(h)) + (IF h = e.host THEN 1 ELSE 0)
    BY <1>1, <2>1, <2>4, <2>5, ReceivedOne
  <2>7. \A h \in Hosts : Msgs(h)' = Msgs(h)
    BY <2>1 DEF Msgs
  <2>8. ASSUME NEW h \in Hosts
        PROVE  Sum(reported, KeysTo(h))' = (Cardinality(Msgs(h)) + Len(uq[h]) + Cardinality(Received(h)))'
    <3> DEFINE m == Cardinality(Msgs(h))
               l == Len(uq[h])
               r == Cardinality(Received(h))
    <3>1. /\ m \in Nat /\ l \in Nat /\ r \in Nat
          /\ Sum(reported, KeysTo(h))' = m + l + r
      BY <1>3, <1>4
    <3>2. /\ m' = m
          /\ l' = l - (IF h = e.host THEN 1 ELSE 0)
          /\ r' = r + (IF h = e.host THEN 1 ELSE 0)
      BY <2>3, <2>6, <2>7
    <3>3. (m + l + r)' = m' + l' + r'
      OBVIOUS
    <3> HIDE DEF m, l, r
    <3>4. m' + l' + r' = m + l + r
      BY <3>1, <3>2
    <3>5. QED
      BY <3>1, <3>3, <3>4 DEF m, l, r
  <2>9. QED
    BY <2>8 DEF Balanced
<1>6. CASE MsgMatched(e)
  <2> DEFINE i == Match!FirstMatch(e, rq[e.host])
             x == rq[e.host][i].offset
  <2>1. /\ aq' = aq \ {e} /\ done' = done \cup {x} /\ uq' = uq /\ e.type = "MSG"
        /\ Match!Matches(e, rq[e.host]) # {}
    BY <1>6 DEF MsgMatched
  <2>2. rq[e.host] \in Seq(RecvWaiting)
    BY <1>1 DEF Types, QueueTypes
  <2>3. i \in DOMAIN rq[e.host]
    BY <2>1, <2>2, FirstMatchFits
  <2> HIDE DEF i
  <2>4. x \in Posted(e.host)
    BY <1>1, <2>3 DEF Places, Receives, Offsets
  <2> HIDE DEF x
  <2>5. x \in Ops /\ x \notin done /\ Op(x).type = "RECV" /\ Op(x).host = e.host
    BY <2>4, LenProperties DEF Posted, Started, ToSet, Types, HistoryTypes
  <2>6. \A h \in Hosts : Cardinality(Received(h)') =
               Cardinality(Received(h)) + (IF h = e.host THEN 1 ELSE 0)
    BY <1>1, <2>1, <2>5, ReceivedOne
  <2>7. \A h \in Hosts : /\ Cardinality(Msgs(h)') \in Nat
                         /\ Cardinality(Msgs(h)') =
                               Cardinality(Msgs(h)) - (IF h = e.host THEN 1 ELSE 0)
    BY <2>1, MsgTaken
  <2>8. ASSUME NEW h \in Hosts
        PROVE  Sum(reported, KeysTo(h))' = (Cardinality(Msgs(h)) + Len(uq[h]) + Cardinality(Received(h)))'
    BY <1>3, <1>4, <2>1, <2>6, <2>7
  <2>9. QED
    BY <2>8 DEF Balanced
<1>7. CASE MsgQueued(e)
  <2>1. /\ aq' = aq \ {e} /\ done' = done /\ e.type = "MSG"
        /\ uq' = [uq EXCEPT ![e.host] = Append(uq[e.host], Match!Element(e, e.op))]
    BY <1>7 DEF MsgQueued, historyVars
  <2>2. Match!Element(e, e.op) \in MsgWaiting
    BY <2>1 DEF Match!Element, MsgWaiting, Types, AqTypes, Genuine, OfMessage
  <2>3. Len(Append(uq[e.host], Match!Element(e, e.op))) = Len(uq[e.host]) + 1
    BY <1>2, <2>2, AppendProperties
  <2>4. \A h \in Hosts : Len(uq'[h]) = Len(uq[h]) + (IF h = e.host THEN 1 ELSE 0)
    BY <1>2, <1>3, <2>1, <2>3
  <2>5. \A h \in Hosts : Received(h)' = Received(h)
    BY <1>1, <2>1 DEF Received, Op
  <2>6. \A h \in Hosts : /\ Cardinality(Msgs(h)') \in Nat
                         /\ Cardinality(Msgs(h)') =
                               Cardinality(Msgs(h)) - (IF h = e.host THEN 1 ELSE 0)
    BY <2>1, MsgTaken
  <2>7. ASSUME NEW h \in Hosts
        PROVE  Sum(reported, KeysTo(h))' = (Cardinality(Msgs(h)) + Len(uq[h]) + Cardinality(Received(h)))'
    <3> DEFINE m == Cardinality(Msgs(h))
               l == Len(uq[h])
               r == Cardinality(Received(h))
    <3>1. /\ m \in Nat /\ l \in Nat /\ r \in Nat
          /\ Sum(reported, KeysTo(h))' = m + l + r
      BY <1>3, <1>4
    <3>2. /\ m' = m - (IF h = e.host THEN 1 ELSE 0)
          /\ l' = l + (IF h = e.host THEN 1 ELSE 0)
          /\ r' = r
      BY <2>4, <2>5, <2>6
    <3>3. (m + l + r)' = m' + l' + r'
      OBVIOUS
    <3> HIDE DEF m, l, r
    <3>4. m' + l' + r' = m + l + r
      BY <3>1, <3>2
    <3>5. QED
      BY <3>1, <3>3, <3>4 DEF m, l, r
  <2>8. QED
    BY <2>7 DEF Balanced
<1>8. CASE MsgReinsert(e)
  <2>1. PICK t : aq' = (aq \ {e}) \cup {[e EXCEPT !.time = t]}
    BY <1>8 DEF MsgReinsert
  <2> DEFINE f == [e EXCEPT !.time = t]
  <2>2. e.type = "MSG" /\ e \in ElementType
    BY <1>8 DEF MsgReinsert, Types, AqTypes
  <2>3. f.ts = e.ts /\ f.host = e.host /\ f.type = "MSG"
    BY <2>2 DEF ElementType
  <2>4. aq' = (aq \ {e}) \cup {f}
    BY <2>1
  <2> HIDE DEF f
  <2>5. f \notin aq \ {e}
    BY <2>2, <2>3 DEF MsgStamps
  <2>6. \A h \in Hosts : Cardinality(Msgs(h)') = Cardinality(Msgs(h))
    <3>1. SUFFICES ASSUME NEW h \in Hosts PROVE Cardinality(Msgs(h)') = Cardinality(Msgs(h))
      OBVIOUS
    <3>2. CASE h = e.host
      <4>1. Msgs(h)' = (Msgs(h) \ {e}) \cup {f} /\ e \in Msgs(h) /\ f \notin Msgs(h) \ {e}
        BY <2>2, <2>3, <2>4, <2>5, <3>2 DEF Msgs
      <4>2. /\ IsFiniteSet(Msgs(h) \ {e})
            /\ Cardinality(Msgs(h) \ {e}) = Cardinality(Msgs(h)) - 1
        BY <1>3, <4>1, FS_RemoveElement
      <4>3. Cardinality((Msgs(h) \ {e}) \cup {f}) = Cardinality(Msgs(h) \ {e}) + 1
        BY <4>1, <4>2, FS_AddElement
      <4>4. QED
        BY <1>3, <4>1, <4>2, <4>3
    <3>3. CASE h # e.host
      <4>1. Msgs(h)' = Msgs(h)
        BY <2>3, <2>4, <3>3 DEF Msgs
      <4>2. QED
        BY <4>1
    <3>4. QED
      BY <3>2, <3>3
  <2>7. uq' = uq /\ \A h \in Hosts : Received(h)' = Received(h)
    BY <1>1, <1>8 DEF MsgReinsert, queueVars, historyVars, Received, Op
  <2>8. ASSUME NEW h \in Hosts
        PROVE  Sum(reported, KeysTo(h))' = (Cardinality(Msgs(h)) + Len(uq[h]) + Cardinality(Received(h)))'
    BY <1>3, <1>4, <2>6, <2>7
  <2>9. QED
    BY <2>8 DEF Balanced
<1>9. QED
  BY <1>5, <1>6, <1>7, <1>8

\* Every step keeps messages sent and messages seen in balance.
LEMMA NextBalance ==
    IsFiniteSet(Keys) /\ Types /\ Places /\ MsgStamps /\ Balanced /\ [Next]_vars => Balanced'
<1> SUFFICES ASSUME IsFiniteSet(Keys), Types, Places, MsgStamps, Balanced, [Next]_vars PROVE Balanced'
  OBVIOUS
<1>1. ASSUME NEW e \in aq, RecvMatched(e) \/ MsgMatched(e) \/ MsgQueued(e) \/ MsgReinsert(e)
      PROVE  Balanced'
  BY <1>1, MeetBalance
<1>2. ASSUME NEW e \in aq,
             \/ CalcStart(e) \/ CalcReinsert(e) \/ CalcDone(e)
             \/ SendStart(e) \/ SendDrop(e) \/ RecvQueued(e)
      PROVE  Balanced'
  <2>1. /\ e.type # "MSG" /\ UNCHANGED <<prog, uq, reported>>
        /\ done' = done \/ (done' = done \cup {e.op} /\ e.type \in {"LOCOP_IN_PROGRESS", "SEND"})
    BY <1>2 DEF CalcStart, CalcReinsert, CalcDone, SendStart, SendDrop, RecvQueued,
       Pop, Popped, queueVars, historyVars, helperVars, Helper!ns3_schedule
  <2>2. OfOperation(e)
    BY <2>1 DEF Types, AqTypes, Genuine
  <2>3. \A h \in Hosts : Received(h)' = Received(h)
    BY <2>1, <2>2 DEF Received, Op, OfOperation
  <2>4. \A h \in Hosts : Msgs(h)' = Msgs(h)
    <3>1. CASE aq' = aq \ {e}
      BY <2>1, <3>1 DEF Msgs
    <3>2. CASE \E f : /\ aq' = (aq \ {e}) \cup {f}
                      /\ f.ts = e.ts /\ f.host = e.host
                      /\ f.type = "MSG" <=> e.type = "MSG"
      BY <2>1, <3>2 DEF Msgs
    <3>3. QED
      BY <1>2, <3>1, <3>2, ElementPut
  <2>5. QED
    BY <2>1, <2>3, <2>4, BalanceFrame
<1>3. CASE InitialFreeOp \/ FreeOp
  <2>1. PICK i \in DOMAIN executableNodes :
            aq' = aq \cup {OpElement(executableNodes[i], now, aqtime)}
    BY <1>3 DEF InitialFreeOp, FreeOp, InsertFreeOp
  <2>2. OpElement(executableNodes[i], now, aqtime).type # "MSG"
    <3>1. executableNodes[i] \in Ops
      BY LenProperties DEF Types, GraphTypes
    <3>2. QED
      BY <3>1, ScheduleTypes DEF OpElement, Operation, Types, GraphTypes
  <2>3. \A h \in Hosts : Msgs(h)' = Msgs(h)
    BY <2>1, <2>2 DEF Msgs
  <2>4. UNCHANGED <<prog, uq, done, reported>>
    BY <1>3 DEF InitialFreeOp, FreeOp, InsertFreeOp, queueVars, historyVars, helperVars
  <2>5. \A h \in Hosts : Received(h)' = Received(h)
    BY <2>4 DEF Received, Op
  <2>6. QED
    BY <2>3, <2>4, <2>5, BalanceFrame
<1>4. CASE Return /\ latest # None
  BY <1>4, ReturnBalance
<1>5. CASE \/ EnterMain \/ EnterLoop \/ LeaveLoop \/ Exit \/ SkipNs3 \/ RunNs3 \/ Network
           \/ (Return /\ latest = None) \/ EndCycle \/ Terminated \/ UNCHANGED vars
  <2>1. UNCHANGED <<prog, aq, uq, done>>
    BY <1>5 DEF EnterMain, EnterLoop, LeaveLoop, Exit, SkipNs3, RunNs3, Network, Return, EndCycle,
       Terminated, vars, engineVars, queueVars, historyVars
  <2>2. reported' = reported
    <3>1. CASE RunNs3
      BY <3>1 DEF RunNs3, Helper!ns3_simulate_until, Helper!ns3_simulate_forever, Helper!Simulate,
         Helper!history
    <3>2. CASE Network
      BY <3>2 DEF Network, Helper!Network, Helper!SinkRxPartial, Helper!SinkRxComplete,
         Helper!StopFires, Helper!RunDry, Helper!Resend, Helper!Lose, Helper!history
    <3>3. QED
      BY <1>5, <3>1, <3>2 DEF EnterMain, EnterLoop, LeaveLoop, Exit, SkipNs3, Return, Helper!Return,
         EndCycle, Terminated, vars, helperVars
  <2>3. \A h \in Hosts : Received(h)' = Received(h) /\ Msgs(h)' = Msgs(h)
    BY <2>1 DEF Received, Msgs, Op
  <2>4. QED
    BY <2>1, <2>2, <2>3, BalanceFrame
<1>6. QED
  BY <1>1, <1>2, <1>3, <1>4, <1>5 DEF Next, Element

\* No message that NS-3 has reported is lost or counted twice: it is in aq,
\* however often it has been inserted again, in uq, or has finished exactly
\* one receive of its host.
THEOREM MessagesKept ==
    ASSUME IsFiniteSet(Keys)
    PROVE  Spec => []MessagesConserved
<1>1. Init => MsgStamps /\ Balanced
  <2> SUFFICES ASSUME Init PROVE MsgStamps /\ Balanced
    OBVIOUS
  <2>1. aq = {} /\ done = {} /\ uq = [h \in Hosts |-> << >>] /\ \A k \in Keys : reported[k] = 0
    BY DefaultTagApart DEF Init, Helper!HelperInit
  <2>2. MsgStamps
    BY <2>1, FS_EmptySet DEF MsgStamps
  <2>3. ASSUME NEW h \in Hosts
        PROVE  Sum(reported, KeysTo(h)) = Cardinality(Msgs(h)) + Len(uq[h]) + Cardinality(Received(h))
    <3> DEFINE S == KeysTo(h)
    <3>1. Msgs(h) = {} /\ Received(h) = {} /\ uq[h] = << >>
      BY <2>1 DEF Msgs, Received
    <3>2. S \in SUBSET Keys /\ IsFiniteSet(S)
      BY FS_Subset DEF KeysTo
    <3>3. \A k \in S : reported[k] = 0
      BY <2>1, <3>2
    <3> HIDE DEF S
    <3>4. Sum(reported, S) = 0
      BY <3>2, <3>3, SumZero
    <3>5. QED
      BY <3>1, <3>4, FS_EmptySet DEF S
  <2>4. QED
    BY <2>2, <2>3 DEF Balanced
<1>2. Balanced => MessagesConserved
  <2> SUFFICES ASSUME Balanced, NEW h \in Hosts
               PROVE  SumFunction([k \in KeysTo(h) |-> reported[k]])
                        = Cardinality(Msgs(h)) + Len(uq[h]) + Cardinality(Received(h))
    BY DEF MessagesConserved, KeysTo, Msgs, Received
  <2> DEFINE f == [k \in KeysTo(h) |-> reported[k]]
  <2>1. SumFunction(f) = Sum(f, KeysTo(h))
    <3>1. DOMAIN f = KeysTo(h)
      OBVIOUS
    <3> HIDE DEF f
    <3>2. QED
      BY <3>1, SumIsSumFunctionOnSet DEF SumFunction
  <2>2. IsFiniteSet(KeysTo(h)) /\ \A k \in KeysTo(h) : f[k] = reported[k]
    BY FS_Subset, KeysTo(h) \in SUBSET Keys DEF KeysTo
  <2> HIDE DEF f
  <2>3. Sum(f, KeysTo(h)) = Sum(reported, KeysTo(h))
    BY <2>2, SumSame
  <2>4. QED
    BY <2>1, <2>3 DEF Balanced, f
<1>3. IsFiniteSet(Keys)
  OBVIOUS
<1>4. QED
  BY <1>1, <1>2, <1>3, Inductive, NextStamps, NextBalance, PTL DEF Spec

=============================================================================

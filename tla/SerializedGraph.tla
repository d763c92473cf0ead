-------------------------- MODULE SerializedGraph --------------------------
(***************************************************************************)
(* The dependency graph of one rank: class Graph, which schedgen fills,    *)
(* and class SerializedGraph, which the simulator consumes (Parser.hpp).   *)
(*                                                                         *)
(* The code keeps, per node, a 32-bit counter of unsatisfied edges and the *)
(* two lists of the nodes that depend on it. Starting (finishing) a node   *)
(* walks its StartDependOnMe (DependOnMe) list, decrements the counter of  *)
(* each entry and pushes the entry on executableNodes when the counter     *)
(* reaches exactly zero. GetExecutableNodes hands the list out once and    *)
(* empties it.                                                             *)
(*                                                                         *)
(* The same pair of nodes may be joined by several edges, also of the same *)
(* kind (a schedule may repeat a line), so an edge carries an id. The      *)
(* lists of a node are the edges whose "on" it is. executableNodes is a    *)
(* multiset: its order is lost at once, to a sort that is not stable.      *)
(***************************************************************************)
EXTENDS Integers, FiniteSets

CONSTANTS
    Nodes,      \* the nodes the schedule may have
    MaxEdges    \* bound on the edges the builder adds

ASSUME MaxEdgesAssumption == MaxEdges \in Nat

VARIABLES
    phase,      \* "build" (Graph), then "run" (SerializedGraph)
    edges,      \* DependOnMe and StartDependOnMe of all nodes
    depCnt,     \* DependenciesCnt
    exec,       \* copies of each node on executableNodes
    handed,     \* nodes the simulator has been given and has not started
    started,    \* nodes MarkNodeAsStarted has been called for
    done        \* nodes MarkNodeAsDone has been called for

vars == <<phase, edges, depCnt, exec, handed, started, done>>

Kinds == {"requires", "irequires"}

EdgeType == [of : Nodes, on : Nodes, kind : Kinds, id : 1..MaxEdges]

-----------------------------------------------------------------------------
(* Operators on the graph, shared with the module of the simulator.        *)

\* The edges of S that node n waits on.
Of(S, n) == {e \in S : e.of = n}

\* The entries of StartDependOnMe and of DependOnMe of a node.
StartDependOnMe(E, n) == {e \in E : e.on = n /\ e.kind = "irequires"}
DependOnMe(E, n) == {e \in E : e.on = n /\ e.kind = "requires"}

\* DependenciesCnt after addDependency and addStartDependency built E.
DependenciesCnt(E) == [n \in Nodes |-> Cardinality(Of(E, n))]

\* (Slip: one decrement per node, however often it is listed.)
DecrementedOnce(cnt, S) ==
    [n \in Nodes |-> cnt[n] - Cardinality({e.of : e \in Of(S, n)})]

\* The counters after a walk over the list S: one decrement per entry.
Decremented(cnt, S) ==
    [n \in Nodes |-> cnt[n] - Cardinality(Of(S, n))]

\* (Slip: the counter is looked at, the decrement is not.)
PushedAtZero(cnt, ex, S) ==
    [n \in Nodes |->
        IF cnt[n] - Cardinality(Of(S, n)) = 0 THEN ex[n] + 1 ELSE ex[n]]

\* (Slip: the counter is compared before the decrement, not after.)
PushedFromOne(cnt, ex, S) ==
    [n \in Nodes |->
        IF cnt[n] = 1 /\ Of(S, n) # {} THEN ex[n] + 1 ELSE ex[n]]

\* executableNodes after the same walk: a node is pushed by the decrement
\* that takes its counter to zero, and by no other.
Pushed(cnt, ex, S) ==
    [n \in Nodes |->
        IF cnt[n] > 0 /\ cnt[n] - Cardinality(Of(S, n)) <= 0
        THEN ex[n] + 1 ELSE ex[n]]

\* (Slip: off by one.)
RootNodesToOne(cnt) == [n \in Nodes |-> IF cnt[n] <= 1 THEN 1 ELSE 0]

\* find_root_nodes, and add_root_nodes on what it wrote.
RootNodes(cnt) == [n \in Nodes |-> IF cnt[n] = 0 THEN 1 ELSE 0]

\* The walk of MarkNodeAsStarted or MarkNodeAsDone.
Satisfy(S) ==
    /\ depCnt' = Decremented(depCnt, S)
    /\ exec' = Pushed(depCnt, exec, S)

-----------------------------------------------------------------------------
Init ==
    /\ phase = "build"
    /\ edges = {}
    /\ depCnt = [n \in Nodes |-> 0]
    /\ exec = [n \in Nodes |-> 0]
    /\ handed = {}
    /\ started = {}
    /\ done = {}

\* Graph::addDependency(a, b) and Graph::addStartDependency(a, b).
AddEdge(a, b, k) ==
    /\ phase = "build"
    /\ Cardinality(edges) < MaxEdges
    /\ edges' = edges \cup {[of |-> a, on |-> b, kind |-> k,
                             id |-> Cardinality(edges) + 1]}
    /\ depCnt' = [depCnt EXCEPT ![a] = @ + 1]
    /\ UNCHANGED <<phase, exec, handed, started, done>>

addDependency(a, b) == AddEdge(a, b, "requires")
addStartDependency(a, b) == AddEdge(a, b, "irequires")

\* Graph::serialize_mmap writes the counters and the root nodes, the
\* constructor of SerializedGraph reads them back.
Load ==
    /\ phase = "build"
    /\ phase' = "run"
    /\ exec' = RootNodes(depCnt)
    /\ UNCHANGED <<edges, depCnt, handed, started, done>>

\* GetExecutableNodes: the whole list at once, then clear().
GetExecutableNodes ==
    /\ phase = "run"
    /\ \E n \in Nodes : exec[n] > 0
    /\ handed' = handed \cup {n \in Nodes : exec[n] > 0}
    /\ exec' = [n \in Nodes |-> 0]
    /\ UNCHANGED <<phase, edges, depCnt, started, done>>

\* The simulator starts a node it was given...
MarkNodeAsStarted(n) ==
    /\ phase = "run"
    /\ n \in handed
    /\ Satisfy(StartDependOnMe(edges, n))
    /\ handed' = handed \ {n}
    /\ started' = started \cup {n}
    /\ UNCHANGED <<phase, edges, done>>

\* ... and finishes a node it has started.
MarkNodeAsDone(n) ==
    /\ phase = "run"
    /\ n \in started \ done
    /\ Satisfy(DependOnMe(edges, n))
    /\ done' = done \cup {n}
    /\ UNCHANGED <<phase, edges, handed, started>>

\* Nothing is executable and every started node is finished: all has run,
\* or what is left waits on a cycle.
Exhausted ==
    /\ phase = "run"
    /\ handed = {}
    /\ started = done
    /\ \A n \in Nodes : exec[n] = 0
    /\ UNCHANGED vars

Next ==
    \/ \E a, b \in Nodes : addDependency(a, b) \/ addStartDependency(a, b)
    \/ Load
    \/ GetExecutableNodes
    \/ \E n \in Nodes : MarkNodeAsStarted(n) \/ MarkNodeAsDone(n)
    \/ Exhausted

Fairness ==
    /\ WF_vars(Load)
    /\ WF_vars(GetExecutableNodes)
    /\ \A n \in Nodes : WF_vars(MarkNodeAsStarted(n)) /\ WF_vars(MarkNodeAsDone(n))

Spec == Init /\ [][Next]_vars

FairSpec == Spec /\ Fairness

-----------------------------------------------------------------------------
(* Properties.                                                             *)

\* The edges whose event (start or end of "on") has not happened yet.
Unsatisfied(n) ==
    {e \in Of(edges, n) :
        ~ \/ e.kind = "requires"  /\ e.on \in done
          \/ e.kind = "irequires" /\ e.on \in started}

TypeOK ==
    /\ phase \in {"build", "run"}
    /\ edges \subseteq EdgeType
    /\ depCnt \in [Nodes -> Nat]
    /\ exec \in [Nodes -> Nat]
    /\ handed \subseteq Nodes
    /\ started \subseteq Nodes
    /\ done \subseteq Nodes

\* The counter of a node is the number of its edges still unsatisfied,
\* whatever the order of the walks. In particular it never passes below
\* zero, where the unsigned counter of the code would wrap to 2^32 - 1 and
\* its node, or a node already pushed, would be lost or pushed again.
CounterExact ==
    \A n \in Nodes : depCnt[n] = Cardinality(Unsatisfied(n))

\* A node is in exactly one place on its way through the schedule: waiting
\* (its counter is positive), on executableNodes (once), in the hands of
\* the simulator, or started. No node is pushed twice and none gets lost
\* between the walk that frees it and the call that hands it out.
OnePlace ==
    phase = "run" =>
        \A n \in Nodes :
            exec[n] + (IF n \in handed THEN 1 ELSE 0)
                    + (IF n \in started THEN 1 ELSE 0)
                = IF depCnt[n] = 0 THEN 1 ELSE 0

\* Nodes in the hands of the simulator or started had every requirement
\* met, and only started nodes are done.
OrderRespected ==
    /\ \A n \in handed \cup started : Unsatisfied(n) = {}
    /\ done \subseteq started

\* The counters implement the order the schedule asks for.
Order == INSTANCE DependencyOrder WITH Ids <- 1..MaxEdges
ImplementsOrder == Order!Spec

\* The nodes that lie on or behind a cycle of edges: the greatest set S
\* each member of which has an edge on a member of S.
Blocked ==
    UNION {S \in SUBSET Nodes :
              \A n \in S : \E e \in edges : e.of = n /\ e.on \in S}

\* Every node that is not on or behind a cycle is eventually done; a cycle
\* is never reported, its nodes are silently left out.
EveryFreeNodeRuns == <>[](phase = "run" /\ done = Nodes \ Blocked)

=============================================================================

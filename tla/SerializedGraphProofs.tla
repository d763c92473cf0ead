----------------------- MODULE SerializedGraphProofs -----------------------
(***************************************************************************)
(* For every set of nodes, every graph on it and every order of starts and *)
(* completions: the counters of SerializedGraph are exact, every node is   *)
(* handed out once and not before its requirements are met, and so the     *)
(* counters implement the order of DependencyOrder.                        *)
(***************************************************************************)
EXTENDS SerializedGraph, DataLemmas, FiniteSetTheorems, TLAPS

\* What the induction needs beside the invariants of SerializedGraph: the
\* builder's edges are finitely many and numbered in the order of their
\* creation, and nothing runs while it builds.
Building ==
    /\ IsFiniteSet(edges)
    /\ Cardinality(edges) <= MaxEdges
    /\ \A e \in edges : e.id <= Cardinality(edges)
    /\ phase = "build" =>
          /\ handed = {} /\ started = {} /\ done = {}
          /\ exec = [n \in Nodes |-> 0]

IInv ==
    /\ TypeOK
    /\ Building
    /\ CounterExact
    /\ OnePlace
    /\ done \subseteq started

-----------------------------------------------------------------------------
\* The unsatisfied edges of a node are finitely many, so its counter is a
\* natural number, and it is zero exactly when nothing is left to wait for.
LEMMA CounterIsNatural ==
    ASSUME IsFiniteSet(edges), CounterExact, NEW n \in Nodes
    PROVE  /\ IsFiniteSet(Unsatisfied(n))
           /\ depCnt[n] \in Nat
           /\ depCnt[n] = 0 <=> Unsatisfied(n) = {}
<1>1. IsFiniteSet(Unsatisfied(n))
  BY FS_Subset, Unsatisfied(n) \in SUBSET edges DEF Unsatisfied, Of
<1>2. QED
  BY <1>1, FS_CardinalityType, FS_EmptySet DEF CounterExact

\* A node that is handed out or started has a zero counter.
LEMMA PlacedIsFree ==
    ASSUME TypeOK, Building, OnePlace, NEW n \in handed \cup started
    PROVE  /\ depCnt[n] = 0
           /\ n \in handed => n \notin started
           /\ n \in Nodes
<1>1. n \in Nodes /\ exec[n] \in Nat
  BY DEF TypeOK
<1>2. phase = "run"
  BY DEF TypeOK, Building
<1>3. QED
  BY <1>1, <1>2 DEF OnePlace

\* One walk: if the entries of list S are edges no one has been told of, and
\* the event the walk reports satisfies those and no others, the counters
\* stay exact and every node whose counter reaches zero is pushed once.
LEMMA WalkIsExact ==
    ASSUME TypeOK, IsFiniteSet(edges), CounterExact,
           NEW S \in SUBSET edges,
           \A m \in Nodes : Of(S, m) \subseteq Unsatisfied(m),
           \A m \in Nodes : Unsatisfied(m)' = Unsatisfied(m) \ Of(S, m),
           Satisfy(S)
    PROVE  /\ depCnt' \in [Nodes -> Nat]
           /\ exec' \in [Nodes -> Nat]
           /\ CounterExact'
           /\ \A m \in Nodes :
                 /\ depCnt[m] \in Nat
                 /\ depCnt'[m] \in Nat
                 /\ depCnt[m] = 0 => depCnt'[m] = 0
                 /\ exec'[m] = IF depCnt[m] > 0 /\ depCnt'[m] = 0
                               THEN exec[m] + 1 ELSE exec[m]
<1>1. ASSUME NEW m \in Nodes
      PROVE  /\ Cardinality(Of(S, m)) \in Nat
             /\ depCnt[m] \in Nat
             /\ depCnt[m] - Cardinality(Of(S, m)) = Cardinality(Unsatisfied(m)')
             /\ Cardinality(Unsatisfied(m)') \in Nat
             /\ depCnt[m] = 0 => Cardinality(Of(S, m)) = 0
  <2>1. IsFiniteSet(Unsatisfied(m)) /\ depCnt[m] \in Nat
    BY CounterIsNatural
  <2>2. Of(S, m) \in SUBSET Unsatisfied(m)
    OBVIOUS
  <2>3. depCnt[m] = Cardinality(Unsatisfied(m))
    BY DEF CounterExact
  <2>4. QED
    BY <2>1, <2>2, <2>3, CardinalityDifference
<1>2. /\ depCnt' = [m \in Nodes |-> depCnt[m] - Cardinality(Of(S, m))]
      /\ exec' = [m \in Nodes |->
                    IF depCnt[m] > 0 /\ depCnt[m] - Cardinality(Of(S, m)) <= 0
                    THEN exec[m] + 1 ELSE exec[m]]
  BY DEF Satisfy, Decremented, Pushed
<1>3. \A m \in Nodes : exec[m] \in Nat
  BY DEF TypeOK
<1>4. ASSUME NEW m \in Nodes
      PROVE  /\ depCnt'[m] = Cardinality(Unsatisfied(m)')
             /\ depCnt'[m] = depCnt[m] - Cardinality(Of(S, m))
  BY <1>1, <1>2
<1>5. CounterExact'
  BY <1>4 DEF CounterExact
<1>6. /\ depCnt' \in [Nodes -> Nat]
      /\ exec' \in [Nodes -> Nat]
  BY <1>1, <1>2, <1>3
<1>7. ASSUME NEW m \in Nodes
      PROVE  /\ depCnt'[m] \in Nat
             /\ depCnt[m] = 0 => depCnt'[m] = 0
             /\ exec'[m] = IF depCnt[m] > 0 /\ depCnt'[m] = 0
                           THEN exec[m] + 1 ELSE exec[m]
  BY <1>1, <1>2, <1>4
<1>8. QED
  BY <1>1, <1>5, <1>6, <1>7

-----------------------------------------------------------------------------
\* An empty graph satisfies the invariant.
LEMMA InitIInv == Init => IInv
<1> SUFFICES ASSUME Init PROVE IInv
  OBVIOUS
<1> USE DEF Init
<1>1. TypeOK
  BY DEF TypeOK
<1>2. Building
  BY FS_EmptySet, MaxEdgesAssumption DEF Building
<1>3. CounterExact
  <2>1. \A n \in Nodes : Unsatisfied(n) = {}
    BY DEF Unsatisfied, Of
  <2>2. QED
    BY <2>1, FS_EmptySet DEF CounterExact
<1>4. OnePlace
  BY DEF OnePlace
<1>5. QED
  BY <1>1, <1>2, <1>3, <1>4 DEF IInv

\* addDependency and addStartDependency: one edge and one count more.
LEMMA AddEdgeIInv ==
    ASSUME IInv, NEW a \in Nodes, NEW b \in Nodes, NEW k \in Kinds,
           AddEdge(a, b, k)
    PROVE  IInv'
<1> DEFINE i == Cardinality(edges) + 1
           e == [of |-> a, on |-> b, kind |-> k, id |-> i]
<1>1. Cardinality(edges) \in Nat /\ i \in 1..MaxEdges
  BY FS_CardinalityType, MaxEdgesAssumption DEF IInv, Building, AddEdge
<1>2. e \notin edges
  BY <1>1 DEF IInv, Building, TypeOK, EdgeType
<1>3. /\ IsFiniteSet(edges')
      /\ Cardinality(edges') = i
      /\ edges' = edges \cup {e}
  <2>1. edges' = edges \cup {e} /\ IsFiniteSet(edges)
    BY DEF AddEdge, IInv, Building
  <2>2. QED
    BY <1>2, <2>1, FS_AddElement
<1>4. e \in EdgeType
  BY <1>1 DEF EdgeType
<1>5. TypeOK'
  BY <1>3, <1>4 DEF IInv, TypeOK, AddEdge
<1>6. Building'
  <2>1. \A f \in edges' : f.id <= i
    <3>1. \A f \in edges : f.id \in Int /\ f.id <= Cardinality(edges)
      BY DEF IInv, Building, TypeOK, EdgeType
    <3>2. e.id = i
      OBVIOUS
    <3>3. QED
      BY <1>1, <1>3, <3>1, <3>2
  <2>2. phase' = "build" =>
          /\ handed' = {} /\ started' = {} /\ done' = {}
          /\ exec' = [n \in Nodes |-> 0]
    BY DEF IInv, Building, AddEdge
  <2>3. i <= MaxEdges
    BY <1>1
  <2>4. QED
    BY <1>3, <2>1, <2>2, <2>3 DEF Building
<1>7. CounterExact'
  <2> SUFFICES ASSUME NEW n \in Nodes
               PROVE  depCnt'[n] = Cardinality(Unsatisfied(n)')
    BY DEF CounterExact
  <2>1. /\ started = {} /\ done = {} /\ started' = {} /\ done' = {}
    BY DEF IInv, Building, AddEdge
  <2>2. Unsatisfied(n) = Of(edges, n) /\ Unsatisfied(n)' = Of(edges', n)
    BY <2>1 DEF Unsatisfied, Of
  <2>3. Of(edges', n) = IF n = a THEN Of(edges, n) \cup {e} ELSE Of(edges, n)
    BY <1>3 DEF Of
  <2>4. IsFiniteSet(Of(edges, n)) /\ e \notin Of(edges, n)
    BY <1>2, FS_Subset, Of(edges, n) \in SUBSET edges DEF Of, IInv, Building
  <2>5. depCnt[n] = Cardinality(Of(edges, n))
    BY <2>2 DEF IInv, CounterExact
  <2>6. depCnt'[n] = IF n = a THEN depCnt[n] + 1 ELSE depCnt[n]
    BY DEF AddEdge, IInv, TypeOK
  <2> HIDE DEF e
  <2>7. Cardinality(Of(edges, n) \cup {e}) = Cardinality(Of(edges, n)) + 1
    BY <2>4, FS_AddElement
  <2>8. QED
    BY <2>2, <2>3, <2>5, <2>6, <2>7
<1>8. OnePlace'
  BY DEF OnePlace, AddEdge
<1>9. QED
  BY <1>5, <1>6, <1>7, <1>8 DEF IInv, AddEdge

\* Loading: exactly the nodes without an edge are executable.
LEMMA LoadIInv == ASSUME IInv, Load PROVE IInv'
<1>1. exec' = [n \in Nodes |-> IF depCnt[n] = 0 THEN 1 ELSE 0]
  BY DEF Load, RootNodes
<1>2. /\ handed' = {} /\ started' = {} /\ phase' = "run"
      /\ UNCHANGED <<edges, depCnt, handed, started, done>>
  BY DEF IInv, Building, Load
<1>3. TypeOK'
  BY <1>1, <1>2 DEF IInv, TypeOK
<1>4. Building'
  BY <1>2 DEF IInv, Building
<1>5. CounterExact'
  BY <1>2 DEF IInv, CounterExact, Unsatisfied, Of
<1>6. OnePlace'
  BY <1>1, <1>2 DEF OnePlace
<1>7. QED
  BY <1>2, <1>3, <1>4, <1>5, <1>6 DEF IInv

\* Handing out the list moves its nodes and counts nothing.
LEMMA GetExecutableNodesIInv == ASSUME IInv, GetExecutableNodes PROVE IInv'
<1>1. /\ exec' = [n \in Nodes |-> 0]
      /\ handed' = handed \cup {n \in Nodes : exec[n] > 0}
      /\ phase = "run" /\ UNCHANGED <<phase, edges, depCnt, started, done>>
  BY DEF GetExecutableNodes
<1>2. TypeOK'
  BY <1>1 DEF IInv, TypeOK
<1>3. Building'
  BY <1>1 DEF IInv, Building
<1>4. CounterExact'
  BY <1>1 DEF IInv, CounterExact, Unsatisfied, Of
<1>5. OnePlace'
  <2> SUFFICES ASSUME NEW n \in Nodes
               PROVE  (IF n \in handed' THEN 1 ELSE 0)
                        + (IF n \in started THEN 1 ELSE 0)
                      = IF depCnt[n] = 0 THEN 1 ELSE 0
    BY <1>1 DEF OnePlace
  <2>1. exec[n] \in Nat
    BY DEF IInv, TypeOK
  <2>2. exec[n] + (IF n \in handed THEN 1 ELSE 0)
                + (IF n \in started THEN 1 ELSE 0)
          = IF depCnt[n] = 0 THEN 1 ELSE 0
    BY <1>1 DEF IInv, OnePlace
  <2>3. n \in handed' <=> n \in handed \/ exec[n] > 0
    BY <1>1
  <2>4. QED
    BY <2>1, <2>2, <2>3
<1>6. QED
  BY <1>1, <1>2, <1>3, <1>4, <1>5 DEF IInv

\* Starting a node satisfies the irequires edges on it, and no others.
LEMMA MarkNodeAsStartedIInv ==
    ASSUME IInv, NEW n \in Nodes, MarkNodeAsStarted(n)
    PROVE  IInv'
<1> DEFINE S == StartDependOnMe(edges, n)
<1>1. /\ phase = "run" /\ n \in handed /\ Satisfy(S)
      /\ handed' = handed \ {n} /\ started' = started \cup {n}
      /\ UNCHANGED <<phase, edges, done>>
  BY DEF MarkNodeAsStarted
<1>2. depCnt[n] = 0 /\ n \notin started
  BY <1>1, PlacedIsFree DEF IInv
<1>3. S \in SUBSET edges
  BY DEF StartDependOnMe
<1>4. \A m \in Nodes : Of(S, m) \subseteq Unsatisfied(m)
  BY <1>2 DEF StartDependOnMe, Of, Unsatisfied
<1>5. \A m \in Nodes : Unsatisfied(m)' = Unsatisfied(m) \ Of(S, m)
  BY <1>1 DEF StartDependOnMe, Of, Unsatisfied
<1> HIDE DEF S
<1>6. /\ depCnt' \in [Nodes -> Nat]
      /\ exec' \in [Nodes -> Nat]
      /\ CounterExact'
      /\ \A m \in Nodes :
            /\ depCnt[m] \in Nat
            /\ depCnt'[m] \in Nat
            /\ depCnt[m] = 0 => depCnt'[m] = 0
            /\ exec'[m] = IF depCnt[m] > 0 /\ depCnt'[m] = 0
                          THEN exec[m] + 1 ELSE exec[m]
  BY <1>1, <1>3, <1>4, <1>5, WalkIsExact DEF IInv, Building
<1>7. TypeOK'
  BY <1>1, <1>6 DEF IInv, TypeOK
<1>8. Building'
  BY <1>1 DEF IInv, Building
<1>9. OnePlace'
  <2> SUFFICES ASSUME NEW m \in Nodes
               PROVE  exec'[m] + (IF m \in handed' THEN 1 ELSE 0)
                               + (IF m \in started' THEN 1 ELSE 0)
                        = IF depCnt'[m] = 0 THEN 1 ELSE 0
    BY DEF OnePlace
  <2>1. exec[m] \in Nat
    BY DEF IInv, TypeOK
  <2>2. exec[m] + (IF m \in handed THEN 1 ELSE 0)
                + (IF m \in started THEN 1 ELSE 0)
          = IF depCnt[m] = 0 THEN 1 ELSE 0
    BY <1>1 DEF IInv, OnePlace
  <2>3. CASE m = n
    BY <1>1, <1>2, <1>6, <2>1, <2>2, <2>3
  <2>4. CASE m # n
    <3>1. (m \in handed' <=> m \in handed) /\ (m \in started' <=> m \in started)
      BY <1>1, <2>4
    <3>2. QED
      BY <1>6, <2>1, <2>2, <3>1
  <2>5. QED
    BY <2>3, <2>4
<1>10. QED
  BY <1>1, <1>6, <1>7, <1>8, <1>9 DEF IInv

\* Finishing a node satisfies the requires edges on it, and no others.
LEMMA MarkNodeAsDoneIInv ==
    ASSUME IInv, NEW n \in Nodes, MarkNodeAsDone(n)
    PROVE  IInv'
<1> DEFINE S == DependOnMe(edges, n)
<1>1. /\ phase = "run" /\ n \in started \ done /\ Satisfy(S)
      /\ done' = done \cup {n}
      /\ UNCHANGED <<phase, edges, handed, started>>
  BY DEF MarkNodeAsDone
<1>2. S \in SUBSET edges
  BY DEF DependOnMe
<1>3. \A m \in Nodes : Of(S, m) \subseteq Unsatisfied(m)
  BY <1>1 DEF DependOnMe, Of, Unsatisfied
<1>4. \A m \in Nodes : Unsatisfied(m)' = Unsatisfied(m) \ Of(S, m)
  BY <1>1 DEF DependOnMe, Of, Unsatisfied
<1> HIDE DEF S
<1>5. /\ depCnt' \in [Nodes -> Nat]
      /\ exec' \in [Nodes -> Nat]
      /\ CounterExact'
      /\ \A m \in Nodes :
            /\ depCnt[m] \in Nat
            /\ depCnt'[m] \in Nat
            /\ depCnt[m] = 0 => depCnt'[m] = 0
            /\ exec'[m] = IF depCnt[m] > 0 /\ depCnt'[m] = 0
                          THEN exec[m] + 1 ELSE exec[m]
  BY <1>1, <1>2, <1>3, <1>4, WalkIsExact DEF IInv, Building
<1>6. TypeOK'
  BY <1>1, <1>5 DEF IInv, TypeOK
<1>7. Building'
  BY <1>1 DEF IInv, Building
<1>8. OnePlace'
  <2> SUFFICES ASSUME NEW m \in Nodes
               PROVE  exec'[m] + (IF m \in handed THEN 1 ELSE 0)
                               + (IF m \in started THEN 1 ELSE 0)
                        = IF depCnt'[m] = 0 THEN 1 ELSE 0
    BY <1>1 DEF OnePlace
  <2>1. exec[m] \in Nat
    BY DEF IInv, TypeOK
  <2>2. exec[m] + (IF m \in handed THEN 1 ELSE 0)
                + (IF m \in started THEN 1 ELSE 0)
          = IF depCnt[m] = 0 THEN 1 ELSE 0
    BY <1>1 DEF IInv, OnePlace
  <2>3. QED
    BY <1>5, <2>1, <2>2
<1>9. QED
  BY <1>1, <1>5, <1>6, <1>7, <1>8 DEF IInv

\* Every step preserves the invariant.
LEMMA NextIInv == IInv /\ [Next]_vars => IInv'
<1> SUFFICES ASSUME IInv, [Next]_vars PROVE IInv'
  OBVIOUS
<1>1. CASE \E a, b \in Nodes : addDependency(a, b) \/ addStartDependency(a, b)
  BY <1>1, AddEdgeIInv DEF addDependency, addStartDependency, Kinds
<1>2. CASE Load
  BY <1>2, LoadIInv
<1>3. CASE GetExecutableNodes
  BY <1>3, GetExecutableNodesIInv
<1>4. CASE \E n \in Nodes : MarkNodeAsStarted(n)
  BY <1>4, MarkNodeAsStartedIInv
<1>5. CASE \E n \in Nodes : MarkNodeAsDone(n)
  BY <1>5, MarkNodeAsDoneIInv
<1>6. CASE UNCHANGED vars
  BY <1>6 DEF vars, IInv, TypeOK, Building, CounterExact, Unsatisfied, Of, OnePlace
<1>7. QED
  BY <1>1, <1>2, <1>3, <1>4, <1>5, <1>6 DEF Next, Exhausted

\* The strengthened invariant is inductive.
THEOREM Inductive == Spec => []IInv
BY InitIInv, NextIInv, PTL DEF Spec

-----------------------------------------------------------------------------
\* Type correctness of the graph.
THEOREM TypeCorrect == Spec => []TypeOK
<1>1. IInv => TypeOK
  BY DEF IInv
<1>2. QED
  BY <1>1, Inductive, PTL

\* For every graph the counter of a node is the number of its unsatisfied
\* edges: the unsigned counters of Parser.hpp never wrap.
THEOREM CounterCorrect == Spec => []CounterExact
<1>1. IInv => CounterExact
  BY DEF IInv
<1>2. QED
  BY <1>1, Inductive, PTL

\* Every node is handed out exactly once, when its counter is zero.
THEOREM HandedOutOnce == Spec => []OnePlace
<1>1. IInv => OnePlace
  BY DEF IInv
<1>2. QED
  BY <1>1, Inductive, PTL

\* No node is handed out or started before its requirements are met.
THEOREM OrderCorrect == Spec => []OrderRespected
<1>1. IInv => OrderRespected
  BY PlacedIsFree, CounterIsNatural DEF IInv, Building, OrderRespected
<1>2. QED
  BY <1>1, Inductive, PTL

-----------------------------------------------------------------------------
\* A step of the counters is a step of the order they implement.
LEMMA StepImplementsOrder ==
    IInv /\ IInv' /\ [Next]_vars => [Order!Next]_(Order!vars)
<1> SUFFICES ASSUME IInv, [Next]_vars
             PROVE  [Order!Next]_(Order!vars)
  OBVIOUS
<1>1. ASSUME NEW a \in Nodes, NEW b \in Nodes, NEW k \in Kinds, AddEdge(a, b, k)
      PROVE  Order!Next
  <2> DEFINE i == Cardinality(edges) + 1
  <2>1. i \in 1..MaxEdges
    BY <1>1, FS_CardinalityType, MaxEdgesAssumption DEF IInv, Building, AddEdge
  <2>2. started = {} /\ UNCHANGED <<started, done>>
    BY <1>1 DEF IInv, Building, AddEdge
  <2>3. edges' = edges \cup {[of |-> a, on |-> b, kind |-> k, id |-> i]}
    BY <1>1 DEF AddEdge
  <2>4. QED
    BY <2>1, <2>2, <2>3 DEF Order!Next, Order!Write, Order!Kinds, Kinds
<1>2. CASE Load \/ GetExecutableNodes \/ Exhausted \/ UNCHANGED vars
  BY <1>2 DEF Load, GetExecutableNodes, Exhausted, vars, Order!vars
<1>3. ASSUME NEW n \in Nodes, MarkNodeAsStarted(n) PROVE Order!Next
  <2>1. n \in handed /\ started' = started \cup {n} /\ UNCHANGED <<edges, done>>
    BY <1>3 DEF MarkNodeAsStarted
  <2>2. n \notin started /\ depCnt[n] = 0
    BY <2>1, PlacedIsFree DEF IInv
  <2>3. Unsatisfied(n) = {}
    BY <2>2, CounterIsNatural DEF IInv, Building
  <2>4. Order!Allowed(n)
    BY <2>3 DEF Order!Allowed, Unsatisfied, Of
  <2>5. QED
    BY <2>1, <2>2, <2>4 DEF Order!Next, Order!Begin
<1>4. ASSUME NEW n \in Nodes, MarkNodeAsDone(n) PROVE Order!Next
  BY <1>4 DEF MarkNodeAsDone, Order!Next, Order!End
<1>5. QED
  BY <1>1, <1>2, <1>3, <1>4 DEF Next, addDependency, addStartDependency, Kinds

\* The dependency counters of Parser.hpp implement the order of the
\* schedule, whatever the graph and whatever the simulator's order of calls.
THEOREM Refinement == Spec => ImplementsOrder
<1>1. Init => Order!Init
  BY DEF Init, Order!Init
<1>2. QED
  BY <1>1, Inductive, StepImplementsOrder, PTL
     DEF Spec, ImplementsOrder, Order!Spec

=============================================================================

-------------------------- MODULE DependencyOrder --------------------------
(***************************************************************************)
(* What the dependency graph of a GOAL schedule promises to the simulator. *)
(*                                                                         *)
(* A schedule orders its operations by two relations, the two ways the     *)
(* builder in Parser.hpp has of adding an edge:                            *)
(*                                                                         *)
(*   a requires  b   "a can not be executed before b is finished"          *)
(*   a irequires b   "a can not be executed before b is started"           *)
(*                                                                         *)
(* An operation runs at most once and not before its edges allow it.       *)
(* Nothing is said of counters, of lists of executable nodes, or of who    *)
(* remembers what: module SerializedGraph is the implementation.           *)
(***************************************************************************)
CONSTANTS
    Nodes,      \* the operations of the schedule
    Ids         \* tells apart edges that join the same pair in the same way

VARIABLES
    edges,      \* the edges, records [of, on, kind, id]
    started,    \* the operations that have begun
    done        \* the operations that have finished

vars == <<edges, started, done>>

Kinds == {"requires", "irequires"}

\* Every edge of n that waits for the end (the start) of a node has seen it.
Allowed(n) ==
    \A e \in edges : e.of = n =>
        \/ e.kind = "requires"  /\ e.on \in done
        \/ e.kind = "irequires" /\ e.on \in started

Init ==
    /\ edges = {}
    /\ started = {}
    /\ done = {}

\* The schedule is written before anything of it runs.
Write ==
    /\ started = {}
    /\ \E a, b \in Nodes, k \in Kinds, i \in Ids :
          edges' = edges \cup {[of |-> a, on |-> b, kind |-> k, id |-> i]}
    /\ UNCHANGED <<started, done>>

Begin(n) ==
    /\ n \notin started
    /\ Allowed(n)
    /\ started' = started \cup {n}
    /\ UNCHANGED <<edges, done>>

End(n) ==
    /\ n \in started \ done
    /\ done' = done \cup {n}
    /\ UNCHANGED <<edges, started>>

Next == Write \/ \E n \in Nodes : Begin(n) \/ End(n)

Spec == Init /\ [][Next]_vars

=============================================================================

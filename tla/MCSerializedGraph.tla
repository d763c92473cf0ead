------------------------- MODULE MCSerializedGraph -------------------------
(* SerializedGraph for TLC: every graph of up to MaxEdges edges on a few   *)
(* nodes, self loops, cycles and repeated edges included, in every order   *)
(* of starts and completions. Nodes are not declared symmetric: the run    *)
(* checks liveness as well.                                                *)
EXTENDS SerializedGraph

MCNodes == {"a", "b", "c"}

=============================================================================

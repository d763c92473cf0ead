--------------------------- MODULE MCBroadcomMmu ---------------------------
(* BroadcomMmu for TLC: two ports, one class of RoCE and TCP, packets      *)
(* smaller and greater than a cell, limits that few packets reach.         *)
EXTENDS BroadcomMmu, TLC

Perms == Permutations(Ports)

=============================================================================

------------------------- MODULE MCMessageMatching -------------------------
(* MessageMatching for TLC: two senders, two tags, wildcards of both kinds. *)
EXTENDS MessageMatching, TLC

Perms == Permutations(Sources) \cup Permutations(Tags)

=============================================================================

------------------------------ MODULE MCQbbPfc ------------------------------
(* QbbPfc for TLC: a NIC with packets of two classes; the static threshold *)
(* with two egress devices, the dynamic one with one of them.              *)
EXTENDS QbbPfc

CONSTANTS p1, p2, p3

StaticAndDynamic ==
    {[dynamicth |-> FALSE, outs |-> {p2, p3}, perTick |-> 1],
     [dynamicth |-> TRUE, outs |-> {p2}, perTick |-> 2]}

=============================================================================

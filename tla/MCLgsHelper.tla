---------------------------- MODULE MCLgsHelper ----------------------------
(* LgsHelper for TLC: two keys, messages of one and two packets.           *)
EXTENDS LgsHelper

MCSizes == {1, 2}
MCDelays == {2}

=============================================================================

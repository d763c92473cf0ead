-------------------------- MODULE MCQbbTransport --------------------------
(* QbbTransport for TLC: chunks of two packets, with and without waiting   *)
(* for ACKs, going back to the packet or to the chunk, and a small buffer. *)
EXTENDS QbbTransport

Plain == [chunk |-> 2, ackInterval |-> 2, waitAck |-> FALSE, backTo0 |-> FALSE,
          bufferLimit |-> 8]

AllAttributes ==
    {[Plain EXCEPT !.waitAck = w, !.backTo0 = b] : w, b \in BOOLEAN}
    \cup {[Plain EXCEPT !.bufferLimit = 2]}

FewLosses == [data |-> 2, ack |-> 1, nack |-> 1]

=============================================================================

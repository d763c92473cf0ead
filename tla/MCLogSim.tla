------------------------------ MODULE MCLogSim ------------------------------
(* LogSim for TLC: GOAL schedules, most of them from the repository.       *)
EXTENDS LogSim

Send(h, to, packets) ==
    [type |-> "SEND", host |-> h, target |-> to, tag |-> 0, size |-> packets, proc |-> 0]
Recv(h, from) ==
    [type |-> "RECV", host |-> h, target |-> from, tag |-> 0, size |-> 0, proc |-> 0]
Calc(h, cpu, time) ==
    [type |-> "LOCOP", host |-> h, target |-> h, tag |-> 0, size |-> time, proc |-> cpu]

\* a requires (irequires) b, the i-th line of its kind.
Requires(i, a, b) == [of |-> a, on |-> b, kind |-> "requires", id |-> i]
Irequires(i, a, b) == [of |-> a, on |-> b, kind |-> "irequires", id |-> i]

\* README.md: two ranks, two messages each way.
PingPong ==
    [ops |-> <<Send(0, 1, 1), Recv(0, 1), Send(0, 1, 2), Recv(0, 1),
               Recv(1, 0), Send(1, 0, 1), Recv(1, 0), Send(1, 0, 1)>>,
     edges |-> {Requires(1, 3, 2), Requires(2, 6, 5), Requires(3, 8, 7)}]

\* all_to_all_small.goal, on three ranks.
AllToAll ==
    [ops |-> <<Send(0, 1, 1), Recv(0, 2), Send(0, 2, 1), Recv(0, 1),
               Send(1, 2, 1), Recv(1, 0), Send(1, 0, 1), Recv(1, 2),
               Send(2, 0, 1), Recv(2, 1), Send(2, 1, 1), Recv(2, 0)>>,
     edges |-> {}]

\* Calcs beside communication: two calcs share a CPU, a send waits for a
\* calc, messages arrive at a host that computes, receives take any source.
Computing ==
    [ops |-> <<Calc(0, 0, 3), Calc(0, 0, 2), Send(0, 1, 2), Send(0, 1, 1),
               Calc(1, 0, 2), Recv(1, Wildcard), Calc(1, 1, 1), Recv(1, 0)>>,
     edges |-> {Requires(1, 4, 1), Irequires(1, 7, 6), Irequires(2, 8, 5)}]

\* A receive and a calc that wait for the same message, one of its start.
Chained ==
    [ops |-> <<Send(0, 1, 1), Calc(0, 0, 2), Send(0, 1, 1),
               Recv(1, 0), Calc(1, 0, 2), Recv(1, 0)>>,
     edges |-> {Requires(1, 2, 1), Requires(2, 3, 1), Irequires(1, 3, 2),
                Requires(3, 5, 4), Irequires(2, 6, 4)}]

\* Host 1 computes on both CPUs while messages of two hosts arrive for it,
\* one of them maybe before its receive is posted.
Busy ==
    [ops |-> <<Calc(1, 0, 2), Recv(1, 0), Recv(1, Wildcard), Calc(1, 0, 1),
               Calc(1, 1, 1), Send(1, 0, 1),
               Send(0, 1, 1), Recv(0, 1), Send(2, 1, 2)>>,
     edges |-> {Requires(1, 6, 2), Irequires(1, 5, 3), Requires(2, 5, 1),
                Requires(3, 3, 2)}]

\* Host 0 receives from 2, then from 1, whose message may come before, and
\* answers to whom it has heard last.
Gather ==
    [ops |-> <<Recv(0, 2), Recv(0, 1), Send(0, 1, 2),
               Send(1, 0, 1), Recv(1, Wildcard), Send(2, 0, 2)>>,
     edges |-> {Requires(1, 2, 1), Requires(2, 3, 2), Irequires(1, 5, 4)}]

\* A chain of more calcs than the cycles allow for, all in one instant.
Long ==
    [ops |-> [i \in 1..10 |-> Calc(0, i % 2, 0)],
     edges |-> {Requires(i - 2, i, i - 1) : i \in 3..10}]

\* Five operations of host 0 are free at once, more than are sorted stably.
Crowded ==
    [ops |-> <<Recv(0, 1), Recv(0, 2), Send(0, 1, 1), Calc(0, 0, 1), Calc(0, 1, 1),
               Send(1, 0, 1), Recv(1, 0), Send(2, 0, 1)>>,
     edges |-> {}]

ComputePrograms == {Computing, Chained, Busy}

\* Two calcs of a host that can communicate, but has no need to.
TwoCalcs ==
    {[ops |-> <<Calc(0, 0, 3), Calc(0, 0, 2)>>, edges |-> {}]}

\* ring_ar.goal, on three ranks: two sends each to the same peer, with the
\* same tag, the second after the first receive.
Ring ==
    [ops |-> <<Recv(0, 2), Send(0, 1, 1), Recv(0, 2), Send(0, 1, 1),
               Recv(1, 0), Send(1, 2, 1), Recv(1, 0), Send(1, 2, 1),
               Recv(2, 1), Send(2, 0, 1), Recv(2, 1), Send(2, 0, 1)>>,
     edges |-> {Requires(1, 4, 1), Requires(2, 8, 5), Requires(3, 12, 9)}]
Rings == {Ring}

MCHosts == 0..2
MCPrograms == {PingPong, AllToAll, Computing, Chained, Busy, Gather, Long, Crowded}
MCUnset == {0, 4}
MCGarbage == {None} \cup (Keys \cap {KeyOf(0, 1, 0)})

=============================================================================

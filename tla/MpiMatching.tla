---------------------------- MODULE MpiMatching ----------------------------
(***************************************************************************)
(* What message matching on one host promises: a receive is paired with    *)
(* the message that arrived first among those it accepts, a message with   *)
(* the receive that was posted first among those that accept it, as soon   *)
(* as both are there. Receives and messages are remembered for ever;       *)
(* module MessageMatching has the two queues of the simulator instead.     *)
(***************************************************************************)
EXTENDS Naturals, Sequences, FiniteSets

CONSTANTS
    Sources, Tags,  \* senders, tags
    Wildcard             \* the wildcard of either, ANY_SOURCE and ANY_TAG

VARIABLES
    posted,     \* the receives, in the order of their posting
    arrived,    \* the messages, in the order of their arrival
    pairs       \* <<i, j>>: receive i got message j

vars == <<posted, arrived, pairs>>

Accepts(r, m) == r.src \in {m.src, Wildcard} /\ r.tag \in {m.tag, Wildcard}

\* The receives that would take m, the messages that r would take.
Takers(m) ==
    {i \in DOMAIN posted : /\ Accepts(posted[i], m)
                           /\ \A p \in pairs : p[1] # i}
Offers(r) ==
    {j \in DOMAIN arrived : /\ Accepts(r, arrived[j])
                            /\ \A p \in pairs : p[2] # j}

Earliest(S) == CHOOSE i \in S : \A j \in S : i <= j

Init ==
    /\ posted = << >>
    /\ arrived = << >>
    /\ pairs = {}

Post(r) ==
    /\ posted' = Append(posted, r)
    /\ pairs' = pairs \cup
          IF Offers(r) = {} THEN {}
          ELSE {<<Len(posted) + 1, Earliest(Offers(r))>>}
    /\ UNCHANGED arrived

Arrive(m) ==
    /\ arrived' = Append(arrived, m)
    /\ pairs' = pairs \cup
          IF Takers(m) = {} THEN {}
          ELSE {<<Earliest(Takers(m)), Len(arrived) + 1>>}
    /\ UNCHANGED posted

Next ==
    \/ \E r \in [src : Sources \cup {Wildcard}, tag : Tags \cup {Wildcard}] : Post(r)
    \/ \E m \in [src : Sources, tag : Tags] : Arrive(m)

Spec == Init /\ [][Next]_vars

=============================================================================

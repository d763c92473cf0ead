-------------------------- MODULE MessageMatching --------------------------
(***************************************************************************)
(* The receive queue and the unexpected queue of one host (logsim.cc, rq   *)
(* and uq with LIST_MATCH). A receive that is posted looks for a message   *)
(* in uq and is queued in rq when there is none; a message that arrives    *)
(* looks for a receive in rq and is queued in uq when there is none. Both  *)
(* look from the front and take the first element that fits; a wildcard    *)
(* may stand on either side of the comparison.                             *)
(***************************************************************************)
EXTENDS Integers, Sequences, FiniteSets, FiniteSetsExt, SequencesExt

CONSTANTS
    Sources, Tags,  \* senders, tags
    Wildcard,       \* ANY_SOURCE and ANY_TAG, ~0
    MaxPosted,      \* bound on the receives posted
    MaxArrived      \* bound on the messages arriving

ASSUME BoundsAssumption == MaxPosted \in Nat /\ MaxArrived \in Nat

\* Nobody has the number of the wildcard, the greatest of its type.
ASSUME WildcardAssumption == Wildcard \notin Sources \cup Tags

VARIABLES
    rq, uq,     \* sequences of ruqelem_t, reduced to [src, tag, offset]
    posted,     \* history: the envelopes of the receives posted
    arrived,    \* history: the envelopes of the messages that arrived
    pairs       \* history: <<offset of receive, number of message>>

vars == <<rq, uq, posted, arrived, pairs>>

RecvEnvelope == [src : Sources \cup {Wildcard}, tag : Tags \cup {Wildcard}]
MsgEnvelope == [src : Sources, tag : Tags]

-----------------------------------------------------------------------------
(* match, shared with the module of the simulator.                         *)

\* The comparison: the wildcard is looked for in both elements.
Fits(x, y) ==
    /\ x.src = Wildcard \/ y.src = Wildcard \/ x.src = y.src
    /\ x.tag = Wildcard \/ y.tag = Wildcard \/ x.tag = y.tag

\* (Slip: no wildcards.)
MatchesExactly(x, q) == {i \in DOMAIN q : q[i].src = x.src /\ q[i].tag = x.tag}

\* (Slip: the search goes on to the end of the queue.)
LastMatch(x, q) == Max({i \in DOMAIN q : Fits(x, q[i])})

\* The positions of q that fit x; match takes the first, or returns -1.
Matches(x, q) == {i \in DOMAIN q : Fits(x, q[i])}
FirstMatch(x, q) == Min(Matches(x, q))

Element(e, n) == [src |-> e.src, tag |-> e.tag, offset |-> n]

-----------------------------------------------------------------------------
Init ==
    /\ rq = << >> /\ uq = << >>
    /\ posted = << >> /\ arrived = << >>
    /\ pairs = {}

\* case OP_RECV: the node is marked done with a matched message.
RecvMatched(e) ==
    LET i == FirstMatch(e, uq) IN
    /\ Len(posted) < MaxPosted
    /\ Matches(e, uq) # {}
    /\ uq' = RemoveAt(uq, i)
    /\ posted' = Append(posted, e)
    /\ pairs' = pairs \cup {<<Len(posted) + 1, uq[i].offset>>}
    /\ UNCHANGED <<rq, arrived>>

\* (Slip: push_front for push_back.)
RecvQueuedInFront(e) ==
    /\ Len(posted) < MaxPosted
    /\ Matches(e, uq) = {}
    /\ rq' = <<Element(e, Len(posted) + 1)>> \o rq
    /\ posted' = Append(posted, e)
    /\ UNCHANGED <<uq, arrived, pairs>>

RecvQueued(e) ==
    /\ Len(posted) < MaxPosted
    /\ Matches(e, uq) = {}
    /\ rq' = Append(rq, Element(e, Len(posted) + 1))
    /\ posted' = Append(posted, e)
    /\ UNCHANGED <<uq, arrived, pairs>>

\* case OP_MSG, once local o and g are available.
MsgMatched(e) ==
    LET i == FirstMatch(e, rq) IN
    /\ Len(arrived) < MaxArrived
    /\ Matches(e, rq) # {}
    /\ rq' = RemoveAt(rq, i)
    /\ arrived' = Append(arrived, e)
    /\ pairs' = pairs \cup {<<rq[i].offset, Len(arrived) + 1>>}
    /\ UNCHANGED <<uq, posted>>

MsgQueued(e) ==
    /\ Len(arrived) < MaxArrived
    /\ Matches(e, rq) = {}
    /\ uq' = Append(uq, Element(e, Len(arrived) + 1))
    /\ arrived' = Append(arrived, e)
    /\ UNCHANGED <<rq, posted, pairs>>

\* The environment has no more to offer (the bounds are reached).
Finished ==
    /\ Len(posted) = MaxPosted
    /\ Len(arrived) = MaxArrived
    /\ UNCHANGED vars

Next ==
    \/ \E e \in RecvEnvelope : RecvMatched(e) \/ RecvQueued(e)
    \/ \E e \in MsgEnvelope : MsgMatched(e) \/ MsgQueued(e)
    \/ Finished

Spec == Init /\ [][Next]_vars

-----------------------------------------------------------------------------
(* Properties.                                                             *)

RecvElement == [src : Sources \cup {Wildcard}, tag : Tags \cup {Wildcard}, offset : Nat]
MsgElement == [src : Sources, tag : Tags, offset : Nat]

TypeOK ==
    /\ rq \in Seq(RecvElement)
    /\ uq \in Seq(MsgElement)
    /\ posted \in Seq(RecvEnvelope)
    /\ arrived \in Seq(MsgEnvelope)
    /\ pairs \subseteq Nat \X Nat

\* A receive and a message that fit are never both left waiting: whoever
\* came second has looked at the other's queue. This is what lets the main
\* loop of the simulator drop both elements at the first look.
NoMissedMatch ==
    \A i \in DOMAIN rq, j \in DOMAIN uq : ~Fits(rq[i], uq[j])

\* The queues are the unpaired receives and messages, each once, in the
\* order of their coming.
QueuesComplete ==
    /\ {rq[i].offset : i \in DOMAIN rq}
          = DOMAIN posted \ {p[1] : p \in pairs}
    /\ {uq[i].offset : i \in DOMAIN uq}
          = DOMAIN arrived \ {p[2] : p \in pairs}
    /\ \A i, j \in DOMAIN rq : i < j => rq[i].offset < rq[j].offset
    /\ \A i, j \in DOMAIN uq : i < j => uq[i].offset < uq[j].offset

\* Receives do not overtake: when a message is given to a receive, every
\* receive posted earlier that fits it too has got another message already.
ReceivesInOrder ==
    \A p \in pairs, i \in DOMAIN posted :
        i < p[1] /\ Fits(posted[i], arrived[p[2]])
            => \E q \in pairs : q[1] = i

\* Messages do not overtake: when a receive takes a message, every earlier
\* message that fits it too has been taken already.
MessagesInOrder ==
    \A p \in pairs, j \in DOMAIN arrived :
        j < p[2] /\ Fits(posted[p[1]], arrived[j])
            => \E q \in pairs : q[2] = j

\* The two queues implement matching by order of coming.
Mpi == INSTANCE MpiMatching
ImplementsMpi == Mpi!Spec

=============================================================================

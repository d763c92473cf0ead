----------------------------- MODULE LgsHelper -----------------------------
(***************************************************************************)
(* The interface between LGS and NS-3, helper/logsim-helper.cc: LGS hands  *)
(* sends over with ns3_schedule and lets the network run with              *)
(* ns3_simulate_until; the network calls SinkRxTrace for every packet that *)
(* reaches a NIC. The interface knows a message only by its key,           *)
(* "src@dst@tag", counts its bytes down in active_sends, and when none is  *)
(* left stops the network and leaves the message in one global slot,       *)
(* latest_receive_to_return, which ns3_simulate_until copies to LGS.       *)
(*                                                                         *)
(* Bytes are counted in packets of global_payload_size: a message of B     *)
(* bytes is down to zero or below after the Ceiling(B / payload) packets   *)
(* that UdpEchoClient sends for it, not earlier.                           *)
(*                                                                         *)
(* The network is external: packets in flight are counted per key and      *)
(* arrive one event each, at any time allowed by the events before them.   *)
(* A transport that resends (RoCE go-back-N, TCP) makes NICs see a packet  *)
(* more than once, an overflowing queue may lose one.                      *)
(*                                                                         *)
(* A NIC answers data by ACKs, NACKs and QCN frames. They are created with *)
(* no tag, but QbbNetDevice::Send of the first switch on their way gives   *)
(* them a default CustomDataTag, so SinkRxTrace does not pass over them at *)
(* the NIC they are for. Their hash, DefaultTag, has -1 for the sender,    *)
(* which no address belongs to: no message has it.                         *)
(***************************************************************************)
EXTENDS Integers, FiniteSets, Bags

CONSTANTS
    Keys,           \* "src@dst@tag", of messages
    DefaultTag,     \* "-1@node@..", of a packet with a default tag
    Sizes,          \* message sizes, in packets
    Delays,         \* the values of "until" that are no run to the end
    Garbage,        \* what the uninitialised element of SinkRxTrace holds
    None,           \* the slot when "updated" is false
    Horizon,        \* bound: packets arrive by then, if they still can
    MaxSends,       \* bound on the messages scheduled
    MaxReused,      \* bound on the keys scheduled while still in flight
    MaxResent,      \* bound on the packets a NIC sees again
    MaxLost,        \* bound on the packets lost
    MaxAnswers      \* bound on the answers that reach a NIC

\* What SinkRxTrace makes of a tag.
Hashes == Keys \cup {DefaultTag}

ASSUME HelperAssumption ==
    /\ Sizes \subseteq Nat /\ Delays \subseteq Nat
    /\ DefaultTag \notin Keys /\ None \notin Hashes
    /\ Garbage \subseteq Hashes \cup {None} /\ Garbage # {}
    /\ {Horizon, MaxSends, MaxReused, MaxResent, MaxLost, MaxAnswers} \subseteq Nat

VARIABLES
    active,     \* active_sends: packets left of each message, by key
    latest,     \* latest_receive_to_return: a key, or None
    now,        \* Simulator::Now()
    stops,      \* pending Simulator::Stop events, a bag of times
    mode,       \* "lgs"; "ns3" inside Simulator::Run; "ret" after it
    net,        \* packets in flight of each hash
    eta,        \* no packet of the hash arrives before
    faults,     \* history: keys reused, packets resent, lost, answers so far
    sent,       \* history: messages scheduled, by key
    completed,  \* history: messages SinkRxTrace completed, by hash
    reported    \* history: messages returned to LGS, by hash

netVars == <<net, eta, faults>>
history == <<sent, completed, reported>>
vars == <<active, latest, now, stops, mode, netVars, history>>

\* Where "run forever" ends: the Stop event at the greatest int64.
EndOfTime == 1000

NoFaults == [reused |-> 0, resent |-> 0, lost |-> 0, answers |-> 0]

Total(f) == BagCardinality([k \in {j \in DOMAIN f : f[j] > 0} |-> f[k]])

Latest(a, b) == IF a > b THEN a ELSE b

-----------------------------------------------------------------------------
HelperInit ==
    /\ active = [k \in {} |-> 0]
    /\ latest = None
    /\ now = 0
    /\ stops = EmptyBag
    /\ mode = "lgs"
    /\ net = [k \in Hashes |-> 0]
    /\ eta = [k \in Hashes |-> 0]
    /\ faults = NoFaults
    /\ sent = [k \in Keys |-> 0]
    /\ completed = [k \in Hashes |-> 0]
    /\ reported = [k \in Hashes |-> 0]

\* The message before of this key is not finished.
InFlight(k) == k \in DOMAIN active \/ net[k] > 0

\* (Slip: the packet of the bytes left over is not sent.)
ns3_scheduleRoundedDown(k, packets) ==
    /\ active' = [j \in DOMAIN active \cup {k} |->
                    IF j = k THEN packets ELSE active[j]]
    /\ net' = [net EXCEPT ![k] = @ + packets - 1]
    /\ eta' = [eta EXCEPT ![k] = now + 1]
    /\ sent' = [sent EXCEPT ![k] = @ + 1]
    /\ UNCHANGED <<latest, now, stops, mode, faults, completed, reported>>

\* ns3_schedule, and the send_event it schedules for now: the entry of the
\* key is assigned, not merged, and the packets of the message are sent.
ns3_schedule(k, packets) ==
    /\ active' = [j \in DOMAIN active \cup {k} |->
                    IF j = k THEN packets ELSE active[j]]
    /\ net' = [net EXCEPT ![k] = @ + packets]
    /\ eta' = [eta EXCEPT ![k] = IF net[k] = 0 THEN now + 1 ELSE @]
    /\ faults' = IF InFlight(k) THEN [faults EXCEPT !.reused = @ + 1] ELSE faults
    /\ sent' = [sent EXCEPT ![k] = @ + 1]
    /\ UNCHANGED <<latest, now, stops, mode, completed, reported>>

all_sends_delivered == DOMAIN active = {}

\* ns3_simulate_until up to Simulator::Run: the Stop event is relative to
\* the current time; the one of a run forever (until the greatest int64)
\* is left to RunDry.
Simulate(pending) ==
    /\ ~all_sends_delivered
    /\ stops' = pending
    /\ latest' = None
    /\ mode' = "ns3"
    /\ UNCHANGED <<active, now, netVars, history>>

ns3_simulate_until(until) == Simulate(stops (+) SetToBag({now + until}))
ns3_simulate_forever == Simulate(stops)

\* (Slip: a packet is counted twice.)
LeftAfterTwo(k) == (IF k \in DOMAIN active THEN active[k] ELSE 0) - 2

\* update_active_map, for one packet. A key that is absent is created with
\* zero bytes left, and so erased again.
LeftAfter(k) == (IF k \in DOMAIN active THEN active[k] ELSE 0) - 1

update_active_map(k) ==
    active' = IF LeftAfter(k) <= 0
              THEN [j \in DOMAIN active \ {k} |-> active[j]]
              ELSE [active EXCEPT ![k] = LeftAfter(k)]

\* A packet of k arrives before the next Stop event is due.
ArrivalTimes(k) ==
    LET first == Latest(now, eta[k]) IN
    {t \in first .. Latest(first, Horizon) :
        \A s \in BagToSet(stops) : t <= s}

\* A packet leaves the network at a NIC, which may answer one of data. Only
\* answers that will arrive are counted.
Deliver(k, t) ==
    \E n \in 0 .. (IF k \in Keys THEN MaxAnswers - faults.answers ELSE 0) :
        /\ net' = [net EXCEPT ![k] = @ - 1, ![DefaultTag] = @ + n]
        /\ eta' = [eta EXCEPT ![DefaultTag] =
                        IF n > 0 /\ net[DefaultTag] = 0 THEN t + 1 ELSE @]
        /\ faults' = [faults EXCEPT !.answers = @ + n]

\* SinkRxTrace on a NIC, for a packet that is not the last of its message:
\* an element nobody initialised goes to the slot.
SinkRxPartial(k, t) ==
    /\ mode = "ns3" /\ net[k] > 0 /\ t \in ArrivalTimes(k)
    /\ LeftAfter(k) > 0
    /\ update_active_map(k)
    /\ latest' \in Garbage
    /\ now' = t
    /\ Deliver(k, t)
    /\ UNCHANGED <<stops, mode, history>>

\* (Slip: the run is not stopped.)
SinkRxCompleteUnstopped(k, t) ==
    /\ mode = "ns3" /\ net[k] > 0 /\ t \in ArrivalTimes(k)
    /\ LeftAfter(k) <= 0
    /\ update_active_map(k)
    /\ latest' = k
    /\ now' = t
    /\ Deliver(k, t)
    /\ completed' = [completed EXCEPT ![k] = @ + 1]
    /\ UNCHANGED <<stops, mode, sent, reported>>

\* SinkRxTrace for the packet that leaves nothing to receive: the message
\* goes to the slot and Simulator::Stop ends the run with this event. That
\* is so for every answer, too: its hash is not in active_sends, and LGS is
\* given a message from -1 that nobody has sent.
SinkRxComplete(k, t) ==
    /\ mode = "ns3" /\ net[k] > 0 /\ t \in ArrivalTimes(k)
    /\ LeftAfter(k) <= 0
    /\ update_active_map(k)
    /\ latest' = k
    /\ now' = t
    /\ mode' = "ret"
    /\ Deliver(k, t)
    /\ completed' = [completed EXCEPT ![k] = @ + 1]
    /\ UNCHANGED <<stops, sent, reported>>

\* A Stop event fires, of this call of ns3_simulate_until or of one before.
StopFires ==
    /\ mode = "ns3"
    /\ \E s \in BagToSet(stops) :
          /\ \A r \in BagToSet(stops) : s <= r
          /\ now' = s
          /\ stops' = stops (-) SetToBag({s})
    /\ mode' = "ret"
    /\ UNCHANGED <<active, latest, netVars, history>>

\* No other event is left: the clock jumps to the Stop at the end of time
\* (the bound that stands for it may have been passed).
RunDry ==
    /\ mode = "ns3"
    /\ stops = EmptyBag
    /\ \A k \in Hashes : net[k] = 0
    /\ now' = Latest(now, EndOfTime)
    /\ mode' = "ret"
    /\ UNCHANGED <<active, latest, stops, netVars, history>>

\* The transport resends a packet that the NIC has seen, or will see.
Resend(k) ==
    /\ mode = "ns3" /\ net[k] > 0
    /\ faults.resent < MaxResent
    /\ net' = [net EXCEPT ![k] = @ + 1]
    /\ faults' = [faults EXCEPT !.resent = @ + 1]
    /\ UNCHANGED <<active, latest, now, stops, mode, eta, history>>

Lose(k) ==
    /\ mode = "ns3" /\ net[k] > 0
    /\ faults.lost < MaxLost
    /\ net' = [net EXCEPT ![k] = @ - 1]
    /\ faults' = [faults EXCEPT !.lost = @ + 1]
    /\ UNCHANGED <<active, latest, now, stops, mode, eta, history>>

Network ==
    \/ \E k \in Hashes, t \in 0 .. Latest(Horizon, now + 1) :
          SinkRxPartial(k, t) \/ SinkRxComplete(k, t)
    \/ StopFires
    \/ RunDry
    \/ \E k \in Keys : Resend(k) \/ Lose(k)

\* ns3_simulate_until after Simulator::Run: the slot is copied to LGS.
Return ==
    /\ mode = "ret"
    /\ mode' = "lgs"
    /\ reported' = IF latest = None THEN reported
                   ELSE [reported EXCEPT ![latest] = @ + 1]
    /\ UNCHANGED <<active, latest, now, stops, netVars, sent, completed>>

-----------------------------------------------------------------------------
(* LGS, as far as this module sees it.                                     *)

Schedule(k, packets) ==
    /\ mode = "lgs"
    /\ Total(sent) < MaxSends
    /\ InFlight(k) => faults.reused < MaxReused
    /\ ns3_schedule(k, packets)

SimulateUntil(until) ==
    /\ mode = "lgs"
    /\ now + until <= Horizon
    /\ ns3_simulate_until(until)

SimulateForever ==
    /\ mode = "lgs"
    /\ now < EndOfTime
    /\ ns3_simulate_forever

\* Nothing is left to send and to wait for, or time has come to its end.
Idle ==
    /\ mode = "lgs"
    /\ \/ Total(sent) = MaxSends /\ all_sends_delivered
       \/ now = EndOfTime
    /\ UNCHANGED vars

Next ==
    \/ \E k \in Keys, p \in Sizes : Schedule(k, p)
    \/ \E d \in Delays : SimulateUntil(d)
    \/ SimulateForever
    \/ Network
    \/ Return
    \/ Idle

Spec == HelperInit /\ [][Next]_vars

\* LGS runs the network as long as a send is active; the network handles
\* its events as long as it runs.
Fairness ==
    /\ WF_vars(SimulateForever)
    /\ WF_vars(Network)
    /\ WF_vars(Return)

FairSpec == Spec /\ Fairness

-----------------------------------------------------------------------------
(* Properties.                                                             *)

TypeOK ==
    /\ DOMAIN active \subseteq Keys
    /\ \A k \in DOMAIN active : active[k] \in Nat
    /\ latest \in Hashes \cup {None}
    /\ now \in Nat
    /\ IsABag(stops) /\ BagToSet(stops) \subseteq Nat
    /\ mode \in {"lgs", "ns3", "ret"}
    /\ net \in [Hashes -> Nat]
    /\ eta \in [Hashes -> Nat]
    /\ faults \in [reused : Nat, resent : 0 .. MaxResent, lost : 0 .. MaxLost,
                   answers : 0 .. MaxAnswers]
    /\ sent \in [Keys -> Nat]
    /\ completed \in [Hashes -> Nat]
    /\ reported \in [Hashes -> Nat]

\* A message that waits for packets has at least that many in flight, but
\* for those lost, also when its entry was assigned over an older message's:
\* without losses a run forever always comes back with a message.
Covered == \A k \in DOMAIN active : active[k] <= net[k] + faults.lost

\* The single slot is enough: every message the network completes is
\* returned to LGS, and none is overwritten by the next, nor by an answer or
\* one of the uninitialised elements that go through the same slot.
SlotNotLost ==
    \A k \in Hashes :
        completed[k] <= reported[k] + (IF mode = "ret" /\ latest = k THEN 1 ELSE 0)

\* "Here we have received a message fully": as long as keys are not reused
\* in flight and no packet is seen twice, a message of a key is completed at
\* most as often as it has been sent, and not before its last packet has
\* arrived. For what else is completed nothing has been sent: there is one
\* such message for each answer that has come to a NIC, and no other.
ReceivedFully ==
    /\ faults.reused = 0 /\ faults.resent = 0 =>
        \A k \in Keys :
            /\ completed[k] <= sent[k]
            /\ completed[k] = sent[k] => net[k] = 0
    /\ completed[DefaultTag] + net[DefaultTag] = faults.answers

\* Every message scheduled is completed and returned, once and for all, if
\* the network and LGS do their part, also when answers have interrupted
\* the runs in between.
AllReported ==
    <>[]([faults EXCEPT !.answers = 0] = NoFaults =>
            all_sends_delivered /\ \A k \in Keys : reported[k] >= sent[k])

=============================================================================

# LGSxNS3 in TLA+

LGSxNS3 replays an MPI-like schedule (a GOAL file) on a simulated network. LGS,
the LogGOPSim engine, decides what every rank does next; NS-3 decides when a
message arrives. The repository holds two copies of NS-3 with LGS built in, one
with a RoCE device and one with TCP; this project models the copy under
`src/RoCE NS-3/ns-3.17`, whose `src/lgs` is the same code but for ports and
tags of the sockets. Paths below are relative to `src/RoCE NS-3/ns-3.17/src`.

- [The system](#the-system)
- [Modules and how they correspond to the code](#modules)
- [What the runs check](#runs)
- [Where the code departs from what is said of it](#findings)
- [Bounds](#bounds), [fairness](#fairness), [undefined behaviour](#undefined-behaviour)
- [What is proved](#proofs)
- [What is only model-checked, and what is not modelled](#limits)

## The system

| part | code | state | operations | talks to |
|---|---|---|---|---|
| Dependency graph | `lgs/model/Parser.hpp`: `Graph`, `SerializedGraph` | per node a counter of unsatisfied edges and two lists of dependants; the list `executableNodes` | `addDependency`, `addStartDependency`, `serialize_mmap`, `GetExecutableNodes`, `MarkNodeAsStarted`, `MarkNodeAsDone` | filled by schedgen, consumed by the engine |
| Message matching | `lgs/model/logsim.cc`: `match`, `rq`, `uq` | a queue of posted receives and a queue of unexpected messages per host | post a receive, accept a message | inside the engine |
| Engine | `lgs/model/logsim.cc`: `start_lgs` | active queue `aq` with insertion stamps, clocks `nexto` of CPUs and `nextgr` of NICs, cycle counter | the outer loop (run NS-3, take the message, insert free operations), the inner loop (the cases of `elem.type`) | graph, matching, interface |
| Interface to NS-3 | `lgs/helper/logsim-helper.cc` | `active_sends` (bytes left by "src@dst@tag"), the slot `latest_receive_to_return` | `ns3_schedule`, `ns3_simulate_until`, the trace callback `SinkRxTrace` | called by the engine, called back by NS-3 |
| NS-3 core | `core/model/default-simulator-impl.cc` | event queue, clock, stop flag | `Schedule`, `Run`, `Stop` | runs the network's events |
| RoCE device | `point-to-point/model/qbb-net-device.cc` | sending buffers, sequence numbers, milestones, timers, pauses, rates | send, receive, ACK, NACK, retransmit, pause, resume | the packets under a message |
| Switch memory | `network/model/broadcom-node.cc` | bytes by ingress port and class, egress queue, pool, headroom | check, update, remove, pause and resume classes | asked by the device |
| Applications | `applications/model/udp-echo-*.cc`, `bulk-send-application.cc` | bytes still to send | send the packets of a message | started by `send_event` |
| LogGOPSim | `lgs/model/LogGOPSim.cpp`, `Network.hpp` | as the engine, and a graph of links | the loop with eager and rendezvous messages | the engine's predecessor, not called by it |
| Schedgen | `schedgen/` | the graph being built | collectives, traces of MPI programs | writes the schedule |

A run goes like this. `start_lgs` reads one graph per rank and puts the nodes
without edges on `aq`. In every cycle of the outer loop the inner loop takes all
elements that are due. A calc occupies its CPU. A send is handed to NS-3
through `ns3_schedule`, which puts the packets of the message on the wire and
the bytes into `active_sends`. A receive looks for its message in `uq`, a
message for its receive in `rq`; either waits in its own queue if it finds
none. Each of them starts or finishes nodes of the graph, which frees others.
When nothing is due, and sends are on their way, `ns3_simulate_until` lets NS-3
run until `SinkRxTrace` has seen the last packet of some message: it stores the
message in the slot and stops NS-3. The engine pushes the message on `aq`,
inserts the operations that have become free, and goes on.

What is hard about it, and untested by the repository (its tests are those of
NS-3):

- *Ordering.* The network decides in which order messages arrive, at what time,
  and what the engine has posted by then. Receives and messages with wildcards
  must be paired in order; nodes with several edges must be freed by the last
  one, whichever it is; elements turned away from an occupied CPU come back to
  the queue behind or before others.
- *State read early and used late.* `temp_elem`, the top of `aq`, is read before
  the inner loop and used after it. The slot holds one message. `active_sends`
  keeps one entry per key, though a key may have two messages on their way.
- *Partial failure and progress.* A message that finds its CPU occupied is
  inserted again; a send is not. NS-3 alone moves the clock, and it runs only if
  a send is active. After 2000 cycles the loop ends as if all were done.
- *Delivery.* Transports lose and repeat packets; the interface counts packets
  and knows neither sequence numbers nor messages. The ACKs, NACKs and QCN frames of
  the NICs reach its callback among the packets it counts.
- *Retransmission.* Below the interface a timer races the ACK it waits for, NACKs
  overtake ACKs, and what has been released from the sending buffer cannot be sent
  again. With going back to the chunk the receiver lowers its number by itself.
- *Flow control.* The counters of a switch are unsigned and shared by all its
  devices; a pause is remembered in one place and rechecked by an event of
  another, for packets that come and leave by any two ports. Between the moment a
  class is full and the moment its sender has stopped, memory must be left.

`PROJECT.json` lists each of these at its line, with the property that watches
it. For each part, correctness comes down to this:

- graph: counters exact, every node handed out once, none too early, all that are
  not behind a cycle in the end;
- matching: nobody waits beside its partner, pairing in order of coming;
- interface: no message lost between network and engine, none of LGS's received
  before its last packet, no waiting for packets that have not been sent;
- engine: every operation in one place, every message in one place, clocks
  forward, order of insertion kept, the schedule run to its end;
- RoCE device: what the receiver wants is still in the sending buffer, no flow
  is stopped with nobody to set it going, what is lost is sent again;
- flow control: a full class is paused in time, a paused class goes on;
- switch memory: counters agree with what is inside, none wraps.

## Modules

| module | models | state | actions |
|---|---|---|---|
| `DependencyOrder` | what a schedule promises: `requires` waits for the end, `irequires` for the start | edges, started, done | `Write`, `Begin`, `End` |
| `SerializedGraph` | `Parser.hpp`, building and running a graph | edges, counters, `executableNodes`, handed, started, done | `addDependency`, `addStartDependency`, `Load`, `GetExecutableNodes`, `MarkNodeAsStarted`, `MarkNodeAsDone` |
| `SerializedGraphProofs` | the theorems about `SerializedGraph` | | |
| `MpiMatching` | what matching promises: first come, first served, as soon as both are there | receives, messages, pairs | `Post`, `Arrive` |
| `MessageMatching` | `match`, `rq` and `uq` of one host | the two queues; pairs as history | `RecvMatched`, `RecvQueued`, `MsgMatched`, `MsgQueued` |
| `MessageMatchingProofs` | the theorems about `MessageMatching` | | |
| `LgsHelperProofs`, `LogSimProofs`, `QbbTransportProofs`, `BroadcomMmuProofs`, `QbbPfcProofs` | the theorems about the modules they name | | |
| `DataLemmas` | lemmas about sums, finite sets and sequences that several of these cite | | |
| `LgsHelper` | `logsim-helper.cc`, and NS-3 as it sees it | `active`, `latest`, `now`, pending stops, packets and answers in flight | `Schedule`, `SimulateUntil`, `SimulateForever`, `SinkRxPartial`, `SinkRxComplete`, `StopFires`, `RunDry`, `Resend`, `Lose`, `Return` |
| `LogSim` | `start_lgs`, composed of the three above | `aq`, clocks, queues, graph, `pc` | one per case of the switch and per step of the outer loop |
| `QbbTransport` | `qbb-net-device.cc`, go-back-N of one flow between two NICs | sending buffer, queue, timers, expected number; packets, ACKs and NACKs on their way | `Send`, `TransmitComplete`, `PaceElapses`, `NextSend`, `Retransmit`, `ReceiveData`, `ReceiveAck`, `ReceiveNack`, `NackTimerPasses`, `LoseData`, `LoseFeedback` |
| `BroadcomMmu` | `broadcom-node.cc`, the memory of a switch | ten counters, the queues | `Arrive`, `Depart` |
| `QbbPfc` | PAUSE frames, `broadcom-node.cc` and `qbb-net-device.cc`; extends `BroadcomMmu` | pauses on both sides, their timers, links | `SendPacket`, `Forward`, `Transmit`, `Recheck`, `ReceivePause`, `PauseFinish`, `Tick` |
| `MC...` | values for TLC | | |

**SerializedGraph.** An edge is a record `[of, on, kind, id]`; the ids tell
repeated lines of a schedule apart. The lists `DependOnMe` and
`StartDependOnMe` of a node are the edges whose `on` it is. `Satisfy(S)` is the
loop of `MarkNodeAsStarted` or `MarkNodeAsDone` over such a list: one decrement
per entry, and a push when the counter reaches zero. `executableNodes` is a bag
(its order is lost to a sort later on). The caller is the engine, which starts
only nodes it was handed and finishes only nodes it has started: that is the
protocol `handed` and `started` stand for. The refinement mapping to
`DependencyOrder` is the identity on `edges`, `started` and `done`; the counters
and the list are what the implementation adds.

**MessageMatching.** `Fits` is the comparison of `match`, with the wildcard
looked for on both sides as in the code. Elements keep source, tag and offset.
`posted`, `arrived` and `pairs` are history, and at the same time the variables
of `MpiMatching`, which the two queues implement.

**LgsHelper.** A key stands for the string "src@dst@tag". Bytes are counted in
packets of `global_payload_size`: `update_active_map` takes one full payload
off for every packet, so a message of B bytes is done after Ceiling(B/payload)
packets, which are what the client application sends. The network is external.
Packets in flight are counted by key; each arrives as an event of its own, at
any time from `eta` on and before the next `Stop` event. `Resend` and `Lose`
are the transport and the full queues below. `mode` says who has the control:
the engine, `Simulator::Run`, or `ns3_simulate_until` after it. A run for ever
is a run whose `Stop` event lies at the end of time (`EndOfTime` stands for the
greatest 64-bit integer); `RunDry` is the jump there when no event is left.

A NIC may answer any packet of data by an ACK, a NACK or a QCN frame (`Deliver`). An
answer is created without a tag, but the first switch that forwards it adds a
default one, so `SinkRxTrace` takes it for a packet of LGS. All of them have one hash
here, `DefaultTag`: the tag's node is -1, which belongs to no address, so its hash is
never that of a message, and it does not matter which of those it is. It is
not in `active_sends`, so `SinkRxComplete` is what happens to it.

**LogSim.** Every case of the switch is split along its conditions, so
`case OP_RECV` is `RecvMatched` and `RecvQueued`, and so on. `Tops` are the
elements `aq.top()` may return; the order is that of `aqcompare_func`, in
which messages have no stamp of their own. The graph of all ranks is one
`SerializedGraph`, whose operators are used (`Walk` adds the order in which a
walk pushes nodes, as the engine keeps it), and whose invariants are stated
again of the engine's state: `handed` is what waits in `aq`. The interface's
actions are used as they are, with a network in which no NIC answers
(`MaxAnswers <- 0`; the reason is under [undefined behaviour](#undefined-behaviour)).
`Batch` are the operations of a rank that `std::sort` gets to order together; up to
`SortThreshold` of them keep their order, more come in any order their types allow
(`Precedes`). `Operation` is what a line of a schedule says, and
`ScheduleAssumption` what the parser lets through: the lines refer to each other
by number, and a send names its receiver. `aq` has no place for the overheads o, g and G:
`logsim.cc` sets all LogGP costs of communication aside and asks NS-3.

**QbbTransport.** The sending buffer and the queue of a flow hold consecutive
packets up to the last one written, so `base` and `next`, their first packets,
say all. Every handler that calls `DequeueAndTransmit` at its end is one action
with it (`ThenTransmit`): it sends a packet, or sets `m_nextSend`, or does
nothing. A moment of `m_nextAvail` is `"now"`, `"paced"` (put off by the rate of
the flow, which QCN may set as it likes) or `"never"` (32767 s, what the code
uses for "until acked"). `ReceiveData` is `ReceiverCheckSeq` with the ACK or
NACK its caller sends. Data and ACKs keep their order, as on one path; NACKs may
overtake ACKs. The two roles of a device are one record each, `tx` and `rx`.

**BroadcomMmu.** The operators carry the names of the methods. A subtraction is
modulo `Modulus` (2^32 in the code). `Egress` writes the four counters that both
methods of the egress side write together. `Arrive` and `Depart` are the parts of
`Send` and `DequeueAndTransmit` that belong to the memory. A function of a port
and a class is a function of the pair, applied as `f[<<p, q>>]`.

**QbbPfc.** A NIC sends data of any class that is not paused; a switch of several egress
devices forwards them, and each device runs `CheckQueueFull` for the ingress port of the
packet it was handed, after the packet has been admitted, refused, or admitted and sent at
once (`Forward` is all of `Receive`, `Send` and the check). `recheck` is `m_recheckEvt` of
each device, `resume` the event that ends a pause at the NIC. Timers are the ticks left;
`Tick` passes over no event that is due and over nothing that is on a link. The egress
side of the memory has no say: its limits are those of the whole buffer, asked first. ACKs
and NACKs are left out: a NIC keeps them in queue 0 (`qbb-net-device.cc:547`, `572`),
which `DequeueQCN` serves whoever is paused (`broadcom-egress-queue.cc:242-246`), and at a
switch they are of classes qCnt - 1 and 1 (`qbb-net-device.cc:881-894`).
`m_enable_pfc_on_dctcp` and `m_qbbEnabled` are on, as they are by default.

Definitions whose comment begins with "Slip" are no part of a model. Each is a
plausible mistake in the definition after it, and shows that a property notices
it: `PROJECT.json` pairs them under "mutants".

## Runs

| run | instance | shows |
|---|---|---|
| `graph` | three nodes, four edges of either kind: repeated edges, cycles and edges on oneself included; 555,167 states | `CounterExact`: a counter is the number of unsatisfied edges, so it never wraps. `OnePlace`: a free node is on the list, handed out or started, once. `OrderRespected`. `ImplementsOrder`: refinement of `DependencyOrder`. `EveryFreeNodeRuns`: exactly the nodes not on or behind a cycle are done in the end |
| `matching` | three receives, three messages, two senders, two tags, wildcards; 17,446 states | `NoMissedMatch`, `QueuesComplete`; `ReceivesInOrder`, `MessagesInOrder`: nobody overtakes; `ImplementsMpi`: refinement of `MpiMatching` |
| `helper` | two keys, three messages of one or two packets, one key reused in flight, one packet repeated, one lost, one answer of a NIC, runs until a time and for ever; 619,265 states | `Covered`: a message waits for no more packets than are in flight or lost, also after its entry was overwritten. `SlotNotLost`: the slot loses no message. `ReceivedFully`: without reuse and repetition no message of LGS is completed before its last packet or more often than it was sent, and what else LGS is given is one message for each answer. So only a loss lets NS-3 run to the end of time. `AllReported`: without faults all messages are reported, also when answers come between |
| `engine` | eight schedules on three ranks with every timing of the network, a sort that keeps the order of four; 48,343 states | `TypeOK`, of the engine and the interface in it. `CountersAgree`, `EachOpOnce`: the graph driven by the engine. `NoMissedMatch`, `ReceivesConserved`, `MessagesConserved`: receives and messages are in one place between NS-3 and the nodes they finish. `ListedOrder`: receives that are free from the beginning are posted in the order of the schedule, on ranks that begin with no more operations than the sort keeps in order. `InsertionOrder`: elements turned away from a CPU keep their turn. `ClocksMonotone`. `StaleTop`: the early copy of the top is always due when sends are active, so NS-3 is always run until a message. `CommunicationCompletes`: schedules of sends and receives end with all done |
| `engine_retry` | three schedules with calcs | violation of `SendsNotLost` |
| `engine_calc_time` | the same | violation of `CalcTakesTime` |
| `engine_workload` | two calcs on one CPU | violation of `Completes` |
| `engine_ring` | `ring_ar.goal` on three ranks | violation of `Completes` |
| `mmu` | two ports, a class of RoCE and TCP, packets smaller and greater than a cell; 101,432 states | `IngressExact`: the four counters of the way in are the bytes inside, so none wraps. `EgressExact`: on the way out bytes are counted in the wrong part of a queue but never lost. `MarkedWhenCongested`: hence marks are off by a packet or a cell at most. `HeadroomCoversExcess`, `PoolBounded`: though any packet releases headroom, what a pool holds over its limit is accounted for, and bounded |
| `transport` | four packets in chunks of two, waiting for ACKs or not, going back to the packet or the chunk, a buffer that suffices or not; up to two data packets, an ACK and a NACK lost, a timer that is early; 242,366 states | `Recoverable`: what the receiver wants is in the buffer. `PeekSafe`: no ACK or NACK finds the buffer empty. `ChunksSeparate`: chunks are not mixed on the wire. `NoSilentWait`: a flow is stopped exactly while its timer runs. `FullChunksArrive`: waiting for ACKs repairs any loss of data and NACKs |
| `transport_assert` | the same | violation of `CountedWhenDequeued` |
| `pfc` | a NIC, a switch with two egress devices and the static threshold, or one and the dynamic one, two classes; 132,643 states | `PausedHasEnd`: a class is paused exactly while an event will end it. `Accounted`: no counter that pauses wraps. `PausedWhileFull`: a class over its threshold is paused, or the frame is on its way, whichever device checks. `Lossless`: so the headroom suffices. `PausedClassResumes`: no pause lasts for ever |

The schedules of `engine`: `PingPong` is the example of `src/README.md`,
`AllToAll` is `lgs/model/all_to_all_small.goal` on three ranks. The others mix
calcs with communication: `Computing` has two calcs on one CPU, a send behind a
calc and wildcard receives at a host that computes; `Chained` has nodes behind
the start and behind the end of the same node; `Busy` has a host that computes
on both CPUs while two hosts send to it; in `Gather` a message comes before its
receive, or after; `Long` has more calcs than the cycles allow for in one
instant, which is where the inner loop calls `exit(0)`; `Crowded` has a rank that
begins with five operations, one more than the sort keeps in order, beside ranks
that do not.

### Findings

Five runs end in a violation of what the repository says of itself.

- **A send that meets a busy CPU is lost** (`engine_retry`). At
  `logsim.cc:357-403` the branch for an occupied CPU is inside a comment, whose
  text at line 397 is "retry later", and `pseudo_lgs.cpp:27-29` pushes the element
  again. `SendDrop` takes it from `aq` and nobody has it any more.
- **A calc takes no time for what requires it** (`engine_calc_time`). It is
  pushed again with its time unchanged, comes back in the same inner loop and is
  done; `pseudo_lgs.cpp:45-48` waits till its time is over. It does occupy its
  CPU, so it delays other calcs and messages.
- **Time stands still without traffic** (`engine_workload`). With
  no send active NS-3 is not run (line 519), nothing else moves the clock, and a
  calc that waits for its CPU stays in `aq` until the cycles are used up. The
  comment at line 517 says NS-3 runs "if we have a compute message".
- **One entry for two messages** (`engine_ring`). `ns3_schedule` assigns
  `active_sends[key]`. In `ring_ar.goal` a rank sends twice to the same peer with
  the same tag, the second time after its first receive; when that comes before
  the first message has arrived, both share an entry, the first to arrive erases
  it, NS-3 is not run any more and the second is never received.

- **What is sent again is not counted** (`transport_assert`). `RecoverQueue`
  (`broadcom-egress-queue.cc:467-494`) fills the queue of a flow from its sending
  buffer and leaves `m_nPackets` and `m_nBytes` alone; `DequeueQCN` takes every
  packet off them and asserts before it does (lines 362-363) that they suffice.
  After a go-back-N of a queue that had run empty they do not: a debug
  build, which is the default, stops.

Some more departures are not given a run. `StaleTop` holds, and means that the
branch of `start_lgs` that runs NS-3 until a given time (line 521) is never
taken while sends are active: an element that waits in `aq` for its CPU is
overtaken by the clock and handled late, where `pseudo_lgs.cpp:43-44` takes the
minimum over the elements. And if a run of NS-3 ends without a message, by a
`Stop` event or at the end of time, the slot may hold the element that
`SinkRxTrace` declares at line 179 and does not initialise, `updated` included.

LGS is also given messages nobody has sent. `QbbNetDevice::Send` of a switch adds a
default `CustomDataTag` to a packet that has none (`qbb-net-device.cc:859-869`,
`custom_tag.cc:16-19`), among them every ACK, NACK and QCN frame, and the NIC it is for
hands it up (lines 650, 712, 782) to `SinkRxTrace`. The hash of that tag has no entry in
`active_sends`, so nothing is left to receive, NS-3 is stopped and an `OP_MSG` from rank
-1 returned (`logsim-helper.cc:145-176`), where the comment at line 156 says "Here we have
received a message fully". With the topologies' `L2AckInterval` of 2048 a message of more
packets than that is enough, without any loss; so is any NACK or congestion. In
`LgsHelper` this is a step like any other. `ReceivedFully` counts these messages: there is
one for each answer and no other, and `SlotNotLost` and `AllReported` say that they cost
LGS none of its own.

In `QbbTransport`: without L2WaitForAck, the default of the three topologies, a
NACK refills the queue but sets nobody going (`qbb-net-device.cc:702-710`), so the
packets are sent with the next event of the device, if there is one; and a lost
last packet is never missed. With it, a lost ACK is fatal: the chunk is sent
again at every timer, to a receiver for whom it is old and which does not
acknowledge it again (line 1506). `FullChunksArrive` names both exceptions.

In `QbbPfc`: the loop at `qbb-net-device.cc:1011-1032` resumes the class it is
asked about and puts the number it counts by into the frame. Its first turn
clears the flag, so the frame always names class 0. The class that was paused
waits for its time to pass, at most `m_pausetime`; and class 0 is resumed when another
class is, however full it is. TLC shows the latter when the exception for class 0 is taken
out of `PausedWhileFull`. (LGS sends its own messages in class 1, `logsim-helper.cc:244`;
it is one of those that wait for their time to pass.)

### Bounds

All bounds are constants and named where they are declared.

- `Nodes`, `MaxEdges`: three nodes and four edges have every hazard of a
  counter: two edges on one pair of the same kind and of both kinds, two nodes
  that satisfy edges of a third in either order, a cycle with a node behind it.
- `MaxPosted`, `MaxArrived`: overtaking takes two on one side; the third leaves
  one to be overtaken again after a match.
- `MaxSends`, `MaxReused`, `MaxResent`, `MaxLost`, `MaxAnswers`: three messages on two
  keys let a key be used again both in flight and after, and one fault of each kind meet
  the others; one answer may end any run of NS-3, between the packets of any message.
  `Sizes` has messages of one packet (the first is the last) and of two.
- `Horizon`: packets may arrive up to this time; later than that only in the
  next instant. It exceeds the longest calc, so messages arrive before, during and
  after a calc.
- `CycleLimit` is 2000 in the code and 25 to 40 here; in `engine` it is above what the
  schedules that complete need, and the others do reach it, so both ways out of the loops,
  and the exit from the inner one, are taken. In `engine_ring` and `engine_workload` the
  clock has stopped for good long before.
- `SortThreshold` is 16 in libstdc++. In `engine` it is four, and `Crowded` has a rank with
  five operations to begin with; in the runs that end in a violation it is 16.
- Times and sizes of `LgsHelper` and `LogSim` are small naturals. The width of the
  message size is not modelled.
- `MaxInside` (five packets in the memory, of three or six bytes beside a cell of
  four, under limits of seven and 27): one packet may cross the limit of its pool, use up
  its headroom, leave first and return headroom it has not used; a queue may be
  taken below zero in its guaranteed part, and filled up by the patch.
  `Modulus` is 64, above all a buffer of 27 can hold.
- `MaxPackets`, `Attributes`: four packets are two chunks, so an ACK of the first
  can meet a NACK of the second, and the flow can be stopped twice. Bounds on the
  losses (`MaxLost`) are by kind: a packet and its retransmission may both be lost.
  `MaxEarly`: one timer may fire before what it waits for has come; later
  ones are late.
- `bufferLimit` is 8000 in the code; here it is eight, which four packets never
  reach, and two, which they do.
- `Setups`, `PauseTime`: two egress devices are what it takes to have a pause of
  one rechecked by the other; three ticks make the recheck come in the middle of a
  pause. `perTick` is what a link carries while a frame is under way; the headroom is chosen
  for it.
  What a NIC has sent in the last tick has arrived before the next one.

### Fairness

- `SerializedGraph`: weak fairness of loading, of handing out and of starting and
  finishing each node, as the engine walks all ranks in every cycle and handles
  every element it takes.
- `LgsHelper`: weak fairness of `SimulateForever`, `Network` and `Return`. The
  engine runs NS-3 whenever sends are active; NS-3 handles its events one after
  the other, and a packet that is not lost is an event with a time. Nothing is
  assumed of `Schedule`, `Resend` or `Lose`.
- `LogSim`: weak fairness of `Next`. The program is one thread: engine and network
  never wait for each other but by return.

- `QbbTransport`: weak fairness of everything NS-3 does by itself: the end of a
  transmission, the timers, the arrival of what is not lost. Of the application
  nothing is assumed, nor of losses. `m_nextSend` at 32767 s fires when all else is
  over.
- `QbbPfc`: weak fairness of `Tick`, of each port's arrivals, of each
  pause that ends and each recheck, and of `Transmit` of each queue: the round robin of
  `DoDequeueRR` starts after the queue served last (`m_rrlast`), so a queue that
  is not empty is served, and in the model the devices the switch sends to do not
  pause it. Of `SendPacket` nothing is assumed.

`SerializedGraph`'s `FairSpec` is used for `EveryFreeNodeRuns`, `LgsHelper`'s for
`AllReported`, `LogSim`'s for `CommunicationCompletes` and `Completes`,
`QbbTransport`'s for `FullChunksArrive` and `QbbPfc`'s for `PausedClassResumes`. No
other property needs one.

### Undefined behaviour

- `earliestfinish`, which the case `OP_MSG` reads and nobody assigns: `Unset`, a
  set of values, any of which may raise the time of a reinserted message.
- The uninitialised element of `SinkRxTrace`: `Garbage`, which has "not updated"
  and messages. In `helper` and in `engine` it is "not updated" or one of the keys.
- `aq.top()` of an empty queue: the storage of the element popped last, which
  was due; `EnterLoop` sets `temp` to now.
- `std::sort` is not stable, though libstdc++ keeps the order of up to 16 equal elements,
  which it sorts by insertion: `SortThreshold`. Of a greater `Batch` any order of equal
  elements is possible. `Batch` counts what has been turned away by a CPU once more, so a
  batch is never taken for smaller than it is.
- The message LGS is given for an answer of a NIC has for its host what
  `get_node_from_ip` makes of `receiving_node`, which the default tag does not
  initialise: as a rule -1. `start_lgs` indexes `nexto`, `rq` and `uq` by it
  (`logsim.cc:444-489`). What the engine does after that nobody can say, so the network of
  `LogSim` has no answers: what is shown of the engine holds until the first one reaches a NIC.

## Proofs

`SerializedGraphProofs` proves, for every set of nodes, every bound on the edges,
every schedule and every order of calls:

| theorem | statement |
|---|---|
| `Inductive` | the strengthened invariant `IInv` holds in every reachable state |
| `TypeCorrect` | `Spec => []TypeOK`: in particular no counter wraps |
| `CounterCorrect` | `Spec => []CounterExact` |
| `HandedOutOnce` | `Spec => []OnePlace` |
| `OrderCorrect` | `Spec => []OrderRespected` |
| `Refinement` | `Spec => ImplementsOrder` |

The only assumption is `MaxEdgesAssumption`, that the bound is a natural number.

The argument: `CounterExact` alone is inductive for the calls, but not for the
builder, whose new edge must be one that is not there yet; and `OnePlace`
says nothing while the graph is built. `IInv` adds `Building`: edges are
finitely many and their ids are at most their number, so the next id is new; and
before `Load` nothing is on the list, handed out, started or done, so an edge
that is added is unsatisfied. The step that matters is the lemma `WalkIsExact`:
if the list that is walked holds only unsatisfied edges, and the event satisfies
exactly those, then counters stay exact and the nodes that are pushed are those
whose last edge went. The list of a node that starts (is done) holds only
unsatisfied edges because it has not been started (done) before, which is where
`OnePlace` enters. `OrderRespected` follows from `IInv` without induction: a
node in the hands of the engine has a zero counter. The refinement maps every
action but `MarkNodeAs...` and the builder's to a stutter.

`IInv` and its parts speak of a cardinality; the library's theorems about
finite sets are cited for that.

`MessageMatchingProofs` proves, for every set of senders and tags, every number of
receives and messages and every order of their coming:

| theorem | statement |
|---|---|
| `TypeCorrect` | `Spec => []TypeOK` |
| `NothingMissed` | `Spec => []NoMissedMatch` |
| `QueuesHoldTheUnpaired` | `Spec => []QueuesComplete` |
| `ReceivesDoNotOvertake` | `Spec => []ReceivesInOrder` |
| `MessagesDoNotOvertake` | `Spec => []MessagesInOrder` |
| `MatchingRefines` | `Spec => ImplementsMpi` |

The refinement rests on `WildcardAssumption`, that no sender and no tag is the
wildcard: `match` looks for it on both sides, MPI only in the receive. The
invariants do not need it.

The argument: none of the four invariants is inductive alone, as a queue keeps
copies. `IInv` adds `Genuine`: an element of a queue is the envelope of its
number, and pairs join what has come. Then each conjunct needs the others. When
a receive takes message `m`, an earlier receive that `m` fits and that had no
message would still wait in `rq` (`QueuesComplete`), beside `m` in `uq`
(`NoMissedMatch` forbids it), hence `ReceivesInOrder`; an earlier message that
fits and is not taken would stand before `m` in `uq` and would have been found
first, hence `MessagesInOrder`. The lemmas `Removed` and `Appended` say what
`erase` and `push_back` do to a queue in the order of coming, and `LeastExists`
that a search from the front finds a first element; the last is proved without
induction over data, from the library's theorem that finite sets are well-founded
under inclusion. For the refinement, `OffersWait` and `TakersWait` show that the
elements that fit are those MPI chooses among, and `FirstIsEarliest` that the first
in the queue is the earliest to come.

`LgsHelperProofs` proves, for every set of keys and sizes, every bound, and every
order of sends, arrivals, repetitions, losses and Stop events:

| theorem | statement |
|---|---|
| `Inductive` | `IInv` holds in every reachable state |
| `MessagesCovered` | `Spec => []Covered` |
| `SlotSuffices` | `Spec => []SlotNotLost` |
| `CompleteMeansReceived` | `Spec => []ReceivedFully`, answers included |

`IInv` adds to the three `Counted` (the counters are naturals and functions of the
hashes), `Answered` (an answer is in flight or has been completed, once) and `Exact`: as
long as nothing has been repeated, lost or sent twice under one key, a message waits for
exactly the packets on their way. `Exact` is what `ReceivedFully` rests on, as an entry
that reaches zero then has no packet left. `SlotNotLost` is inductive with what the
control says of the slot: once a message is stored NS-3 has been stopped, and no packet is
handled before it returns.

`QbbTransportProofs` proves, for every number of packets, chunk, interval, buffer
and number of losses and early timers:

| theorem | statement |
|---|---|
| `Inductive` | `IInv` holds in every reachable state |
| `TypeCorrect` | `Spec => []TypeOK` |
| `NeverStoppedForGood` | `Spec => []NoSilentWait` |
| `WantedIsKept` | `Spec => []Recoverable` |

`Recoverable` speaks of the buffer and the receiver and says nothing of the ACKs
between them, which empty the one by the word of the other. `IInv` adds `Asked`:
no ACK or NACK on its way asks for more than the receiver wants now
(`GoBackTo` of its number is at most `Wanted`). A gap lowers the expected number,
but only to the start of its chunk, where `Wanted` was; that, and that rounding down is
monotone and idempotent, are the lemmas about `GoBackTo`. The buffer gives up a
packet by itself only when it is full, and stays full (`Overrun`) until it is
released.

The second half of the module goes on from there:

| theorem | statement |
|---|---|
| `InOrder` | `OInv` holds in every reachable state |
| `NeverPeeksEmpty` | `Spec => []PeekSafe` |
| `ChunksKeptApart` | `Spec => []ChunksSeparate`, if every device that waits for ACKs has a buffer for at least `MaxPackets` |

The sending buffer is empty only once the last packet written is acknowledged; that
nothing else is then on its way needs the order of the feedback (`Answers`): ACKs ask for
more and more, as one is sent only for a number accepted for the first time, even when
the receiver has gone back to the start of a chunk; and a NACK sent behind an ACK means that
more was written than that ACK acknowledges. Both rest on `Progress`: a receiver that
is behind what it has accepted has been sent more than that, and is not behind the start of
its chunk. That chunks do not mix is the invariant `Chunked`: the milestone of
the sender is the end of a chunk, at most one chunk ahead of what is accepted, and
what is in the queue, on the wire or asked for lies before it. With a buffer that
fills up, the timer may send from beyond the milestone, hence the hypothesis;
run `transport` has it for the devices that wait.

`LogSimProofs` proves, for every set of hosts and of schedules, every delay of the
network, every packet repeated, every bound on the cycles and every value of what nobody
initialises:

| theorem | statement |
|---|---|
| `TypeCorrect` | `Spec => []TypeOK`, engine and interface |
| `NothingMissed` | `Spec => []NoMissedMatch` |
| `Inductive` | `Types` and `Places` hold in every reachable state |
| `CountersCorrect` | `Spec => []CountersAgree` |
| `HandedOutOnce` | `Spec => []EachOpOnce` |
| `ReceivesKept` | `Spec => []ReceivesConserved` |
| `Invariance` | `IInv` holds in every reachable state |
| `ClocksForward` | `Spec => ClocksMonotone` |
| `StartInOrder` | `Spec => InsertionOrder` |
| `TopIsDue` | `Spec => []StaleTop`, if every message has a packet |
| `PostedAsListed` | `Spec => []ListedOrder` |
| `MessagesKept` | `Spec => []MessagesConserved`, if the keys are finitely many |

The invariants the run checks count copies, and none of them is inductive: they say
how often an operation is somewhere and not where. `IInv` is three things. `Types`
says more than types: an element of `aq` belongs to the operation it names, in a kind
that this operation has, so no element of a receive can be taken for a send; and no
answer is on its way in the interface (`HelperTypes`). `Places` says that
the operations that are free are partitioned into those listed, those waiting in
`aq`, those started and those dropped, that none is in one of them twice (the list
and `started` are sequences, `aq` holds elements), that what is done has been
started, and that the receives started and not done are those of `rq`; `EachOpOnce` and
`ReceivesConserved` are this partition, counted. The step that matters is again a
walk over a list of edges (`WalkEffect`): the event satisfies edges that were not
satisfied before, as the operation was in `aq` and hence not started, and the
operations that become free are new to all four places. `Turns` is about time: a
`Stop` event is never in the past; an element that waits for a CPU has a stamp below
the next one; and of two that compete for a start the earlier inserted has no later
time than the other, or, a calc, no later than its CPU becomes free (`InTurn`). An element
turned away gets a new time but keeps its stamp, so the order of insertion is not the
order in `aq`, and `InTurn` is what remains of it.

Three more invariants hold on top of `IInv`. `Waits`, for `StaleTop`: the bytes a
message waits for are packets on their way, no `Stop` event is pending, and between
the loops something in `aq` is due if sends are active. Its hypothesis
`SendsHavePackets` is necessary: a message of no bytes is entered into
`active_sends`, no packet ever completes it, and NS-3 is run for ever.
`RootsInOrder`, for `ListedOrder`: receives that nothing precedes are free from the
start (`InOrder`, part of `Init`: the lists are read in the order of the schedule),
leave the list in that order and get ascending stamps. That is so on a rank that begins with
no more than `SortThreshold` operations, whatever the sort does to those of other ranks and
to later ones: what is sorted together with such a receive is free from
the beginning itself (`FirstBatch`). For a greater rank it is false, and the run's mutant
shows it for a sort that is never stable. `MsgStamps` and `Balanced`, for
`MessagesConserved`: the messages reported for a host are as many as wait in `aq`, are in
`uq`, or have been received. Messages in `aq` have no stamp of their own but the number of the
cycle; as NS-3 returns at most one in a cycle, these are distinct, so a set does not
lose one. The number reported is a sum over keys, hence the hypothesis; it holds
whenever there are finitely many schedules, as each has finitely many sends.

`BroadcomMmuProofs` proves, for any ports, classes, sizes of packets, limits and number of
packets inside:

| theorem | statement |
|---|---|
| `MemoryConsistent` | `MmuInv` holds in every reachable state |
| `IngressCounted` | `MmuSpec => []IngressExact` |
| `EgressCounted` | `MmuSpec => []EgressExact` |
| `MarksHonest` | `MmuSpec => []MarkedWhenCongested`, if `DctcpThreshold <= DctcpThresholdMax` |
| `ExcessCovered` | `MmuSpec => []HeadroomCoversExcess` |
| `PoolsBounded` | `MmuSpec => []PoolBounded` |

A counter that is a remainder modulo `Modulus` is a number of bytes only as long as nothing
has wrapped, and nothing wraps because the counters are numbers of bytes. `MmuInv`
says both at once: in `Ingress`, that the counters are sums, and that their total fits
the buffer, so the head of a queue is part of each of the four it is taken off. In `Split`,
for the egress side, where the guaranteed part of a queue may wrap: read with its
sign, it is between minus one packet and a cell, and with the shared part it makes
up the bytes queued. The bounds are what the patch maintains: it fills the guaranteed part
up as soon as more than a cell is in the shared one. They say how far a mark may be off,
and with `WidthAssumption` (the buffer is below 2^32, a packet and a cell below half of it)
that a sign can be told. `Covered` is the invariant of the headroom. A packet
that leaves returns headroom which others have taken, so headroom is not what is
over the limit; but it covers that. What a group may take is bounded by
`Reserve`, the headroom or the guaranteed cell, while the counter of headroom
may be above it; so the bound on a pool counts of each group's headroom what is
within its reserve (`Counted`), and is inductive with the one packet that crosses the limit.

The sums, over ports, groups and queues, were the obstacle: what a fold computes is an
induction over data. `DataLemmas` proves the laws needed (a sum changes by what one of its terms
changes by, is additive, monotone, bounded by its terms, and is that of a sequence with
an element appended or its head taken off) from the definition of the fold: a set for
which a law fails would contain a smallest one, as finite sets are well-founded under
inclusion, and one step of the fold leads from that to a smaller one.

`QbbPfcProofs` proves, for any ports, senders, classes, packets, thresholds and
length of a pause:

| theorem | statement |
|---|---|
| `EveryPauseEnds` | `Spec => []PausedHasEnd` |
| `HeadsAccounted` | `Spec => []Accounted` |
| `FullIsPaused` | `Spec => []PausedWhileFull` |
| `NoneRefused` | `Spec => [](~setup.dynamicth /\ Provisioned => Lossless)` |

`Accounted` is part of the invariant of the memory, whose lemmas about admission
and removal are cited; only that a packet may be sent at once, or refused, is new.

That a full class is paused is not inductive: it must be paused again in time. The
invariant `Guarded` says that of every class over its threshold some egress device
has a check that is due before its pause ends, or the frame that renews the pause
is on its way (`Renewed`). A check by another device may cancel nothing of this: it
resumes only below the lower threshold, and any frame that pauses sets a check of
its own at half the time. `Guarded` needs that a counter over the threshold does
not get there by wrapping, which is `Accounted`.

`NoneRefused` is what flow control is for. How far a class is over its threshold is again
not inductive by itself: packets are on the wire. `Limited` distinguishes two kinds of
classes. A class that is `Flowing` was below the threshold when the tick began, and what
it has in memory and on the wire is no more than that and what it has sent in this tick. A
class that is `Stopped` is paused, has nothing on the wire, and is over the threshold by a
tick at most. Only the end of a tick makes the latter of the former: then the links are
empty, and a class that is full is paused, with a moment left, by `Guarded`. (That every
class is `Flowing` is false, as TLC shows; and the bound alone is not inductive, as it
says nothing of the wire.) A packet that arrives is of a class that flows, so headroom for
a tick admits it, if the buffer has room; and the buffer has if the shares of all groups
fit it, as `Covered` bounds one pool and `Limited` each group. `Provisioned` is this
condition: headroom for the threshold and a tick, and a buffer for the limit of the pool,
two packets and the shares of all groups. The code's defaults (`broadcom-node.cc:56-99`:
the static threshold, 20 cells of 1030 bytes, headroom of 100, a limit of 4000, a buffer
of 9 MB) meet it: with two packets of 1500 bytes to a tick for NICs on 19 ports that use
all seven classes, or on 38 that use class 0 and another. The instance of `pfc` meets it,
too. Class 0 is excepted, as in `Lossless`, since its pause is lifted when any class
resumes; what it takes of the buffer is bounded by its headroom all the same. The theorem
is about data: of class 1, which ACKs belong to at a switch and which they keep coming for
while it is paused, it says what data alone does.

The other assumption is that of the module, among it that the threshold that resumes is
not above the one that pauses.

## Limits

Only model-checked, on the instances above: liveness (`EveryFreeNodeRuns`,
`AllReported`, `CommunicationCompletes`, `FullChunksArrive`, `PausedClassResumes`), which
is out of the prover's reach; and `Lossless` with the dynamic threshold, where the
threshold of a class falls with the packets of other ports, which nobody
checks that class for: the bound on what it may still bring involves all ports, and is not
proved yet. Every other invariant, action property and refinement that a run
checks is a theorem. `TypeOK` of `LgsHelper` is proved of the interface in the engine
(`LogSimProofs`), not of every caller. `ChunksSeparate` for a device that waits for ACKs with a
buffer too small for what is written is neither checked nor proved. The type
invariants of `SerializedGraph`, `MessageMatching` and `QbbTransport` are left to their
theorems.

Not modelled, with the reason:

- of the RoCE device: the rate control (QCN), whose numbers say when a packet is
  sent and not whether it arrives; several flows of one NIC, which share the
  round robin and the event `m_nextSend`; NICs without QCN, which queue by
  class; `m_testRead`. The order of packets over several paths;
- ACKs and NACKs in flow control: `QbbPfc` has packets of data only. The classes of the
  run are 0 and 3, which they do not belong to; of class 1 they may take headroom that
  nobody pauses them for;
- answers of NICs in the engine, as what it does with them is undefined;
- of the switch: egress limits in `QbbPfc` (they are those of the whole buffer);
  setters of parameters, which are constants here; switches behind switches;
- the applications: to `LgsHelper` a message is its packets in flight, to
  `QbbTransport` packets are written at any time;
- the composition of transport and interface: `LgsHelper` allows any packet of data to be
  late, repeated or lost, and any that arrives to be answered; that the packets of
  `QbbTransport` do no more than that is not checked;
- the bytes of the schedule file: `serialize_mmap` and `get_node_by_offset` are
  read as the identity they should be. The `_DSN` variants repeat the operations
  modelled here, for output;
- LogGOPSim and its network graph: compiled, and called by no program of the
  repository; noise and timeline: drawn and not used, or output;
- schedgen: a program of its own that writes text; reading of traces is input and
  output;
- NS-3 itself, its Python bindings, netanim, bake: vendored. Of the core, the
  order of events by time and `Stop` are part of `LgsHelper`;
- the second copy of LGS under `src/Modern NS-3`: the same code.

Runs are kept few: one for each question asked of the system.

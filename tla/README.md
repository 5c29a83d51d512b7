# Verification of the ConWeave NS-3 network simulator

This directory holds TLA+ models of the protocol logic that this repository adds
to ns-3.19, the TLC configurations that check them on small instances, and
TLAPS proofs about them. Paths below are relative to the repository's root;
`P2P` stands for `src/point-to-point/model` and `NLB` for
`scratch/network-load-balance`.

## 1. Inventory

The repository simulates RDMA traffic over a data-centre fabric: hosts with RDMA
NICs, switches with a shared buffer and PFC, and a load balancer in the top-of-
rack (ToR) switches. ns-3 runs one event handler at a time; the concurrency is
that of the distributed system: packets, replies, pause frames and timers in any
order the delays allow.

| Part | Code | State | Operations |
|---|---|---|---|
| ConWeave | `P2P/conweave-routing.*`, `conweave-voq.*` | Tx entry, Rx entry and reordering queue (VOQ) per flow, path table per ToR, aging timer per ToR | `RouteInput` at the source and the destination ToR, `SendReply`, `SendNotify`, VOQ flush, `AgingEvent` |
| Switch buffer (MMU) | `P2P/switch-mmu.*` | ingress bytes per port, class and service pool, headroom, egress minimum and shared bytes, `paused`, `m_pause_remote` | admission checks, updates, removals, `GetPauseClasses`, `GetResumeClasses` |
| Switch node | `P2P/switch-node.*` | ports, routes | `DoSwitchSend`, `SwitchNotifyDequeue`, `CheckAndSendPfc`, `CheckAndSendResume` |
| Device, egress queue | `P2P/qbb-net-device.*`, `src/network/utils/broadcom-egress-queue.cc` | FIFO per class, `m_paused`, resume timers | `Receive` (PAUSE, RESUME), `DequeueRR`, `SendPfc` |
| RDMA NIC | `P2P/rdma-hw.*`, `rdma-queue-pair.*` | send and receive queue pairs, work queue elements, selective-ACK list, retransmission timer | `ReceiveUdp`, `ReceiveAck`, `GetNxtPacket`, `HandleTimeout`, append, seal and complete |
| LetFlow, CONGA | `P2P/letflow-routing.*`, `conga-routing.*` | flowlet table, CONGA's congestion tables | route input, feedback, aging |
| Capacity-proportional | `P2P/capacity-proportional-routing.*`, `residual-capacity-estimator.*` | flowlets, smoothed capacities | pick by weight, update estimates |
| Traffic scheduler | `NLB/traffic-scheduler.*`, `host-path-sensing.*` | lanes and deficits, pools of persistent queue pairs, host observations | select a lane, split a flow, probe |
| Set-up, monitoring, scripts | rest of `NLB`, `run.py`, `*Analysis.py` | configuration, statistics | parse, write |

How they interact. A host's NIC hands packets to its device; each switch on the
way calls the load balancer (`SendToDev`), which chooses an output and calls
back `DoSwitchSend`: admission by the MMU, perhaps a PAUSE upstream, then the
egress queue. Dequeuing calls `SwitchNotifyDequeue`, which frees buffer and may
send a RESUME. ConWeave's two ToRs talk through tags on data packets (epoch,
phase, INIT or TAIL, times) and through replies and NOTIFYs at high priority.
The receiving NIC answers with ACK, NACK or CNP.

What makes each part right, and hard:

* ConWeave: the receiving host sees no reordering although paths change under a
  flow; the VOQ, its timer and the Rx entry agree; every held packet is
  released; the assertions hold. Hard because of races between the TAIL, the
  packets of the new path, the VOQ's timer, late replies, losses and aging.
* MMU and PFC: counters equal what is queued, a lossless class drops nothing, a
  paused class is resumed. Hard because a packet is charged and freed by
  different formulas, and pause frames race with pause timers.
* RDMA NIC: work completes in order and only when all of its data has arrived, a
  queue pair is torn down once and then stays quiet. Hard because of loss,
  reordering, time-outs that race with answers, and packets that arrive after the
  teardown.
* LetFlow and CONGA: a flowlet stays on its path. Capacity-proportional and the
  traffic scheduler: the choice follows a fresh signal, some lane is always left.
  These are not modelled; section 5 says why.

`PROJECT.json` lists the components with what is left out of each, and the
hazards at their lines.

## 2. Modules

| Module | Models |
|---|---|
| `OrderedChannel` | what ConWeave promises a destination host: packets in sending order, each at most once, gaps only where the network dropped a packet |
| `ConWeave` | the source and the destination ToR for one flow, the paths between them, replies and NOTIFYs, aging, time; the properties |
| `SwitchMmu` | the shared buffer of one switch: admission, charge and release, PAUSE and RESUME; the properties |
| `PfcLink` | `SwitchMmu` with the devices that feed it: links with delay, PFC frames, the pause timers of both ends, time; the properties |
| `ReliableTransfer` | what a queue pair promises the application: work completes in order, only when its data has arrived; one teardown, after the last |
| `RdmaQp` | a queue pair, sender and receiver, go-back-N or IRN, legacy or persistent, over a network that loses and reorders; the properties |
| `SackList` | the list of SACK blocks as the code keeps it, beside the set that `RdmaQp` takes for it |
| `MCConWeave`, `MCSwitchMmu`, `MCPfcLink`, `MCRdmaQp` | the values of function constants for TLC |
| `ConWeaveProofs`, `ConWeaveEpochProofs`, `ConWeaveOrderProofs` | proofs: types, the VOQ's records and its wait, each packet once; epochs, phases and assertions; the order of delivery |
| `SwitchMmuProofs`, `SwitchMmuSumProofs` | proofs: queues, headroom and pauses; the counters that are sums, types |
| `RdmaQpProofs`, `RdmaQpProgressProofs` | proofs: types, acknowledgements and order; a sender that waits has a timer |
| `PfcLinkProofs` | proofs: the links implement the switch, types, the two timers of a pause, the headroom of one peer |

`PfcLink` extends `SwitchMmu`: each of its actions that moves a packet is an action
of the switch joined with what happens on the links. `ConWeave` and `RdmaQp`
instantiate `OrderedChannel` and `ReliableTransfer`, which they implement.

### ConWeave: correspondence with the code

State: `tx` is the flow's `conweaveTxState`, `rx` its `conweaveRxState` (with
`known` for "`_flowkey` is set"), `voq` its `ConWeaveVOQ` (`flushAt` is the
scheduled flush event), `pathTable` the source ToR's `m_conweavePathTable`. `net`
holds a FIFO of tagged packets per path, `ctl` the replies and NOTIFYs; `agingAt`
is when each ToR's `AgingEvent` fires next. `sent`, `lost` and `delivered` are
history.

| Action | Code in `conweave-routing.cc` (unless named) |
|---|---|
| `TxExpired`, `TxStabilized`, `TxReplyTimeout`, `TxUsual` | source ToR, data packet (452-692): the four outcomes of "CHECK" and "ACTIVE" |
| `TxReply`, `TxNotify` | source ToR, reply (1011-1065) and NOTIFY (1067-1092) |
| `RxPrevEpoch` | destination ToR, FILTER (742-748) |
| `RxPhase0`, `RxPhase1InOrder`, `RxPhase1OutOfOrder` | destination ToR, current or new epoch (750-1009), each the whole handler: entry, prediction, reschedule or new VOQ, NOTIFY, reply, send or enqueue |
| `VoqFlush` | `EnforceFlushAll`, `FlushAllImmediately` (`conweave-voq.cc` 56-81), `CallbackByVOQFlush`, `DeleteVOQ` |
| `AgingEventTx`, `AgingEventRx` | `AgingEvent` (1208-1230), per ToR |
| `Drop` | a switch on the way refuses admission (`switch-node.cc` 330-361) |
| `Tick`, `Stop` | the simulator's clock and its end |

Abstractions. Flows share nothing but the path table, so one flow is modelled
and another flow's marks are left to the nondeterministic `EcnMarks`. A path is a
FIFO with a minimum and a maximum delay, which is what one queue per class on
each hop of a source-routed path gives; replies and NOTIFYs take one path (flow
ECMP) and are never dropped, because `DoSwitchSend` admits `qIndex` 0 without a
check. The two random paths that path-aware rerouting samples
are modelled by what sampling may come to: any good path, or none found (then
the randomly sampled bad path serves only a new connection). Paths are opaque
ids. Time is in abstract units; handlers take no time, and all orders of the
events of one instant are explored. The nanosecond after which a TAIL has a waiting
VOQ flushed (872-875) is less than a unit and less than the transmission of a packet:
the flush is due at the same instant, in any order with the packets of other paths,
but before whatever follows the TAIL on its own path (`tailFrom`, the path that
`Arrived` holds back until the flush).

### SwitchMmu: correspondence with the code

State: `ing` holds `m_usedTotalBytes` and the `m_usedIngress...Bytes` counters,
`egr` the `m_usedEgress...Bytes` counters, `pfc` the flags `paused` and
`m_pause_remote` and whether `resumeEvt` is pending, `queue` the FIFO of each
egress port and class. A packet carries the input port (its `FlowIdTag`), its
size, and the bytes ahead of it, which makes the content of a queue the
position of its end. `told` (the last PFC frame per port and class) and `dropped`
are history.

| Action | Code |
|---|---|
| `SwitchSend` | `DoSwitchSend`, packet admitted: both updates, `CheckAndSendPfc` (which may pause several classes and then resume some), the egress queue |
| `DropAtEgress`, `DropAtIngress` | `DoSwitchSend`, egress admission refused; egress passed, ingress refused |
| `SwitchNotifyDequeue` | the head of a queue leaves: both removals, `CheckAndSendResume` |
| `SetResume` | the resume timer fires |

Abstractions. Which class the device serves next is up to its peer's pauses, so
any queue may go next. Class 0 bypasses the MMU. Only dynamic thresholds are
modelled: `SwitchMmu`'s attribute `DynamicThreshold` is true by default, and the
one that `rdma-setup.cc` (35) sets is that of `QbbNetDevice`. `BufferLimitSp` adds
the headroom of ports 0 to n - 1, as the code does, although ports are numbered
from 1. The code's factor 1/16 of the free pool is multiplied out (the other
side times `IngressAlphaInv`).

### PfcLink: correspondence with the code

State: `wire` holds the data packets on their way to the switch, `rev` the PFC
frames on their way to the peers; `peer` is `m_paused` and `m_resumeEvt` of the
peers' devices, `resumeIn` when the switch's `resumeEvt` is due, `busy` the peers
whose `m_txMachineState` is `BUSY`. `expired` (pauses that a peer's timer ended) is
history.

| Action | Code |
|---|---|
| `SwitchReceive` | `QbbNetDevice::Receive` of the switch, then `SwitchSend`, `DropAtIngress` or `DropAtEgress`, with `SendPfc` and `SetPause` for what it decides |
| `SwitchTransmit` | `DequeueAndTransmit` of the switch: `SwitchNotifyDequeue`, with `SendPfc` and `SetResume` |
| `ResumeTimer` | the `resumeEvt` of the switch |
| `PeerTransmit` | `DequeueAndTransmit` of a peer, for a class that is not paused |
| `PeerReceive` | `Receive` of a peer: a PAUSE starts the timer anew, a RESUME cancels it |
| `PeerTimer` | `Resume` by the peer's timer |
| `Tick` | the simulator's clock |

Abstractions. The unit of time is the transmission of one packet and all packets
have the size of an MTU. A PFC frame takes the link's delay, or one unit more when
it waits for a packet in transmission. Its own transmission (64 bytes) is counted as no
time, and the acknowledgements, CNPs and other control packets that share queue 0 with
it (`SwitchSend(0, ...)`, `qbb-net-device.cc` 440) and may be ahead of it are left out:
in the code a frame may come later than here by what they take, which for a PAUSE comes
out of the headroom's margin. Peers always have packets; the devices
behind the switch take packets at any rate. Timers due at an instant come before
its other events: the simulator runs events of one instant in the order in which
they were scheduled, and a pause timer was scheduled earlier.

### RdmaQp: correspondence with the code

State: `qp` is the sender's `RdmaQueuePair` (`posted`, `completed`: how many work
queue elements (WQEs) have been posted and reported complete; `nxt`, `una`:
`snd_nxt`, `snd_una`; `timer`: whether `m_retransmit` runs; `finishedBit`: its bit
in `m_qp_finished`; `sack`, `highestAck`, `maxSeq`, `recovery`, `recoverySeq`: the
`m_irn` members; `mlx`: whether DCQCN's timers have started). `rx` is the
receiver's `RdmaRxQueuePair`. `data` and `acks` are what the network holds, as bags
indexed by content, so it may deliver in any order. `arrived` and `losses` are
history.

| Action | Code (`rdma-hw.cc` unless named) |
|---|---|
| `AddQueuePair` | `AddQueuePair`, a legacy queue pair with all of its data |
| `AppendPersistentWqe`, `SealPersistentQueuePair` | the calls of the traffic scheduler on a persistent one |
| `DequeueAndTransmit` | `GetNextQindex` (`qbb-net-device.cc`) finds it ready, `GetNxtPacket`, `PktSent` |
| `SkippedByScan` | `GetNextQindex` passes over it (nothing left, the window closed, paused, not yet available): it is marked finished if nothing is left, and moved past the front SACK block all the same |
| `ReceiveUdp` | `ReceiveUdp` with `ReceiverCheckSeq`, and the ACK or NACK it sends |
| `NackTimerExpires` | `m_nackTimer` of the receiver is in the past |
| `ReceiveAck` | `ReceiveAck` as a whole: acknowledge, SACK, completion of WQEs or of the queue pair, timer, recovery, CNP, teardown |
| `HandleTimeout` | `HandleTimeout` |
| `LoseData`, `LoseAck` | the network drops |

The order inside `ReceiveAck` is the order of the operators in `AfterAck`; it
matters (a timer started after the teardown would never be cancelled), and a
mutant of it is caught.

Abstractions. Sequence numbers count packets of one MTU. The SACK list is the set
of numbers that it covers: `SackList` has the code's operations on a list of
blocks (`Insert`, `Merge`, `discardUpTo`, front block, and the rest), and
`SackListExact` compares each with the set operation that `RdmaQp` uses, for every
list over the sequence numbers of the run. Time-outs fire at any moment that
they are pending. Of congestion control only the starting and cancelling of DCQCN's
timers is kept: they are what a teardown may leave behind. Nothing initialises
`m_recovery_seq`, so it starts as either end of its range. A queue pair that has
been torn down stays in the NIC's group (as in the code, which never removes it)
and in `akashic_Qp`, where it no longer hears acknowledgements; late data makes
the receiver create its queue pair again.

## 3. What TLC checks

| Run | Question | Properties |
|---|---|---|
| `cw_order` | Does ConWeave hide rerouting from the host when the time-outs suit the network? | `OrderedDelivery` (refinement of `OrderedChannel`), `SettledOnOnePath`, `NoEpochWhileReordering` |
| `cw_stress` | What still holds when they do not? | `TypeOK`, `AssertionsHold`, `ExactlyOnce`, `PrevEpochIsPast` |
| `cw_live` | Is everything that is held released, a rerouted flow reroutable again, and do the records of a held packet survive aging at an unlucky moment? | `EventuallyDelivered`, `RerouteSettles`, `ReorderingIffVoq`, `VoqWaitBounded`, `AssertionsHold` |
| `cw_aging_restart` | violation: aging at one ToR only | `PrevEpochIsPast` |
| `cw_lost_init` | violation: a path slower than the flowlet gap, one INIT lost, two packets at one instant | `AssertionsHold` |
| `mmu_counters` | Do the counters agree with what is queued when guarantee, shared pool and headroom all overflow and classes share ports and pools? Are classes paused and resumed as they must? | `TypeOK`, `EgressQueueCharged`, `HeadroomWithinClass`, `ExcessIsHeadroom`, `IngressCharged`, `EgressSums`, `ResumeFollowsPause`, `HeadroomPauses` |
| `mmu_uninit` | violation: pause flags that nothing initialises | `ResumeFollowsPause` |
| `pfc_link` | Do switch and peer agree on what is paused, does the headroom suffice, does every pause end? By how much is a pool overrun? | `LinkTypeOK`, `PeerPaused`, `HeadroomSuffices`, `PoolWithinHeadroom`, `PauseEnds` |
| `pfc_resume` | violation: a RESUME that comes too late | `ResumeFindsPaused` |
| `pfc_headroom` | violation: two peers share the pool | `HeadroomSuffices` |
| `rdma_transfer` | Does the queue pair deliver what it promises, and never get stuck, over a bad network? | `ReliableDelivery` (refinement of `ReliableTransfer`), `EventuallyComplete`, `NeverStuck`, `NoHoleAcknowledged`, `UnaNeverSacked`, `SackBeyondHole`, `SendPointerWithinWqes`, `NoTimerAfterTeardown`, `SackListExact`, `TypeOK` |
| `rdma_irn_bdp` | violation: IRN beyond its window | `WithinBdp` |

`SackListExact` says the same in every state, so it is evaluated only where the
queue pair does not exist yet.

### Bounds of the ConWeave runs

Two paths, one fast and one slow, are enough for every race: an epoch has one
old and one new path. Four or five packets suffice for an INIT, a TAIL on the old
path, two packets on the new path (one opens the VOQ, one joins it) and the first
packet of the next epoch; one loss removes any one of them. The times keep the order
that `run.py` (843-867) gives them:

* `cw_order`: the jitter of the slow path (4 - 2) is less than
  `ExtraVOQFlushTime` (3), and the flowlet gap `TxExpiryTime` (11) is as long as
  a delay plus the longest VOQ wait; in `run.py`, 300 us or more against tens of us. The
  reply deadline (3) lies between the fastest and the slowest answer, so INITs
  are answered in time, late and never. Any packet may carry an ECN mark. The run
  starts at 12 and stops at 20: epochs follow each other by a CLEAR, and a second one
  that opens after a flowlet gap hardly fits. That case is left to the theorems
  `NoEpochWhileReorderingAlways` and `OrderedDeliveryRefined`, and to `cw_stress` and
  `cw_live`, whose gap is 3.
* `cw_stress`: a packet may be in flight for 7 while the flowlet gap is 3 and
  the VOQ may give up before the TAIL. The host may see disorder here (a flowlet
  is rerouted without a TAIL), and that is what the flowlet gap is for. Exactly-once
  delivery and the epoch filter must hold anyway, and for these constants the
  assertions do too.
* `cw_live`: `AgingTime` (7) is close to the least that `AgingAssumption`
  allows, the ToRs' aging timers are out of phase (one runs at 2, the other at 5, and
  every 7), and the host may pause for longer than it: packets are sent until 19 and the
  run ends at 24, so a source whose entry has aged restarts while the destination's entry
  survives, reroutes again, and its TAIL is filtered. In the code 2 ms stands against at
  most 600 us plus 64 us. There are two reasons for a VOQ never to see its TAIL: it is
  dropped, or late; and two for a rerouted source never to see its CLEAR: the TAIL is
  dropped, or filtered. `RerouteSettles` allows the source to wait for the flowlet gap
  in these two cases only, and each of them is needed: without it TLC finds a violation.
* `cw_lost_init`: a congested path (9 to 11, above the gap of 6) whose packet extends
  the wait of the VOQ, and two fast ones (the run is symmetric in them) for the next
  epoch: one that it leaves and one that it goes to. Six packets are what the scenario
  needs: INIT and TAIL on the old path, one in the VOQ, INIT (lost), TAIL and a packet
  of the new path. The VOQ waits for 3 + 2, a larger part of the gap than in `run.py`;
  with 2 + 1 against a gap of 5 one more packet of the old path, which extends the wait
  again, leads to the same violation (with delays of 7 to 10).

`AssertionsHold` has a boundary: it needs the flowlet gap to be as long as a
packet's delay followed by the longest wait of a VOQ. That is enough for every
instance (`AssertionsAlways`, section 4) and `cw_order` is one, with equality (4 + 7
and 11). Where a path's delay exceeds the gap, one lost INIT and two packets that come
within a nanosecond break it (`cw_lost_init`), although the VOQ's waiting time plus the
extra flush time (3 + 2) is less than the gap (6), as in `run.py` (200 + 16 against
300 us, 300 + 16 and 600 + 64 against 1000 us). The gap of 300 us is what 3.75 MB in
front of a packet take at 100 Gbps; a switch has 9 MB, and PAUSE frames may hold a path
for longer. `cw_stress` and `cw_live` do not satisfy the condition either. That the
assertions hold there is a result about their constants (two paths, four or five
packets, delays up to 7) and no more; what is claimed in general is `AssertionsAlways`, under its condition.

### Bounds of the other runs

* `mmu_counters`: sizes are in units of the MTU. Packets of one and two units
  straddle the guarantee of a queue (`1 + MTU`, so two) in every way: below,
  filling it exactly, across it. Two input ports and two classes (1 and 3, whose
  ingress pools differ and whose egress pool does not) feed a third port. The
  buffer limit is a few packets above what is reserved, so that three packets
  reach headroom, drops at ingress and drops at egress. `mmu_uninit` has the same
  sizes with one input; elsewhere memory left alone is taken to be clear.
* `pfc_link`: the headroom is the one that `topology.cc` (194-195) computes: a
  round trip and two packets. The pause (5) is longer than the way to the peer (2
  and a packet), as in the code, where microseconds stand against hundreds of
  them. `IngressAlphaInv` 16 and `EgressAlpha` 1 are the code's thresholds. The
  buffer (18) is just large enough for the class to be paused with the pool nearly full
  (`Threshold` and `Roomy` of section 4): five of the six packets of headroom are in use
  before any pause ends by the peer's timer, and all six afterwards. With so small a
  buffer the egress threshold would refuse packets first, which it does not where the
  headroom is a small part of the buffer; `pfc_link` has `EgressAlpha` 2 for that.
  `pfc_headroom` has a second peer that exhausts the pool for the first. Losses
  after a pause has ended by the peer's timer are no part of `HeadroomSuffices`: the
  switch does not pause the class again until the next packet comes.
* `rdma_transfer`: two WQEs, of one and of two packets, so that a WQE boundary
  and a packet boundary differ and an acknowledgement may complete none, one or
  both. Two packets and two acknowledgements in flight give every overtaking of a
  pair; one loss of either kind with time-outs at any moment gives every
  retransmission of three packets. The window and the BDP (3) do not limit, as in
  the code's defaults; `rdma_irn_bdp` sets the BDP to 2.

### Fairness

* `ConWeave`: weak fairness of `SimulatorStep`, the events that
  the simulator itself runs: an enabled event is run and the clock advances. ns-3's
  `Simulator::Run` takes the earliest event as long as there is one, so this is what
  the code does. Nothing is assumed of the hosts (they may stop sending at any
  point) or of drops. No fairness between actions is needed because time is what
  forces each of them: `Tick` is disabled while something is due.
* `PfcLink`: weak fairness of `LinkNext` as a whole, for the same reason.
* `RdmaQp` has no clock, so each thing that the simulator has scheduled is weakly
  fair: posted work, the NIC's packets, a pending time-out, the NACK timer, and the
  arrival of something, as long as something is in flight. Which packet arrives
  is up to the network, and it may drop `MaxLoss` times.
* `SwitchMmu` has no liveness property: a switch alone does not decide when
  packets leave.

### Disagreements found

* `cw_aging_restart`: `AgingEvent` runs at each ToR with a phase of its own. After a
  silence of about one aging time the source's entry may be erased while the
  destination's survives. The source restarts at epoch 1, the destination
  expects a later one, and the newest packets of the flow are taken for packets
  of a previous epoch: they bypass reordering and get no reply, until the
  epochs catch up or the other entry ages out too.
* `cw_lost_init`: a TAIL of the current epoch leaves the phase alone while a VOQ waits,
  a TAIL that opens a new epoch sets phase 1 at once. Both have the VOQ flushed a
  nanosecond later. If the INIT of the new epoch was lost and the VOQ of the epoch before
  still waits, a packet of the new path that comes by another port within that
  nanosecond is in order and meets the VOQ: the assertions at 968-969 fail. The packet
  behind the TAIL on its own path comes later and does no harm, so this is rare; but
  that nanosecond is the reason for which 805-808 leaves the phase to the flush. The
  comment above (776-790) expects a new epoch during reordering and only prints a message.
* `mmu_uninit`: `paused` and `m_pause_remote` are read before anything writes
  them; where their memory is not zero, the first arrival (or, with `paused` alone, the
  first departure) sends a RESUME that the peer asserts cannot happen ("Must be PAUSEd").
* `pfc_resume`: that assertion may fail with clear flags too. Both ends run a timer
  of one length for one PAUSE; a RESUME sent just before the switch's ends, and
  held up by a packet, arrives after the peer's has ended.
* `pfc_headroom`: a packet is charged to headroom as soon as the pool is over its
  limit, but a class within its guarantees is not paused. If another port has
  exhausted the pool, the first packets of a class use headroom without a PAUSE,
  and the last of those on their way when it is sent is dropped.
* `rdma_irn_bdp`: the IRN window is checked at the send pointer, which is moved past
  the front SACK block between the check and the sending.

Seen while modelling, without a run: the comment on NOTIFY (`conweave-routing.cc` 1079)
says that an expired entry of the path table is overwritten; the code overwrites
any, so a path whose id shares the slot loses its mark. No property here depends on
which marks there are.

Things the runs show that the code does not deny, so they are no disagreements: a
class may hold more headroom than `m_pg_hdrm_limit` (the limit is tested only
while the pool is over its own limit *before* the packet); one call of
`CheckAndSendPfc` may send PAUSE and RESUME for a class other than the packet's;
a switch forgets a pause when its timer ends and sends no RESUME for it, so that
pause lasts until the peer's timer ends (`PauseEnds` needs that timer); a legacy
queue pair whose last acknowledgement carries a CNP starts DCQCN's timers after
its teardown (`NoTimerAfterTeardown` is about persistent ones in that respect).

## 4. What is proved

Each proof module proves its theorems for all values of the constants that
satisfy the named assumptions of the module it extends.

### ConWeave

`ConWeaveProofs`, `ConWeaveEpochProofs` and `ConWeaveOrderProofs` prove, for all path
sets, delays, time-outs and bounds that satisfy the assumptions of `ConWeave`:

| Theorem | Says |
|---|---|
| `TypeCorrect` | `TypeOK` is invariant |
| `TxAssertionsHold` | the source ToR's assertions never fail |
| `VoqConsistent` | `ReorderingIffVoq`: flag, VOQ and its contents agree, a held packet has a flush to come, aging never erases the entry of a flow with a VOQ |
| `VoqWaitIsBounded` | `VoqWaitBounded`: a VOQ is flushed within `MaxVoqWait` of the flow's last arrival |
| `ExactlyOnceAlways` | `ExactlyOnce`: every packet that was forwarded is in one place, once |
| `PrevEpochCorrect` | `PrevEpochIsPast`, if the source's entry ages out after the destination's (`AgesLast`) |
| `SettledAlways` | `SettledOnOnePath`, if no delay exceeds the flowlet gap (`GapOutlastsFlight`) and an entry outlives a packet and its answer (`AnswersBeforeAging`) |
| `NoEpochWhileReorderingAlways` | `NoEpochWhileReordering`, if the time-outs suit the delays (`TimesSuit`) |
| `AssertionsAlways` | `AssertionsHold`, under the same condition |
| `OrderedDeliveryRefined` | `OrderedDelivery`: ConWeave implements `OrderedChannel`, if the time-outs suit the delays (`TimesSuit`, `DelaysSuit`) and the entries age in order (`AgesLast`) |

The assumptions: the times are natural numbers; a flow starts later than the
flowlet gap and the run ends before the 100 s that stand for "no reply timer"
(`TimeAssumption`); each path's delay is bounded (`PathAssumption`); the longest
VOQ wait is not longer than the aging time (`AgingAssumption`, 2 ms in the
code). The first five theorems relate the time-outs to the delays in no other way.

The inductive invariant of the first four is
`IInv == TypeOK /\ ClockInv /\ TxInv /\ NetInv /\ VoqInv`. Why each part is
needed: an aging event must not erase the Rx entry of a waiting VOQ, so the wait
must be bounded by the age of the entry (`VoqWaitBounded`); the bound follows
from the prediction `phase0RxTime + (tailTime - phase0TxTime)`, which is at most
`tailTime` plus a network delay (`RxInv`), and the TAIL time is in the past
because it was when the packet was sent (`NetInv`, `TxInv`), and because packets
never stay on a path longer than its maximum delay, which needs the FIFO order
of sending times (`NetInv`) since only the head is due. `IInv` has one lemma per
part (`TypeStep`, `ClockStep`, `TxStep`, `NetStep`, `VoqStep`), each with one step
per action.

`ExactlyOnceAlways` sees the packets as sets of numbers: in flight per path, held,
delivered and lost are a partition of `1 .. sent` (`Placed`), and no queue holds a
number twice (`Distinct`). Five moves of such a partition (a new number, one lost, one
delivered, one held, all held ones delivered) cover all the handlers, so the
actions only have to say which move they make.

`PrevEpochCorrect`: the destination's epoch never passes the source's, and a packet of
an epoch before the destination's was sent before one that has been received
(`PastInv`), since epochs increase with the numbers of the packets (`SendInv`). The
one step that breaks this is an aging that erases the source's entry and not the
destination's, so the theorem is about the behaviours without one. The code does not
exclude that step (`cw_aging_restart`); the theorem says that nothing else goes wrong.

`SettledAlways`: after a reroute two paths hold packets, the old one up to the TAIL
and the new one (`Rerouted`). A CLEAR exists only once the TAIL has arrived, and then,
as a path is FIFO, the old path is empty (`SettleInv`). An answer of an earlier epoch or
phase counts for nothing, which needs that it carries the epoch and the phase that
its kind implies and that it is not older than the source's entry (`CtlInv`).

`AssertionsAlways` and `NoEpochWhileReorderingAlways` rest on
`AllInv == IInv /\ SendInv /\ CtlInv /\ SettleInv /\ PhaseInv /\ EpochInv`. The exit(1)
on a TAIL time before the phase-0 time cannot happen whatever the time-outs: a phase-1
packet carries the time of the TAIL, which no phase-0 packet of its epoch exceeds
(`PhaseInv`). The rest is about a VOQ of one epoch that meets packets of the next.
A source that goes on to a new epoch has either had a CLEAR, so that the VOQ is
flushed within a nanosecond of the sending of the CLEAR, or has been silent for the flowlet gap, so
that by `TimesSuit` every VOQ is due (`FlushBy`). A packet of an epoch that the source
has closed is thus never the one that finds a VOQ where there should be none (`Closed`
in `EpochInv`). `TimesSuit` asks that `WorstDelay + MaxVoqWait` exceed neither the gap nor
the aging time, that an answer comes back within the aging time, and that delays are
not zero. With `run.py`'s time-outs it holds while no packet takes longer than 84 us
(leaf-spine), 336 us (lossless fat tree) or 492 us (fat tree with IRN). `cw_lost_init`
shows that something of the kind is needed. `CtlInv`, `SettleInv`, `PhaseInv` and
`EpochInv` were model-checked on the instance of `cw_order` before they were proved.

`OrderedDeliveryRefined` is what ConWeave is for. Its invariant is
`FullInv == AllInv /\ PastInv /\ OnceInv /\ OrderInv`, and `OrderInv` has four parts:

* `StreamInv`, what the source ToR sends: within an epoch phase 0 precedes phase 1 and
  ends with the TAIL, each phase takes one path, and the packets of phase 1 carry
  the TAIL's time, which is not before the sending of anything on the old path;
* `RouteInv`, what the two ToRs know of the route: there is one old path, the cached
  arrival of a phase-0 packet was an arrival on it, the TAIL times of the two entries
  agree while something is held, and the destination is not in phase 1 first;
* `HeldInv`, a waiting VOQ against the network: what it waits for (`OldKind`) was sent
  before all that it holds and is due before the flush; everything else was sent
  later; and what it holds is in order;
* `AheadInv`, the host against the rest: nothing that it has was sent after something
  that is in flight or held, and in phase 1 nothing is left to wait for.

The prediction is the heart of it (`HeldOpens`, `HeldPassesOld`): a VOQ is flushed at
the cached arrival, plus the time from that packet to the TAIL, plus
`ExtraVOQFlushTime`. Everything on the old path was sent no later than the TAIL, so it
has arrived by then if the delay of one path varies by less than the extra time. Without
a cached arrival the default waiting time has to cover the difference between the
delays of the two paths. These two are `DelaysSuit`; in `run.py` they allow 16 or 64 us of
jitter and 200 to 600 us between two paths. Larger delays are possible there (the
figures of `TimesSuit` above are no bounds of the network), and then the host may see
disorder, as it does in the mutant without the extra time. Each handler of the
destination comes to one of four things (`ArriveCases`: past the filter, of the old path,
of the new path in order, into the VOQ), the invariant has one lemma for each of its
parts and each kind of step, and `ChannelStep` maps the steps: a handler that passes a
packet on and a flush are `Deliver`, with one packet or with the contents of the VOQ, a
drop is `Lose`, a packet from the host is `Send`, and all else stutters. Every part of
`OrderInv` was model-checked on the instance of `cw_order`, which satisfies both
conditions, and on one in which both entries age during the run.

### SwitchMmu

`SwitchMmuProofs` and `SwitchMmuSumProofs` prove, for all ports, classes (finitely
many), packet sizes and limits that satisfy `SizeAssumption` and `BufferAssumption` (the
configured buffer is not smaller than what is reserved of it; the code's limit is
unsigned):

| Theorem | Says |
|---|---|
| `EgressQueueChargedAlways` | `EgressQueueCharged`: guarantee plus shared charge of a queue is what it contains, and the shared part is used only when the guarantee is full |
| `HeadroomWithinClassAlways` | `HeadroomWithinClass`: an empty class holds no headroom |
| `HeadroomPausesAlways` | `HeadroomPauses`: admission to a class that uses headroom pauses it |
| `ResumeFollowsPauseAlways` | `ResumeFollowsPause`, if the flags start out clear |
| `TypeCorrect` | `TypeOK`: no counter wraps |
| `IngressChargedAlways` | `IngressCharged`: the ingress counters are the sums of what is queued |
| `EgressSumsAlways` | `EgressSums`: the counters of egress ports and pools are the sums of those of their queues |
| `HeadroomAccounted` | `PoolWithinHeadroom`, `ExcessIsHeadroom`, `HeadroomWithinClass`: a pool overruns its limit by at most the headroom in use, and by at most a packet and the headroom configured; headroom in use is never more than the class holds |

The first needs `QueueInv`: the packets of a queue lie one behind the other
(`Contiguous`), so that joining adds a packet's size to the content and leaving
takes it away (`JoinQueue`, `LeaveQueue`), which `ChargeQueue` and
`DischargeQueue` match for the counters. That a leaving packet is no larger than the
content of its queue is what keeps `m_usedEgressQMinBytes` from wrapping. `ResumeFollowsPauseAlways`
needs that a class with `paused` set was told PAUSE last (`ToldInv`); nothing is
needed of `m_pause_remote`.

The others are about sums, which the community modules define by a fold, a
recursive function. `SwitchMmuSumProofs` first proves how such a sum changes with one
of its terms and with its set of indices (`SumUpdate`, `SumSame`, `SumStep`), by
induction over the subsets of the index set. The library's induction theorems
cannot be used with the installed provers, but well-foundedness as a
statement about sets can (`WFMin`): `NatLeast`, `SetInduction` and `CountInduction`
come from it. Then a packet that joins or leaves a queue changes one term of each
sum, and the counters by the same amount (`JoiningQueues`, `LeavingQueues`,
`EgressSumsKept`). `ExcessIsHeadroom` is kept by an arrival because what is charged to
a pool over its limit is charged to headroom as well, and by a departure because the
headroom that it takes back is never more than what it takes from the pool. Alone it
would hold with headroom that is charged and never freed. That is excluded by
`HeadroomWithinClass` (an empty class uses none), and by `PoolWithinHeadroom`, which
counts for each class no more than its allowance: its configured headroom, or what the
guarantees admit where that is more. A packet that finds the pool over its limit is
admitted only within the allowance of its class, so it adds as much to the allowed
headroom as to the pool (`ArrivalAtPool`, `AllowedKept`); one that finds the pool within
its limit may overrun it by its own size, which is the packet more; and a departure takes
from the allowed headroom no more than from the pool (`DepartureFromPool`).

### RdmaQp

`RdmaQpProofs` and `RdmaQpProgressProofs` prove, for any list of WQEs whose ends
increase, any window, BDP, acknowledgement interval and number of losses, with or
without PFC (`QpAssumption`):

| Theorem | Says |
|---|---|
| `TypeCorrect` | `TypeOK` is invariant |
| `HolesStayOpen` | `NoHoleAcknowledged`: nobody takes a packet for received that has not arrived |
| `UnaStaysUnsacked` | `UnaNeverSacked`: the packet to go back to is never one that SACK would skip |
| `BlocksBeyondHole` | `SackBeyondHole`: the assertion on `discardUpTo` |
| `SendPointerCorrect` | `SendPointerWithinWqes`: the assertions of `GetOnTheFly` and `GetNxtPacket` |
| `TimersEndWithQp` | `NoTimerAfterTeardown` |
| `DeliveryRefined` | `ReliableDelivery`: `RdmaQp` implements `ReliableTransfer` |
| `NeverStuckAlways` | `NeverStuck`, unless IRN runs over PFC (`NoIrnWithPfc`; `run.py` refuses it) |

The inductive invariant `IInv` says of the sender's record that everything below
`una` and everything in its SACK list has arrived, that `una` and `nxt` do not
exceed what is posted, that the WQEs reported complete end below `una` (`Sound`),
that `una <= nxt`, and that a queue pair torn down has finished all of it with no
timer running (`Ended`); of the receiver, that everything below `expected` and in
its SACK list has arrived and the list lies beyond `expected` (`RxSound`); of each
acknowledgement in flight, that what it claims has arrived (`AckSound`). `una`
cannot pass what is posted because nothing arrives that was not sent, which is the
part about `data` and `arrived`. `ReceiveAck` is a composition of
operators, so there is one lemma per operator (`AckedStep`, `CompleteStep`,
`RestartTimerStep`, `RecoverStep`, `HandleCnpStep`, `TearDownStep`), each saying
what it keeps, and `AfterAckStep` joins them. The refinement has one case per
action: posting is `Post`, an arrival `Arrive`, sealing and acknowledgements
`Finish`, everything else a stutter; that the count of completed WQEs is the last
one that ended rests on `CountEnded`.

`UnaStaysUnsacked` needs more (`MarkInv`): a packet gets into the sender's list only by
a NACK for a packet beyond the hole; from then on the receiver has passed it or
keeps it, so it is never again the one expected, and no acknowledgement, sent
before or after, carries its number.

`NeverStuckAlways` adds `Ready`: the bit in `m_qp_finished` is true to what is posted;
without a timer the send pointer is back at `una`, so that there is something to send
and the window is open (`una <= highestAck` for IRN, whatever SACK blocks did to
`maxSeq`). IRN over PFC is excluded because `HandleTimeout` then returns without a
retransmission.

### PfcLink

`PfcLinkProofs` proves, for any number of ports, delay and pause time that satisfy
`LinkAssumption` (the headroom is that of `topology.cc`, a pause is longer than a
frame's way):

| Theorem | Says |
|---|---|
| `LinkImplementsSwitch` | `LinkSpec => Spec`: what is proved of `SwitchMmu` holds with links and time |
| `LinkTypeOKAlways` | `LinkTypeOK` |
| `PeerPausedAlways` | `PeerPaused`, if the pause flags start out clear |
| `HeadroomSufficesAlone` | `HeadroomSuffices`, for one peer and one class |

`PeerPausedAlways` needs the two timers together (`Covered`): either no frame of the class is on
its way and the peer's timer has more to run than the switch's, or the last frame
is a PAUSE, and what the switch's timer has left plus the delay is at most the pause
time plus what the frame still has to go. Frames do not overtake each other
(`InOrder`).

`HeadroomSufficesAlone` is about a peer that has the switch to itself (`Alone`: one
input, one class, any number of outputs). Its other two hypotheses are about sizes:
a class that holds more than `Q` bytes is paused (`Threshold`), and two packets
beyond `Q` still fit in the pool while the egress has room for all that can come
(`Roomy`). The instance of `pfc_link` satisfies them with `Q = 2`. Two packets:
one because what can follow `Q` is a round trip and three packets (`Most(Q)`) and the
headroom is a round trip and two, one because the headroom is charged from up to a
packet below the pool's limit. That the pool takes all of `Most(Q)` is not assumed:
that is what the headroom is for.

The invariant (`RoomInv`) has three parts:

* `Spaced`: the packets on the link are at least a unit of time apart, so that no more
  of them can be on it than its delay has room for.
* `SoleUser`: every counter of the buffer is that of this peer and class, and what is
  charged to the headroom starts where the pool is full, up to a packet.
* `StopInv`: a class last told RESUME, or nothing, holds at most `Q`; one last told
  PAUSE will hold at most `Most(Q)` when all that is on the link, and all that the peer
  can still start before the PAUSE takes effect (`Stops`), has arrived. PAUSE
  is sent again for every packet beyond the threshold; what counts is the first of
  those behind which there is no RESUME.

It rests on the theorems about the switch, which hold here by `LinkImplementsSwitch`:
the counters are sums over what is queued (`SwitchMmuSumProofs`). TLC checked
`RoomInv` on the instance of `pfc_link` and on one with two outputs before it was
proved, and found states where a class holds exactly `Most(Q)`.

### Only model-checked

* Liveness (`EventuallyDelivered`, `RerouteSettles`, `PauseEnds`,
  `EventuallyComplete`): out of the prover's reach.
* `SackListExact`: `SackList` is recursive over lists, and the prover does not
  reason about recursive operators.
* `HeadroomSuffices` for more than one peer or class: as the code divides the pool, it
  is false for two peers (`pfc_headroom`); for which sizes it would hold is open.
* `WithinBdp` and `ResumeFindsPaused` do not hold (section 3).

## 5. Not modelled

* Congestion control of the NIC, CONGA's estimators, the capacity-proportional
  weights, the residual capacity estimator, and the traffic scheduler's deficits
  and lane speeds: floating-point arithmetic, whose rounding and decay are the
  content of these parts. A model over integers would be of another program.
* LetFlow: a flowlet keeps its path until an idle gap; what can go wrong there (an
  entry that ages while it is used) is modelled in `ConWeave`, whose source ToR has
  the same structure and a protocol in addition.
* ECMP and DRILL: stateless hashing, one comparison of queue lengths.
* `TakeDown`, `RedistributeQp` and the recomputation of routes after a link
  failure: one-shot set-up events. The two hazards seen there are listed in
  `PROJECT.json`.
* Tag and header serialisation, path-id encoding, hash functions (a slot is a
  constant), statistics, tracing, diagnostics, intra-ToR traffic, scripts.
* Within modelled parts: static thresholds and switched-off PFC in the MMU, the
  round robin between classes and between queue pairs (any ready one may go),
  `L2BackToZero`, sequence numbers beyond 32 bits, and several flows at one ToR
  (they share only the path table).
* ns-3 itself: its event queue is taken at its word, one handler at a time.

## 6. Running

In this directory, for example:

    tlc -config ConWeaveOrder.cfg MCConWeave.tla
    tlc -config RdmaQpTransfer.cfg MCRdmaQp.tla
    tlapm RdmaQpProofs.tla
    tlapm ConWeaveOrderProofs.tla

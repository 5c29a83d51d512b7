------------------------------ MODULE ConWeave ------------------------------
(***************************************************************************)
(* ConWeave's in-network reordering, for one RDMA flow between two ToR     *)
(* switches (src/point-to-point/model/conweave-routing.cc, conweave-voq.cc *)
(* and the structs of conweave-routing.h).                                 *)
(*                                                                         *)
(*   source ToR  --- data packets, one FIFO per path --->  destination ToR *)
(*   (tx entry,  <-- INIT / TAIL replies and NOTIFYs ----  (rx entry, VOQ) *)
(*    path table)                                                          *)
(*                                                                         *)
(* The two ToR switches keep one table entry per flow and the entries of   *)
(* different flows never touch, except through the path table, so one flow *)
(* is modelled.  Time is the simulator's clock: every handler runs at an   *)
(* instant, and Tick advances the clock only when no event is due.         *)
(***************************************************************************)
EXTENDS Integers, Sequences, FiniteSets

CONSTANTS
  Path,                    \* path ids from the source ToR to the destination ToR
  NoPath,                  \* CW_DEFAULT_32BIT
  SlotOf,                  \* path id -> slot of m_conweavePathTable (a hash)
  CW_MAX_TIME,             \* the reply timer's "no timeout pending"
  BaseRTT,                 \* m_rxToRId2BaseRTT of the destination ToR
  ExtraReplyDeadline,      \* m_extraReplyDeadline
  ExtraVOQFlushTime,       \* m_extraVOQFlushTime
  TxExpiryTime,            \* m_txExpiryTime
  DefaultVOQWaitingTime,   \* m_defaultVOQWaitingTime
  PathPauseTime,           \* m_pathPauseTime
  AgingTime,               \* m_agingTime
  MinDelay, MaxDelay,      \* per path: bounds of the network's delay for data
  CtlMinDelay, CtlMaxDelay,\* bounds of the delay of a reply or a NOTIFY
  EcnMarks,                \* what a packet's ECN bits may say on arrival
  AgingOffsets,            \* phases at which the two ToRs' aging timers may run
  WorstDelay,              \* no path's MaxDelay is larger
  MaxPkts,                 \* bound: data packets the host sends
  MaxLoss,                 \* bound: data packets the network drops
  LastSend,                \* bound: the instant the host sends its last packet
  StopTime                 \* bound: the instant the simulation stops

ASSUME TimeAssumption ==
  /\ {CW_MAX_TIME, BaseRTT, ExtraReplyDeadline, ExtraVOQFlushTime,
      TxExpiryTime, DefaultVOQWaitingTime, PathPauseTime, AgingTime,
      CtlMinDelay, CtlMaxDelay, WorstDelay, MaxPkts, MaxLoss, LastSend, StopTime}
        \subseteq Nat
  /\ AgingTime > 0 /\ ExtraVOQFlushTime > 0
  /\ AgingOffsets \subseteq [{"tx", "rx"} -> 1 .. AgingTime] /\ AgingOffsets # {}
  \* a flow may start later than the expiry time, and the simulator stops before
  \* the "infinite" reply timer of 100 s
  /\ TxExpiryTime < StopTime
  /\ StopTime + BaseRTT + ExtraReplyDeadline < CW_MAX_TIME

ASSUME PathAssumption ==
  /\ Path # {} /\ NoPath \notin Path
  /\ MinDelay \in [Path -> Nat] /\ MaxDelay \in [Path -> Nat]
  /\ \A p \in Path : MinDelay[p] <= MaxDelay[p] /\ MaxDelay[p] <= WorstDelay
  /\ CtlMinDelay <= CtlMaxDelay
  /\ SlotOf \in [Path -> Nat]
  /\ EcnMarks \subseteq BOOLEAN /\ EcnMarks # {}

\* How long after the flow's last packet a VOQ may have to wait, at most.
MaxVoqWait ==
  (IF DefaultVOQWaitingTime > WorstDelay THEN DefaultVOQWaitingTime
   ELSE WorstDelay) + ExtraVOQFlushTime

\* The aging time (2 ms) is longer than a VOQ can wait (200 to 600 us, or a
\* network delay, plus 8 to 64 us).
ASSUME AgingAssumption == MaxVoqWait <= AgingTime

VARIABLES
  now,        \* Simulator::Now()
  tx,         \* the source ToR's m_conweaveTxTable entry of the flow
  pathTable,  \* the source ToR's m_conweavePathTable, by slot
  rx,         \* the destination ToR's m_conweaveRxTable entry of the flow
  voq,        \* the destination ToR's m_voqMap entry of the flow
  net,        \* data packets in flight, a FIFO per path
  ctl,        \* replies and NOTIFYs in flight, a FIFO (flow ECMP: one path)
  agingAt,    \* when the aging event of each ToR fires next
  sent,       \* history: data packets the host has sent so far
  lost,       \* history: sequence numbers the network has dropped
  delivered   \* history: sequence numbers in the order the host gets them

txVars  == <<tx, pathTable, sent>>
rxVars  == <<rx, voq, delivered>>
netVars == <<net, ctl, lost>>
vars    == <<now, txVars, rxVars, netVars, agingAt>>

-----------------------------------------------------------------------------
(* Entries as operator[] of the tables creates them.  An entry that aging  *)
(* has erased is this one: the next access creates it again.               *)

\* struct conweaveTxState
FreshTx == [known |-> FALSE, stabilized |-> TRUE, activeTime |-> 0,
            replyTimer |-> 0, epoch |-> 0, phase |-> 0, pathId |-> NoPath,
            tailTime |-> 0]

\* struct conweaveRxState
FreshRx == [known |-> FALSE, activeTime |-> 0, epoch |-> 1, phase |-> 0,
            phase0TxTime |-> 0, phase0RxTime |-> 0, phase0Cache |-> FALSE,
            tailTime |-> 0, reordering |-> FALSE]

\* no entry in m_voqMap
NoVoq == [exists |-> FALSE, flushAt |-> 0, tailFrom |-> NoPath, fifo |-> <<>>]

\* struct conweavePathInfo
FreshPathInfo == [path |-> NoPath, invalidTime |-> 0]

Slot == {SlotOf[p] : p \in Path}

TxState == [known : BOOLEAN, stabilized : BOOLEAN, activeTime : Nat,
            replyTimer : Nat, epoch : Nat, phase : {0, 1},
            pathId : Path \union {NoPath}, tailTime : Nat]
RxState == [known : BOOLEAN, activeTime : Nat, epoch : Nat, phase : {0, 1},
            phase0TxTime : Nat, phase0RxTime : Nat, phase0Cache : BOOLEAN,
            tailTime : Nat, reordering : BOOLEAN]
\* `tailFrom`: the path of the TAIL that has just set the flush off, if one has
Voq     == [exists : BOOLEAN, flushAt : Nat, tailFrom : Path \union {NoPath},
            fifo : Seq(Nat)]

\* ConWeaveDataTag, and the packet's place in the host's stream
DataPkt == [seq : Nat, epoch : Nat, phase : {0, 1},
            flag : {"DATA", "INIT", "TAIL"}, txTime : Nat, tailTime : Nat]

\* ConWeaveReplyTag and ConWeaveNotifyTag
CtlPkt == [kind : {"INIT", "TAIL"}, epoch : Nat, phase : {0, 1}, sentAt : Nat]
            \union [kind : {"NOTIFY"}, path : Path, sentAt : Nat]

TypeOK ==
  /\ now \in Nat
  /\ tx \in TxState
  /\ pathTable \in [Slot -> [path : Path \union {NoPath}, invalidTime : Nat]]
  /\ rx \in RxState
  /\ voq \in Voq
  /\ net \in [Path -> Seq(DataPkt)]
  /\ ctl \in Seq(CtlPkt)
  /\ agingAt \in [{"tx", "rx"} -> Nat]
  /\ sent \in Nat
  /\ lost \in SUBSET Nat
  /\ delivered \in Seq(Nat)

\* The hosts start their flows seconds into the simulation, later than the
\* expiry time; each ToR's aging timer has been started by earlier traffic.
StartTime == TxExpiryTime + 1

Init ==
  /\ now = StartTime
  /\ tx = FreshTx
  /\ pathTable = [s \in Slot |-> FreshPathInfo]
  /\ rx = FreshRx
  /\ voq = NoVoq
  /\ net = [p \in Path |-> <<>>]
  /\ ctl = <<>>
  /\ \E o \in AgingOffsets : agingAt = [sw \in {"tx", "rx"} |-> StartTime + o[sw]]
  /\ sent = 0
  /\ lost = {}
  /\ delivered = <<>>

-----------------------------------------------------------------------------
(* Source ToR, data packet from the host.                                  *)

\* The entry's last packet is longer ago than the flowlet gap.
Expired == tx.activeTime + TxExpiryTime < now

\* Nobody answered the INIT of the current epoch in time.
ReplyTimeout == tx.replyTimer < now

\* A NOTIFY has marked the path, and the mark is still in force.
Invalid(p) == LET e == pathTable[SlotOf[p]]
              IN  e.path = p /\ e.invalidTime > now

\* What sampling two random paths may come to: a good one, or none found.
PathChoice == [found : {TRUE},  path : {p \in Path : ~Invalid(p)}]
                \union
              [found : {FALSE}, path : {p \in Path :  Invalid(p)}]

\* The tagged packet leaves on its path.
Forward(path, flag, epoch, phase, tailTime) ==
  /\ sent < MaxPkts /\ now <= LastSend
  /\ sent' = sent + 1
  /\ net' = [net EXCEPT ![path] =
               Append(@, [seq |-> sent + 1, epoch |-> epoch, phase |-> phase,
                          flag |-> flag, txTime |-> now, tailTime |-> tailTime])]
  /\ UNCHANGED <<now, pathTable, rxVars, ctl, lost, agingAt>>

\* First packet of the flow, or first after the flowlet gap: new epoch, new path.
TxExpired ==
  /\ Expired
  /\ \E c \in PathChoice :
       LET path == IF c.found \/ tx.pathId = NoPath THEN c.path ELSE tx.pathId
       IN /\ tx' = [tx EXCEPT !.known = TRUE, !.stabilized = FALSE,
                              !.activeTime = now,
                              !.replyTimer = now + BaseRTT + ExtraReplyDeadline,
                              !.epoch = @ + 1, !.phase = 0, !.pathId = path,
                              !.tailTime = 0]
          /\ Forward(path, "INIT", tx.epoch + 1, 0, 0)

\* The last INIT or TAIL has been answered: new epoch on the same path.
TxStabilized ==
  /\ ~Expired /\ tx.stabilized
  /\ tx' = [tx EXCEPT !.stabilized = FALSE, !.activeTime = now,
                      !.replyTimer = now + BaseRTT + ExtraReplyDeadline,
                      !.epoch = @ + 1, !.phase = 0, !.tailTime = 0]
  /\ Forward(tx.pathId, "INIT", tx.epoch + 1, 0, 0)

\* The INIT was not answered in time: this packet is the TAIL of the old path,
\* the next ones take the new path if a good one was found.
TxReplyTimeout ==
  /\ ~Expired /\ ~tx.stabilized /\ ReplyTimeout
  /\ \E c \in PathChoice :
       tx' = [tx EXCEPT !.activeTime = now, !.replyTimer = CW_MAX_TIME,
                        !.phase = 1, !.tailTime = now,
                        !.pathId = IF c.found THEN c.path ELSE @]
  /\ Forward(tx.pathId, "TAIL", tx.epoch, 0, now)

TxUsual ==
  /\ ~Expired /\ ~tx.stabilized /\ ~ReplyTimeout
  /\ tx' = [tx EXCEPT !.activeTime = now]
  /\ Forward(tx.pathId, "DATA", tx.epoch, tx.phase, tx.tailTime)

-----------------------------------------------------------------------------
(* Source ToR, control packet from the destination ToR.                    *)

CtlArrived == ctl # <<>> /\ Head(ctl).sentAt + CtlMinDelay <= now

\* The reply answers the entry's current epoch and phase.
ReplyMatches(r) == r.epoch = tx.epoch /\ r.phase = tx.phase

\* Mutants: any answer of the epoch counts before the reply timer; only an answer
\* before the deadline counts, whatever it answers.
ReplyCounts_AnyPhase(r) ==
  r.epoch = tx.epoch /\ (r.kind = "TAIL" \/ now < tx.replyTimer)
ReplyCounts_BeforeDeadline(r) ==
  ReplyMatches(r) /\ now < tx.replyTimer /\ tx.replyTimer # CW_MAX_TIME

\* An INIT reply counts only before the deadline; a TAIL reply always does.
ReplyCounts(r) ==
  /\ ReplyMatches(r)
  /\ \/ r.kind = "TAIL"
     \/ now < tx.replyTimer /\ tx.replyTimer # CW_MAX_TIME

TxReply ==
  /\ CtlArrived /\ Head(ctl).kind # "NOTIFY"
  /\ tx' = IF ReplyCounts(Head(ctl))
           THEN [tx EXCEPT !.stabilized = TRUE, !.replyTimer = CW_MAX_TIME]
           ELSE tx
  /\ ctl' = Tail(ctl)
  /\ UNCHANGED <<now, pathTable, sent, rxVars, net, lost, agingAt>>

TxNotify ==
  /\ CtlArrived /\ Head(ctl).kind = "NOTIFY"
  /\ pathTable' = [pathTable EXCEPT ![SlotOf[Head(ctl).path]] =
                     [path |-> Head(ctl).path, invalidTime |-> now + PathPauseTime]]
  /\ ctl' = Tail(ctl)
  /\ UNCHANGED <<now, tx, sent, rxVars, net, lost, agingAt>>

-----------------------------------------------------------------------------
(* Destination ToR, data packet from the network.                          *)

\* A TAIL has the VOQ flushed after 1 ns, less than a unit of time and less than the
\* transmission of a packet: what follows the TAIL on its path comes after the flush.
Arrived(p) ==
  /\ net[p] # <<>> /\ Head(net[p]).txTime + MinDelay[p] <= now
  /\ voq.tailFrom # p

NewEpoch(pkt)  == rx.epoch < pkt.epoch

\* Mutant: off by one.
PrevEpoch_OrCurrent(pkt) == rx.epoch >= pkt.epoch
PrevEpoch(pkt) == rx.epoch > pkt.epoch

\* Mutants: a TAIL sets the phase even while a VOQ waits; a TAIL advances it.
PhaseAfter_Eager(pkt) ==
  IF pkt.flag = "TAIL" THEN 1 ELSE IF NewEpoch(pkt) THEN 0 ELSE rx.phase
PhaseAfter_Advance(pkt) ==
  IF NewEpoch(pkt) THEN 0 ELSE IF pkt.flag = "TAIL" THEN rx.phase + 1 ELSE rx.phase

\* The phase a packet leaves in the entry: a TAIL ends phase 0, but while a VOQ
\* is waiting the phase is left for the flush to set.
PhaseAfter(pkt) ==
  IF NewEpoch(pkt) THEN IF pkt.flag = "TAIL" THEN 1 ELSE 0
  ELSE IF pkt.flag = "TAIL" /\ ~rx.reordering THEN 1 ELSE rx.phase

\* The entry after a packet of the current or of a new epoch.
RxAfter(pkt) ==
  [rx EXCEPT
     !.known = TRUE, !.activeTime = now, !.epoch = pkt.epoch,
     !.phase = PhaseAfter(pkt),
     !.phase0TxTime = IF pkt.phase = 0 THEN pkt.txTime ELSE @,
     !.phase0RxTime = IF pkt.phase = 0 THEN now ELSE @,
     !.phase0Cache  = pkt.phase = 0 \/ (@ /\ ~NewEpoch(pkt)),
     !.tailTime = IF pkt.flag = "TAIL" \/ pkt.phase = 1 THEN pkt.tailTime ELSE @]

OutOfOrder(pkt) == pkt.phase > PhaseAfter(pkt)

\* Time from the last packet of the old path to its TAIL, as the source saw it.
TxTimegap(r) ==
  IF ~r.phase0Cache THEN DefaultVOQWaitingTime
  ELSE IF r.tailTime > r.phase0TxTime THEN r.tailTime - r.phase0TxTime
  ELSE 0

\* Mutants: no allowance for jitter; counted from the packet that opens the VOQ;
\* no time-out, the VOQ waits for its TAIL.
FlushOfNewVoq_NoExtra(r) ==
  LET t == (IF r.phase0Cache THEN r.phase0RxTime ELSE now) + TxTimegap(r)
  IN  IF t > now THEN t ELSE now
FlushOfNewVoq_FromNow(r) == now + TxTimegap(r) + ExtraVOQFlushTime
FlushOfNewVoq_Never(r) == CW_MAX_TIME

\* When a VOQ opened by an out-of-order packet is flushed, TAIL or no TAIL.
FlushOfNewVoq(r) ==
  LET t == (IF r.phase0Cache THEN r.phase0RxTime ELSE now)
             + TxTimegap(r) + ExtraVOQFlushTime
  IN  IF t > now THEN t ELSE now

\* When a waiting VOQ is flushed, after a packet of the old path.
FlushAfterPhase0(r, pkt) ==
  IF pkt.flag = "TAIL" THEN now
  ELSE now + TxTimegap(r) + ExtraVOQFlushTime

\* NOTIFY if the packet is ECN-marked, then the reply the packet asks for.
Answers(p, pkt, ecn) ==
  (IF ecn THEN <<[kind |-> "NOTIFY", path |-> p, sentAt |-> now]>> ELSE <<>>)
    \o
  (CASE pkt.flag = "INIT" ->
          <<[kind |-> "INIT", epoch |-> pkt.epoch, phase |-> 0, sentAt |-> now]>>
     [] pkt.flag = "TAIL" ->
          <<[kind |-> "TAIL", epoch |-> pkt.epoch, phase |-> 1, sentAt |-> now]>>
     [] OTHER -> <<>>)

\* Mutant: a flush releases one packet and deletes the queue.
ToHost_First(seqs) == delivered' = Append(delivered, Head(seqs))

\* Packets the filter passes on reach the host at once.
ToHost(seqs) == delivered' = delivered \o seqs

RxPrevEpoch(p) ==
  /\ Arrived(p) /\ PrevEpoch(Head(net[p]))
  /\ rx' = [rx EXCEPT !.known = TRUE, !.activeTime = now]
  /\ ToHost(<<Head(net[p]).seq>>)
  /\ net' = [net EXCEPT ![p] = Tail(@)]
  /\ UNCHANGED <<now, txVars, voq, ctl, lost, agingAt>>

\* A packet of the old path: pass it on, and move the waiting VOQ's deadline.
RxPhase0(p) ==
  LET pkt == Head(net[p])
      r   == RxAfter(pkt)
  IN /\ Arrived(p) /\ ~PrevEpoch(pkt) /\ pkt.phase = 0
     /\ rx' = r
     /\ voq' = IF rx.reordering
               THEN [voq EXCEPT !.flushAt = FlushAfterPhase0(r, pkt),
                                !.tailFrom = IF pkt.flag = "TAIL" THEN p ELSE NoPath]
               ELSE voq
     /\ \E ecn \in EcnMarks : ctl' = ctl \o Answers(p, pkt, ecn)
     /\ ToHost(<<pkt.seq>>)
     /\ net' = [net EXCEPT ![p] = Tail(@)]
     /\ UNCHANGED <<now, txVars, lost, agingAt>>

\* A packet of the new path after the TAIL: pass it on.
RxPhase1InOrder(p) ==
  LET pkt == Head(net[p])
  IN /\ Arrived(p) /\ ~PrevEpoch(pkt) /\ pkt.phase = 1 /\ ~OutOfOrder(pkt)
     /\ rx' = RxAfter(pkt)
     /\ \E ecn \in EcnMarks : ctl' = ctl \o Answers(p, pkt, ecn)
     /\ ToHost(<<pkt.seq>>)
     /\ net' = [net EXCEPT ![p] = Tail(@)]
     /\ UNCHANGED <<now, txVars, voq, lost, agingAt>>

\* A packet of the new path before the TAIL: hold it in the VOQ.
RxPhase1OutOfOrder(p) ==
  LET pkt == Head(net[p])
      r   == RxAfter(pkt)
  IN /\ Arrived(p) /\ ~PrevEpoch(pkt) /\ pkt.phase = 1 /\ OutOfOrder(pkt)
     /\ rx' = [r EXCEPT !.reordering = TRUE]
     /\ voq' = [exists   |-> TRUE,
                flushAt  |-> IF rx.reordering THEN voq.flushAt ELSE FlushOfNewVoq(r),
                tailFrom |-> voq.tailFrom,
                fifo     |-> Append(voq.fifo, pkt.seq)]
     /\ \E ecn \in EcnMarks : ctl' = ctl \o Answers(p, pkt, ecn)
     /\ net' = [net EXCEPT ![p] = Tail(@)]
     /\ UNCHANGED <<now, txVars, delivered, lost, agingAt>>

\* ConWeaveVOQ::EnforceFlushAll: the flush event fires.
VoqFlush ==
  /\ voq.exists /\ voq.flushAt = now
  /\ rx' = [rx EXCEPT !.reordering = FALSE, !.phase = 1]
  /\ ToHost(voq.fifo)
  /\ voq' = NoVoq
  /\ UNCHANGED <<now, txVars, netVars, agingAt>>

-----------------------------------------------------------------------------
(* Aging, the network and the clock.                                       *)

\* Mutant: any entry not used at this instant is erased.
Stale_AtOnce(entry) == entry.activeTime < now

Stale(entry) == now - entry.activeTime > AgingTime

AgingEventTx ==
  /\ agingAt["tx"] = now
  /\ tx' = IF Stale(tx) THEN FreshTx ELSE tx
  /\ agingAt' = [agingAt EXCEPT !["tx"] = now + AgingTime]
  /\ UNCHANGED <<now, pathTable, sent, rxVars, netVars>>

AgingEventRx ==
  /\ agingAt["rx"] = now
  /\ rx' = IF Stale(rx) THEN FreshRx ELSE rx
  /\ agingAt' = [agingAt EXCEPT !["rx"] = now + AgingTime]
  /\ UNCHANGED <<now, txVars, voq, delivered, netVars>>

\* A switch's admission control drops a data packet on its way.
Drop(p) ==
  /\ net[p] # <<>> /\ Cardinality(lost) < MaxLoss
  /\ lost' = lost \union {Head(net[p]).seq}
  /\ net' = [net EXCEPT ![p] = Tail(@)]
  /\ UNCHANGED <<now, txVars, rxVars, ctl, agingAt>>

\* Something must happen at this very instant.
Due ==
  \/ voq.exists /\ voq.flushAt = now
  \/ \E sw \in {"tx", "rx"} : agingAt[sw] = now
  \/ \E p \in Path : net[p] # <<>> /\ Head(net[p]).txTime + MaxDelay[p] = now
  \/ ctl # <<>> /\ Head(ctl).sentAt + CtlMaxDelay = now

Tick ==
  /\ now < StopTime /\ ~Due
  /\ now' = now + 1
  /\ UNCHANGED <<txVars, rxVars, netVars, agingAt>>

\* The simulation is over.
Stop == now = StopTime /\ ~Due /\ UNCHANGED vars

TxData == TxExpired \/ TxStabilized \/ TxReplyTimeout \/ TxUsual
RxData == \E p \in Path : \/ RxPrevEpoch(p) \/ RxPhase0(p)
                          \/ RxPhase1InOrder(p) \/ RxPhase1OutOfOrder(p)

Next == \/ TxData \/ TxReply \/ TxNotify
        \/ RxData \/ VoqFlush
        \/ AgingEventTx \/ AgingEventRx
        \/ \E p \in Path : Drop(p)
        \/ Tick \/ Stop

Spec == Init /\ [][Next]_vars

\* The simulator runs events as long as there are any; the hosts need not send
\* and the network need not drop.
SimulatorStep == \/ TxReply \/ TxNotify \/ RxData \/ VoqFlush
                 \/ AgingEventTx \/ AgingEventRx \/ Tick

FairSpec == Spec /\ WF_vars(SimulatorStep)

-----------------------------------------------------------------------------
(* Properties.                                                             *)

\* The three records of "packets of this flow are being held" agree: the Rx
\* entry's _reordering flag, the VOQ in m_voqMap, and what the VOQ contains; a
\* held packet always has a flush event still to come, and aging never erases
\* the Rx entry of a flow with a VOQ (CallbackByVOQFlush asserts on both).
ReorderingIffVoq ==
  /\ rx.reordering <=> voq.exists
  /\ voq.exists <=> voq.fifo # <<>>
  /\ voq.exists => rx.known /\ voq.flushAt >= now

\* A prediction from stale or mixed-up timestamps (a TAIL time of one epoch, a
\* phase-0 time of another) never holds packets longer than a network delay or
\* the default waiting time would.
VoqWaitBounded == voq.exists => voq.flushAt <= rx.activeTime + MaxVoqWait

\* The assertions of RouteInput, and its exit(1), for the packet each end would
\* process next.
TxAssertions ==
  /\ ~Expired => tx.known /\ tx.pathId # NoPath
  /\ ~Expired /\ ~tx.stabilized /\ ReplyTimeout => tx.phase = 0

RxAssertions ==
  \A p \in Path : Arrived(p) /\ ~PrevEpoch(Head(net[p])) =>
    LET pkt == Head(net[p])
        r   == RxAfter(pkt)
    IN /\ NewEpoch(pkt) => (rx.reordering <=> voq.exists)
       /\ pkt.phase = 0 => (rx.reordering => voq.exists)
       /\ pkt.phase = 1 /\ ~OutOfOrder(pkt) => ~rx.reordering /\ ~voq.exists
       /\ (pkt.phase = 1 \/ pkt.flag = "TAIL") /\ r.phase0Cache
            => r.tailTime >= r.phase0TxTime

AssertionsHold == TxAssertions /\ RxAssertions

\* Every packet the source ToR forwarded is in exactly one place: in flight, in
\* the VOQ, delivered or dropped; none is delivered twice or stays behind when
\* a VOQ is flushed and deleted.
ExactlyOnce ==
  LET Flying(p) == {net[p][i].seq : i \in DOMAIN net[p]}
      Held      == {voq.fifo[i] : i \in DOMAIN voq.fifo}
      Got       == {delivered[i] : i \in DOMAIN delivered}
  IN /\ (UNION {Flying(p) : p \in Path}) \union Held \union Got \union lost = 1 .. sent
     /\ \A p \in Path :
          /\ \A r \in Path \ {p} : Flying(p) \intersect Flying(r) = {}
          /\ Flying(p) \intersect (Held \union Got \union lost) = {}
          /\ Cardinality(Flying(p)) = Len(net[p])
     /\ Held \intersect (Got \union lost) = {}
     /\ Got \intersect lost = {}
     /\ Cardinality(Held) = Len(voq.fifo)
     /\ Cardinality(Got) = Len(delivered)

\* "FILTER: if previous epoch, just pass to destination": a packet is filtered
\* as of a previous epoch only if it was sent before some packet that the
\* destination ToR has already seen.
PrevEpochIsPast ==
  \A p \in Path : Arrived(p) /\ PrevEpoch(Head(net[p])) =>
    \E s \in {delivered[i] : i \in DOMAIN delivered}
               \union {voq.fifo[i] : i \in DOMAIN voq.fifo} :
      Head(net[p]).seq < s

\* When an answer has made the flow ready for its next epoch, everything of the
\* flow that is still in flight is on the path it is going to stay on: "out-of-
\* order issue is resolved for this flowcut", so the next reroute races with
\* packets of one old path only.
SettledOnOnePath ==
  tx.known /\ tx.stabilized => \A p \in Path \ {tx.pathId} : net[p] = <<>>

\* The destination ToR never starts a new epoch while it still holds packets of
\* an older one (the "too aggressively" warning of RouteInput never prints).
NoEpochWhileReordering ==
  \A p \in Path : Arrived(p) /\ NewEpoch(Head(net[p])) => ~voq.exists

\* The host sees an ordered channel.
OC == INSTANCE OrderedChannel
        WITH MaxPkts <- MaxPkts, sent <- sent, lost <- lost, delivered <- delivered
OrderedDelivery == OC!Spec

\* Every packet sent is delivered, unless the network drops it: no VOQ holds a
\* packet for ever, even if its TAIL never comes.
EventuallyDelivered ==
  \A s \in 1 .. MaxPkts :
    s <= sent ~> \/ s \in lost
                 \/ \E i \in DOMAIN delivered : delivered[i] = s

\* A flow that has been rerouted may be rerouted again: it gets the CLEAR of its TAIL,
\* whatever else is dropped, late or aged out.  Only if that very TAIL is dropped or
\* the destination is ahead of the source's epochs (its filter sends no answer) does
\* the flow have to wait for the flowlet gap.
RerouteSettles ==
  \A s \in 1 .. MaxPkts :
    (\E p \in Path : \E n \in DOMAIN net[p] : net[p][n].seq = s /\ net[p][n].flag = "TAIL")
      ~> \/ tx.phase = 0 \/ tx.stabilized
         \/ Expired /\ (s \in lost \/ rx.epoch > tx.epoch)

=============================================================================

------------------------------- MODULE RdmaQp --------------------------------
(***************************************************************************)
(* One RDMA queue pair: its sender and its receiver in the NICs of two     *)
(* hosts (rdma-hw.cc, rdma-queue-pair.cc and the part of qbb-net-device.cc *)
(* that asks the queue pair for packets), joined by a network that may     *)
(* lose and reorder packets and acknowledgements.                          *)
(*                                                                         *)
(* A sequence number counts packets of one MTU; the list of SACK blocks is *)
(* the set of sequence numbers that it covers.  Time-outs fire at any      *)
(* moment that they are pending.  Congestion control is only whether the   *)
(* timers of DCQCN run, and PFC pausing a delay of the scheduler.  The     *)
(* attributes L2BackToZero and RateBound keep the values run.py gives      *)
(* them, and sequence numbers stay below 2^32.                             *)
(***************************************************************************)
EXTENDS Integers, Sequences, FiniteSets, Functions

CONSTANTS
  WqeEnd,       \* cumulative_end_seq of each WQE, in the order they are posted
  Irn,          \* values of m_irn: selective repeat, or go-back-N
  Persistent,   \* values of m_persistent
  QbbEnabled,   \* PFC: IRN retransmits nothing on a time-out
  Win,          \* m_win, 0 for no window
  Bdp,          \* irn.m_bdp
  AckInterval,  \* m_ack_interval
  Chunk,        \* m_chunk
  Ecn,          \* values of the ECN bit a packet arrives with
  MaxData,      \* bound: packets in flight
  MaxAcks,      \* bound: acknowledgements in flight
  MaxLoss       \* bound: drops of the network

Total == WqeEnd[Len(WqeEnd)]
SeqNo == 0 .. Total - 1

ASSUME QpAssumption ==
  /\ WqeEnd \in Seq(Nat \ {0}) /\ WqeEnd # <<>>
  /\ \A j, k \in 1 .. Len(WqeEnd) : j < k => WqeEnd[j] < WqeEnd[k]
  /\ Irn \subseteq BOOLEAN /\ Persistent \subseteq BOOLEAN /\ Ecn \subseteq BOOLEAN
  /\ QbbEnabled \in BOOLEAN
  /\ {Win, AckInterval, MaxData, MaxAcks, MaxLoss} \subseteq Nat
  /\ {Bdp, Chunk} \subseteq Nat \ {0}

VARIABLES
  qp,       \* RdmaQueuePair of the sender
  rx,       \* RdmaRxQueuePair of the receiver
  data,     \* packets in flight, by sequence number
  acks,     \* ACKs and NACKs in flight
  losses,   \* packets and acknowledgements lost
  arrived   \* history: sequence numbers that have reached the receiver

vars == <<qp, rx, data, acks, losses, arrived>>

\* `sel`: the packet that triggered a NACK (irnNack), NoSel in an ACK.
NoSel == Total
Ack   == [seq : 0 .. Total, sel : 0 .. Total, cnp : BOOLEAN]

QpType ==
  [irn : BOOLEAN, persistent : BOOLEAN,
   state : {"none", "active", "complete"},  \* in m_qpMap, then in akashic_Qp
   posted : 0 .. Len(WqeEnd), completed : 0 .. Len(WqeEnd), sealed : BOOLEAN,
   nxt : 0 .. Total, una : 0 .. Total,      \* snd_nxt, snd_una
   timer : BOOLEAN,                         \* is m_retransmit running?
   finishedBit : BOOLEAN,                   \* its bit in m_qp_finished
   mlx : {"initial", "adjusting", "cancelled"},  \* m_first_cnp, the DCQCN timers
   sack : SUBSET SeqNo, highestAck : 0 .. Total, maxSeq : 0 .. Total,
   recovery : BOOLEAN, recoverySeq : 0 .. Total]

RxType ==
  [exists : BOOLEAN, deleted : BOOLEAN,     \* in m_rxQpMap, in akashic_RxQp
   expected : 0 .. Total, sack : SUBSET SeqNo,
   nackTimer : BOOLEAN,                     \* is m_nackTimer in the future?
   lastNACK : 0 .. Total]

TypeOK ==
  /\ qp \in QpType
  /\ rx \in RxType
  /\ data \in [SeqNo -> Nat]
  /\ acks \in [Ack -> Nat]
  /\ losses \in 0 .. MaxLoss
  /\ arrived \subseteq SeqNo

-----------------------------------------------------------------------------
(* SACK blocks (IrnSackManager).                                           *)

\* The block that starts at n ends before this number.
BlockEnd(S, n) == CHOOSE m \in n .. Total : m \notin S /\ n .. m - 1 \subseteq S

\* Mutant: a block is never at the front.
IsFront_Strict(S, n) == n \in S /\ \A m \in S : n < m

IsFront(S, n) == n \in S /\ \A m \in S : n <= m

DiscardUpTo(S, n) == {m \in S : m >= n}

-----------------------------------------------------------------------------
(* The sender's queue pair.                                                *)

Size(q) == IF q.posted = 0 THEN 0 ELSE WqeEnd[q.posted]

\* GetBytesLeft and IsFinished: the next packet to send is not one that the front
\* block covers; the block is forgotten.
SkipFront(q) ==
  IF q.irn /\ IsFront(q.sack, q.nxt)
  THEN [q EXCEPT !.nxt = BlockEnd(q.sack, q.nxt),
                 !.sack = DiscardUpTo(@, BlockEnd(q.sack, q.nxt))]
  ELSE q

IsFinished(q) == q.una >= Size(q)

\* For a persistent queue pair, all that has been posted is complete.
IsPersistentIdle(q) == q.completed = q.posted /\ IsFinished(q)

\* GetIrnBytesInFlight is unsigned: beyond maxSeq nothing seems to fit.
CanIrnTransmit(q) ==
  \/ ~q.irn
  \/ q.maxSeq >= q.highestAck
       /\ q.maxSeq - q.highestAck + (IF q.nxt < Size(q) THEN 1 ELSE 0) < Bdp
  \/ q.highestAck + Bdp > q.nxt

WindowAllowed(q) == (Win = 0 \/ q.nxt - q.una < Win) /\ CanIrnTransmit(q)

\* Mutant: one packet too far back.
RecoverQueue_Before(q) == [q EXCEPT !.nxt = q.una - 1]

RecoverQueue(q) == [q EXCEPT !.nxt = q.una]

QpComplete(q) ==
  [q EXCEPT !.state = "complete", !.timer = FALSE,
            !.mlx = IF @ = "adjusting" THEN "cancelled" ELSE @]

\* The completion callback deletes the receiver's queue pair at once.
DeleteRxQp(r) ==
  [exists |-> FALSE, deleted |-> TRUE, expected |-> 0, sack |-> {},
   nackTimer |-> FALSE, lastNACK |-> 0]

\* A queue pair torn down by a step takes the receiver's with it.
Install(q) ==
  /\ qp' = q
  /\ rx' = IF q.state = "complete" /\ qp.state # "complete" THEN DeleteRxQp(rx) ELSE rx

-----------------------------------------------------------------------------
\* Nothing initialises m_recovery_seq, which is read if a time-out comes before the
\* first NACK: it may be reached at once, or never.
Init ==
  /\ qp \in [irn : Irn, persistent : Persistent, state : {"none"},
             posted : {0}, completed : {0}, sealed : {FALSE},
             nxt : {0}, una : {0}, timer : {FALSE}, finishedBit : {FALSE},
             mlx : {"initial"}, sack : {{}}, highestAck : {0}, maxSeq : {0},
             recovery : {FALSE}, recoverySeq : {0, Total}]
  /\ ~qp.irn => qp.recoverySeq = 0
  /\ rx = [exists |-> FALSE, deleted |-> FALSE, expected |-> 0, sack |-> {},
           nackTimer |-> FALSE, lastNACK |-> 0]
  /\ data = [s \in SeqNo |-> 0]
  /\ acks = [a \in Ack |-> 0]
  /\ losses = 0
  /\ arrived = {}

\* A legacy queue pair is created with all of its data.
AddQueuePair ==
  /\ ~qp.persistent
  /\ qp.state = "none"
  /\ qp' = [qp EXCEPT !.state = "active", !.posted = Len(WqeEnd)]
  /\ UNCHANGED <<rx, data, acks, losses, arrived>>

\* Mutant: the queue pair stays marked as finished.
AppendPersistentWqe_StillFinished ==
  /\ qp.persistent
  /\ qp.state \in {"none", "active"}
  /\ ~qp.sealed
  /\ qp.posted < Len(WqeEnd)
  /\ qp' = [qp EXCEPT !.state = "active", !.posted = @ + 1]
  /\ UNCHANGED <<rx, data, acks, losses, arrived>>

\* A persistent one is created by its first WQE, and woken up by a later one.
AppendPersistentWqe ==
  /\ qp.persistent
  /\ qp.state \in {"none", "active"}
  /\ ~qp.sealed
  /\ qp.posted < Len(WqeEnd)
  /\ qp' = [qp EXCEPT !.state = "active", !.posted = @ + 1, !.finishedBit = FALSE]
  /\ UNCHANGED <<rx, data, acks, losses, arrived>>

\* The traffic scheduler seals when the last WQE has been posted.
SealPersistentQueuePair ==
  /\ qp.persistent
  /\ qp.state = "active"
  /\ ~qp.sealed
  /\ qp.posted = Len(WqeEnd)
  /\ LET q == [qp EXCEPT !.sealed = TRUE]
     IN  Install(IF IsPersistentIdle(q) THEN QpComplete(q) ELSE q)
  /\ UNCHANGED <<data, acks, losses, arrived>>

\* DequeueAndTransmit finds the queue pair ready: GetNxtPacket and PktSent.  A
\* queue pair torn down stays in the NIC's group.
DequeueAndTransmit ==
  LET q == SkipFront(qp)
  IN /\ qp.state # "none"
     /\ ~qp.finishedBit
     /\ WindowAllowed(qp)
     /\ q.nxt < Size(q)
     /\ SumFunction(data) < MaxData
     /\ qp' = [q EXCEPT !.nxt = @ + 1, !.timer = TRUE,
                        !.maxSeq = IF q.irn /\ @ < q.nxt THEN q.nxt ELSE @]
     /\ data' = [data EXCEPT ![q.nxt] = @ + 1]
     /\ UNCHANGED <<rx, acks, losses, arrived>>

\* ... or passes over it, because it is not ready, or paused, or not available yet: the
\* pointer has moved past the front block all the same.  Only what has nothing left to
\* send is marked as finished.
SkippedByScan ==
  LET q == SkipFront(qp)
  IN /\ qp.state # "none"
     /\ ~qp.finishedBit
     /\ qp' = [q EXCEPT !.finishedBit = IsFinished(q)]
     /\ UNCHANGED <<rx, data, acks, losses, arrived>>

-----------------------------------------------------------------------------
(* The receiver.                                                           *)

\* GetRxQp(create = true): a new one starts like the first.
RxQp == [rx EXCEPT !.exists = TRUE]

\* Mutant: a packet beyond a hole is taken for the next one.
IsInOrder_Any(r, s) == s >= r.expected - 1

\* The next packet, or the last one again.
IsInOrder(r, s) == s \in {r.expected, r.expected - 1}

\* Mutant: the block stays where it is.
Advance_NoBlock(r, s) == [r EXCEPT !.expected = s + 1, !.sack = DiscardUpTo(@, s + 1)]

\* In-order data moves past the front SACK block that it reaches.
Advance(r, s) ==
  LET n == s + 1
      e == IF IsFront(r.sack, n) THEN BlockEnd(r.sack, n) ELSE n
  IN  [r EXCEPT !.expected = e, !.sack = DiscardUpTo(@, e)]

\* A packet beyond a hole: IRN keeps it, go-back-N forgets it.
Beyond(r, s) ==
  IF qp.irn THEN [r EXCEPT !.nackTimer = TRUE, !.sack = @ \union {s}]
  ELSE [r EXCEPT !.nackTimer = TRUE, !.lastNACK = r.expected]

\* Does the NACK of a packet beyond a hole wait for the timer?
SkipNack(r, s) ==
  r.nackTimer /\ IF qp.irn THEN s \in r.sack ELSE r.lastNACK = r.expected

\* ReceiverCheckSeq: the receiver afterwards, and "ACK", "NACK" or nothing.
ReceiverCheckSeq(r, s) ==
  CASE IsInOrder(r, s) ->
         LET n == IF qp.irn THEN Advance(r, s) ELSE [r EXCEPT !.expected = s + 1]
         IN [rx |-> n,
             reply |-> CASE qp.irn -> IF n.sack = {} THEN "ACK" ELSE "NACK"
                         [] ~qp.irn /\ (n.expected >= AckInterval \/ n.expected % Chunk = 0)
                              -> "ACK"
                         [] OTHER -> "nothing"]
    [] s > r.expected /\ SkipNack(r, s) -> [rx |-> r, reply |-> "nothing"]
    [] s > r.expected /\ ~SkipNack(r, s) -> [rx |-> Beyond(r, s), reply |-> "NACK"]
    [] OTHER -> [rx |-> r, reply |-> IF qp.irn /\ r.sack # {} THEN "NACK" ELSE "ACK"]

\* A reordered packet counts as congestion, like an ECN mark.  What triggered a NACK
\* matters to IRN only.
Reply(r, s, ecn) ==
  LET c == ReceiverCheckSeq(r, s)
  IN [seq |-> c.rx.expected,
      sel |-> CASE c.reply = "ACK" -> NoSel
                [] c.reply # "ACK" /\ qp.irn -> s
                [] OTHER -> 0,
      cnp |-> ecn \/ (s > r.expected /\ c.reply = "NACK")]

ReceiveUdp(s, ecn) ==
  LET c == ReceiverCheckSeq(RxQp, s)
  IN /\ data[s] > 0
     /\ data' = [data EXCEPT ![s] = @ - 1]
     /\ rx' = c.rx
     /\ IF c.reply = "nothing" THEN UNCHANGED acks
        ELSE /\ SumFunction(acks) < MaxAcks
             /\ acks' = [acks EXCEPT ![Reply(RxQp, s, ecn)] = @ + 1]
     /\ arrived' = arrived \union {s}
     /\ UNCHANGED <<qp, losses>>

NackTimerExpires ==
  /\ rx.nackTimer
  /\ rx' = [rx EXCEPT !.nackTimer = FALSE]
  /\ UNCHANGED <<qp, data, acks, losses, arrived>>

-----------------------------------------------------------------------------
(* Acknowledgements.                                                       *)

MaxOf(m, n) == IF m > n THEN m ELSE n

Acknowledge(q, a) == [q EXCEPT !.una = MaxOf(@, a.seq)]

\* IRN: the SACK list takes what triggered a NACK; the front block may be next.
Sack(q, a) ==
  LET S == q.sack \union {s \in {a.sel} : s # NoSel}
      u == IF IsFront(S, q.una) THEN BlockEnd(S, q.una) ELSE q.una
  IN [q EXCEPT !.una = u, !.sack = DiscardUpTo(S, u),
               !.highestAck = MaxOf(@, a.seq),
               !.recovery = @ /\ u < q.recoverySeq]

\* Mutant: an acknowledgement may overtake the send pointer.
CatchUp_Never(q) == q

CatchUp(q) == [q EXCEPT !.nxt = MaxOf(@, q.una)]

\* Mutant: a WQE is complete when it has been sent.
CompletePersistentWqes_Sent(q) ==
  [q EXCEPT !.completed = Cardinality({k \in 1 .. q.posted : WqeEnd[k] <= q.nxt})]

CompletePersistentWqes(q) ==
  [q EXCEPT !.completed = Cardinality({k \in 1 .. q.posted : WqeEnd[k] <= q.una})]

\* A legacy queue pair completes here, before loss recovery and congestion control.
Complete(q) ==
  CASE q.persistent -> LET c == CompletePersistentWqes(q)
                       IN [c EXCEPT !.timer = @ /\ ~IsPersistentIdle(c)]
    [] ~q.persistent /\ IsFinished(q) -> QpComplete(SkipFront(q))
    [] OTHER -> SkipFront(q)

RestartTimer(q) ==
  LET p == SkipFront(q)
  IN [p EXCEPT !.timer = @ \/ (~IsFinished(p) /\ p.nxt > p.una)]

\* IRN goes back once per loss event, go-back-N at every NACK.
Recover(q, a) ==
  CASE q.irn /\ a.sel = NoSel -> [q EXCEPT !.recovery = FALSE]
    [] q.irn /\ a.sel # NoSel /\ ~q.recovery ->
         [RecoverQueue(q) EXCEPT !.recovery = TRUE, !.recoverySeq = q.nxt]
    [] ~q.irn /\ a.sel # NoSel -> RecoverQueue(q)
    [] OTHER -> q

\* The first CNP starts the timers that adapt the rate.
HandleCnp(q, a) ==
  IF a.cnp /\ q.mlx = "initial" THEN [q EXCEPT !.mlx = "adjusting"] ELSE q

\* A sealed queue pair with nothing left is torn down at the end of ReceiveAck.
TearDown(q) ==
  IF q.persistent /\ q.sealed /\ IsPersistentIdle(q) THEN QpComplete(q) ELSE q

\* Mutant: torn down before congestion control has seen the acknowledgement.
AfterAck_TearDownFirst(q, a) ==
  LET acked == IF q.irn THEN CatchUp(Sack(Acknowledge(q, a), a))
               ELSE CatchUp(Acknowledge(q, a))
  IN HandleCnp(Recover(TearDown(RestartTimer(Complete(acked))), a), a)

AfterAck(q, a) ==
  LET acked == IF q.irn THEN CatchUp(Sack(Acknowledge(q, a), a))
               ELSE CatchUp(Acknowledge(q, a))
  IN TearDown(HandleCnp(Recover(RestartTimer(Complete(acked)), a), a))

\* akashic_Qp: a queue pair torn down is deaf.
ReceiveAck(a) ==
  /\ acks[a] > 0
  /\ acks' = [acks EXCEPT ![a] = @ - 1]
  /\ Install(IF qp.state = "active" THEN AfterAck(qp, a) ELSE qp)
  /\ UNCHANGED <<data, losses, arrived>>

\* Mutant: the packets in flight are not given up.
HandleTimeout_Wait ==
  /\ qp.timer
  /\ qp' = [SkipFront(qp) EXCEPT !.timer = FALSE]
  /\ UNCHANGED <<rx, data, acks, losses, arrived>>

\* The time-out is not scheduled again: that takes a packet or an acknowledgement.
HandleTimeout ==
  LET q == [SkipFront(qp) EXCEPT !.timer = FALSE]
  IN /\ qp.timer
     /\ qp' = IF IsFinished(q) \/ (q.irn /\ QbbEnabled) THEN q
              ELSE [RecoverQueue(q) EXCEPT !.recovery = @ \/ q.irn]
     /\ UNCHANGED <<rx, data, acks, losses, arrived>>

-----------------------------------------------------------------------------
(* The network.                                                            *)

LoseData(s) ==
  /\ data[s] > 0
  /\ losses < MaxLoss
  /\ data' = [data EXCEPT ![s] = @ - 1]
  /\ losses' = losses + 1
  /\ UNCHANGED <<qp, rx, acks, arrived>>

LoseAck(a) ==
  /\ acks[a] > 0
  /\ losses < MaxLoss
  /\ acks' = [acks EXCEPT ![a] = @ - 1]
  /\ losses' = losses + 1
  /\ UNCHANGED <<qp, rx, data, arrived>>

Next ==
  \/ AddQueuePair
  \/ AppendPersistentWqe
  \/ SealPersistentQueuePair
  \/ DequeueAndTransmit
  \/ SkippedByScan
  \/ HandleTimeout
  \/ NackTimerExpires
  \/ \E s \in SeqNo : LoseData(s) \/ \E ecn \in Ecn : ReceiveUdp(s, ecn)
  \/ \E a \in Ack : ReceiveAck(a) \/ LoseAck(a)

Spec == Init /\ [][Next]_vars

\* ReceiveUdp and ReceiveAck as the network sees them: it delivers something.
DataArrives ==
  \E s \in SeqNo : data[s] > 0 /\ data' = [data EXCEPT ![s] = @ - 1] /\ UNCHANGED losses

AckArrives ==
  \E a \in Ack : acks[a] > 0 /\ acks' = [acks EXCEPT ![a] = @ - 1] /\ UNCHANGED losses

\* The simulator runs what it has scheduled: posted work, packets of the NIC, the
\* time-outs, and the arrival of something that the network has not dropped.
FairSpec ==
  /\ Spec
  /\ WF_vars(AddQueuePair \/ AppendPersistentWqe \/ SealPersistentQueuePair)
  /\ WF_vars(DequeueAndTransmit)
  /\ WF_vars(HandleTimeout)
  /\ WF_vars(NackTimerExpires)
  /\ WF_data(DataArrives)
  /\ WF_acks(AckArrives)

-----------------------------------------------------------------------------
(* Properties.                                                             *)

\* A persistent queue pair reports its WQEs one by one, a legacy one all at once.
RT == INSTANCE ReliableTransfer
        WITH WqeEnd <- WqeEnd, posted <- qp.posted, arrived <- arrived,
             completed <- CASE qp.persistent -> qp.completed
                            [] ~qp.persistent /\ qp.state = "complete" -> Len(WqeEnd)
                            [] OTHER -> 0,
             closed <- qp.state = "complete"

\* WQEs complete in order, never before their data has arrived, whatever is lost,
\* repeated or reordered, and the queue pair is torn down once, after the last.
ReliableDelivery == RT!Spec

\* The receiver expects what it has not got: no acknowledgement covers a hole.
NoHoleAcknowledged ==
  /\ 0 .. qp.una - 1 \subseteq arrived
  /\ \A a \in Ack : acks[a] > 0 => 0 .. a.seq - 1 \subseteq arrived
  /\ rx.exists /\ ~rx.deleted => 0 .. rx.expected - 1 \subseteq arrived

\* The packet that the sender has to repeat first is never one that it believes to
\* have been received: going back to it leaves something to send, which starts
\* the timer again.
UnaNeverSacked == qp.una \notin qp.sack

\* SACK blocks at the receiver lie beyond a hole (the assertion on discardUpTo), and
\* IRN keeps nothing it has not got.
SackBeyondHole ==
  \A s \in rx.sack : s > rx.expected /\ (s \in arrived \/ rx.deleted)

\* The assertions of GetOnTheFly and GetNxtPacket: the send pointer is between what
\* is acknowledged and what is posted, and what it points to has a WQE that is not
\* complete.
SendPointerWithinWqes ==
  /\ qp.una <= qp.nxt /\ qp.nxt <= Size(qp)
  /\ qp.persistent /\ qp.nxt < Size(qp) =>
       \E k \in qp.completed + 1 .. qp.posted : qp.nxt < WqeEnd[k]

\* "BDP Limit for IRN in Bytes": no packet is sent beyond one bandwidth-delay product
\* after the highest acknowledgement.
WithinBdp == qp.irn => qp.maxSeq < qp.highestAck + Bdp

\* While data is not acknowledged, the retransmission timer runs or the queue pair
\* is ready to send: losing everything in flight does not stop it.
NeverStuck ==
  qp.state = "active" /\ ~IsFinished(qp) =>
    \/ qp.timer
    \/ ~qp.finishedBit /\ WindowAllowed(qp) /\ SkipFront(qp).nxt < Size(qp)

\* "Teardown after all final-ACK CC processing so no timer is re-created after
\* QpComplete": true of persistent queue pairs; of legacy ones, the
\* retransmission timer does not run.
NoTimerAfterTeardown ==
  qp.state = "complete" => ~qp.timer /\ (qp.persistent => qp.mlx # "adjusting")

\* All that is posted completes and the queue pair is torn down.
EventuallyComplete == <>(qp.state = "complete")

=============================================================================

--------------------------- MODULE ConWeaveProofs ---------------------------
(***************************************************************************)
(* What TLAPS proves of ConWeave.tla for all paths, delays, time-outs and  *)
(* bounds that satisfy its assumptions.  The invariants are independent of *)
(* any agreement between the time-outs and the network's delays: they hold *)
(* even when the destination ToR gives the packets to the host in disorder.*)
(***************************************************************************)
EXTENDS ConWeave, FiniteSetTheorems, TLAPS

-----------------------------------------------------------------------------
\* The assumptions on times, one number at a time.
LEMMA TimeNat ==
  /\ CW_MAX_TIME \in Nat /\ BaseRTT \in Nat /\ ExtraReplyDeadline \in Nat
  /\ ExtraVOQFlushTime \in Nat /\ TxExpiryTime \in Nat
  /\ DefaultVOQWaitingTime \in Nat /\ PathPauseTime \in Nat /\ AgingTime \in Nat
  /\ WorstDelay \in Nat /\ StopTime \in Nat
  /\ AgingTime > 0 /\ ExtraVOQFlushTime > 0
  /\ TxExpiryTime < StopTime /\ StopTime < CW_MAX_TIME
  BY TimeAssumption

-----------------------------------------------------------------------------
(* Types.                                                                  *)

\* A queue that something joins is not empty.
LEMMA AppendNotEmpty ==
  ASSUME NEW S, NEW s \in Seq(S), NEW e \in S
  PROVE  Append(s, e) # <<>>
<1>1. Len(Append(s, e)) = Len(s) + 1 /\ Len(s) \in Nat
  OBVIOUS
<1> QED
  BY <1>1

\* The head of a non-empty sequence and what it leaves behind.
LEMMA HeadTail ==
  ASSUME NEW S, NEW s \in Seq(S), s # <<>>
  PROVE  /\ Head(s) \in S /\ Tail(s) \in Seq(S)
         /\ Len(s) \in Nat \ {0} /\ Len(Tail(s)) = Len(s) - 1
         /\ Head(s) = s[1]
         /\ \A i \in 1 .. Len(s) - 1 : Tail(s)[i] = s[i + 1]
  OBVIOUS

\* What the destination ToR does with an arriving packet is of the right type.
LEMMA RxAfterType ==
  ASSUME now \in Nat, rx \in RxState, NEW pkt \in DataPkt
  PROVE  /\ RxAfter(pkt) \in RxState
         /\ TxTimegap(RxAfter(pkt)) \in Nat
         /\ FlushOfNewVoq(RxAfter(pkt)) \in Nat
         /\ FlushAfterPhase0(RxAfter(pkt), pkt) \in Nat
<1> DEFINE r == RxAfter(pkt)
<1>1. PhaseAfter(pkt) \in {0, 1}
  BY DEF PhaseAfter, RxState
<1>2. r \in RxState
  BY <1>1 DEF RxAfter, RxState, DataPkt
<1> HIDE DEF r
<1>3. TxTimegap(r) \in Nat
  BY <1>2, TimeNat DEF TxTimegap, RxState
<1>4. FlushOfNewVoq(r) \in Nat
  BY <1>2, <1>3, TimeNat DEF FlushOfNewVoq, RxState
<1>5. FlushAfterPhase0(r, pkt) \in Nat
  BY <1>3, TimeNat DEF FlushAfterPhase0
<1> QED
  BY <1>2, <1>3, <1>4, <1>5 DEF r

\* The control packets that a data packet causes are of the right type.
LEMMA AnswersType ==
  ASSUME now \in Nat, NEW p \in Path, NEW pkt \in DataPkt, NEW ecn \in BOOLEAN
  PROVE  Answers(p, pkt, ecn) \in Seq(CtlPkt)
<1> DEFINE notify == [kind |-> "NOTIFY", path |-> p, sentAt |-> now]
           init   == [kind |-> "INIT", epoch |-> pkt.epoch, phase |-> 0, sentAt |-> now]
           tail   == [kind |-> "TAIL", epoch |-> pkt.epoch, phase |-> 1, sentAt |-> now]
           first  == IF ecn THEN <<notify>> ELSE <<>>
           second == CASE pkt.flag = "INIT" -> <<init>>
                       [] pkt.flag = "TAIL" -> <<tail>>
                       [] OTHER -> <<>>
<1>1. notify \in CtlPkt /\ init \in CtlPkt /\ tail \in CtlPkt
  BY DEF CtlPkt, DataPkt
<1> HIDE DEF notify, init, tail
<1>2. first \in Seq(CtlPkt)
  BY <1>1
<1>3. second \in Seq(CtlPkt)
  BY <1>1
<1> HIDE DEF first, second
<1>4. first \o second \in Seq(CtlPkt)
  BY <1>2, <1>3
<1> QED
  BY <1>4 DEF Answers, first, second, notify, init, tail

\* Sending a packet keeps the network's state and the counter of their types.
LEMMA ForwardType ==
  ASSUME TypeOK, NEW path \in Path \union {NoPath}, NEW flag \in {"DATA", "INIT", "TAIL"},
         NEW epoch \in Nat, NEW phase \in {0, 1}, NEW tailTime \in Nat,
         Forward(path, flag, epoch, phase, tailTime)
  PROVE  net' \in [Path -> Seq(DataPkt)] /\ sent' \in Nat
<1> DEFINE pkt == [seq |-> sent + 1, epoch |-> epoch, phase |-> phase,
                   flag |-> flag, txTime |-> now, tailTime |-> tailTime]
<1>1. pkt \in DataPkt
  BY DEF TypeOK, DataPkt
<1> HIDE DEF pkt
<1>2. net' = [net EXCEPT ![path] = Append(@, pkt)] /\ sent' = sent + 1
  BY DEF Forward, pkt
<1>3. \A p \in Path : Append(net[p], pkt) \in Seq(DataPkt)
  BY <1>1 DEF TypeOK
<1>4. net \in [Path -> Seq(DataPkt)] /\ sent \in Nat
  BY DEF TypeOK
<1>5. sent' \in Nat
  BY <1>2, <1>4
<1>6. net' \in [Path -> Seq(DataPkt)]
  BY <1>2, <1>3, <1>4
<1> QED
  BY <1>5, <1>6

\* A packet that has arrived is a packet, and the path keeps packets.
LEMMA ArrivedType ==
  ASSUME TypeOK, NEW p \in Path, net[p] # <<>>
  PROVE  /\ Head(net[p]) \in DataPkt
         /\ [net EXCEPT ![p] = Tail(@)] \in [Path -> Seq(DataPkt)]
<1>1. net[p] \in Seq(DataPkt)
  BY DEF TypeOK
<1>2. Head(net[p]) \in DataPkt /\ Tail(net[p]) \in Seq(DataPkt)
  BY <1>1, HeadTail
<1> QED
  BY <1>2 DEF TypeOK

\* What the host gets stays a sequence of packet numbers.
LEMMA ToHostType ==
  ASSUME TypeOK, NEW seqs \in Seq(Nat), ToHost(seqs)
  PROVE  delivered' \in Seq(Nat)
<1>1. delivered \in Seq(Nat)
  BY DEF TypeOK
<1> QED
  BY <1>1 DEF ToHost

\* The answers to a packet join the control packets in flight.
LEMMA CtlType ==
  ASSUME TypeOK, NEW p \in Path, NEW pkt \in DataPkt,
         \E ecn \in EcnMarks : ctl' = ctl \o Answers(p, pkt, ecn)
  PROVE  ctl' \in Seq(CtlPkt)
<1>1. ctl \in Seq(CtlPkt) /\ now \in Nat
  BY DEF TypeOK
<1>2. PICK ecn \in EcnMarks : ctl' = ctl \o Answers(p, pkt, ecn)
  OBVIOUS
<1>3. ecn \in BOOLEAN
  BY PathAssumption
<1>4. Answers(p, pkt, ecn) \in Seq(CtlPkt)
  BY <1>1, <1>3, AnswersType
<1> QED
  BY <1>1, <1>2, <1>4

\* A sampled path is a path.
LEMMA ChoiceType ==
  ASSUME NEW c \in PathChoice
  PROVE  c.path \in Path /\ c.found \in BOOLEAN
  BY DEF PathChoice

\* Every handler, and the clock, keeps TypeOK.
LEMMA TypeStep ==
  ASSUME TypeOK, [Next]_vars
  PROVE  TypeOK'
<1>t. tx \in TxState /\ rx \in RxState /\ voq \in Voq /\ now \in Nat
  BY DEF TypeOK
<1>e. tx.epoch + 1 \in Nat /\ now + BaseRTT + ExtraReplyDeadline \in Nat
  BY <1>t, TimeNat DEF TxState
<1>a. agingAt \in [{"tx", "rx"} -> Nat] /\ now + AgingTime \in Nat
  <2>1. agingAt \in [{"tx", "rx"} -> Nat]
    BY DEF TypeOK
  <2> QED
    BY <1>t, <2>1, TimeNat
<1>1. CASE TxExpired
  <2>1. PICK c \in PathChoice :
          LET path == IF c.found \/ tx.pathId = NoPath THEN c.path ELSE tx.pathId
          IN /\ tx' = [tx EXCEPT !.known = TRUE, !.stabilized = FALSE,
                                 !.activeTime = now,
                                 !.replyTimer = now + BaseRTT + ExtraReplyDeadline,
                                 !.epoch = @ + 1, !.phase = 0, !.pathId = path,
                                 !.tailTime = 0]
             /\ Forward(path, "INIT", tx.epoch + 1, 0, 0)
    BY <1>1 DEF TxExpired
  <2> DEFINE path == IF c.found \/ tx.pathId = NoPath THEN c.path ELSE tx.pathId
  <2>2. path \in Path
    BY <1>t, ChoiceType DEF TxState
  <2> HIDE DEF path
  <2>3. Forward(path, "INIT", tx.epoch + 1, 0, 0)
    BY <2>1 DEF path
  <2>4. tx' \in TxState
    BY <1>t, <1>e, <2>1, <2>2 DEF TxState, path
  <2>6. net' \in [Path -> Seq(DataPkt)] /\ sent' \in Nat
    BY <1>e, <2>2, <2>3, ForwardType
  <2> QED
    BY <2>3, <2>4, <2>6 DEF TypeOK, Forward, rxVars
<1>2. CASE TxStabilized
  <2>1. tx' \in TxState
    BY <1>2, <1>t, <1>e DEF TxState, TxStabilized
  <2>2. tx.pathId \in Path \union {NoPath}
    BY <1>t DEF TxState
  <2>3. Forward(tx.pathId, "INIT", tx.epoch + 1, 0, 0)
    BY <1>2 DEF TxStabilized
  <2>4. net' \in [Path -> Seq(DataPkt)] /\ sent' \in Nat
    BY <1>e, <2>2, <2>3, ForwardType
  <2> QED
    BY <2>1, <2>3, <2>4 DEF TypeOK, Forward, rxVars
<1>3. CASE TxReplyTimeout
  <2>1. PICK c \in PathChoice :
          tx' = [tx EXCEPT !.activeTime = now, !.replyTimer = CW_MAX_TIME,
                           !.phase = 1, !.tailTime = now,
                           !.pathId = IF c.found THEN c.path ELSE @]
    BY <1>3 DEF TxReplyTimeout
  <2>2. tx' \in TxState
    BY <1>t, <2>1, ChoiceType, TimeNat DEF TxState
  <2>3. tx.pathId \in Path \union {NoPath} /\ tx.epoch \in Nat
    BY <1>t DEF TxState
  <2>4. Forward(tx.pathId, "TAIL", tx.epoch, 0, now)
    BY <1>3 DEF TxReplyTimeout
  <2>5. net' \in [Path -> Seq(DataPkt)] /\ sent' \in Nat
    BY <1>t, <2>3, <2>4, ForwardType
  <2> QED
    BY <2>2, <2>4, <2>5 DEF TypeOK, Forward, rxVars
<1>4. CASE TxUsual
  <2>1. tx' \in TxState
    BY <1>4, <1>t DEF TxState, TxUsual
  <2>2. /\ tx.pathId \in Path \union {NoPath} /\ tx.epoch \in Nat
        /\ tx.phase \in {0, 1} /\ tx.tailTime \in Nat
    BY <1>t DEF TxState
  <2>3. Forward(tx.pathId, "DATA", tx.epoch, tx.phase, tx.tailTime)
    BY <1>4 DEF TxUsual
  <2>4. net' \in [Path -> Seq(DataPkt)] /\ sent' \in Nat
    BY <2>2, <2>3, ForwardType
  <2> QED
    BY <2>1, <2>3, <2>4 DEF TypeOK, Forward, rxVars
<1>5. CASE TxReply
  <2>1. tx' \in TxState
    BY <1>5, <1>t, TimeNat DEF TxState, TxReply
  <2>2. ctl' \in Seq(CtlPkt)
    BY <1>5, HeadTail DEF TypeOK, TxReply, CtlArrived
  <2> QED
    BY <1>5, <2>1, <2>2 DEF TypeOK, TxReply, rxVars
<1>6. CASE TxNotify
  <2>1. ctl # <<>> /\ ctl \in Seq(CtlPkt)
    BY <1>6 DEF TypeOK, TxNotify, CtlArrived
  <2>2. Head(ctl) \in CtlPkt /\ Tail(ctl) \in Seq(CtlPkt)
    BY <2>1, HeadTail
  <2>3. Head(ctl).path \in Path
    BY <1>6, <2>2 DEF TxNotify, CtlPkt
  <2>4. [path |-> Head(ctl).path, invalidTime |-> now + PathPauseTime]
          \in [path : Path \union {NoPath}, invalidTime : Nat]
    BY <1>t, <2>3, TimeNat
  <2>5. pathTable \in [Slot -> [path : Path \union {NoPath}, invalidTime : Nat]]
    BY DEF TypeOK
  <2>6. pathTable' \in [Slot -> [path : Path \union {NoPath}, invalidTime : Nat]]
    BY <1>6, <2>4, <2>5 DEF TxNotify
  <2> QED
    BY <1>6, <2>2, <2>6 DEF TypeOK, TxNotify, rxVars
<1>7. ASSUME NEW p \in Path, RxPrevEpoch(p)  PROVE TypeOK'
  <2>1. /\ Head(net[p]) \in DataPkt
        /\ [net EXCEPT ![p] = Tail(@)] \in [Path -> Seq(DataPkt)]
    BY <1>7, ArrivedType DEF RxPrevEpoch, Arrived
  <2>2. rx' \in RxState
    BY <1>7, <1>t DEF RxState, RxPrevEpoch
  <2>3. delivered' \in Seq(Nat)
    <3>1. <<Head(net[p]).seq>> \in Seq(Nat)
      BY <2>1 DEF DataPkt
    <3>2. ToHost(<<Head(net[p]).seq>>)
      BY <1>7 DEF RxPrevEpoch
    <3> QED
      BY <3>1, <3>2, ToHostType
  <2> QED
    BY <1>7, <2>1, <2>2, <2>3 DEF TypeOK, RxPrevEpoch, txVars
<1>8. ASSUME NEW p \in Path, RxPhase0(p)  PROVE TypeOK'
  <2> DEFINE pkt == Head(net[p])
  <2>1. /\ pkt \in DataPkt
        /\ [net EXCEPT ![p] = Tail(@)] \in [Path -> Seq(DataPkt)]
    BY <1>8, ArrivedType DEF RxPhase0, Arrived
  <2>2. RxAfter(pkt) \in RxState /\ FlushAfterPhase0(RxAfter(pkt), pkt) \in Nat
    BY <2>1, RxAfterType DEF TypeOK
  <2>3. rx' \in RxState /\ voq' \in Voq
    BY <1>8, <1>t, <2>2 DEF Voq, RxPhase0
  <2>4. ctl' \in Seq(CtlPkt)
    BY <1>8, <2>1, CtlType DEF RxPhase0
  <2>5. delivered' \in Seq(Nat)
    <3>1. <<pkt.seq>> \in Seq(Nat)
      BY <2>1 DEF DataPkt
    <3>2. ToHost(<<pkt.seq>>)
      BY <1>8 DEF RxPhase0
    <3> QED
      BY <3>1, <3>2, ToHostType
  <2> QED
    BY <1>8, <2>1, <2>3, <2>4, <2>5 DEF TypeOK, RxPhase0, txVars
<1>9. ASSUME NEW p \in Path, RxPhase1InOrder(p)  PROVE TypeOK'
  <2> DEFINE pkt == Head(net[p])
  <2>1. /\ pkt \in DataPkt
        /\ [net EXCEPT ![p] = Tail(@)] \in [Path -> Seq(DataPkt)]
    BY <1>9, ArrivedType DEF RxPhase1InOrder, Arrived
  <2>2. rx' \in RxState
    BY <1>9, <2>1, RxAfterType DEF TypeOK, RxPhase1InOrder
  <2>3. ctl' \in Seq(CtlPkt)
    BY <1>9, <2>1, CtlType DEF RxPhase1InOrder
  <2>4. delivered' \in Seq(Nat)
    <3>1. <<pkt.seq>> \in Seq(Nat)
      BY <2>1 DEF DataPkt
    <3>2. ToHost(<<pkt.seq>>)
      BY <1>9 DEF RxPhase1InOrder
    <3> QED
      BY <3>1, <3>2, ToHostType
  <2> QED
    BY <1>9, <2>1, <2>2, <2>3, <2>4 DEF TypeOK, RxPhase1InOrder, txVars
<1>10. ASSUME NEW p \in Path, RxPhase1OutOfOrder(p)  PROVE TypeOK'
  <2> DEFINE pkt == Head(net[p])
  <2>1. /\ pkt \in DataPkt
        /\ [net EXCEPT ![p] = Tail(@)] \in [Path -> Seq(DataPkt)]
    BY <1>10, ArrivedType DEF RxPhase1OutOfOrder, Arrived
  <2>2. RxAfter(pkt) \in RxState /\ FlushOfNewVoq(RxAfter(pkt)) \in Nat
    BY <2>1, RxAfterType DEF TypeOK
  <2>3. rx' \in RxState
    BY <1>10, <2>2 DEF RxState, RxPhase1OutOfOrder
  <2>4. Append(voq.fifo, pkt.seq) \in Seq(Nat)
    BY <1>t, <2>1 DEF Voq, DataPkt
  <2>5. voq' \in Voq
    BY <1>10, <1>t, <2>2, <2>4 DEF Voq, RxPhase1OutOfOrder
  <2>6. ctl' \in Seq(CtlPkt)
    BY <1>10, <2>1, CtlType DEF RxPhase1OutOfOrder
  <2> QED
    BY <1>10, <2>1, <2>3, <2>5, <2>6 DEF TypeOK, RxPhase1OutOfOrder, txVars
<1>11. CASE VoqFlush
  <2>1. rx' \in RxState
    BY <1>11, <1>t DEF RxState, VoqFlush
  <2>3. voq' \in Voq
    BY <1>11 DEF Voq, VoqFlush, NoVoq
  <2>2. delivered' \in Seq(Nat)
    BY <1>11, <1>t, ToHostType DEF Voq, VoqFlush
  <2> QED
    BY <1>11, <2>1, <2>2, <2>3 DEF TypeOK, VoqFlush, txVars, netVars
<1>12. CASE AgingEventTx
  <2>1. FreshTx \in TxState /\ tx' \in TxState
    BY <1>12, <1>t DEF AgingEventTx, FreshTx, TxState
  <2>2. agingAt' \in [{"tx", "rx"} -> Nat]
    BY <1>12, <1>a DEF AgingEventTx
  <2> QED
    BY <1>12, <2>1, <2>2 DEF TypeOK, AgingEventTx, rxVars, netVars
<1>13. CASE AgingEventRx
  <2>1. FreshRx \in RxState /\ rx' \in RxState
    BY <1>13, <1>t DEF AgingEventRx, FreshRx, RxState
  <2>2. agingAt' \in [{"tx", "rx"} -> Nat]
    BY <1>13, <1>a DEF AgingEventRx
  <2> QED
    BY <1>13, <2>1, <2>2 DEF TypeOK, AgingEventRx, txVars, netVars
<1>14. ASSUME NEW p \in Path, Drop(p)  PROVE TypeOK'
  <2>1. /\ Head(net[p]) \in DataPkt
        /\ [net EXCEPT ![p] = Tail(@)] \in [Path -> Seq(DataPkt)]
    BY <1>14, ArrivedType DEF Drop
  <2>2. lost' \in SUBSET Nat
    BY <1>14, <2>1 DEF TypeOK, DataPkt, Drop
  <2> QED
    BY <1>14, <2>1, <2>2 DEF TypeOK, Drop, txVars, rxVars
<1>15. CASE Tick
  <2>1. now' \in Nat
    BY <1>15, <1>t DEF Tick
  <2> QED
    BY <1>15, <2>1 DEF TypeOK, Tick, txVars, rxVars, netVars
<1>16. CASE UNCHANGED vars
  BY <1>16 DEF TypeOK, vars, txVars, rxVars, netVars
<1> QED
  BY <1>1, <1>2, <1>3, <1>4, <1>5, <1>6, <1>7, <1>8, <1>9, <1>10, <1>11, <1>12,
     <1>13, <1>14, <1>15, <1>16 DEF Next, TxData, RxData, Stop

\* The entries as the tables create them are of their types.
LEMMA TypeInit == Init => TypeOK
<1> SUFFICES ASSUME Init PROVE TypeOK
  OBVIOUS
<1>1. now \in Nat
  BY TimeNat DEF Init, StartTime
<1>2. tx \in TxState /\ rx \in RxState /\ voq \in Voq
  BY DEF Init, FreshTx, FreshRx, NoVoq, TxState, RxState, Voq
<1>3. pathTable \in [Slot -> [path : Path \union {NoPath}, invalidTime : Nat]]
  BY DEF Init, FreshPathInfo
<1>4. net \in [Path -> Seq(DataPkt)] /\ ctl \in Seq(CtlPkt)
  BY DEF Init
<1>5. agingAt \in [{"tx", "rx"} -> Nat]
  <2>1. PICK o \in AgingOffsets : agingAt = [sw \in {"tx", "rx"} |-> StartTime + o[sw]]
    BY DEF Init
  <2>2. o \in [{"tx", "rx"} -> 1 .. AgingTime]
    BY TimeAssumption
  <2>3. \A sw \in {"tx", "rx"} : StartTime + o[sw] \in Nat
    BY <2>2, TimeNat DEF StartTime
  <2> QED
    BY <2>1, <2>3
<1>6. sent \in Nat /\ lost \in SUBSET Nat /\ delivered \in Seq(Nat)
  BY DEF Init
<1> QED
  BY <1>1, <1>2, <1>3, <1>4, <1>5, <1>6 DEF TypeOK

\* TypeOK is an invariant: every entry, packet and timer keeps its type: no epoch, deadline or timestamp
\* becomes negative, and no phase exceeds 1.
THEOREM TypeCorrect == Spec => []TypeOK
  BY TypeInit, TypeStep, PTL DEF Spec

-----------------------------------------------------------------------------
(* The inductive invariant.                                                *)

\* The simulation runs from the flow's start to StopTime.
ClockInv == now \in StartTime .. StopTime

\* The source ToR's entry: one that no packet has used looks expired, a used one
\* has a path; in phase 1 no reply timer runs; the TAIL time is of the past.
TxInv ==
  /\ ~tx.known => tx.activeTime = 0
  /\ tx.known => tx.pathId # NoPath
  /\ tx.phase = 1 => tx.replyTimer = CW_MAX_TIME
  /\ tx.tailTime <= now

\* A path is a FIFO whose packets are never in flight longer than its MaxDelay,
\* and a TAIL time is never later than the sending of the packet that carries it.
NetInv ==
  \A p \in Path :
    /\ \A i \in 1 .. Len(net[p]) :
         /\ net[p][i].txTime <= now
         /\ now <= net[p][i].txTime + MaxDelay[p]
         /\ net[p][i].tailTime <= now
    /\ \A i, j \in 1 .. Len(net[p]) :
         i <= j => net[p][i].txTime <= net[p][j].txTime

\* The destination ToR's timestamps are of the past, and the phase-0 pair is of
\* one packet.
RxInv ==
  /\ rx.activeTime <= now
  /\ rx.tailTime <= now
  /\ rx.phase0RxTime <= now
  /\ rx.phase0RxTime <= rx.phase0TxTime + WorstDelay

VoqInv == RxInv /\ ReorderingIffVoq /\ VoqWaitBounded

IInv == TypeOK /\ ClockInv /\ TxInv /\ NetInv /\ VoqInv

\* The clock stops at StopTime.
LEMMA ClockStep ==
  ASSUME TypeOK, ClockInv, [Next]_vars
  PROVE  ClockInv' /\ now' >= now
<1>1. now \in Nat /\ StartTime \in Nat /\ StopTime \in Nat
  BY TimeNat DEF TypeOK, StartTime
<1>2. CASE Tick
  BY <1>1, <1>2 DEF ClockInv, Tick
<1>3. CASE now' = now
  BY <1>1, <1>3 DEF ClockInv
<1>4. Tick \/ now' = now
  BY DEF Next, TxData, TxExpired, TxStabilized, TxReplyTimeout, TxUsual, Forward,
         TxReply, TxNotify, RxData, RxPrevEpoch, RxPhase0, RxPhase1InOrder,
         RxPhase1OutOfOrder, VoqFlush, AgingEventTx, AgingEventRx, Drop, Stop, vars
<1> QED
  BY <1>2, <1>3, <1>4

\* The source ToR's handlers keep TxInv: only a TAIL in phase 0 starts phase 1, and
\* it disarms the reply timer, so the time-out cannot find phase 1.
LEMMA TxStep ==
  ASSUME TypeOK, ClockInv, TxInv, [Next]_vars
  PROVE  TxInv'
<1>1. tx \in TxState /\ now \in Nat /\ now >= 0
  BY DEF TypeOK
<1>2. now' \in Nat /\ now' >= now
  BY TypeStep, ClockStep DEF TypeOK
<1>3. CASE TxExpired
  <2>1. PICK c \in PathChoice :
          LET path == IF c.found \/ tx.pathId = NoPath THEN c.path ELSE tx.pathId
          IN tx' = [tx EXCEPT !.known = TRUE, !.stabilized = FALSE,
                              !.activeTime = now,
                              !.replyTimer = now + BaseRTT + ExtraReplyDeadline,
                              !.epoch = @ + 1, !.phase = 0, !.pathId = path,
                              !.tailTime = 0]
    BY <1>3 DEF TxExpired
  <2>2. c.path # NoPath
    BY ChoiceType, PathAssumption
  <2>3. tx'.known /\ tx'.phase = 0 /\ tx'.tailTime = 0 /\ tx'.pathId # NoPath
    BY <1>1, <2>1, <2>2 DEF TxState
  <2> QED
    BY <1>2, <2>3 DEF TxInv
<1>4. CASE TxStabilized
  <2>1. tx.known
    BY <1>1, <1>4, TimeNat DEF TxStabilized, Expired, TxInv, ClockInv, StartTime
  <2>2. /\ tx'.known = tx.known /\ tx'.pathId = tx.pathId
        /\ tx'.phase = 0 /\ tx'.tailTime = 0
    BY <1>1, <1>4 DEF TxStabilized, TxState
  <2> QED
    BY <1>2, <2>1, <2>2 DEF TxInv
<1>5. CASE TxReplyTimeout
  <2>1. tx.known /\ now' = now
    BY <1>1, <1>5, TimeNat
    DEF TxReplyTimeout, Expired, TxInv, ClockInv, StartTime, Forward
  <2>2. PICK c \in PathChoice :
          tx' = [tx EXCEPT !.activeTime = now, !.replyTimer = CW_MAX_TIME,
                           !.phase = 1, !.tailTime = now,
                           !.pathId = IF c.found THEN c.path ELSE @]
    BY <1>5 DEF TxReplyTimeout
  <2>3. c.path # NoPath /\ tx.pathId # NoPath
    BY <2>1, ChoiceType, PathAssumption DEF TxInv
  <2>4. /\ tx'.known = tx.known /\ tx'.pathId # NoPath
        /\ tx'.replyTimer = CW_MAX_TIME /\ tx'.tailTime = now
    BY <1>1, <2>2, <2>3 DEF TxState
  <2> QED
    BY <1>1, <2>1, <2>4 DEF TxInv
<1>6. CASE TxUsual
  <2>1. tx.known /\ now' = now
    BY <1>1, <1>6, TimeNat
    DEF TxUsual, Expired, TxInv, ClockInv, StartTime, Forward
  <2>2. /\ tx'.known = tx.known /\ tx'.pathId = tx.pathId /\ tx'.phase = tx.phase
        /\ tx'.replyTimer = tx.replyTimer /\ tx'.tailTime = tx.tailTime
    BY <1>1, <1>6 DEF TxUsual, TxState
  <2> QED
    BY <2>1, <2>2 DEF TxInv
<1>7. CASE TxReply
  <2>1. /\ tx'.known = tx.known /\ tx'.pathId = tx.pathId /\ tx'.phase = tx.phase
        /\ tx'.activeTime = tx.activeTime /\ tx'.tailTime = tx.tailTime
        /\ tx'.replyTimer \in {tx.replyTimer, CW_MAX_TIME}
    BY <1>1, <1>7 DEF TxReply, TxState
  <2>2. now' = now
    BY <1>7 DEF TxReply
  <2> QED
    BY <2>1, <2>2 DEF TxInv
<1>8. CASE AgingEventTx
  <2>1. tx' = tx \/ tx' = FreshTx
    BY <1>8 DEF AgingEventTx
  <2>2. now' = now
    BY <1>8 DEF AgingEventTx
  <2> QED
    BY <1>1, <2>1, <2>2 DEF TxInv, FreshTx
<1>9. CASE UNCHANGED tx
  <2>1. tx.tailTime \in Nat
    BY <1>1 DEF TxState
  <2> QED
    BY <1>1, <1>2, <1>9, <2>1 DEF TxInv
<1> QED
  BY <1>3, <1>4, <1>5, <1>6, <1>7, <1>8, <1>9
  DEF Next, TxData, TxNotify, RxData, RxPrevEpoch, RxPhase0, RxPhase1InOrder,
      RxPhase1OutOfOrder, VoqFlush, AgingEventRx, Drop, Tick, Stop, vars, txVars

\* NetInv of one path, for the packets q and the instant t.
PathInv(p, q, t) ==
  /\ \A i \in 1 .. Len(q) : /\ q[i].txTime <= t
                            /\ t <= q[i].txTime + MaxDelay[p]
                            /\ q[i].tailTime <= t
  /\ \A i, j \in 1 .. Len(q) : i <= j => q[i].txTime <= q[j].txTime

\* The bounds of a path's delay are natural numbers.
LEMMA DelayNat ==
  ASSUME NEW p \in Path
  PROVE  /\ MinDelay[p] \in Nat /\ MaxDelay[p] \in Nat
         /\ MaxDelay[p] <= WorstDelay
  BY PathAssumption

\* A packet sent now joins the end of its path.
LEMMA AppendPath ==
  ASSUME NEW p \in Path, NEW q \in Seq(DataPkt), NEW pkt \in DataPkt, now \in Nat,
         PathInv(p, q, now), pkt.txTime = now, pkt.tailTime <= now
  PROVE  PathInv(p, Append(q, pkt), now)
<1> DEFINE a == Append(q, pkt)
<1>1. /\ Len(q) \in Nat /\ Len(a) = Len(q) + 1 /\ a[Len(q) + 1] = pkt
      /\ \A i \in 1 .. Len(q) : a[i] = q[i]
  OBVIOUS
<1>2. \A i \in 1 .. Len(a) : i \in 1 .. Len(q) \/ i = Len(q) + 1
  BY <1>1
<1> HIDE DEF a
<1>3. ASSUME NEW i \in 1 .. Len(a)
      PROVE  /\ a[i].txTime <= now /\ now <= a[i].txTime + MaxDelay[p]
             /\ a[i].tailTime <= now
  BY <1>1, <1>2, DelayNat DEF PathInv
<1>4. ASSUME NEW i \in 1 .. Len(a), NEW j \in 1 .. Len(a), i <= j
      PROVE  a[i].txTime <= a[j].txTime
  <2>1. CASE j = Len(q) + 1
    BY <1>1, <1>3, <2>1
  <2>2. CASE j \in 1 .. Len(q)
    <3>1. i \in 1 .. Len(q)
      BY <1>1, <1>4, <2>2
    <3> QED
      BY <1>1, <1>4, <2>2, <3>1 DEF PathInv
  <2> QED
    BY <1>2, <2>1, <2>2
<1>5. PathInv(p, a, now)
  BY <1>3, <1>4 DEF PathInv
<1> QED
  BY <1>5 DEF a

\* A packet that arrives or is dropped leaves from the head of its path.
LEMMA TailPath ==
  ASSUME NEW p \in Path, NEW q \in Seq(DataPkt), q # <<>>, PathInv(p, q, now)
  PROVE  PathInv(p, Tail(q), now)
<1>1. /\ Len(q) \in Nat \ {0} /\ Len(Tail(q)) = Len(q) - 1
      /\ \A i \in 1 .. Len(q) - 1 : Tail(q)[i] = q[i + 1]
  BY HeadTail
<1>2. ASSUME NEW i \in 1 .. Len(Tail(q))
      PROVE  Tail(q)[i] = q[i + 1] /\ i + 1 \in 1 .. Len(q)
  BY <1>1
<1>3. ASSUME NEW i \in 1 .. Len(Tail(q)), NEW j \in 1 .. Len(Tail(q)), i <= j
      PROVE  Tail(q)[i].txTime <= Tail(q)[j].txTime
  <2>1. i + 1 <= j + 1
    BY <1>1, <1>3
  <2> QED
    BY <1>2, <2>1 DEF PathInv
<1> QED
  BY <1>2, <1>3 DEF PathInv

\* The clock does not advance past the instant at which the head must arrive.
LEMMA TickPath ==
  ASSUME NEW p \in Path, NEW q \in Seq(DataPkt), now \in Nat, PathInv(p, q, now),
         q # <<>> => Head(q).txTime + MaxDelay[p] # now
  PROVE  PathInv(p, q, now + 1)
<1> SUFFICES ASSUME NEW i \in 1 .. Len(q)
             PROVE  /\ q[i].txTime <= now + 1
                    /\ now + 1 <= q[i].txTime + MaxDelay[p]
                    /\ q[i].tailTime <= now + 1
  BY DEF PathInv
<1>1. q # <<>> /\ Len(q) \in Nat \ {0} /\ Head(q) = q[1] /\ 1 \in 1 .. Len(q) /\ 1 <= i
  BY HeadTail
<1>2. q[i] \in DataPkt /\ q[1] \in DataPkt
  BY <1>1
<1>3. /\ q[i].txTime \in Nat /\ q[i].tailTime \in Nat /\ q[1].txTime \in Nat
  BY <1>2 DEF DataPkt
<1>4. q[1].txTime <= q[i].txTime /\ now <= q[1].txTime + MaxDelay[p]
  BY <1>1 DEF PathInv
<1>5. q[i].txTime <= now /\ q[i].tailTime <= now
  BY DEF PathInv
<1>6. q[1].txTime + MaxDelay[p] # now /\ MaxDelay[p] \in Nat
  BY <1>1, DelayNat
<1> QED
  BY <1>3, <1>4, <1>5, <1>6

\* NetInv, one path at a time.
LEMMA NetIsPathInv ==
  /\ NetInv  <=> \A p \in Path : PathInv(p, net[p], now)
  /\ NetInv' <=> \A p \in Path : PathInv(p, net'[p], now')
  BY DEF NetInv, PathInv

\* Sending on a path keeps NetInv.
LEMMA ForwardNet ==
  ASSUME TypeOK, NetInv, NEW path \in Path \union {NoPath},
         NEW flag \in {"DATA", "INIT", "TAIL"},
         NEW epoch \in Nat, NEW phase \in {0, 1}, NEW tailTime \in Nat,
         tailTime <= now, Forward(path, flag, epoch, phase, tailTime)
  PROVE  NetInv'
<1> DEFINE pkt == [seq |-> sent + 1, epoch |-> epoch, phase |-> phase,
                   flag |-> flag, txTime |-> now, tailTime |-> tailTime]
<1>1. now \in Nat /\ sent \in Nat /\ net \in [Path -> Seq(DataPkt)]
  BY DEF TypeOK
<1>2. pkt \in DataPkt /\ pkt.txTime = now /\ pkt.tailTime <= now
  BY <1>1 DEF DataPkt
<1> HIDE DEF pkt
<1>3. net' = [net EXCEPT ![path] = Append(@, pkt)] /\ now' = now
  BY DEF Forward, pkt
<1>4. ASSUME NEW p \in Path  PROVE PathInv(p, net'[p], now')
  <2>1. PathInv(p, net[p], now)
    BY NetIsPathInv
  <2>2. PathInv(p, Append(net[p], pkt), now)
    BY <1>1, <1>2, <2>1, AppendPath
  <2>3. net'[p] = net[p] \/ net'[p] = Append(net[p], pkt)
    BY <1>1, <1>3
  <2> QED
    BY <1>3, <2>1, <2>2, <2>3
<1> QED
  BY <1>4, NetIsPathInv

\* Taking the head of a path keeps NetInv.
LEMMA PopNet ==
  ASSUME TypeOK, NetInv, NEW p \in Path, net[p] # <<>>,
         net' = [net EXCEPT ![p] = Tail(@)], now' = now
  PROVE  NetInv'
<1>1. net \in [Path -> Seq(DataPkt)]
  BY DEF TypeOK
<1>2. ASSUME NEW q \in Path  PROVE PathInv(q, net'[q], now')
  <2>1. PathInv(q, net[q], now)
    BY NetIsPathInv
  <2>2. CASE q = p
    <3>1. PathInv(p, Tail(net[p]), now)
      BY <1>1, <2>1, <2>2, TailPath
    <3> QED
      BY <1>1, <2>2, <3>1
  <2>3. CASE q # p
    BY <1>1, <2>1, <2>3
  <2> QED
    BY <2>2, <2>3
<1> QED
  BY <1>2, NetIsPathInv

\* Every handler, and the clock, keeps NetInv.
LEMMA NetStep ==
  ASSUME TypeOK, TxInv, NetInv, [Next]_vars
  PROVE  NetInv'
<1>1. /\ tx \in TxState /\ now \in Nat /\ now >= 0
      /\ net \in [Path -> Seq(DataPkt)]
  BY DEF TypeOK
<1>2. /\ tx.pathId \in Path \union {NoPath} /\ tx.epoch \in Nat /\ tx.epoch + 1 \in Nat
      /\ tx.phase \in {0, 1} /\ tx.tailTime \in Nat
  BY <1>1 DEF TxState
<1>3. CASE TxExpired
  <2>1. PICK c \in PathChoice :
          Forward(IF c.found \/ tx.pathId = NoPath THEN c.path ELSE tx.pathId,
                  "INIT", tx.epoch + 1, 0, 0)
    BY <1>3 DEF TxExpired
  <2> DEFINE path == IF c.found \/ tx.pathId = NoPath THEN c.path ELSE tx.pathId
  <2>2. path \in Path \union {NoPath}
    BY <1>2, ChoiceType
  <2>3. Forward(path, "INIT", tx.epoch + 1, 0, 0)
    BY <2>1
  <2> HIDE DEF path
  <2> QED
    BY <1>1, <1>2, <2>2, <2>3, ForwardNet
<1>4. CASE TxStabilized
  <2>1. Forward(tx.pathId, "INIT", tx.epoch + 1, 0, 0)
    BY <1>4 DEF TxStabilized
  <2> QED
    BY <1>1, <1>2, <2>1, ForwardNet
<1>5. CASE TxReplyTimeout
  <2>1. Forward(tx.pathId, "TAIL", tx.epoch, 0, now)
    BY <1>5 DEF TxReplyTimeout
  <2>2. now <= now /\ 0 \in {0, 1} /\ "TAIL" \in {"DATA", "INIT", "TAIL"}
    BY <1>1
  <2> QED
    BY <1>1, <1>2, <2>1, <2>2, ForwardNet
<1>6. CASE TxUsual
  <2>1. Forward(tx.pathId, "DATA", tx.epoch, tx.phase, tx.tailTime)
    BY <1>6 DEF TxUsual
  <2>2. tx.tailTime <= now
    BY DEF TxInv
  <2> QED
    BY <1>1, <1>2, <2>1, <2>2, ForwardNet
<1>7. ASSUME NEW p \in Path,
             \/ RxPrevEpoch(p) \/ RxPhase0(p)
             \/ RxPhase1InOrder(p) \/ RxPhase1OutOfOrder(p) \/ Drop(p)
      PROVE  NetInv'
  <2>1. /\ net[p] # <<>> /\ now' = now
        /\ net' = [net EXCEPT ![p] = Tail(@)]
    BY <1>7 DEF RxPrevEpoch, RxPhase0, RxPhase1InOrder, RxPhase1OutOfOrder, Drop,
                Arrived
  <2> QED
    BY <2>1, PopNet
<1>8. CASE Tick
  <2>1. ASSUME NEW p \in Path  PROVE PathInv(p, net[p], now + 1)
    <3>1. net[p] # <<>> => Head(net[p]).txTime + MaxDelay[p] # now
      BY <1>8 DEF Tick, Due
    <3>2. PathInv(p, net[p], now)
      BY NetIsPathInv
    <3> QED
      BY <1>1, <3>1, <3>2, TickPath
  <2>2. net' = net /\ now' = now + 1
    BY <1>8 DEF Tick, netVars
  <2> QED
    BY <2>1, <2>2, NetIsPathInv
<1>9. CASE UNCHANGED <<net, now>>
  BY <1>9 DEF NetInv
<1> QED
  BY <1>3, <1>4, <1>5, <1>6, <1>7, <1>8, <1>9
  DEF Next, TxData, TxReply, TxNotify, RxData, VoqFlush, AgingEventTx,
      AgingEventRx, Stop, vars, netVars

-----------------------------------------------------------------------------
(* The reordering queue.                                                   *)

\* MaxVoqWait covers the default waiting time and any network delay.
LEMMA MaxVoqWaitFacts ==
  /\ MaxVoqWait \in Nat
  /\ WorstDelay + ExtraVOQFlushTime <= MaxVoqWait
  /\ DefaultVOQWaitingTime + ExtraVOQFlushTime <= MaxVoqWait
  /\ 1 <= MaxVoqWait /\ MaxVoqWait <= AgingTime
  BY TimeNat, AgingAssumption DEF MaxVoqWait

\* What NetInv says of the packet that arrives.
LEMMA ArrivedNet ==
  ASSUME TypeOK, NetInv, NEW p \in Path, net[p] # <<>>
  PROVE  /\ Head(net[p]) \in DataPkt
         /\ Head(net[p]).txTime <= now /\ Head(net[p]).tailTime <= now
         /\ now <= Head(net[p]).txTime + WorstDelay
<1>1. net[p] \in Seq(DataPkt) /\ now \in Nat
  BY DEF TypeOK
<1>2. /\ Head(net[p]) \in DataPkt /\ Head(net[p]) = net[p][1]
      /\ 1 \in 1 .. Len(net[p])
  BY <1>1, HeadTail
<1>3. /\ net[p][1].txTime <= now /\ net[p][1].tailTime <= now
      /\ now <= net[p][1].txTime + MaxDelay[p]
  BY <1>2 DEF NetInv
<1>4. net[p][1].txTime \in Nat
  BY <1>2 DEF DataPkt
<1> QED
  BY <1>1, <1>2, <1>3, <1>4, DelayNat, TimeNat

\* The entry after an arrival, field by field, and RxInv of it.
LEMMA RxAfterInv ==
  ASSUME TypeOK, RxInv, NEW pkt \in DataPkt, pkt.txTime <= now,
         pkt.tailTime <= now, now <= pkt.txTime + WorstDelay
  PROVE  LET r == RxAfter(pkt)
         IN /\ r \in RxState
            /\ r.known /\ r.activeTime = now /\ r.reordering = rx.reordering
            /\ r.tailTime <= now /\ r.phase0RxTime <= now
            /\ r.phase0RxTime <= r.phase0TxTime + WorstDelay
            /\ pkt.phase = 0 => r.phase0Cache /\ r.phase0TxTime = pkt.txTime
<1>1. now \in Nat /\ rx \in RxState
  BY DEF TypeOK
<1> DEFINE r == RxAfter(pkt)
<1>2. r \in RxState
  BY <1>1, RxAfterType
<1>3. /\ r.known /\ r.activeTime = now /\ r.reordering = rx.reordering
      /\ r.tailTime \in {pkt.tailTime, rx.tailTime}
      /\ IF pkt.phase = 0
         THEN r.phase0Cache /\ r.phase0TxTime = pkt.txTime /\ r.phase0RxTime = now
         ELSE r.phase0TxTime = rx.phase0TxTime /\ r.phase0RxTime = rx.phase0RxTime
  BY <1>1 DEF RxAfter, RxState
<1> HIDE DEF r
<1>4. /\ r.tailTime <= now /\ r.phase0RxTime <= now
      /\ r.phase0RxTime <= r.phase0TxTime + WorstDelay
  BY <1>1, <1>3 DEF RxInv
<1> QED
  BY <1>2, <1>3, <1>4 DEF r

\* A new VOQ is flushed now or later, and within MaxVoqWait.
LEMMA NewVoqBound ==
  ASSUME now \in Nat, NEW r \in RxState, r.tailTime <= now, r.phase0RxTime <= now,
         r.phase0RxTime <= r.phase0TxTime + WorstDelay
  PROVE  now <= FlushOfNewVoq(r) /\ FlushOfNewVoq(r) <= now + MaxVoqWait
<1>1. /\ r.tailTime \in Nat /\ r.phase0RxTime \in Nat /\ r.phase0TxTime \in Nat
  BY DEF RxState
<1>2. CASE ~r.phase0Cache
  <2>1. TxTimegap(r) = DefaultVOQWaitingTime
    BY <1>2 DEF TxTimegap
  <2> QED
    BY <1>2, <2>1, TimeNat, MaxVoqWaitFacts DEF FlushOfNewVoq
<1>3. CASE r.phase0Cache
  <2>1. /\ TxTimegap(r) \in Nat
        /\ r.phase0RxTime + TxTimegap(r) <= now + WorstDelay
    BY <1>1, <1>3, TimeNat DEF TxTimegap
  <2> QED
    BY <1>1, <1>3, <2>1, TimeNat, MaxVoqWaitFacts DEF FlushOfNewVoq
<1> QED
  BY <1>2, <1>3

\* A packet of the old path moves the flush to a later instant, within MaxVoqWait.
LEMMA Phase0Bound ==
  ASSUME now \in Nat, NEW r \in RxState, NEW pkt \in DataPkt, r.tailTime <= now,
         r.phase0Cache, r.phase0TxTime = pkt.txTime, now <= pkt.txTime + WorstDelay
  PROVE  /\ now <= FlushAfterPhase0(r, pkt)
         /\ FlushAfterPhase0(r, pkt) <= now + MaxVoqWait
<1>1. r.tailTime \in Nat /\ r.phase0TxTime \in Nat
  BY DEF RxState
<1>2. TxTimegap(r) \in Nat /\ TxTimegap(r) <= WorstDelay
  BY <1>1, TimeNat DEF TxTimegap
<1> QED
  BY <1>2, TimeNat, MaxVoqWaitFacts DEF FlushAfterPhase0

\* Every handler, and the clock, keeps VoqInv; the aging timers are the interesting
\* case: an entry old enough to be erased has no VOQ left.
LEMMA VoqStep ==
  ASSUME TypeOK, NetInv, VoqInv, [Next]_vars
  PROVE  VoqInv'
<1>1. now \in Nat /\ rx \in RxState /\ voq \in Voq
  BY DEF TypeOK
<1>2. /\ rx.activeTime \in Nat /\ rx.tailTime \in Nat /\ rx.phase0RxTime \in Nat
      /\ rx.phase0TxTime \in Nat /\ voq.flushAt \in Nat /\ voq.fifo \in Seq(Nat)
      /\ rx.reordering \in BOOLEAN /\ rx.known \in BOOLEAN /\ voq.exists \in BOOLEAN
  BY <1>1 DEF RxState, Voq
<1>3. ASSUME NEW p \in Path, RxPrevEpoch(p)  PROVE VoqInv'
  <2>1. /\ rx'.known /\ rx'.activeTime = now /\ rx'.reordering = rx.reordering
        /\ rx'.tailTime = rx.tailTime /\ rx'.phase0RxTime = rx.phase0RxTime
        /\ rx'.phase0TxTime = rx.phase0TxTime
    BY <1>1, <1>3 DEF RxPrevEpoch, RxState
  <2>2. voq' = voq /\ now' = now
    BY <1>3 DEF RxPrevEpoch
  <2>3. RxInv' /\ ReorderingIffVoq'
    BY <1>1, <2>1, <2>2 DEF VoqInv, RxInv, ReorderingIffVoq
  <2>4. VoqWaitBounded'
    BY <1>1, <1>2, <2>1, <2>2, MaxVoqWaitFacts DEF VoqInv, RxInv, VoqWaitBounded
  <2> QED
    BY <2>3, <2>4 DEF VoqInv
<1>4. ASSUME NEW p \in Path, RxPhase0(p)  PROVE VoqInv'
  <2> DEFINE pkt == Head(net[p])
             r   == RxAfter(pkt)
  <2>1. /\ pkt \in DataPkt /\ pkt.txTime <= now /\ pkt.tailTime <= now
        /\ now <= pkt.txTime + WorstDelay /\ pkt.phase = 0
    BY <1>4, ArrivedNet DEF RxPhase0, Arrived
  <2>2. /\ r \in RxState /\ r.known /\ r.activeTime = now
        /\ r.reordering = rx.reordering
        /\ r.tailTime <= now /\ r.phase0RxTime <= now
        /\ r.phase0RxTime <= r.phase0TxTime + WorstDelay
        /\ r.phase0Cache /\ r.phase0TxTime = pkt.txTime
    BY <2>1, RxAfterInv DEF VoqInv
  <2>3. /\ rx' = r /\ now' = now
        /\ voq' = IF rx.reordering
                  THEN [voq EXCEPT !.flushAt = FlushAfterPhase0(r, pkt),
                                   !.tailFrom = IF pkt.flag = "TAIL" THEN p ELSE NoPath]
                  ELSE voq
    BY <1>4 DEF RxPhase0
  <2> HIDE DEF pkt, r
  <2>4. /\ now <= FlushAfterPhase0(r, pkt)
        /\ FlushAfterPhase0(r, pkt) <= now + MaxVoqWait
    BY <1>1, <2>1, <2>2, Phase0Bound
  <2>5. /\ voq'.exists = voq.exists /\ voq'.fifo = voq.fifo
        /\ voq.exists => voq'.flushAt = FlushAfterPhase0(r, pkt)
    BY <1>1, <2>3 DEF VoqInv, ReorderingIffVoq, Voq
  <2>6. RxInv'
    BY <1>1, <2>2, <2>3 DEF RxInv
  <2>7. ReorderingIffVoq' /\ VoqWaitBounded'
    BY <1>1, <2>2, <2>3, <2>4, <2>5 DEF VoqInv, ReorderingIffVoq, VoqWaitBounded
  <2> QED
    BY <2>6, <2>7 DEF VoqInv
<1>5. ASSUME NEW p \in Path, RxPhase1InOrder(p)  PROVE VoqInv'
  <2> DEFINE pkt == Head(net[p])
             r   == RxAfter(pkt)
  <2>1. /\ pkt \in DataPkt /\ pkt.txTime <= now /\ pkt.tailTime <= now
        /\ now <= pkt.txTime + WorstDelay
    BY <1>5, ArrivedNet DEF RxPhase1InOrder, Arrived
  <2>2. /\ r.known /\ r.activeTime = now /\ r.reordering = rx.reordering
        /\ r.tailTime <= now /\ r.phase0RxTime <= now
        /\ r.phase0RxTime <= r.phase0TxTime + WorstDelay
    BY <2>1, RxAfterInv DEF VoqInv
  <2>3. rx' = r /\ now' = now /\ voq' = voq
    BY <1>5 DEF RxPhase1InOrder
  <2> HIDE DEF pkt, r
  <2>4. RxInv'
    BY <1>1, <2>2, <2>3 DEF RxInv
  <2>5. ReorderingIffVoq' /\ VoqWaitBounded'
    BY <1>1, <1>2, <2>2, <2>3, MaxVoqWaitFacts
    DEF VoqInv, RxInv, ReorderingIffVoq, VoqWaitBounded
  <2> QED
    BY <2>4, <2>5 DEF VoqInv
<1>6. ASSUME NEW p \in Path, RxPhase1OutOfOrder(p)  PROVE VoqInv'
  <2> DEFINE pkt == Head(net[p])
             r   == RxAfter(pkt)
  <2>1. /\ pkt \in DataPkt /\ pkt.txTime <= now /\ pkt.tailTime <= now
        /\ now <= pkt.txTime + WorstDelay
    BY <1>6, ArrivedNet DEF RxPhase1OutOfOrder, Arrived
  <2>2. /\ r \in RxState /\ r.known /\ r.activeTime = now
        /\ r.tailTime <= now /\ r.phase0RxTime <= now
        /\ r.phase0RxTime <= r.phase0TxTime + WorstDelay
    BY <2>1, RxAfterInv DEF VoqInv
  <2>3. /\ rx' = [r EXCEPT !.reordering = TRUE] /\ now' = now
        /\ voq'.exists /\ voq'.fifo = Append(voq.fifo, pkt.seq)
        /\ voq'.flushAt = IF rx.reordering THEN voq.flushAt ELSE FlushOfNewVoq(r)
    BY <1>6 DEF RxPhase1OutOfOrder
  <2>4. Append(voq.fifo, pkt.seq) # <<>>
    <3>1. voq.fifo \in Seq(Nat) /\ pkt.seq \in Nat
      BY <1>2, <2>1 DEF DataPkt
    <3> QED
      BY <3>1, AppendNotEmpty
  <2> HIDE DEF pkt, r
  <2>5. now <= FlushOfNewVoq(r) /\ FlushOfNewVoq(r) <= now + MaxVoqWait
    BY <1>1, <2>2, NewVoqBound
  <2>6. /\ rx'.known /\ rx'.activeTime = now /\ rx'.reordering
        /\ rx'.tailTime = r.tailTime /\ rx'.phase0RxTime = r.phase0RxTime
        /\ rx'.phase0TxTime = r.phase0TxTime
    BY <2>2, <2>3 DEF RxState
  <2>7. RxInv'
    BY <1>1, <2>2, <2>3, <2>6 DEF RxInv
  <2>8. now <= voq'.flushAt /\ voq'.flushAt <= now + MaxVoqWait
    BY <1>1, <1>2, <2>3, <2>5, MaxVoqWaitFacts
    DEF VoqInv, RxInv, ReorderingIffVoq, VoqWaitBounded
  <2>9. ReorderingIffVoq' /\ VoqWaitBounded'
    BY <2>3, <2>4, <2>6, <2>8 DEF ReorderingIffVoq, VoqWaitBounded
  <2> QED
    BY <2>7, <2>9 DEF VoqInv
<1>7. CASE VoqFlush
  <2>1. /\ ~rx'.reordering /\ rx'.activeTime = rx.activeTime
        /\ rx'.tailTime = rx.tailTime /\ rx'.phase0RxTime = rx.phase0RxTime
        /\ rx'.phase0TxTime = rx.phase0TxTime
    BY <1>1, <1>7 DEF VoqFlush, RxState
  <2>2. now' = now /\ ~voq'.exists /\ voq'.fifo = <<>>
    BY <1>7 DEF VoqFlush, NoVoq
  <2> QED
    BY <2>1, <2>2 DEF VoqInv, RxInv, ReorderingIffVoq, VoqWaitBounded
<1>8. CASE AgingEventRx
  <2>1. Stale(rx) => ~voq.exists
    BY <1>1, <1>2, MaxVoqWaitFacts, TimeNat
    DEF Stale, VoqInv, ReorderingIffVoq, VoqWaitBounded
  <2>2. now' = now /\ voq' = voq
    BY <1>8 DEF AgingEventRx
  <2>3. CASE rx' = rx
    BY <2>2, <2>3 DEF VoqInv, RxInv, ReorderingIffVoq, VoqWaitBounded
  <2>4. CASE Stale(rx) /\ rx' = FreshRx
    <3>1. RxInv'
      BY <1>1, <2>2, <2>4, TimeNat DEF RxInv, FreshRx
    <3>2. ReorderingIffVoq' /\ VoqWaitBounded'
      BY <2>1, <2>2, <2>4 DEF VoqInv, ReorderingIffVoq, VoqWaitBounded, FreshRx
    <3> QED
      BY <3>1, <3>2 DEF VoqInv
  <2> QED
    BY <1>8, <2>3, <2>4 DEF AgingEventRx
<1>9. CASE Tick
  <2>1. now' = now + 1 /\ rx' = rx /\ voq' = voq
    BY <1>9 DEF Tick, rxVars
  <2>2. voq.exists => voq.flushAt # now
    BY <1>9 DEF Tick, Due
  <2>3. RxInv'
    BY <1>1, <1>2, <2>1 DEF VoqInv, RxInv
  <2>4. ReorderingIffVoq' /\ VoqWaitBounded'
    BY <1>1, <1>2, <2>1, <2>2 DEF VoqInv, ReorderingIffVoq, VoqWaitBounded
  <2> QED
    BY <2>3, <2>4 DEF VoqInv
<1>10. CASE UNCHANGED <<now, rx, voq>>
  BY <1>10 DEF VoqInv, RxInv, ReorderingIffVoq, VoqWaitBounded
<1> QED
  BY <1>3, <1>4, <1>5, <1>6, <1>7, <1>8, <1>9, <1>10
  DEF Next, TxData, TxExpired, TxStabilized, TxReplyTimeout, TxUsual, Forward,
      TxReply, TxNotify, RxData, AgingEventTx, Drop, Stop, vars, rxVars

-----------------------------------------------------------------------------
(* The theorems.                                                           *)

\* The inductive invariant holds initially.
LEMMA Initially == Init => IInv
<1> SUFFICES ASSUME Init  PROVE IInv
  OBVIOUS
<1>1. TypeOK
  BY TypeInit
<1>2. ClockInv
  BY TimeNat DEF Init, ClockInv, StartTime
<1>3. TxInv
  BY TimeNat DEF Init, TxInv, FreshTx, StartTime
<1>4. NetInv
  BY DEF Init, NetInv
<1>5. VoqInv
  BY TimeNat DEF Init, VoqInv, RxInv, ReorderingIffVoq, VoqWaitBounded, FreshRx, NoVoq,
                 StartTime
<1> QED
  BY <1>1, <1>2, <1>3, <1>4, <1>5 DEF IInv

\* Every step keeps the inductive invariant.
LEMMA Inductive == IInv /\ [Next]_vars => IInv'
  BY TypeStep, ClockStep, TxStep, NetStep, VoqStep DEF IInv

\* The inductive invariant is an invariant.
LEMMA Invariant == Spec => []IInv
  BY Initially, Inductive, PTL DEF Spec

\* Neither of the two assertions of the source ToR can fail: an entry that has
\* not expired was set up by an earlier packet and has a path, and a reply
\* time-out only ever finds the entry in phase 0.
THEOREM TxAssertionsHold == Spec => []TxAssertions
<1>1. IInv => TxAssertions
  <2> SUFFICES ASSUME IInv  PROVE TxAssertions
    OBVIOUS
  <2>1. tx \in TxState /\ now \in Nat /\ now >= StartTime /\ now <= StopTime
    BY TimeNat DEF IInv, TypeOK, ClockInv, StartTime
  <2>2. ~Expired => tx.known /\ tx.pathId # NoPath
    BY <2>1, TimeNat DEF IInv, TxInv, Expired, StartTime, TxState
  <2>3. ReplyTimeout => tx.replyTimer # CW_MAX_TIME
    BY <2>1, TimeNat DEF ReplyTimeout
  <2>4. ReplyTimeout => tx.phase = 0
    BY <2>1, <2>3 DEF IInv, TxInv, TxState
  <2> QED
    BY <2>2, <2>4 DEF TxAssertions
<1> QED
  BY <1>1, Invariant, PTL

\* The Rx entry's _reordering flag, the VOQ map and the VOQ's contents always
\* agree, a held packet always has a flush to come, and the aging event never
\* erases the entry of a flow whose packets are held.
THEOREM VoqConsistent == Spec => []ReorderingIffVoq
<1>1. IInv => ReorderingIffVoq
  BY DEF IInv, VoqInv
<1> QED
  BY <1>1, Invariant, PTL

\* A packet is held no longer than MaxVoqWait after the flow's last arrival,
\* however stale the timestamps that the prediction is made from.
THEOREM VoqWaitIsBounded == Spec => []VoqWaitBounded
<1>1. IInv => VoqWaitBounded
  BY DEF IInv, VoqInv
<1> QED
  BY <1>1, Invariant, PTL

-----------------------------------------------------------------------------
(* Sequences whose elements all differ.                                    *)

Elements(s) == {s[i] : i \in DOMAIN s}
Distinct(s) == \A i, j \in DOMAIN s : s[i] = s[j] => i = j

\* Their length is the number of their elements.
LEMMA DistinctCardinality ==
  ASSUME NEW S, NEW s \in Seq(S), Distinct(s)
  PROVE  Cardinality(Elements(s)) = Len(s)
<1>1. DOMAIN s = 1 .. Len(s) /\ Len(s) \in Nat
  OBVIOUS
<1>2. IsFiniteSet(1 .. Len(s)) /\ Cardinality(1 .. Len(s)) = Len(s)
  BY <1>1, FS_Interval
<1>3. s \in Bijection(1 .. Len(s), Elements(s))
  <2>1. s \in [1 .. Len(s) -> Elements(s)]
    BY <1>1 DEF Elements
  <2>2. \A i, j \in 1 .. Len(s) : s[i] = s[j] => i = j
    BY <1>1 DEF Distinct
  <2>3. \A e \in Elements(s) : \E i \in 1 .. Len(s) : s[i] = e
    BY <1>1 DEF Elements
  <2> QED
    BY <2>1, <2>2, <2>3 DEF Bijection, Injection, Surjection, IsInjective
<1>4. ExistsBijection(1 .. Len(s), Elements(s))
  BY <1>3 DEF ExistsBijection
<1> QED
  BY <1>2, <1>4, FS_Bijection

\* One more element at the end.
LEMMA DistinctAppend ==
  ASSUME NEW S, NEW s \in Seq(S), NEW e \in S, Distinct(s), e \notin Elements(s)
  PROVE  Distinct(Append(s, e)) /\ Elements(Append(s, e)) = Elements(s) \union {e}
<1> DEFINE t == Append(s, e)
           n == Len(s)
<1>1. /\ DOMAIN s = 1 .. n /\ DOMAIN t = 1 .. n + 1 /\ n \in Nat
      /\ t[n + 1] = e /\ \A i \in 1 .. n : t[i] = s[i]
  OBVIOUS
<1>2. \A i \in 1 .. n + 1 : i \in 1 .. n \/ i = n + 1
  BY <1>1
<1> HIDE DEF t, n
<1>3. Elements(t) = Elements(s) \union {e}
  <2>1. ASSUME NEW a \in Elements(t)  PROVE a \in Elements(s) \union {e}
    BY <1>1, <1>2 DEF Elements
  <2>2. ASSUME NEW a \in Elements(s) \union {e}  PROVE a \in Elements(t)
    <3>1. CASE a = e
      BY <1>1, <3>1 DEF Elements
    <3>2. CASE a \in Elements(s)
      <4>1. PICK i \in 1 .. n : s[i] = a
        BY <1>1, <3>2 DEF Elements
      <4> QED
        BY <1>1, <4>1 DEF Elements
    <3> QED
      BY <2>2, <3>1, <3>2
  <2> QED
    BY <2>1, <2>2
<1>4. Distinct(t)
  <2> SUFFICES ASSUME NEW i \in 1 .. n + 1, NEW j \in 1 .. n + 1, t[i] = t[j]
               PROVE  i = j
    BY <1>1 DEF Distinct
  <2>1. \A k \in 1 .. n : s[k] \in Elements(s)
    BY <1>1 DEF Elements
  <2> QED
    BY <1>1, <1>2, <2>1 DEF Distinct
<1> QED
  BY <1>3, <1>4 DEF t

\* One less at the front.
LEMMA DistinctTail ==
  ASSUME NEW S, NEW s \in Seq(S), s # <<>>, Distinct(s)
  PROVE  /\ Distinct(Tail(s)) /\ Head(s) \in Elements(s)
         /\ Elements(Tail(s)) = Elements(s) \ {Head(s)}
<1> DEFINE t == Tail(s)
           n == Len(s) - 1
<1>1. /\ DOMAIN s = 1 .. n + 1 /\ DOMAIN t = 1 .. n /\ n \in Nat
      /\ Head(s) = s[1] /\ \A i \in 1 .. n : t[i] = s[i + 1]
  BY HeadTail
<1>2. /\ 1 \in 1 .. n + 1
      /\ \A i \in 1 .. n : i + 1 \in 1 .. n + 1 /\ i + 1 # 1
      /\ \A i \in 1 .. n + 1 : i # 1 => i - 1 \in 1 .. n /\ (i - 1) + 1 = i
      /\ \A i, j \in 1 .. n : i + 1 = j + 1 => i = j
  BY <1>1
<1> HIDE DEF t, n
<1>3. Head(s) \in Elements(s)
  BY <1>1, <1>2 DEF Elements
<1>4. Distinct(t)
  <2> SUFFICES ASSUME NEW i \in 1 .. n, NEW j \in 1 .. n, t[i] = t[j]
               PROVE  i = j
    BY <1>1 DEF Distinct
  <2>1. s[i + 1] = s[j + 1]
    BY <1>1
  <2>2. i + 1 = j + 1
    BY <1>1, <1>2, <2>1 DEF Distinct
  <2> QED
    BY <1>2, <2>2
<1>5. ASSUME NEW a \in Elements(t)  PROVE a \in Elements(s) \ {Head(s)}
  <2>1. PICK i \in 1 .. n : t[i] = a
    BY <1>1 DEF Elements
  <2>2. a = s[i + 1] /\ i + 1 \in 1 .. n + 1 /\ i + 1 # 1
    BY <1>1, <1>2, <2>1
  <2>3. a # s[1]
    BY <1>1, <1>2, <2>2 DEF Distinct
  <2> QED
    BY <1>1, <2>2, <2>3 DEF Elements
<1>6. ASSUME NEW a \in Elements(s) \ {Head(s)}  PROVE a \in Elements(t)
  <2>1. PICK i \in 1 .. n + 1 : s[i] = a
    BY <1>1 DEF Elements
  <2>2. i # 1
    BY <1>1, <2>1
  <2>3. i - 1 \in 1 .. n /\ t[i - 1] = a
    <3>1. i - 1 \in 1 .. n /\ (i - 1) + 1 = i
      BY <1>2, <2>2
    <3> QED
      BY <1>1, <2>1, <3>1
  <2> QED
    BY <1>1, <2>3 DEF Elements
<1> QED
  BY <1>3, <1>4, <1>5, <1>6 DEF t

\* One sequence after another.
LEMMA DistinctConcat ==
  ASSUME NEW S, NEW s \in Seq(S), NEW t \in Seq(S), Distinct(s), Distinct(t),
         Elements(s) \intersect Elements(t) = {}
  PROVE  Distinct(s \o t) /\ Elements(s \o t) = Elements(s) \union Elements(t)
<1> DEFINE u == s \o t
           m == Len(s)
           n == Len(t)
<1>1. /\ DOMAIN s = 1 .. m /\ DOMAIN t = 1 .. n /\ DOMAIN u = 1 .. m + n
      /\ m \in Nat /\ n \in Nat
      /\ \A i \in 1 .. m : u[i] = s[i]
      /\ \A i \in 1 .. m + n : i \notin 1 .. m => u[i] = t[i - m]
  OBVIOUS
<1>2. /\ \A i \in 1 .. m : i \in 1 .. m + n
      /\ \A i \in 1 .. m + n : i \notin 1 .. m => i - m \in 1 .. n
      /\ \A i \in 1 .. n : i + m \in 1 .. m + n /\ i + m \notin 1 .. m /\ (i + m) - m = i
      /\ \A i, j \in 1 .. m + n : i - m = j - m => i = j
  BY <1>1
<1> HIDE DEF u, m, n
<1>3. /\ \A i \in 1 .. m : s[i] \in Elements(s)
      /\ \A i \in 1 .. n : t[i] \in Elements(t)
  BY <1>1 DEF Elements
<1>4. ASSUME NEW i \in 1 .. m + n, NEW j \in 1 .. m + n, u[i] = u[j]
      PROVE  i = j
  <2>1. CASE i \in 1 .. m /\ j \in 1 .. m
    BY <1>1, <1>4, <2>1 DEF Distinct
  <2>2. CASE i \notin 1 .. m /\ j \notin 1 .. m
    <3>1. t[i - m] = t[j - m] /\ i - m \in 1 .. n /\ j - m \in 1 .. n
      BY <1>1, <1>2, <1>4, <2>2
    <3>2. i - m = j - m
      BY <1>1, <3>1 DEF Distinct
    <3> QED
      BY <1>2, <3>2
  <2>3. CASE i \in 1 .. m /\ j \notin 1 .. m
    <3>1. u[i] \in Elements(s) /\ u[j] \in Elements(t)
      BY <1>1, <1>2, <1>3, <2>3
    <3> QED
      BY <1>4, <3>1
  <2>4. CASE i \notin 1 .. m /\ j \in 1 .. m
    <3>1. u[j] \in Elements(s) /\ u[i] \in Elements(t)
      BY <1>1, <1>2, <1>3, <2>4
    <3> QED
      BY <1>4, <3>1
  <2> QED
    BY <2>1, <2>2, <2>3, <2>4
<1>5. Distinct(u)
  BY <1>1, <1>4 DEF Distinct
<1>6. ASSUME NEW a \in Elements(u)  PROVE a \in Elements(s) \union Elements(t)
  <2>1. PICK i \in 1 .. m + n : u[i] = a
    BY <1>1 DEF Elements
  <2> QED
    BY <1>1, <1>2, <1>3, <2>1
<1>7. ASSUME NEW a \in Elements(s) \union Elements(t)  PROVE a \in Elements(u)
  <2>1. ASSUME NEW i \in 1 .. m + n  PROVE u[i] \in Elements(u)
    BY <1>1 DEF Elements
  <2>2. CASE a \in Elements(s)
    <3>1. PICK i \in 1 .. m : s[i] = a
      BY <1>1, <2>2 DEF Elements
    <3> QED
      BY <1>1, <1>2, <2>1, <3>1
  <2>3. CASE a \in Elements(t)
    <3>1. PICK i \in 1 .. n : t[i] = a
      BY <1>1, <2>3 DEF Elements
    <3>2. u[i + m] = a /\ i + m \in 1 .. m + n
      BY <1>1, <1>2, <3>1
    <3> QED
      BY <2>1, <3>2
  <2> QED
    BY <1>7, <2>2, <2>3
<1> QED
  BY <1>5, <1>6, <1>7 DEF u

-----------------------------------------------------------------------------
(* Places.                                                                 *)

\* The numbers 1 .. n, each in one place: in flight on a path (F), held (V), with
\* the host (H) or lost (L).
Placed(F, V, H, L, n) ==
  /\ (UNION {F[p] : p \in Path}) \union V \union H \union L = 1 .. n
  /\ \A p \in Path : /\ \A r \in Path \ {p} : F[p] \intersect F[r] = {}
                     /\ F[p] \intersect (V \union H \union L) = {}
  /\ V \intersect (H \union L) = {}
  /\ H \intersect L = {}

\* The next number is sent.
LEMMA PlacedSend ==
  ASSUME NEW F, NEW V, NEW H, NEW L, NEW n \in Nat, Placed(F, V, H, L, n),
         NEW p \in Path, NEW G, G[p] = F[p] \union {n + 1},
         \A r \in Path \ {p} : G[r] = F[r]
  PROVE  Placed(G, V, H, L, n + 1)
<1>1. /\ n + 1 \notin 1 .. n
      /\ 1 .. n + 1 = (1 .. n) \union {n + 1}
  OBVIOUS
<1>2. /\ \A r \in Path : n + 1 \notin F[r]
      /\ n + 1 \notin V /\ n + 1 \notin H /\ n + 1 \notin L
  BY <1>1 DEF Placed
<1>3. (UNION {G[r] : r \in Path}) = (UNION {F[r] : r \in Path}) \union {n + 1}
  <2>1. ASSUME NEW a \in UNION {G[r] : r \in Path}
        PROVE  a \in (UNION {F[r] : r \in Path}) \union {n + 1}
    <3>1. PICK r \in Path : a \in G[r]
      BY <2>1
    <3> QED
      BY <3>1
  <2>2. ASSUME NEW a \in (UNION {F[r] : r \in Path}) \union {n + 1}
        PROVE  a \in UNION {G[r] : r \in Path}
    <3>1. CASE a = n + 1
      BY <3>1
    <3>2. CASE a # n + 1
      <4>1. PICK r \in Path : a \in F[r]
        BY <2>2, <3>2
      <4> QED
        BY <4>1
    <3> QED
      BY <3>1, <3>2
  <2> QED
    BY <2>1, <2>2
<1>4. (UNION {G[r] : r \in Path}) \union V \union H \union L = 1 .. n + 1
  BY <1>1, <1>3 DEF Placed
<1>5. ASSUME NEW q \in Path
      PROVE  /\ \A r \in Path \ {q} : G[q] \intersect G[r] = {}
             /\ G[q] \intersect (V \union H \union L) = {}
  BY <1>2 DEF Placed
<1> QED
  BY <1>4, <1>5 DEF Placed

\* A number leaves its path for one of the other places.
LEMMA PlacedMove ==
  ASSUME NEW F, NEW V, NEW H, NEW L, NEW n, Placed(F, V, H, L, n),
         NEW p \in Path, NEW k \in F[p], NEW G, G[p] = F[p] \ {k},
         \A r \in Path \ {p} : G[r] = F[r],
         NEW W, NEW I, NEW M,
         \/ W = V \union {k} /\ I = H /\ M = L
         \/ W = V /\ I = H \union {k} /\ M = L
         \/ W = V /\ I = H /\ M = L \union {k}
  PROVE  Placed(G, W, I, M, n)
<1>1. /\ k \notin V /\ k \notin H /\ k \notin L
      /\ \A r \in Path \ {p} : k \notin F[r]
  BY DEF Placed
<1>2. \A r \in Path : k \notin G[r] /\ G[r] \subseteq F[r]
  BY <1>1
<1>3. W \union I \union M = V \union H \union L \union {k}
  OBVIOUS
<1>4. (UNION {G[r] : r \in Path}) = (UNION {F[r] : r \in Path}) \ {k}
  <2>1. ASSUME NEW a \in UNION {G[r] : r \in Path}
        PROVE  a \in (UNION {F[r] : r \in Path}) \ {k}
    <3>1. PICK r \in Path : a \in G[r]
      BY <2>1
    <3>2. a \in F[r] /\ a # k
      BY <1>2, <3>1
    <3> QED
      BY <3>2
  <2>2. ASSUME NEW a \in (UNION {F[r] : r \in Path}) \ {k}
        PROVE  a \in UNION {G[r] : r \in Path}
    <3>1. PICK r \in Path : a \in F[r]
      BY <2>2
    <3>2. a \in G[r]
      BY <2>2, <3>1
    <3> QED
      BY <3>2
  <2> QED
    BY <2>1, <2>2
<1>5. (UNION {G[r] : r \in Path}) \union W \union I \union M = 1 .. n
  <2>1. k \in UNION {F[r] : r \in Path}
    OBVIOUS
  <2>2. (UNION {F[r] : r \in Path}) \union V \union H \union L = 1 .. n
    BY DEF Placed
  <2> HIDE DEF Placed
  <2> QED
    BY <1>3, <1>4, <2>1, <2>2
<1>6. ASSUME NEW q \in Path
      PROVE  /\ \A r \in Path \ {q} : G[q] \intersect G[r] = {}
             /\ G[q] \intersect (W \union I \union M) = {}
  <2>1. ASSUME NEW r \in Path \ {q}  PROVE G[q] \intersect G[r] = {}
    <3>1. F[q] \intersect F[r] = {}
      BY DEF Placed
    <3> QED
      BY <1>2, <3>1
  <2>2. G[q] \intersect (W \union I \union M) = {}
    <3>1. F[q] \intersect (V \union H \union L) = {}
      BY DEF Placed
    <3> QED
      BY <1>2, <1>3, <3>1
  <2> QED
    BY <2>1, <2>2
<1>7. W \intersect (I \union M) = {} /\ I \intersect M = {}
  BY <1>1 DEF Placed
<1> QED
  BY <1>5, <1>6, <1>7 DEF Placed

\* What is held goes to the host.
LEMMA PlacedFlush ==
  ASSUME NEW F, NEW V, NEW H, NEW L, NEW n, Placed(F, V, H, L, n)
  PROVE  Placed(F, {}, H \union V, L, n)
<1>1. (UNION {F[p] : p \in Path}) \union {} \union (H \union V) \union L = 1 .. n
  BY DEF Placed
<1> QED
  BY <1>1 DEF Placed

-----------------------------------------------------------------------------
(* The packets of the model.                                               *)

\* The numbers of the packets in a queue, and of those in flight.
Seqs(q) == [i \in 1 .. Len(q) |-> q[i].seq]
Flight  == [p \in Path |-> Elements(Seqs(net[p]))]

OnceInv ==
  /\ \A p \in Path : Distinct(Seqs(net[p]))
  /\ Distinct(voq.fifo) /\ Distinct(delivered)
  /\ Placed(Flight, Elements(voq.fifo), Elements(delivered), lost, sent)

\* The numbers of a queue that changes at an end.
LEMMA SeqsType ==
  ASSUME NEW q \in Seq(DataPkt)
  PROVE  /\ Seqs(q) \in Seq(Nat) /\ Len(Seqs(q)) = Len(q)
         /\ \A pkt \in DataPkt : Seqs(Append(q, pkt)) = Append(Seqs(q), pkt.seq)
         /\ q # <<>> => /\ Seqs(q) # <<>> /\ Head(Seqs(q)) = Head(q).seq
                        /\ Seqs(Tail(q)) = Tail(Seqs(q))
<1>1. Len(q) \in Nat /\ \A i \in 1 .. Len(q) : q[i] \in DataPkt
  OBVIOUS
<1>2. \A i \in 1 .. Len(q) : q[i].seq \in Nat
  BY <1>1 DEF DataPkt
<1>3. Seqs(q) \in Seq(Nat) /\ Len(Seqs(q)) = Len(q)
  BY <1>1, <1>2 DEF Seqs
<1>4. ASSUME NEW pkt \in DataPkt
      PROVE  Seqs(Append(q, pkt)) = Append(Seqs(q), pkt.seq)
  <2> DEFINE t == Append(q, pkt)
             n == Len(q)
             u == Append(Seqs(q), pkt.seq)
  <2>1. /\ Len(t) = n + 1 /\ t[n + 1] = pkt /\ \A i \in 1 .. n : t[i] = q[i]
    OBVIOUS
  <2>2. pkt.seq \in Nat
    BY DEF DataPkt
  <2>3. /\ u \in Seq(Nat) /\ DOMAIN u = 1 .. n + 1 /\ u[n + 1] = pkt.seq
        /\ \A i \in 1 .. n : u[i] = Seqs(q)[i]
    BY <1>3, <2>2
  <2>4. /\ u = [i \in 1 .. n + 1 |-> u[i]]
        /\ \A i \in 1 .. n : Seqs(q)[i] = q[i].seq
        /\ Seqs(t) = [i \in 1 .. n + 1 |-> t[i].seq]
        /\ \A i \in 1 .. n + 1 : i \in 1 .. n \/ i = n + 1
    BY <1>1, <2>1, <2>3 DEF Seqs
  <2> HIDE DEF t, n, u
  <2>5. \A i \in 1 .. n + 1 : u[i] = t[i].seq
    BY <2>1, <2>3, <2>4
  <2>6. Seqs(t) = u
    BY <2>4, <2>5
  <2> QED
    BY <2>6 DEF t, u
<1>5. ASSUME q # <<>>
      PROVE  /\ Seqs(q) # <<>> /\ Head(Seqs(q)) = Head(q).seq
             /\ Seqs(Tail(q)) = Tail(Seqs(q))
  <2> DEFINE t == Tail(q)
             n == Len(q) - 1
             u == Tail(Seqs(q))
  <2>1. /\ Len(q) = n + 1 /\ n \in Nat /\ Len(t) = n
        /\ Head(q) = q[1] /\ \A i \in 1 .. n : t[i] = q[i + 1]
    BY <1>5, HeadTail
  <2>2. Seqs(q) # <<>>
    BY <1>3, <2>1
  <2>3. /\ DOMAIN u = 1 .. n /\ u \in Seq(Nat) /\ Head(Seqs(q)) = Seqs(q)[1]
        /\ \A i \in 1 .. n : u[i] = Seqs(q)[i + 1]
    <3>1. /\ u \in Seq(Nat) /\ Len(u) = n /\ Head(Seqs(q)) = Seqs(q)[1]
          /\ \A i \in 1 .. n : u[i] = Seqs(q)[i + 1]
      BY <1>3, <2>1, <2>2, HeadTail
    <3> HIDE DEF u, n
    <3> QED
      BY <3>1
  <2>4. \A i \in 1 .. n + 1 : Seqs(q)[i] = q[i].seq
    BY <2>1 DEF Seqs
  <2>5. 1 \in 1 .. n + 1 /\ \A i \in 1 .. n : i + 1 \in 1 .. n + 1
    BY <2>1
  <2>6. u = [i \in 1 .. n |-> u[i]] /\ Seqs(t) = [i \in 1 .. n |-> t[i].seq]
    BY <2>1, <2>3 DEF Seqs
  <2> HIDE DEF t, n, u
  <2>7. \A i \in 1 .. n : u[i] = t[i].seq
    BY <2>1, <2>3, <2>4, <2>5
  <2>8. Seqs(t) = u
    BY <2>6, <2>7
  <2>9. Head(Seqs(q)) = Head(q).seq
    BY <2>1, <2>3, <2>4, <2>5
  <2> QED
    BY <2>2, <2>8, <2>9 DEF t, u
<1> QED
  BY <1>3, <1>4, <1>5

\* A path that gets a packet, and one that gives one up.
LEMMA FlightPush ==
  ASSUME TypeOK, \A r \in Path : Distinct(Seqs(net[r])), NEW p \in Path,
         NEW pkt \in DataPkt, pkt.seq \notin Flight[p],
         net' = [net EXCEPT ![p] = Append(net[p], pkt)]
  PROVE  /\ \A r \in Path : Distinct(Seqs(net'[r]))
         /\ Flight'[p] = Flight[p] \union {pkt.seq}
         /\ \A r \in Path \ {p} : Flight'[r] = Flight[r]
<1>1. net \in [Path -> Seq(DataPkt)]
  BY DEF TypeOK
<1>2. /\ \A r \in Path : Flight'[r] = Elements(Seqs(net'[r]))
      /\ \A r \in Path : Flight[r] = Elements(Seqs(net[r]))
  BY DEF Flight
<1>3. net'[p] = Append(net[p], pkt) /\ \A r \in Path \ {p} : net'[r] = net[r]
  BY <1>1
<1>4. pkt.seq \in Nat
  BY DEF DataPkt
<1>5. Seqs(net'[p]) = Append(Seqs(net[p]), pkt.seq) /\ Seqs(net[p]) \in Seq(Nat)
  BY <1>1, <1>3, SeqsType
<1>6. /\ Distinct(Append(Seqs(net[p]), pkt.seq))
      /\ Elements(Append(Seqs(net[p]), pkt.seq)) = Elements(Seqs(net[p])) \union {pkt.seq}
  BY <1>2, <1>4, <1>5, DistinctAppend
<1> QED
  BY <1>2, <1>3, <1>5, <1>6

\* A path that gives up its head.
LEMMA FlightPop ==
  ASSUME TypeOK, \A r \in Path : Distinct(Seqs(net[r])), NEW p \in Path,
         net[p] # <<>>, net' = [net EXCEPT ![p] = Tail(net[p])]
  PROVE  /\ \A r \in Path : Distinct(Seqs(net'[r]))
         /\ Head(net[p]).seq \in Flight[p] /\ Head(net[p]).seq \in Nat
         /\ Flight'[p] = Flight[p] \ {Head(net[p]).seq}
         /\ \A r \in Path \ {p} : Flight'[r] = Flight[r]
<1>1. net \in [Path -> Seq(DataPkt)]
  BY DEF TypeOK
<1>2. /\ \A r \in Path : Flight'[r] = Elements(Seqs(net'[r]))
      /\ \A r \in Path : Flight[r] = Elements(Seqs(net[r]))
  BY DEF Flight
<1>3. net'[p] = Tail(net[p]) /\ \A r \in Path \ {p} : net'[r] = net[r]
  BY <1>1
<1>4. Head(net[p]) \in DataPkt
  BY ArrivedType
<1>5. /\ Seqs(net[p]) \in Seq(Nat) /\ Seqs(net[p]) # <<>>
      /\ Head(Seqs(net[p])) = Head(net[p]).seq
      /\ Seqs(net'[p]) = Tail(Seqs(net[p]))
  BY <1>1, <1>3, SeqsType
<1>6. /\ Distinct(Tail(Seqs(net[p])))
      /\ Head(Seqs(net[p])) \in Elements(Seqs(net[p]))
      /\ Elements(Tail(Seqs(net[p]))) = Elements(Seqs(net[p])) \ {Head(Seqs(net[p]))}
  BY <1>5, DistinctTail
<1>7. Head(net[p]).seq \in Nat
  BY <1>4 DEF DataPkt
<1> QED
  BY <1>2, <1>3, <1>5, <1>6, <1>7

\* A number that is in flight is new to the host and to the VOQ.
LEMMA JoinElements ==
  ASSUME NEW s \in Seq(Nat), Distinct(s), NEW k \in Nat, k \notin Elements(s)
  PROVE  /\ Distinct(Append(s, k)) /\ Elements(Append(s, k)) = Elements(s) \union {k}
         /\ Distinct(s \o <<k>>) /\ Elements(s \o <<k>>) = Elements(s) \union {k}
<1>1. Distinct(Append(s, k)) /\ Elements(Append(s, k)) = Elements(s) \union {k}
  BY DistinctAppend
<1>2. s \o <<k>> = Append(s, k)
  OBVIOUS
<1> QED
  BY <1>1, <1>2

\* The empty sequence has no elements.
LEMMA NoElements == Distinct(<<>>) /\ Elements(<<>>) = {}
<1>1. DOMAIN <<>> = {}
  OBVIOUS
<1> QED
  BY <1>1 DEF Distinct, Elements

\* At the start there are no packets.
LEMMA OnceInit == Init => OnceInv
<1> SUFFICES ASSUME Init  PROVE OnceInv
  OBVIOUS
<1>1. /\ voq.fifo = <<>> /\ delivered = <<>> /\ lost = {} /\ sent = 0
      /\ \A p \in Path : net[p] = <<>>
  BY DEF Init, NoVoq
<1>2. \A p \in Path : Seqs(net[p]) = <<>>
  BY <1>1 DEF Seqs
<1>3. \A p \in Path : Flight[p] = {} /\ Distinct(Seqs(net[p]))
  BY <1>2, NoElements DEF Flight
<1>4. (UNION {Flight[p] : p \in Path}) \union {} \union {} \union {} = 1 .. 0
  <2>1. 1 .. 0 = {} /\ UNION {Flight[p] : p \in Path} = {}
    BY <1>3
  <2> QED
    BY <2>1
<1>5. Placed(Flight, {}, {}, {}, 0)
  BY <1>3, <1>4 DEF Placed
<1> QED
  BY <1>1, <1>3, <1>5, NoElements DEF OnceInv

\* The source ToR forwards a packet on a path; an entry that is not expired has one.
LEMMA TxForwards ==
  ASSUME TypeOK, ClockInv, TxInv, TxData
  PROVE  \E path \in Path, flag \in {"DATA", "INIT", "TAIL"}, epoch \in Nat,
            phase \in {0, 1}, tailTime \in Nat :
           Forward(path, flag, epoch, phase, tailTime)
<1>1. /\ tx.pathId \in Path \union {NoPath} /\ tx.epoch \in Nat /\ tx.phase \in {0, 1}
      /\ tx.tailTime \in Nat /\ tx.epoch + 1 \in Nat /\ now \in Nat
  BY DEF TypeOK, TxState
<1>2. ~Expired => tx.pathId \in Path
  <2>1. ~Expired => tx.known
    BY <1>1, TimeNat DEF Expired, TxInv, ClockInv, StartTime, TypeOK, TxState
  <2> QED
    BY <1>1, <2>1 DEF TxInv
<1>3. CASE TxExpired
  <2>1. PICK c \in PathChoice :
          Forward(IF c.found \/ tx.pathId = NoPath THEN c.path ELSE tx.pathId,
                  "INIT", tx.epoch + 1, 0, 0)
    BY <1>3 DEF TxExpired
  <2> DEFINE path == IF c.found \/ tx.pathId = NoPath THEN c.path ELSE tx.pathId
  <2>2. path \in Path
    BY <1>1, ChoiceType
  <2>3. Forward(path, "INIT", tx.epoch + 1, 0, 0)
    BY <2>1
  <2> HIDE DEF path
  <2> QED
    BY <1>1, <2>2, <2>3
<1>4. CASE TxStabilized
  BY <1>1, <1>2, <1>4 DEF TxStabilized
<1>5. CASE TxReplyTimeout
  BY <1>1, <1>2, <1>5 DEF TxReplyTimeout
<1>6. CASE TxUsual
  BY <1>1, <1>2, <1>6 DEF TxUsual
<1> QED
  BY <1>3, <1>4, <1>5, <1>6 DEF TxData

\* Every handler moves a packet from one place to another, or leaves it where it is.
LEMMA OnceStep ==
  TypeOK /\ ClockInv /\ TxInv /\ OnceInv /\ [Next]_vars => OnceInv'
<1> SUFFICES ASSUME TypeOK, ClockInv, TxInv, OnceInv, [Next]_vars  PROVE OnceInv'
  OBVIOUS
<1>0. /\ \A r \in Path : Distinct(Seqs(net[r]))
      /\ Distinct(voq.fifo) /\ Distinct(delivered)
      /\ Placed(Flight, Elements(voq.fifo), Elements(delivered), lost, sent)
      /\ net \in [Path -> Seq(DataPkt)] /\ voq.fifo \in Seq(Nat)
      /\ delivered \in Seq(Nat) /\ sent \in Nat
  BY DEF OnceInv, TypeOK, Voq
<1>1. ASSUME NEW path \in Path, NEW flag \in {"DATA", "INIT", "TAIL"}, NEW epoch \in Nat,
             NEW phase \in {0, 1}, NEW tailTime \in Nat,
             Forward(path, flag, epoch, phase, tailTime)
      PROVE  OnceInv'
  <2> DEFINE pkt == [seq |-> sent + 1, epoch |-> epoch, phase |-> phase,
                     flag |-> flag, txTime |-> now, tailTime |-> tailTime]
  <2>1. pkt \in DataPkt /\ pkt.seq = sent + 1
    BY DEF TypeOK, DataPkt
  <2>2. /\ net' = [net EXCEPT ![path] = Append(net[path], pkt)]
        /\ sent' = sent + 1 /\ UNCHANGED <<voq, delivered, lost>>
    BY <1>1 DEF Forward, rxVars
  <2> HIDE DEF pkt
  <2>3. sent + 1 \notin Flight[path]
    <3>1. Flight[path] \subseteq 1 .. sent
      BY <1>0 DEF Placed
    <3> QED
      BY <1>0, <3>1
  <2>4. /\ \A r \in Path : Distinct(Seqs(net'[r]))
        /\ Flight'[path] = Flight[path] \union {sent + 1}
        /\ \A r \in Path \ {path} : Flight'[r] = Flight[r]
    <3>1. pkt.seq \notin Flight[path]
      BY <2>1, <2>3
    <3>2. /\ \A r \in Path : Distinct(Seqs(net'[r]))
          /\ Flight'[path] = Flight[path] \union {pkt.seq}
          /\ \A r \in Path \ {path} : Flight'[r] = Flight[r]
      BY <1>0, <2>1, <2>2, <3>1, FlightPush
    <3> QED
      BY <2>1, <3>2
  <2>5. Placed(Flight', Elements(voq.fifo), Elements(delivered), lost, sent + 1)
    BY <1>0, <2>4, PlacedSend
  <2> QED
    BY <1>0, <2>2, <2>4, <2>5 DEF OnceInv
<1>2. ASSUME NEW p \in Path, net[p] # <<>>, net' = [net EXCEPT ![p] = Tail(net[p])],
             sent' = sent,
             LET k == Head(net[p]).seq
             IN  \/ /\ delivered' = delivered \o <<k>> /\ voq'.fifo = voq.fifo
                    /\ lost' = lost
                 \/ /\ delivered' = delivered /\ voq'.fifo = Append(voq.fifo, k)
                    /\ lost' = lost
                 \/ /\ delivered' = delivered /\ voq'.fifo = voq.fifo
                    /\ lost' = lost \union {k}
      PROVE  OnceInv'
  <2> DEFINE k == Head(net[p]).seq
  <2>1. /\ \A r \in Path : Distinct(Seqs(net'[r]))
        /\ k \in Flight[p] /\ k \in Nat
        /\ Flight'[p] = Flight[p] \ {k}
        /\ \A r \in Path \ {p} : Flight'[r] = Flight[r]
    BY <1>0, <1>2, FlightPop
  <2> HIDE DEF k
  <2>2. k \notin Elements(voq.fifo) /\ k \notin Elements(delivered)
    BY <1>0, <2>1 DEF Placed
  <2>3. /\ Distinct(voq'.fifo) /\ Distinct(delivered')
        /\ \/ /\ Elements(voq'.fifo) = Elements(voq.fifo) \union {k}
              /\ Elements(delivered') = Elements(delivered) /\ lost' = lost
           \/ /\ Elements(voq'.fifo) = Elements(voq.fifo)
              /\ Elements(delivered') = Elements(delivered) \union {k} /\ lost' = lost
           \/ /\ Elements(voq'.fifo) = Elements(voq.fifo)
              /\ Elements(delivered') = Elements(delivered) /\ lost' = lost \union {k}
    <3>1. CASE /\ delivered' = delivered \o <<k>> /\ voq'.fifo = voq.fifo /\ lost' = lost
      BY <1>0, <2>1, <2>2, <3>1, JoinElements
    <3>2. CASE /\ delivered' = delivered /\ voq'.fifo = Append(voq.fifo, k)
               /\ lost' = lost
      BY <1>0, <2>1, <2>2, <3>2, JoinElements
    <3>3. CASE /\ delivered' = delivered /\ voq'.fifo = voq.fifo
               /\ lost' = lost \union {k}
      BY <1>0, <3>3
    <3> QED
      BY <1>2, <3>1, <3>2, <3>3 DEF k
  <2>4. Placed(Flight', Elements(voq'.fifo), Elements(delivered'), lost', sent)
    <3> DEFINE F == Flight
               G == Flight'
               V == Elements(voq.fifo)
               W == Elements(voq'.fifo)
               H == Elements(delivered)
               I == Elements(delivered')
               L == lost
               M == lost'
    <3>1. \/ W = V \union {k} /\ I = H /\ M = L
          \/ W = V /\ I = H \union {k} /\ M = L
          \/ W = V /\ I = H /\ M = L \union {k}
      BY <2>3
    <3>2. /\ Placed(F, V, H, L, sent)
          /\ G[p] = F[p] \ {k} /\ \A r \in Path \ {p} : G[r] = F[r]
          /\ k \in F[p]
      BY <1>0, <2>1
    <3> HIDE DEF F, G, V, W, H, I, L, M
    <3>3. Placed(G, W, I, M, sent)
      BY <3>1, <3>2, PlacedMove
    <3> QED
      BY <3>3 DEF G, W, I, M
  <2> QED
    BY <1>2, <2>1, <2>3, <2>4 DEF OnceInv
<1>3. CASE VoqFlush
  <2>1. /\ delivered' = delivered \o voq.fifo /\ voq'.fifo = <<>>
        /\ UNCHANGED <<net, lost, sent>>
    BY <1>3 DEF VoqFlush, ToHost, NoVoq, netVars, txVars
  <2>2. Elements(delivered) \intersect Elements(voq.fifo) = {}
    BY <1>0 DEF Placed
  <2>3. /\ Distinct(delivered')
        /\ Elements(delivered') = Elements(delivered) \union Elements(voq.fifo)
    BY <1>0, <2>1, <2>2, DistinctConcat
  <2>4. Placed(Flight, {}, Elements(delivered'), lost, sent)
    BY <1>0, <2>3, PlacedFlush
  <2>5. Flight' = Flight /\ \A r \in Path : Seqs(net'[r]) = Seqs(net[r])
    BY <2>1 DEF Flight, Seqs
  <2> QED
    BY <1>0, <2>1, <2>3, <2>4, <2>5, NoElements DEF OnceInv
<1>4. CASE UNCHANGED <<net, sent, voq, delivered, lost>>
  <2>1. Flight' = Flight /\ \A r \in Path : Seqs(net'[r]) = Seqs(net[r])
    BY <1>4 DEF Flight, Seqs
  <2> QED
    BY <1>0, <1>4, <2>1 DEF OnceInv
<1>5. CASE TxData
  BY <1>1, <1>5, TxForwards
<1>6. ASSUME NEW p \in Path,
             \/ RxPrevEpoch(p) \/ RxPhase0(p)
             \/ RxPhase1InOrder(p) \/ RxPhase1OutOfOrder(p) \/ Drop(p)
      PROVE  OnceInv'
  <2> DEFINE k == Head(net[p]).seq
  <2>1. /\ net[p] # <<>> /\ net' = [net EXCEPT ![p] = Tail(net[p])] /\ sent' = sent
    BY <1>6 DEF RxPrevEpoch, RxPhase0, RxPhase1InOrder, RxPhase1OutOfOrder, Drop,
                Arrived, txVars
  <2>2. \/ /\ delivered' = delivered \o <<k>> /\ voq'.fifo = voq.fifo
           /\ lost' = lost
        \/ /\ delivered' = delivered /\ voq'.fifo = Append(voq.fifo, k)
           /\ lost' = lost
        \/ /\ delivered' = delivered /\ voq'.fifo = voq.fifo
           /\ lost' = lost \union {k}
    <3>1. CASE RxPrevEpoch(p)
      BY <3>1 DEF RxPrevEpoch, ToHost
    <3>2. CASE RxPhase0(p)
      BY <3>2 DEF RxPhase0, ToHost, TypeOK, Voq
    <3>3. CASE RxPhase1InOrder(p)
      BY <3>3 DEF RxPhase1InOrder, ToHost
    <3>4. CASE RxPhase1OutOfOrder(p)
      BY <3>4 DEF RxPhase1OutOfOrder
    <3>5. CASE Drop(p)
      BY <3>5 DEF Drop, rxVars
    <3> QED
      BY <1>6, <3>1, <3>2, <3>3, <3>4, <3>5
  <2> QED
    BY <1>2, <2>1, <2>2
<1> QED
  BY <1>3, <1>4, <1>5, <1>6
  DEF Next, RxData, TxReply, TxNotify, AgingEventTx, AgingEventRx, Tick, Stop, vars,
      txVars, rxVars, netVars

\* The places of the invariant are those of the property.
LEMMA OnceImplies == TypeOK /\ OnceInv => ExactlyOnce
<1> SUFFICES ASSUME TypeOK, OnceInv  PROVE ExactlyOnce
  OBVIOUS
<1> DEFINE Flying(p) == {net[p][i].seq : i \in DOMAIN net[p]}
<1>0. /\ net \in [Path -> Seq(DataPkt)] /\ voq.fifo \in Seq(Nat)
      /\ delivered \in Seq(Nat)
  BY DEF TypeOK, Voq
<1>1. ASSUME NEW p \in Path
      PROVE  Flying(p) = Flight[p] /\ Cardinality(Flying(p)) = Len(net[p])
  <2>1. DOMAIN net[p] = 1 .. Len(net[p]) /\ net[p] \in Seq(DataPkt)
    BY <1>0
  <2>2. Flying(p) = Flight[p]
    BY <2>1 DEF Flight, Elements, Seqs
  <2>3. /\ Seqs(net[p]) \in Seq(Nat) /\ Len(Seqs(net[p])) = Len(net[p])
        /\ Distinct(Seqs(net[p])) /\ Flight[p] = Elements(Seqs(net[p]))
    BY <2>1, SeqsType DEF OnceInv, Flight
  <2>4. Cardinality(Elements(Seqs(net[p]))) = Len(Seqs(net[p]))
    BY <2>3, DistinctCardinality
  <2> QED
    BY <2>2, <2>3, <2>4
<1>2. /\ Cardinality(Elements(voq.fifo)) = Len(voq.fifo)
      /\ Cardinality(Elements(delivered)) = Len(delivered)
  BY <1>0, DistinctCardinality DEF OnceInv
<1>3. Placed(Flight, Elements(voq.fifo), Elements(delivered), lost, sent)
  BY DEF OnceInv
<1> HIDE DEF Flying
<1>4. /\ (UNION {Flying(p) : p \in Path}) \union Elements(voq.fifo)
           \union Elements(delivered) \union lost = 1 .. sent
      /\ \A p \in Path :
           /\ \A r \in Path \ {p} : Flying(p) \intersect Flying(r) = {}
           /\ Flying(p) \intersect
                (Elements(voq.fifo) \union Elements(delivered) \union lost) = {}
  <2>1. (UNION {Flying(p) : p \in Path}) = (UNION {Flight[p] : p \in Path})
    BY <1>1
  <2>2. (UNION {Flight[p] : p \in Path}) \union Elements(voq.fifo)
           \union Elements(delivered) \union lost = 1 .. sent
    BY <1>3 DEF Placed
  <2>3. (UNION {Flying(p) : p \in Path}) \union Elements(voq.fifo)
           \union Elements(delivered) \union lost = 1 .. sent
    BY <2>1, <2>2
  <2>4. ASSUME NEW p \in Path
        PROVE  /\ \A r \in Path \ {p} : Flying(p) \intersect Flying(r) = {}
               /\ Flying(p) \intersect
                   (Elements(voq.fifo) \union Elements(delivered) \union lost) = {}
    BY <1>1, <1>3 DEF Placed
  <2> QED
    BY <2>3, <2>4
<1>5. /\ Elements(voq.fifo) \intersect (Elements(delivered) \union lost) = {}
      /\ Elements(delivered) \intersect lost = {}
  BY <1>3 DEF Placed
<1> QED
  BY <1>1, <1>2, <1>4, <1>5 DEF ExactlyOnce, Elements, Flying

\* Whatever the entries of the two ToRs say, aged or not, every packet the source ToR
\* has forwarded is in flight, in the VOQ, delivered or dropped, and in only one of
\* these places: EnforceFlushAll empties the VOQ before it is deleted, and the
\* filter of RouteInput neither duplicates nor swallows a packet.
THEOREM ExactlyOnceAlways == Spec => []ExactlyOnce
<1>1. IInv => TypeOK /\ ClockInv /\ TxInv
  BY DEF IInv
<1> QED
  BY <1>1, Invariant, OnceInit, OnceStep, OnceImplies, PTL DEF Spec
=============================================================================

------------------------- MODULE ConWeaveOrderProofs ------------------------
(***************************************************************************)
(* What TLAPS proves of the order in which ConWeave.tla gives a flow's     *)
(* packets to the host: with time-outs that suit the network's delays it   *)
(* implements OrderedChannel, for all paths, losses, marks and reroutes.   *)
(***************************************************************************)
EXTENDS ConWeaveEpochProofs
-----------------------------------------------------------------------------
(* The stream of packets in flight.                                        *)

\* In an epoch phase 0 is sent before phase 1 and ends with the TAIL; each phase of
\* an epoch takes one path; what the source ToR sends after its TAIL takes the new path
\* and carries the TAIL's time, and nothing else was sent after the TAIL.
StreamInv ==
  /\ \A x, y \in InFlight : x.epoch = y.epoch =>
       /\ x.phase < y.phase => x.seq < y.seq
       /\ x.flag = "TAIL" /\ y.phase = 0 => y.seq <= x.seq
  /\ \A p, q \in Path : \A x \in Elements(net[p]), y \in Elements(net[q]) :
       x.epoch = y.epoch /\ x.phase = y.phase => p = q
  /\ tx.phase = 1 => \A p \in Path : \A x \in Elements(net[p]) :
       IF EpochPhase(x, 1)
       THEN p = tx.pathId /\ x.tailTime = tx.tailTime /\ tx.tailTime <= x.txTime
       ELSE x.txTime <= tx.tailTime /\ (EpochTail(x) => x.tailTime = tx.tailTime)

\* A packet that the source ToR sends keeps StreamInv.
LEMMA StreamSend ==
  ASSUME AllInv, StreamInv, NEW path \in Path, NEW pkt \in DataPkt, Sends(path, pkt)
  PROVE  StreamInv'
<1>0. /\ now \in Nat /\ tx.epoch \in Nat /\ tx.phase \in {0, 1} /\ sent \in Nat
      /\ tx.tailTime <= now
      /\ pkt.seq = sent + 1 /\ pkt.epoch = tx'.epoch /\ pkt.txTime = now
  BY DEF AllInv, IInv, TypeOK, TxState, TxInv, Sends
<1>1. /\ Elements(net'[path]) = Elements(net[path]) \union {pkt}
      /\ \A r \in Path \ {path} : net'[r] = net[r]
      /\ InFlight' = InFlight \union {pkt}
      /\ \A r \in Path : Elements(net[r]) \subseteq InFlight
  BY PushStep, FlightFacts DEF Sends, AllInv
<1>2. \A x \in InFlight : /\ x.seq \in Nat /\ x.seq <= sent
                          /\ x.epoch \in Nat /\ x.epoch <= tx.epoch
                          /\ x.phase \in {0, 1} /\ x.txTime \in Nat /\ x.txTime <= now
  BY FlightFacts DEF AllInv, SendInv
<1>3. pkt \notin InFlight /\ \A x \in InFlight : x.seq < pkt.seq
  BY <1>0, <1>2
<1>4. \A r \in Path : \A x \in Elements(net'[r]) :
        x \in Elements(net[r]) \/ (x = pkt /\ r = path)
  BY <1>1
<1>5. tx.phase = 0 => \A x \in InFlight : x.epoch = tx.epoch => x.phase = 0 /\ x.flag # "TAIL"
  BY <1>2 DEF AllInv, PhaseInv, SettleInv, EpochPhase, EpochTail
\* It is enough to look at the new packet.
<1>6. ASSUME \A x \in InFlight : x.epoch = pkt.epoch =>
               /\ x.phase <= pkt.phase
               /\ ~(x.flag = "TAIL" /\ pkt.phase = 0),
             \A r \in Path : \A x \in Elements(net[r]) :
               x.epoch = pkt.epoch /\ x.phase = pkt.phase => r = path,
             tx'.phase = 1 => \A r \in Path : \A x \in Elements(net'[r]) :
               IF EpochPhase(x, 1)'
               THEN r = tx'.pathId /\ x.tailTime = tx'.tailTime /\ tx'.tailTime <= x.txTime
               ELSE x.txTime <= tx'.tailTime /\ (EpochTail(x)' => x.tailTime = tx'.tailTime)
      PROVE  StreamInv'
  <2>1. ASSUME NEW x \in InFlight', NEW y \in InFlight', x.epoch = y.epoch
        PROVE  /\ x.phase < y.phase => x.seq < y.seq
               /\ x.flag = "TAIL" /\ y.phase = 0 => y.seq <= x.seq
    <3>1. CASE x \in InFlight /\ y \in InFlight
      BY <2>1, <3>1 DEF StreamInv
    <3>2. CASE x = pkt /\ y = pkt
      BY <1>0, <3>2 DEF DataPkt
    <3>3. CASE x \in InFlight /\ y = pkt
      BY <1>3, <1>6, <2>1, <3>3
    <3>4. CASE x = pkt /\ y \in InFlight
      <4>1. y.seq < x.seq /\ y.phase <= x.phase
        BY <1>3, <1>6, <2>1, <3>4
      <4> QED
        BY <1>0, <1>2, <3>4, <4>1 DEF DataPkt
    <3> QED
      BY <1>1, <3>1, <3>2, <3>3, <3>4
  <2>2. ASSUME NEW r \in Path, NEW q \in Path,
               NEW x \in Elements(net'[r]), NEW y \in Elements(net'[q]),
               x.epoch = y.epoch, x.phase = y.phase
        PROVE  r = q
    <3>1. CASE x \in Elements(net[r]) /\ y \in Elements(net[q])
      BY <2>2, <3>1 DEF StreamInv
    <3>2. CASE ~(x \in Elements(net[r]) /\ y \in Elements(net[q]))
      BY <1>4, <1>6, <2>2, <3>2
    <3> QED
      BY <3>1, <3>2
  <2> QED
    BY <1>6, <2>1, <2>2 DEF StreamInv
<1>7. CASE pkt.flag = "INIT"
  <2>1. tx'.epoch = tx.epoch + 1 /\ tx'.phase = 0
    BY <1>7 DEF Sends
  <2>2. \A x \in InFlight : x.epoch # pkt.epoch
    BY <1>0, <1>2, <2>1
  <2> QED
    BY <1>1, <1>6, <2>1, <2>2
<1>8. CASE pkt.flag = "TAIL"
  <2>1. /\ tx.known /\ tx.phase = 0 /\ path = tx.pathId /\ pkt.phase = 0
        /\ pkt.tailTime = now /\ tx'.epoch = tx.epoch /\ tx'.phase = 1 /\ tx'.tailTime = now
    BY <1>8 DEF Sends
  <2>2. \A x \in InFlight : x.epoch = pkt.epoch => x.phase = 0 /\ x.flag # "TAIL"
    BY <1>0, <1>5, <2>1
  <2>3. \A r \in Path \ {path} : Elements(net[r]) = {}
    BY <2>1, NoElements DEF AllInv, SettleInv, OnePath
  <2>4. ASSUME NEW r \in Path, NEW x \in Elements(net'[r])
        PROVE  /\ ~EpochPhase(x, 1)' /\ x.txTime <= tx'.tailTime
               /\ EpochTail(x)' => x.tailTime = tx'.tailTime
    <3>1. CASE x \in Elements(net[r])
      <4>1. x \in InFlight /\ (x.epoch = tx'.epoch => x.phase = 0 /\ x.flag # "TAIL")
        BY <1>0, <1>1, <2>2, <3>1
      <4> QED
        BY <1>2, <2>1, <4>1 DEF EpochPhase, EpochTail
    <3>2. CASE x = pkt
      BY <1>0, <2>1, <3>2 DEF EpochPhase
    <3> QED
      BY <1>4, <3>1, <3>2
  <2> QED
    BY <1>6, <2>1, <2>2, <2>3, <2>4
<1>9. CASE pkt.flag = "DATA"
  <2>1. /\ tx.known /\ path = tx.pathId /\ pkt.phase = tx.phase /\ pkt.tailTime = tx.tailTime
        /\ tx'.epoch = tx.epoch /\ tx'.phase = tx.phase /\ tx'.tailTime = tx.tailTime
        /\ tx'.pathId = tx.pathId
    BY <1>9 DEF Sends
  <2>2. \A x : /\ EpochPhase(x, 1)' <=> EpochPhase(x, 1)
               /\ EpochTail(x)' <=> EpochTail(x)
    BY <2>1 DEF EpochPhase, EpochTail
  <2>3. CASE tx.phase = 0
    <3>1. \A x \in InFlight : x.epoch = pkt.epoch => x.phase = 0 /\ x.flag # "TAIL"
      BY <1>0, <1>5, <2>1, <2>3
    <3>2. \A r \in Path \ {path} : Elements(net[r]) = {}
      BY <2>1, <2>3, NoElements DEF AllInv, SettleInv, OnePath
    <3> QED
      BY <1>6, <2>1, <2>3, <3>1, <3>2
  <2>4. CASE tx.phase = 1
    <3>1. \A r \in Path : \A x \in Elements(net[r]) :
            x.epoch = pkt.epoch /\ x.phase = pkt.phase => r = path
      BY <1>0, <2>1, <2>4 DEF StreamInv, EpochPhase
    <3>2. ASSUME NEW r \in Path, NEW x \in Elements(net'[r])
          PROVE  IF EpochPhase(x, 1)'
                 THEN r = tx'.pathId /\ x.tailTime = tx'.tailTime /\ tx'.tailTime <= x.txTime
                 ELSE x.txTime <= tx'.tailTime /\ (EpochTail(x)' => x.tailTime = tx'.tailTime)
      <4>1. CASE x \in Elements(net[r])
        BY <2>1, <2>2, <2>4, <4>1 DEF StreamInv
      <4>2. CASE x = pkt /\ r = path
        BY <1>0, <2>1, <2>4, <4>2 DEF EpochPhase
      <4> QED
        BY <1>4, <4>1, <4>2
    <3>3. \A x \in InFlight : x.phase <= pkt.phase /\ pkt.phase # 0
      BY <1>2, <2>1, <2>4
    <3> QED
      BY <1>6, <3>1, <3>2, <3>3
  <2> QED
    BY <1>0, <2>3, <2>4
<1> QED
  BY <1>7, <1>8, <1>9 DEF DataPkt

\* Fewer packets on each path, of the same epoch and phase of the source ToR.
LEMMA StreamFewer ==
  ASSUME StreamInv, InFlight' \subseteq InFlight,
         \A p \in Path : Elements(net'[p]) \subseteq Elements(net[p]),
         tx'.epoch = tx.epoch, tx'.phase = tx.phase, tx'.pathId = tx.pathId,
         tx'.tailTime = tx.tailTime
  PROVE  StreamInv'
<1>1. \A x : /\ EpochPhase(x, 1)' <=> EpochPhase(x, 1)
             /\ EpochTail(x)' <=> EpochTail(x)
  BY DEF EpochPhase, EpochTail
<1>2. \A x, y \in InFlight' : x.epoch = y.epoch =>
        /\ x.phase < y.phase => x.seq < y.seq
        /\ x.flag = "TAIL" /\ y.phase = 0 => y.seq <= x.seq
  BY DEF StreamInv
<1>3. \A p, q \in Path : \A x \in Elements(net'[p]), y \in Elements(net'[q]) :
        x.epoch = y.epoch /\ x.phase = y.phase => p = q
  BY DEF StreamInv
<1>4. tx.phase = 1 => \A p \in Path : \A x \in Elements(net'[p]) :
        IF EpochPhase(x, 1)
        THEN p = tx.pathId /\ x.tailTime = tx.tailTime /\ tx.tailTime <= x.txTime
        ELSE x.txTime <= tx.tailTime /\ (EpochTail(x) => x.tailTime = tx.tailTime)
  BY DEF StreamInv
<1> QED
  BY <1>1, <1>2, <1>3, <1>4 DEF StreamInv
\* The head of a path was sent before everything in flight of its epoch and phase, or
\* of a later one.
LEMMA HeadOrder ==
  ASSUME AllInv, StreamInv, NEW p \in Path, net[p] # <<>>,
         net' = [net EXCEPT ![p] = Tail(net[p])]
  PROVE  LET pkt == Head(net[p])
         IN  /\ pkt \in Elements(net[p]) /\ pkt \in InFlight /\ InFlight' \subseteq InFlight
             /\ \A r \in Path : Elements(net'[r]) \subseteq Elements(net[r])
             /\ \A y \in Elements(net'[p]) : pkt.seq < y.seq
             /\ \A y \in InFlight' :
                  y.epoch > pkt.epoch \/ (y.epoch = pkt.epoch /\ y.phase >= pkt.phase)
                    => pkt.seq < y.seq
<1> DEFINE pkt == Head(net[p])
<1>1. /\ Elements(net[p]) = Elements(net'[p]) \union {pkt}
      /\ \A r \in Path \ {p} : net'[r] = net[r]
      /\ InFlight = InFlight' \union {pkt}
  BY PopStep DEF AllInv
<1>2. \A y \in Elements(net'[p]) : pkt.seq < y.seq
  <2>1. net[p] \in Seq(DataPkt) /\ net'[p] = Tail(net[p])
    BY DEF AllInv, IInv, TypeOK
  <2>2. Sorted(net[p])
    BY DEF AllInv, SettleInv
  <2> QED
    BY <2>1, <2>2, SortedQueue
<1>3. pkt \in InFlight /\ \A y \in InFlight : y.epoch \in Nat /\ y.phase \in {0, 1}
  BY <1>1, FlightFacts DEF AllInv
<1> HIDE DEF pkt
<1>4. ASSUME NEW y \in InFlight', y.epoch = pkt.epoch, y.phase = pkt.phase
      PROVE  pkt.seq < y.seq
  <2>1. PICK r \in Path : y \in Elements(net'[r])
    BY DEF InFlight
  <2>2. r = p
    <3>1. y \in Elements(net[r]) /\ pkt \in Elements(net[p])
      BY <1>1, <2>1
    <3> QED
      BY <1>4, <3>1 DEF StreamInv
  <2> QED
    BY <1>2, <2>1, <2>2
<1>5. ASSUME NEW y \in InFlight', y.epoch = pkt.epoch, y.phase > pkt.phase
      PROVE  pkt.seq < y.seq
  BY <1>1, <1>3, <1>5 DEF StreamInv
<1>6. ASSUME NEW y \in InFlight', y.epoch > pkt.epoch
      PROVE  pkt.seq < y.seq
  BY <1>1, <1>3, <1>6 DEF AllInv, SendInv
<1>7. \A y \in InFlight' : y.epoch > pkt.epoch \/ (y.epoch = pkt.epoch /\ y.phase >= pkt.phase)
        => pkt.seq < y.seq
  BY <1>1, <1>3, <1>4, <1>5, <1>6
<1> QED
  BY <1>1, <1>2, <1>3, <1>7 DEF pkt

-----------------------------------------------------------------------------
(* The old path, and what the destination ToR knows of it.                 *)

\* Everything in flight that the source ToR has not sent on its new path is on path
\* old, and that path delivered the last phase-0 packet of the epoch.
OldPath(old) ==
  /\ \A p \in Path : \A y \in Elements(net[p]) : ~EpochPhase(y, 1) => p = old
  /\ rx.epoch = tx.epoch /\ rx.phase0Cache
       => rx.phase0TxTime + MinDelay[old] <= rx.phase0RxTime

\* There is one old path; while packets of the source ToR's epoch are held, its entry
\* and the destination ToR's have the same TAIL time; and the destination ToR
\* is not in phase 1 before the source ToR is.
RouteInv ==
  /\ tx.known /\ tx.phase = 0 => OldPath(tx.pathId)
  /\ tx.phase = 1 => \E old \in Path : OldPath(old)
  /\ voq.exists /\ rx.epoch = tx.epoch => rx.tailTime = tx.tailTime
  /\ tx.phase = 0 /\ rx.epoch = tx.epoch => rx.phase = 0
  /\ ~rx.known => rx.phase = 0 /\ ~rx.phase0Cache

\* Everything that was not sent on the new path arrives in the order of sending.
LEMMA OldPathOrder ==
  ASSUME AllInv, StreamInv, RouteInv, NEW p \in Path, net[p] # <<>>,
         net' = [net EXCEPT ![p] = Tail(net[p])], ~EpochPhase(Head(net[p]), 1)
  PROVE  \A y \in InFlight' : Head(net[p]).seq < y.seq
<1> DEFINE pkt == Head(net[p])
<1>1. /\ pkt \in Elements(net[p]) /\ pkt \in InFlight /\ InFlight' \subseteq InFlight
      /\ \A r \in Path : Elements(net'[r]) \subseteq Elements(net[r])
      /\ \A y \in Elements(net'[p]) : pkt.seq < y.seq
      /\ \A y \in InFlight' :
           y.epoch > pkt.epoch \/ (y.epoch = pkt.epoch /\ y.phase >= pkt.phase)
             => pkt.seq < y.seq
  BY HeadOrder
<1>2. /\ tx.phase \in {0, 1} /\ tx.epoch \in Nat /\ tx.known
      /\ tx.phase = 0 => tx.pathId \in Path
  <2>1. tx.known
    BY <1>1 DEF AllInv, SendInv
  <2> QED
    BY <2>1 DEF AllInv, IInv, TypeOK, TxState, TxInv
<1>3. pkt.epoch \in Nat /\ pkt.epoch <= tx.epoch /\ pkt.phase \in {0, 1}
  BY <1>1, FlightFacts DEF AllInv, SendInv
<1>4. PICK old \in Path : OldPath(old)
  BY <1>2 DEF RouteInv
<1>5. ASSUME NEW y \in InFlight'  PROVE pkt.seq < y.seq
  <2>1. CASE EpochPhase(y, 1)
    BY <1>1, <1>2, <1>3, <2>1 DEF EpochPhase
  <2>2. CASE ~EpochPhase(y, 1)
    <3>1. PICK r \in Path : y \in Elements(net'[r])
      BY DEF InFlight
    <3>2. r = old /\ p = old
      BY <1>1, <1>4, <2>2, <3>1 DEF OldPath
    <3> QED
      BY <1>1, <3>1, <3>2
  <2> QED
    BY <2>1, <2>2
<1> QED
  BY <1>5
-----------------------------------------------------------------------------
(* What the arrival of a packet comes to.                                  *)

\* The packet leaves the network, no sooner than it can.
Arrives(p, pkt) ==
  /\ net[p] # <<>> /\ pkt = Head(net[p]) /\ net' = [net EXCEPT ![p] = Tail(net[p])]
  /\ pkt.txTime + MinDelay[p] <= now
  /\ UNCHANGED <<now, tx, sent, lost>> /\ rx'.known

\* A packet of an epoch before the entry's: to the host.
PassesFilter(pkt) ==
  /\ pkt.epoch < rx.epoch /\ voq' = voq /\ rx'.epoch = rx.epoch
  /\ rx'.phase = rx.phase /\ rx'.tailTime = rx.tailTime
  /\ rx'.phase0TxTime = rx.phase0TxTime /\ rx'.phase0RxTime = rx.phase0RxTime
  /\ rx'.phase0Cache = rx.phase0Cache
  /\ delivered' = Append(delivered, pkt.seq)

\* A packet of phase 0: to the host, and a waiting VOQ is flushed an instant after the
\* TAIL, or when the TAIL is due.
PassesOld(pkt) ==
  /\ pkt.phase = 0 /\ rx'.epoch = pkt.epoch
  /\ rx'.phase0TxTime = pkt.txTime /\ rx'.phase0RxTime = now
  /\ rx'.phase = 1 => pkt.flag = "TAIL" \/ (rx.phase = 1 /\ rx.epoch = pkt.epoch)
  /\ rx'.tailTime = IF pkt.flag = "TAIL" THEN pkt.tailTime ELSE rx.tailTime
  /\ voq'.exists = voq.exists /\ voq'.fifo = voq.fifo
  /\ voq.exists => /\ rx.epoch = pkt.epoch
                   /\ pkt.flag # "TAIL" => voq'.flushAt + pkt.txTime
                                             >= now + rx.tailTime + ExtraVOQFlushTime
  /\ delivered' = Append(delivered, pkt.seq)

\* A packet of phase 1 when the entry is in phase 1 of the same epoch: to the host.
PassesNew(pkt) ==
  /\ pkt.phase = 1 /\ rx.phase = 1 /\ rx.epoch = pkt.epoch
  /\ rx'.phase = 1 /\ rx'.epoch = rx.epoch /\ rx'.phase0Cache = rx.phase0Cache
  /\ rx'.phase0TxTime = rx.phase0TxTime /\ rx'.phase0RxTime = rx.phase0RxTime
  /\ ~voq.exists /\ voq' = voq
  /\ delivered' = Append(delivered, pkt.seq)

\* A packet of phase 1 before that: to the VOQ, a new one for the source ToR's epoch
\* only, which is flushed when the TAIL is due, or after the default time.
Holds(pkt) ==
  /\ pkt.phase = 1 /\ rx'.epoch = pkt.epoch /\ rx'.phase = 0
  /\ rx'.phase0Cache = (rx.phase0Cache /\ rx.epoch = pkt.epoch)
  /\ rx'.phase0TxTime = rx.phase0TxTime /\ rx'.phase0RxTime = rx.phase0RxTime
  /\ rx'.tailTime = pkt.tailTime
  /\ voq'.exists /\ voq'.fifo = Append(voq.fifo, pkt.seq)
  /\ IF voq.exists
     THEN voq'.flushAt = voq.flushAt /\ rx.epoch = pkt.epoch
     ELSE /\ pkt.epoch = tx.epoch
          /\ IF rx'.phase0Cache
             THEN voq'.flushAt + rx.phase0TxTime
                    >= rx.phase0RxTime + pkt.tailTime + ExtraVOQFlushTime
             ELSE voq'.flushAt >= now + DefaultVOQWaitingTime + ExtraVOQFlushTime
  /\ delivered' = delivered

\* A packet of the entry's epoch, or of a later one: the entry that it leaves.
LEMMA EntryAfter ==
  ASSUME TimesSuit, AllInv, NEW pkt \in DataPkt, ~PrevEpoch(pkt)
  PROVE  /\ RxAfter(pkt) \in RxState
         /\ RxAfter(pkt).known /\ RxAfter(pkt).epoch = pkt.epoch
         /\ RxAfter(pkt).phase = PhaseAfter(pkt)
         /\ RxAfter(pkt).phase0TxTime = IF pkt.phase = 0 THEN pkt.txTime ELSE rx.phase0TxTime
         /\ RxAfter(pkt).phase0RxTime = IF pkt.phase = 0 THEN now ELSE rx.phase0RxTime
         /\ RxAfter(pkt).phase0Cache
              = (pkt.phase = 0 \/ (rx.phase0Cache /\ rx.epoch = pkt.epoch))
         /\ RxAfter(pkt).tailTime = IF pkt.flag = "TAIL" \/ pkt.phase = 1
                                    THEN pkt.tailTime ELSE rx.tailTime
         /\ NewEpoch(pkt) <=> rx.epoch # pkt.epoch
<1>1. /\ rx \in RxState /\ now \in Nat /\ rx.epoch \in Nat /\ pkt.epoch \in Nat
      /\ rx.phase0Cache \in BOOLEAN
  BY DEF AllInv, IInv, TypeOK, RxState, DataPkt
<1>2. RxAfter(pkt) \in RxState
  BY <1>1, RxAfterType
<1>3. NewEpoch(pkt) <=> rx.epoch # pkt.epoch
  BY <1>1 DEF NewEpoch, PrevEpoch
<1>4. /\ RxAfter(pkt).known /\ RxAfter(pkt).epoch = pkt.epoch
      /\ RxAfter(pkt).phase = PhaseAfter(pkt)
      /\ RxAfter(pkt).phase0TxTime = IF pkt.phase = 0 THEN pkt.txTime ELSE rx.phase0TxTime
      /\ RxAfter(pkt).phase0RxTime = IF pkt.phase = 0 THEN now ELSE rx.phase0RxTime
      /\ RxAfter(pkt).phase0Cache = (pkt.phase = 0 \/ (rx.phase0Cache /\ ~NewEpoch(pkt)))
      /\ RxAfter(pkt).tailTime = IF pkt.flag = "TAIL" \/ pkt.phase = 1
                                 THEN pkt.tailTime ELSE rx.tailTime
  BY <1>1 DEF RxAfter, RxState
<1> QED
  BY <1>2, <1>3, <1>4

\* These are the four handlers of a packet from the network.
LEMMA ArriveCases ==
  ASSUME TimesSuit, AllInv, NEW p \in Path,
         RxPrevEpoch(p) \/ RxPhase0(p) \/ RxPhase1InOrder(p) \/ RxPhase1OutOfOrder(p)
  PROVE  LET pkt == Head(net[p])
         IN  /\ Arrives(p, pkt)
             /\ PassesFilter(pkt) \/ PassesOld(pkt) \/ PassesNew(pkt) \/ Holds(pkt)
<1> DEFINE pkt == Head(net[p])
           r   == RxAfter(pkt)
<1>1. Arrives(p, pkt)
  <2>1. Arrived(p)
    BY DEF RxPrevEpoch, RxPhase0, RxPhase1InOrder, RxPhase1OutOfOrder
  <2> QED
    BY <2>1, ReceiveStep DEF Arrives, Arrived, AllInv
<1>2. /\ rx \in RxState /\ rx.epoch \in Nat /\ rx.phase \in {0, 1} /\ voq \in Voq
      /\ rx.phase0TxTime \in Nat /\ rx.phase0RxTime \in Nat /\ rx.tailTime \in Nat
      /\ now \in Nat /\ delivered \in Seq(Nat) /\ rx.reordering = voq.exists
      /\ voq.exists => rx.phase = 0
  BY VoqFacts DEF AllInv, IInv, TypeOK, RxState, EpochInv
<1>3. /\ pkt \in InFlight /\ pkt \in DataPkt /\ pkt.seq \in Nat /\ pkt.epoch \in Nat
      /\ pkt.phase \in {0, 1} /\ pkt.txTime \in Nat /\ pkt.tailTime \in Nat
      /\ pkt.epoch <= tx.epoch /\ tx.epoch \in Nat
      /\ pkt.flag # "DATA" => pkt.phase = 0
      /\ pkt.flag = "TAIL" => pkt.tailTime = pkt.txTime
  <2>1. pkt \in InFlight
    BY <1>1, FlightFacts DEF Arrives, AllInv
  <2> QED
    BY <2>1, FlightFacts, VoqFacts DEF AllInv, SendInv, PhaseInv, DataPkt
<1>4. delivered \o <<pkt.seq>> = Append(delivered, pkt.seq)
  BY <1>2
<1>5. CASE RxPrevEpoch(p)
  <2>1. pkt.epoch < rx.epoch
    BY <1>2, <1>3, <1>5 DEF RxPrevEpoch, PrevEpoch
  <2>2. /\ rx'.epoch = rx.epoch /\ rx'.phase = rx.phase /\ rx'.tailTime = rx.tailTime
        /\ rx'.phase0TxTime = rx.phase0TxTime /\ rx'.phase0RxTime = rx.phase0RxTime
        /\ rx'.phase0Cache = rx.phase0Cache
    BY <1>2, <1>5 DEF RxPrevEpoch, RxState
  <2>3. voq' = voq /\ delivered' = Append(delivered, pkt.seq)
    BY <1>4, <1>5 DEF RxPrevEpoch, ToHost
  <2> QED
    BY <1>1, <2>1, <2>2, <2>3 DEF PassesFilter
<1>6. CASE ~RxPrevEpoch(p)
  <2>1. ~PrevEpoch(pkt)
    BY <1>6 DEF RxPhase0, RxPhase1InOrder, RxPhase1OutOfOrder
  <2>2. /\ r \in RxState /\ r.known /\ r.epoch = pkt.epoch /\ r.phase = PhaseAfter(pkt)
        /\ r.phase0TxTime = IF pkt.phase = 0 THEN pkt.txTime ELSE rx.phase0TxTime
        /\ r.phase0RxTime = IF pkt.phase = 0 THEN now ELSE rx.phase0RxTime
        /\ r.phase0Cache = (pkt.phase = 0 \/ (rx.phase0Cache /\ rx.epoch = pkt.epoch))
        /\ r.tailTime = IF pkt.flag = "TAIL" \/ pkt.phase = 1 THEN pkt.tailTime
                        ELSE rx.tailTime
        /\ NewEpoch(pkt) <=> rx.epoch # pkt.epoch
    BY <1>3, <2>1, EntryAfter
  <2>3. voq.exists => rx.epoch = pkt.epoch
    BY <1>1, <1>6, <2>2, NewEpochFindsNoVoq
    DEF RxPhase0, RxPhase1InOrder, RxPhase1OutOfOrder
  <2>4. PhaseAfter(pkt) = IF rx.epoch # pkt.epoch THEN IF pkt.flag = "TAIL" THEN 1 ELSE 0
                          ELSE IF pkt.flag = "TAIL" /\ ~voq.exists THEN 1 ELSE rx.phase
    BY <1>2, <2>2 DEF PhaseAfter
  <2> HIDE DEF pkt, r
  <2>5. /\ r.phase0TxTime \in Nat /\ r.phase0RxTime \in Nat /\ r.tailTime \in Nat
        /\ ExtraVOQFlushTime \in Nat /\ DefaultVOQWaitingTime \in Nat
    BY <2>2, TimeNat DEF RxState
  <2>6. r.phase0Cache => /\ TxTimegap(r) \in Nat
                         /\ TxTimegap(r) + r.phase0TxTime >= r.tailTime
    BY <2>5 DEF TxTimegap
  <2>7. CASE RxPhase0(p)
    <3>1. /\ rx' = r /\ pkt.phase = 0 /\ delivered' = Append(delivered, pkt.seq)
          /\ voq' = IF voq.exists
                    THEN [voq EXCEPT !.flushAt = FlushAfterPhase0(r, pkt),
                                     !.tailFrom = IF pkt.flag = "TAIL" THEN p ELSE NoPath]
                    ELSE voq
      BY <1>2, <1>4, <2>7 DEF RxPhase0, ToHost, pkt, r
    <3>2. /\ voq'.exists = voq.exists /\ voq'.fifo = voq.fifo
          /\ voq.exists => voq'.flushAt = FlushAfterPhase0(r, pkt)
      BY <1>2, <3>1 DEF Voq
    <3>3. pkt.flag # "TAIL" => FlushAfterPhase0(r, pkt) + pkt.txTime
                                 >= now + rx.tailTime + ExtraVOQFlushTime
      <4> SUFFICES ASSUME pkt.flag # "TAIL"
                   PROVE  FlushAfterPhase0(r, pkt) + pkt.txTime
                            >= now + rx.tailTime + ExtraVOQFlushTime
        OBVIOUS
      <4>1. FlushAfterPhase0(r, pkt) = now + TxTimegap(r) + ExtraVOQFlushTime
        BY DEF FlushAfterPhase0
      <4>2. r.phase0Cache /\ r.phase0TxTime = pkt.txTime /\ r.tailTime = rx.tailTime
        <5>1. pkt.phase = 0 /\ pkt.phase # 1
          BY <3>1
        <5>2. r.phase0Cache
          BY <2>2, <5>1
        <5> QED
          BY <2>2, <5>1, <5>2
      <4>3. TxTimegap(r) \in Nat /\ TxTimegap(r) + pkt.txTime >= rx.tailTime
        BY <2>6, <4>2
      <4> QED
        BY <1>2, <1>3, <2>5, <4>1, <4>3
    <3>4. rx'.phase = 1 => pkt.flag = "TAIL" \/ (rx.phase = 1 /\ rx.epoch = pkt.epoch)
      BY <1>2, <2>2, <2>4, <3>1
    <3> QED
      BY <1>1, <2>2, <2>3, <3>1, <3>2, <3>3, <3>4 DEF PassesOld, pkt
  <2>8. CASE RxPhase1InOrder(p)
    <3>1. /\ rx' = r /\ pkt.phase = 1 /\ ~OutOfOrder(pkt) /\ voq' = voq
          /\ delivered' = Append(delivered, pkt.seq)
      BY <1>4, <2>8 DEF RxPhase1InOrder, ToHost, pkt, r
    <3>2. rx.epoch = pkt.epoch /\ rx.phase = 1 /\ PhaseAfter(pkt) = 1 /\ ~voq.exists
      BY <1>2, <1>3, <2>4, <3>1 DEF OutOfOrder
    <3> QED
      BY <1>1, <1>2, <2>2, <3>1, <3>2 DEF PassesNew, pkt, RxState
  <2>9. CASE RxPhase1OutOfOrder(p)
    <3>1. /\ rx' = [r EXCEPT !.reordering = TRUE] /\ pkt.phase = 1 /\ OutOfOrder(pkt)
          /\ voq' = [exists   |-> TRUE,
                     flushAt  |-> IF voq.exists THEN voq.flushAt ELSE FlushOfNewVoq(r),
                     tailFrom |-> voq.tailFrom,
                     fifo     |-> Append(voq.fifo, pkt.seq)]
          /\ delivered' = delivered
      BY <1>2, <2>9 DEF RxPhase1OutOfOrder, pkt, r
    <3>2. /\ rx'.epoch = pkt.epoch /\ rx'.phase = PhaseAfter(pkt)
          /\ rx'.phase0TxTime = rx.phase0TxTime /\ rx'.phase0RxTime = rx.phase0RxTime
          /\ rx'.phase0Cache = (rx.phase0Cache /\ rx.epoch = pkt.epoch)
          /\ rx'.tailTime = pkt.tailTime
      BY <2>2, <3>1 DEF RxState
    <3>3. PhaseAfter(pkt) = 0 /\ (rx.epoch = pkt.epoch => rx.phase = 0)
      BY <1>2, <1>3, <2>4, <3>1 DEF OutOfOrder
    <3>4. ~voq.exists => pkt.epoch = tx.epoch
      <4>1. Closed(pkt) => pkt.epoch <= rx.epoch /\ (pkt.epoch = rx.epoch =>
                             voq.exists \/ rx.phase = 1)
        BY <1>3, <3>1 DEF AllInv, EpochInv
      <4>2. ~(pkt.epoch < rx.epoch)
        BY <1>2, <1>3, <2>1 DEF PrevEpoch
      <4>3. Closed(pkt) => voq.exists
        BY <1>2, <1>3, <3>3, <4>1, <4>2
      <4> QED
        BY <1>3, <4>3 DEF Closed
    <3>5. IF r.phase0Cache
          THEN FlushOfNewVoq(r) + rx.phase0TxTime
                 >= rx.phase0RxTime + pkt.tailTime + ExtraVOQFlushTime
          ELSE FlushOfNewVoq(r) >= now + DefaultVOQWaitingTime + ExtraVOQFlushTime
      <4>1. /\ r.phase0TxTime = rx.phase0TxTime /\ r.phase0RxTime = rx.phase0RxTime
            /\ r.tailTime = pkt.tailTime
        BY <2>2, <3>1
      <4>2. CASE r.phase0Cache
        <5>1. /\ TxTimegap(r) \in Nat /\ FlushOfNewVoq(r) \in Int
              /\ FlushOfNewVoq(r) >= r.phase0RxTime + TxTimegap(r) + ExtraVOQFlushTime
          BY <1>2, <2>5, <2>6, <4>2 DEF FlushOfNewVoq
        <5> QED
          BY <1>2, <1>3, <2>5, <2>6, <4>1, <4>2, <5>1
      <4>3. CASE ~r.phase0Cache
        BY <1>2, <2>5, <4>3 DEF FlushOfNewVoq, TxTimegap
      <4> QED
        BY <4>2, <4>3
    <3>6. rx'.phase0Cache = r.phase0Cache
      BY <2>2, <3>1, <3>2
    <3> QED
      BY <1>1, <2>3, <3>1, <3>2, <3>3, <3>4, <3>5, <3>6 DEF Holds, pkt
  <2> QED
    BY <1>6, <2>7, <2>8, <2>9
<1> QED
  BY <1>5, <1>6
-----------------------------------------------------------------------------
(* RouteInv, kind of step by kind of step.                                 *)

\* A packet that the source ToR sends keeps RouteInv: an INIT opens an epoch that the
\* destination ToR has not reached, a TAIL makes the path so far the old one.
LEMMA RouteSend ==
  ASSUME TimesSuit, AllInv, PastInv, RouteInv,
         NEW path \in Path, NEW pkt \in DataPkt, Sends(path, pkt)
  PROVE  RouteInv'
<1>0. /\ tx.epoch \in Nat /\ rx.epoch \in Nat /\ tx.phase \in {0, 1}
      /\ rx' = rx /\ voq' = voq /\ tx'.known /\ pkt.epoch = tx'.epoch
      /\ voq.exists => tx.known
  BY DEF AllInv, IInv, TypeOK, TxState, RxState, Sends, rxVars, EpochInv
<1>1. /\ \A r \in Path : \A x \in Elements(net'[r]) :
           x \in Elements(net[r]) \/ (x = pkt /\ r = path)
      /\ \A r \in Path : Elements(net[r]) \subseteq InFlight
  <2>1. /\ Elements(net'[path]) = Elements(net[path]) \union {pkt}
        /\ \A r \in Path \ {path} : net'[r] = net[r]
        /\ \A r \in Path : Elements(net[r]) \subseteq InFlight
    BY PushStep, FlightFacts DEF Sends, AllInv
  <2> QED
    BY <2>1
<1>2. /\ ~rx.known => rx.phase = 0 /\ ~rx.phase0Cache /\ rx.epoch = 1
      /\ ~tx.known => ~rx.known
      /\ tx.known => rx.epoch <= tx.epoch
  BY DEF RouteInv, PastInv
<1>3. CASE pkt.flag = "INIT"
  <2>1. /\ Expired \/ (tx.known /\ tx.stabilized /\ path = tx.pathId)
        /\ tx'.epoch = tx.epoch + 1 /\ tx'.phase = 0 /\ tx'.pathId = path
    BY <1>3 DEF Sends
  <2>2. rx.epoch = tx'.epoch => rx.phase = 0 /\ ~rx.phase0Cache /\ ~voq.exists
    BY <1>0, <1>2, <2>1
  <2>3. SettleInv'
    BY SuitFacts, SettleSend DEF AllInv
  <2>4. \A r \in Path \ {path} : Elements(net'[r]) = {}
    BY <1>0, <2>1, <2>3, NoElements DEF SettleInv, OnePath
  <2>5. OldPath(path)'
    BY <1>0, <2>2, <2>4 DEF OldPath
  <2> QED
    BY <1>0, <1>2, <2>1, <2>2, <2>5 DEF RouteInv
<1>4. CASE pkt.flag = "TAIL"
  <2>1. /\ tx.known /\ tx.phase = 0 /\ path = tx.pathId
        /\ tx'.epoch = tx.epoch /\ tx'.phase = 1
    BY <1>4 DEF Sends
  <2>2. OldPath(path)
    BY <2>1 DEF RouteInv
  <2>3. OldPath(path)'
    <3>1. \A r \in Path : \A y \in Elements(net'[r]) : ~EpochPhase(y, 1)' => r = path
      BY <1>1, <2>1, <2>2 DEF OldPath, EpochPhase
    <3> QED
      BY <1>0, <2>1, <2>2, <3>1 DEF OldPath
  <2>4. rx.epoch = tx.epoch => ~voq.exists
    BY <2>1 DEF AllInv, EpochInv
  <2> QED
    BY <1>0, <1>2, <2>1, <2>3, <2>4 DEF RouteInv
<1>5. CASE pkt.flag = "DATA"
  <2>1. /\ tx.known /\ path = tx.pathId /\ pkt.phase = tx.phase
        /\ tx'.epoch = tx.epoch /\ tx'.phase = tx.phase /\ tx'.tailTime = tx.tailTime
        /\ tx'.pathId = tx.pathId
    BY <1>5 DEF Sends
  <2>2. ASSUME NEW old \in Path, OldPath(old), tx.phase = 0 => old = path
        PROVE  OldPath(old)'
    <3>1. \A r \in Path : \A y \in Elements(net'[r]) : ~EpochPhase(y, 1)' => r = old
      BY <1>0, <1>1, <2>1, <2>2 DEF OldPath, EpochPhase
    <3> QED
      BY <1>0, <2>1, <2>2, <3>1 DEF OldPath
  <2> QED
    BY <1>0, <1>2, <2>1, <2>2 DEF RouteInv
<1> QED
  BY <1>3, <1>4, <1>5 DEF DataPkt

\* An arriving packet keeps RouteInv.
LEMMA RouteReceive ==
  ASSUME TimesSuit, AllInv, StreamInv, RouteInv, NEW p \in Path, NEW pkt \in DataPkt,
         TypeOK', Arrives(p, pkt),
         PassesFilter(pkt) \/ PassesOld(pkt) \/ PassesNew(pkt) \/ Holds(pkt)
  PROVE  RouteInv'
<1>0. /\ tx' = tx /\ rx'.known /\ now' = now /\ pkt.txTime + MinDelay[p] <= now
      /\ tx.phase \in {0, 1} /\ rx.epoch \in Nat /\ tx.epoch \in Nat
      /\ pkt.phase \in {0, 1} /\ pkt.epoch \in Nat
  BY VoqFacts DEF Arrives, DataPkt
<1>1. /\ pkt \in Elements(net[p]) /\ pkt \in InFlight
      /\ \A r \in Path : Elements(net'[r]) \subseteq Elements(net[r])
      /\ \A x : EpochPhase(x, 1)' <=> EpochPhase(x, 1)
  BY <1>0, HeadOrder DEF Arrives, EpochPhase
<1>2. /\ EpochPhase(pkt, 1) => tx.phase = 1 /\ pkt.tailTime = tx.tailTime
      /\ EpochTail(pkt) => tx.phase = 1
      /\ EpochTail(pkt) /\ pkt.phase = 0 => pkt.tailTime = tx.tailTime
  <2>1. tx.phase = 0 => ~EpochPhase(pkt, 1) /\ ~EpochTail(pkt)
    BY <1>1 DEF AllInv, PhaseInv, SettleInv
  <2>2. tx.phase = 1 => IF EpochPhase(pkt, 1) THEN pkt.tailTime = tx.tailTime
                        ELSE EpochTail(pkt) => pkt.tailTime = tx.tailTime
    BY <1>1 DEF StreamInv
  <2> QED
    BY <1>0, <2>1, <2>2 DEF EpochPhase
<1>3. ASSUME NEW old \in Path, OldPath(old)
      PROVE  OldPath(old)'
  <2>1. ASSUME rx'.epoch = tx.epoch, rx'.phase0Cache
        PROVE  rx'.phase0TxTime + MinDelay[old] <= rx'.phase0RxTime
    <3>1. CASE PassesFilter(pkt)
      BY <1>3, <2>1, <3>1 DEF PassesFilter, OldPath
    <3>2. CASE PassesOld(pkt)
      <4>1. p = old
        BY <1>1, <1>3, <3>2 DEF PassesOld, OldPath, EpochPhase
      <4> QED
        BY <1>0, <3>2, <4>1 DEF PassesOld
    <3>3. CASE PassesNew(pkt)
      BY <1>3, <2>1, <3>3 DEF PassesNew, OldPath
    <3>4. CASE Holds(pkt)
      BY <1>3, <2>1, <3>4 DEF Holds, OldPath
    <3> QED
      BY <3>1, <3>2, <3>3, <3>4
  <2> QED
    BY <1>0, <1>1, <1>3, <2>1 DEF OldPath
<1>4. ASSUME voq'.exists, rx'.epoch = tx.epoch
      PROVE  rx'.tailTime = tx.tailTime
  <2>1. CASE PassesFilter(pkt)
    BY <1>4, <2>1 DEF PassesFilter, RouteInv
  <2>2. CASE PassesOld(pkt)
    <3>1. rx.tailTime = tx.tailTime /\ pkt.epoch = tx.epoch /\ pkt.phase = 0
      BY <1>4, <2>2 DEF PassesOld, RouteInv
    <3>2. pkt.flag = "TAIL" => pkt.tailTime = tx.tailTime
      BY <1>2, <3>1 DEF EpochTail
    <3> QED
      BY <2>2, <3>1, <3>2 DEF PassesOld
  <2>3. CASE PassesNew(pkt)
    BY <1>4, <2>3 DEF PassesNew
  <2>4. CASE Holds(pkt)
    BY <1>2, <1>4, <2>4 DEF Holds, EpochPhase
  <2> QED
    BY <2>1, <2>2, <2>3, <2>4
<1>5. ASSUME tx.phase = 0, rx'.epoch = tx.epoch
      PROVE  rx'.phase = 0
  <2>1. CASE PassesFilter(pkt)
    BY <1>5, <2>1 DEF PassesFilter, RouteInv
  <2>2. CASE PassesOld(pkt)
    <3>1. rx'.phase # 1
      BY <1>2, <1>5, <2>2 DEF PassesOld, RouteInv, EpochTail
    <3>2. rx'.phase \in {0, 1}
      BY DEF TypeOK, RxState
    <3> QED
      BY <3>1, <3>2
  <2>3. CASE PassesNew(pkt) \/ Holds(pkt)
    BY <1>2, <1>5, <2>3 DEF PassesNew, Holds, EpochPhase
  <2> QED
    BY <2>1, <2>2, <2>3
<1>6. tx.known /\ tx.phase = 0 => OldPath(tx.pathId)'
  <2>1. tx.known => tx.pathId \in Path
    BY DEF AllInv, IInv, TypeOK, TxState, TxInv
  <2> QED
    BY <1>0, <1>3, <2>1 DEF RouteInv
<1>7. tx.phase = 1 => \E old \in Path : OldPath(old)'
  BY <1>3 DEF RouteInv
<1> QED
  BY <1>0, <1>4, <1>5, <1>6, <1>7 DEF RouteInv

-----------------------------------------------------------------------------
(* What is held, against what is in flight.                                *)

\* A packet that a VOQ of the destination ToR's epoch waits for.
OldKind(y) == y.epoch < rx.epoch \/ (y.epoch = rx.epoch /\ y.phase = 0)

Increasing(s) == \A i, j \in DOMAIN s : i < j => s[i] < s[j]

\* What a VOQ waits for arrives before the flush, and was sent before all it holds;
\* everything else in flight was sent later.
HeldInv ==
  voq.exists =>
    /\ Increasing(voq.fifo)
    /\ \A p \in Path : \A y \in Elements(net[p]) :
         IF OldKind(y)
         THEN /\ y.txTime + MaxDelay[p] < voq.flushAt
              /\ \A h \in Elements(voq.fifo) : y.seq < h
         ELSE \A h \in Elements(voq.fifo) : h < y.seq

\* In phase 1 there is nothing left to wait for; and nothing that is in flight or held
\* was sent before something that the host has.
AheadInv ==
  /\ rx.phase = 1 => \A y \in InFlight : ~OldKind(y)
  /\ \A g \in Elements(delivered) : /\ \A y \in InFlight : g < y.seq
                                    /\ \A h \in Elements(voq.fifo) : g < h

\* The allowance for jitter covers how much the delay of one path varies; with the
\* default waiting time it covers how much the delays of two paths differ.
DelaysSuit ==
  \A p, q \in Path : /\ MaxDelay[p] < MinDelay[p] + ExtraVOQFlushTime
                     /\ MaxDelay[p] < MinDelay[q] + DefaultVOQWaitingTime + ExtraVOQFlushTime

\* A larger number at the end keeps a queue increasing.
LEMMA IncreasingAppend ==
  ASSUME NEW s \in Seq(Nat), NEW e \in Nat, Increasing(s), \A h \in Elements(s) : h < e
  PROVE  Increasing(Append(s, e))
<1> DEFINE t == Append(s, e)
           n == Len(s)
<1>1. /\ DOMAIN s = 1 .. n /\ DOMAIN t = 1 .. n + 1 /\ n \in Nat
      /\ t[n + 1] = e /\ \A i \in 1 .. n : t[i] = s[i]
  OBVIOUS
<1> HIDE DEF t, n
<1>2. ASSUME NEW i \in 1 .. n + 1, NEW j \in 1 .. n + 1, i < j
      PROVE  t[i] < t[j]
  <2>1. CASE j = n + 1
    <3>1. i \in 1 .. n
      BY <1>1, <1>2, <2>1
    <3>2. s[i] \in Elements(s)
      BY <1>1, <3>1 DEF Elements
    <3> QED
      BY <1>1, <2>1, <3>1, <3>2
  <2>2. CASE j # n + 1
    <3>1. i \in 1 .. n /\ j \in 1 .. n
      BY <1>1, <1>2, <2>2
    <3> QED
      BY <1>1, <1>2, <3>1 DEF Increasing
  <2> QED
    BY <2>1, <2>2
<1> QED
  BY <1>1, <1>2 DEF Increasing, t

\* Numbers that are held, or with the host, have been sent.
LEMMA SentFacts ==
  ASSUME TypeOK, OnceInv
  PROVE  /\ sent \in Nat
         /\ \A h \in Elements(voq.fifo) \union Elements(delivered) :
              h \in Nat /\ h <= sent
<1>1. Elements(voq.fifo) \union Elements(delivered) \subseteq 1 .. sent
  BY DEF OnceInv, Placed
<1>2. sent \in Nat
  BY DEF TypeOK
<1> QED
  BY <1>1, <1>2

\* Fewer packets in flight, the same packets held.
LEMMA HeldFewer ==
  ASSUME HeldInv, \A p \in Path : Elements(net'[p]) \subseteq Elements(net[p]),
         voq' = voq, rx'.epoch = rx.epoch
  PROVE  HeldInv'
<1>1. \A y : OldKind(y)' <=> OldKind(y)
  BY DEF OldKind
<1> QED
  BY <1>1 DEF HeldInv

\* A packet that the source ToR sends is not one that a VOQ waits for.
LEMMA HeldSend ==
  ASSUME TimesSuit, AllInv, OnceInv, HeldInv,
         NEW path \in Path, NEW pkt \in DataPkt, Sends(path, pkt)
  PROVE  HeldInv'
<1>0. /\ rx' = rx /\ voq' = voq /\ pkt.seq = sent + 1 /\ sent \in Nat
      /\ tx.epoch \in Nat /\ rx.epoch \in Nat /\ tx.phase \in {0, 1}
  BY VoqFacts DEF Sends, rxVars, AllInv, IInv, TypeOK
<1>1. \A r \in Path : \A x \in Elements(net'[r]) :
        x \in Elements(net[r]) \/ x = pkt
  <2>1. /\ Elements(net'[path]) = Elements(net[path]) \union {pkt}
        /\ \A r \in Path \ {path} : net'[r] = net[r]
    BY PushStep DEF Sends, AllInv
  <2> QED
    BY <2>1
<1>2. \A y : OldKind(y)' <=> OldKind(y)
  BY <1>0 DEF OldKind
<1>3. voq.exists => ~OldKind(pkt)
  <2> SUFFICES ASSUME voq.exists  PROVE ~OldKind(pkt)
    OBVIOUS
  <2>1. rx.epoch <= tx.epoch /\ (tx.phase = 0 => rx.epoch < tx.epoch)
    BY <1>0 DEF AllInv, EpochInv
  <2>2. \/ pkt.epoch = tx.epoch + 1
        \/ pkt.epoch = tx.epoch /\ (pkt.phase = 0 => tx.phase = 0)
    BY DEF Sends
  <2> QED
    BY <1>0, <2>1, <2>2 DEF OldKind
<1>4. \A h \in Elements(voq.fifo) : h < pkt.seq
  BY <1>0, SentFacts DEF AllInv, IInv
<1> QED
  BY <1>0, <1>1, <1>2, <1>3, <1>4 DEF HeldInv

\* Nor is it one that was sent before something the host has.
LEMMA AheadSend ==
  ASSUME TimesSuit, AllInv, OnceInv, PastInv, RouteInv, AheadInv,
         NEW path \in Path, NEW pkt \in DataPkt, Sends(path, pkt)
  PROVE  AheadInv'
<1>0. /\ rx' = rx /\ voq' = voq /\ delivered' = delivered
      /\ pkt.seq = sent + 1 /\ sent \in Nat
      /\ tx.epoch \in Nat /\ rx.epoch \in Nat /\ tx.phase \in {0, 1}
  BY VoqFacts DEF Sends, rxVars, AllInv, IInv, TypeOK
<1>1. InFlight' = InFlight \union {pkt}
  BY PushStep DEF Sends, AllInv
<1>2. \A y : OldKind(y)' <=> OldKind(y)
  BY <1>0 DEF OldKind
<1>3. rx.phase = 1 => ~OldKind(pkt)
  <2> SUFFICES ASSUME rx.phase = 1  PROVE ~OldKind(pkt)
    OBVIOUS
  <2>1. rx.epoch <= tx.epoch /\ (tx.phase = 0 => rx.epoch < tx.epoch)
    BY <1>0 DEF RouteInv, PastInv
  <2>2. \/ pkt.epoch = tx.epoch + 1
        \/ pkt.epoch = tx.epoch /\ (pkt.phase = 0 => tx.phase = 0)
    BY DEF Sends
  <2> QED
    BY <1>0, <2>1, <2>2 DEF OldKind
<1>4. \A g \in Elements(delivered) : g < pkt.seq
  BY <1>0, SentFacts DEF AllInv, IInv
<1> QED
  BY <1>0, <1>1, <1>2, <1>3, <1>4 DEF AheadInv

\* The TAIL is the last packet of its phase 0, and of all that was sent before.
LEMMA TailIsLast ==
  ASSUME AllInv, StreamInv, RouteInv, NEW p \in Path, net[p] # <<>>,
         net' = [net EXCEPT ![p] = Tail(net[p])], Head(net[p]).flag = "TAIL"
  PROVE  \A y \in InFlight' : /\ y.epoch >= Head(net[p]).epoch
                              /\ y.epoch = Head(net[p]).epoch => y.phase = 1
<1> DEFINE pkt == Head(net[p])
<1>1. pkt \in InFlight /\ InFlight' \subseteq InFlight
  BY HeadOrder
<1>2. pkt.phase = 0 /\ pkt.seq \in Nat /\ pkt.epoch \in Nat
  BY <1>1, FlightFacts DEF AllInv, PhaseInv
<1>3. \A y \in InFlight' : pkt.seq < y.seq
  <2>1. ~EpochPhase(Head(net[p]), 1)
    BY <1>2 DEF EpochPhase
  <2> QED
    BY <2>1, OldPathOrder
<1> HIDE DEF pkt
<1>4. ASSUME NEW y \in InFlight'
      PROVE  y.epoch >= pkt.epoch /\ (y.epoch = pkt.epoch => y.phase = 1)
  <2>1. y \in InFlight /\ y.epoch \in Nat /\ y.phase \in {0, 1} /\ y.seq \in Nat
    BY <1>1, FlightFacts DEF AllInv
  <2>2. pkt.flag = "TAIL"
    BY DEF pkt
  <2>3. y.epoch < pkt.epoch => y.seq < pkt.seq
    BY <1>1, <2>1 DEF AllInv, SendInv
  <2>4. y.epoch = pkt.epoch /\ y.phase = 0 => y.seq <= pkt.seq
    BY <1>1, <2>1, <2>2 DEF StreamInv
  <2> QED
    BY <1>2, <1>3, <2>1, <2>3, <2>4
<1> QED
  BY <1>4 DEF pkt

\* A packet of phase 0 moves the flush of a VOQ, not before what it still waits for.
LEMMA HeldPassesOld ==
  ASSUME TimesSuit, DelaysSuit, AllInv, StreamInv, RouteInv, HeldInv,
         NEW p \in Path, NEW pkt \in DataPkt, TypeOK', Arrives(p, pkt), PassesOld(pkt)
  PROVE  HeldInv'
<1> SUFFICES ASSUME voq'.exists
             PROVE  /\ Increasing(voq.fifo)
                    /\ \A q \in Path : \A y \in Elements(net'[q]) :
                         IF OldKind(y)
                         THEN /\ y.txTime + MaxDelay[q] < voq'.flushAt
                              /\ \A h \in Elements(voq.fifo) : y.seq < h
                         ELSE \A h \in Elements(voq.fifo) : h < y.seq
  <2>1. voq.exists => rx'.epoch = rx.epoch
    BY DEF PassesOld
  <2> QED
    BY <2>1 DEF PassesOld, HeldInv, OldKind
<1>0. /\ voq.exists /\ voq'.flushAt \in Nat /\ rx.epoch = pkt.epoch /\ pkt.phase = 0
      /\ pkt.txTime \in Nat /\ now \in Nat /\ pkt.txTime + MinDelay[p] <= now
      /\ tx.epoch \in Nat /\ rx.epoch \in Nat /\ tx.phase \in {0, 1}
      /\ ExtraVOQFlushTime \in Nat /\ MinDelay[p] \in Nat
      /\ rx.tailTime \in Nat /\ tx.tailTime \in Nat
  BY VoqFacts, SuitFacts, TimeNat
  DEF PassesOld, Arrives, DataPkt, AllInv, IInv, TypeOK, Voq, TxState, RxState
<1>1. /\ pkt \in Elements(net[p]) /\ pkt \in InFlight /\ InFlight' \subseteq InFlight
      /\ \A q \in Path : Elements(net'[q]) \subseteq Elements(net[q])
      /\ \A q \in Path : Elements(net[q]) \subseteq InFlight
  BY HeadOrder, FlightFacts DEF Arrives, AllInv
<1>2. pkt.epoch = tx.epoch /\ tx.phase = 1 /\ rx.tailTime = tx.tailTime
  <2>1. ~Closed(pkt) /\ pkt.epoch <= tx.epoch
    BY <1>0, <1>1 DEF AllInv, EpochInv, SendInv
  <2>2. pkt.epoch = tx.epoch
    BY <1>0, <2>1 DEF Closed
  <2> QED
    BY <1>0, <2>2 DEF AllInv, EpochInv, RouteInv
<1>3. PICK old \in Path : OldPath(old)
  BY <1>2 DEF RouteInv
<1>4. p = old
  BY <1>0, <1>1, <1>3 DEF OldPath, EpochPhase
<1>5. ASSUME NEW q \in Path, NEW y \in Elements(net'[q]), OldKind(y)
      PROVE  y.txTime + MaxDelay[q] < voq'.flushAt
  <2>0. y \in Elements(net[q]) /\ y \in InFlight' /\ y.txTime \in Nat
    BY <1>1, FlightFacts DEF InFlight, AllInv
  <2>1. ~EpochPhase(y, 1)
    BY <1>0, <1>2, <1>5 DEF OldKind, EpochPhase
  <2>2. q = old /\ y.txTime <= tx.tailTime
    BY <1>2, <1>3, <2>0, <2>1 DEF OldPath, StreamInv
  <2>3. pkt.flag # "TAIL"
    <3>1. pkt.flag = "TAIL" => y.epoch >= pkt.epoch /\ (y.epoch = pkt.epoch => y.phase = 1)
      BY <2>0, TailIsLast DEF Arrives
    <3>2. y.epoch \in Nat
      BY <1>1, <2>0, FlightFacts DEF AllInv
    <3> QED
      BY <1>0, <1>5, <3>1, <3>2 DEF OldKind
  <2>4. voq'.flushAt + pkt.txTime >= now + rx.tailTime + ExtraVOQFlushTime
    BY <1>0, <2>3 DEF PassesOld
  <2>5. MaxDelay[q] < MinDelay[p] + ExtraVOQFlushTime /\ MaxDelay[q] \in Nat
    BY <1>4, <2>2, DelayNat DEF DelaysSuit
  <2> QED
    BY <1>0, <1>2, <2>0, <2>2, <2>4, <2>5
<1> QED
  BY <1>0, <1>1, <1>5 DEF HeldInv

\* The first packet of the new path opens a VOQ that waits long enough for the old one.
LEMMA HeldOpens ==
  ASSUME TimesSuit, DelaysSuit, AllInv, StreamInv, RouteInv,
         NEW p \in Path, NEW pkt \in DataPkt, TypeOK', Arrives(p, pkt), Holds(pkt),
         ~voq.exists
  PROVE  HeldInv'
<1>0. /\ voq'.flushAt \in Nat /\ pkt.epoch = tx.epoch /\ rx'.epoch = tx.epoch
      /\ pkt.phase = 1 /\ tx.phase \in {0, 1}
      /\ pkt.txTime \in Nat /\ now \in Nat /\ pkt.txTime + MinDelay[p] <= now
      /\ tx.epoch \in Nat /\ rx.epoch \in Nat
      /\ ExtraVOQFlushTime \in Nat /\ DefaultVOQWaitingTime \in Nat /\ MinDelay[p] \in Nat
      /\ rx.phase0TxTime \in Nat /\ rx.phase0RxTime \in Nat /\ tx.tailTime \in Nat
  BY VoqFacts, SuitFacts, TimeNat
  DEF Holds, Arrives, DataPkt, AllInv, IInv, TypeOK, Voq, TxState, RxState
<1>1. /\ pkt \in Elements(net[p]) /\ pkt \in InFlight /\ InFlight' \subseteq InFlight
      /\ \A q \in Path : Elements(net'[q]) \subseteq Elements(net[q])
      /\ \A q \in Path : Elements(net[q]) \subseteq InFlight
      /\ \A y \in InFlight' :
           y.epoch > pkt.epoch \/ (y.epoch = pkt.epoch /\ y.phase >= pkt.phase)
             => pkt.seq < y.seq
  BY HeadOrder, FlightFacts DEF Arrives, AllInv
<1>2. /\ EpochPhase(pkt, 1) /\ tx.phase = 1
      /\ pkt.tailTime = tx.tailTime /\ tx.tailTime <= pkt.txTime
  <2>1. EpochPhase(pkt, 1)
    BY <1>0 DEF EpochPhase
  <2>2. tx.phase = 1
    BY <1>0, <1>1, <2>1 DEF AllInv, PhaseInv
  <2> QED
    BY <1>1, <2>1, <2>2 DEF StreamInv
<1>3. PICK old \in Path : OldPath(old)
  BY <1>2 DEF RouteInv
<1>4. voq'.fifo = <<pkt.seq>> /\ pkt.seq \in Nat
  <2>1. voq.fifo = <<>>
    BY DEF AllInv, IInv, VoqInv, ReorderingIffVoq
  <2> QED
    BY <2>1 DEF Holds, DataPkt
<1>5. Increasing(voq'.fifo) /\ \A h \in Elements(voq'.fifo) : h = pkt.seq
  <2>1. DOMAIN voq'.fifo = {1} /\ voq'.fifo[1] = pkt.seq
    BY <1>4
  <2> QED
    BY <2>1 DEF Increasing, Elements
<1>6. ASSUME NEW q \in Path, NEW y \in Elements(net'[q])
      PROVE  IF OldKind(y)'
             THEN y.txTime + MaxDelay[q] < voq'.flushAt /\ y.seq < pkt.seq
             ELSE pkt.seq < y.seq
  <2>0. /\ y \in Elements(net[q]) /\ y \in InFlight' /\ y \in InFlight
        /\ y.txTime \in Nat /\ y.epoch \in Nat /\ y.phase \in {0, 1}
    BY <1>1, FlightFacts DEF InFlight, AllInv
  <2>1. OldKind(y)' <=> y.epoch < tx.epoch \/ (y.epoch = tx.epoch /\ y.phase = 0)
    BY <1>0 DEF OldKind
  <2>2. CASE ~OldKind(y)'
    BY <1>0, <1>1, <2>0, <2>1, <2>2
  <2>3. CASE OldKind(y)'
    <3>1. y.seq < pkt.seq
      BY <1>0, <1>1, <2>0, <2>1, <2>3 DEF AllInv, SendInv, StreamInv
    <3>2. q = old /\ y.txTime <= tx.tailTime
      <4>1. ~EpochPhase(y, 1)
        BY <1>0, <2>0, <2>1, <2>3 DEF EpochPhase
      <4> QED
        BY <1>2, <1>3, <2>0, <4>1 DEF OldPath, StreamInv
    <3>3. /\ MaxDelay[q] \in Nat /\ MinDelay[q] \in Nat
          /\ MaxDelay[q] < MinDelay[q] + ExtraVOQFlushTime
          /\ MaxDelay[q] < MinDelay[p] + DefaultVOQWaitingTime + ExtraVOQFlushTime
      BY DelayNat, SuitFacts DEF DelaysSuit
    <3>4. CASE rx'.phase0Cache
      <4>1. voq'.flushAt + rx.phase0TxTime >= rx.phase0RxTime + tx.tailTime + ExtraVOQFlushTime
        BY <1>2, <3>4 DEF Holds
      <4>2. rx.phase0TxTime + MinDelay[q] <= rx.phase0RxTime
        BY <1>0, <1>3, <3>2, <3>4 DEF Holds, OldPath
      <4>3. y.txTime + MaxDelay[q] < voq'.flushAt
        BY <1>0, <2>0, <3>2, <3>3, <4>1, <4>2
      <4> QED
        BY <2>3, <3>1, <4>3
    <3>5. CASE ~rx'.phase0Cache
      <4>1. voq'.flushAt >= now + DefaultVOQWaitingTime + ExtraVOQFlushTime
        BY <3>5 DEF Holds
      <4>2. y.txTime + MaxDelay[q] < voq'.flushAt
        BY <1>0, <1>2, <2>0, <3>2, <3>3, <4>1
      <4> QED
        BY <2>3, <3>1, <4>2
    <3> QED
      BY <3>4, <3>5
  <2> QED
    BY <2>2, <2>3
<1> QED
  BY <1>5, <1>6 DEF HeldInv

\* An arriving packet keeps HeldInv.
LEMMA HeldReceive ==
  ASSUME TimesSuit, DelaysSuit, AllInv, StreamInv, RouteInv, HeldInv,
         NEW p \in Path, NEW pkt \in DataPkt, TypeOK', Arrives(p, pkt),
         PassesFilter(pkt) \/ PassesOld(pkt) \/ PassesNew(pkt) \/ Holds(pkt)
  PROVE  HeldInv'
<1>1. /\ pkt \in InFlight /\ InFlight' \subseteq InFlight
      /\ \A q \in Path : Elements(net'[q]) \subseteq Elements(net[q])
      /\ \A y \in InFlight' :
           y.epoch > pkt.epoch \/ (y.epoch = pkt.epoch /\ y.phase >= pkt.phase)
             => pkt.seq < y.seq
  BY HeadOrder DEF Arrives
<1>2. CASE PassesFilter(pkt) \/ PassesNew(pkt)
  BY <1>1, <1>2, HeldFewer DEF PassesFilter, PassesNew
<1>3. CASE PassesOld(pkt)
  BY <1>3, HeldPassesOld
<1>4. CASE Holds(pkt) /\ ~voq.exists
  BY <1>4, HeldOpens
<1>5. CASE Holds(pkt) /\ voq.exists
  <2>1. /\ rx'.epoch = rx.epoch /\ rx.epoch = pkt.epoch /\ pkt.phase = 1
        /\ voq'.flushAt = voq.flushAt /\ voq'.fifo = Append(voq.fifo, pkt.seq)
        /\ voq.fifo \in Seq(Nat) /\ pkt.seq \in Nat /\ pkt.epoch \in Nat
    BY <1>5 DEF Holds, AllInv, IInv, TypeOK, Voq, DataPkt
  <2>2. Elements(voq'.fifo) = Elements(voq.fifo) \union {pkt.seq}
    BY <2>1, QueueElements
  <2>3. \A h \in Elements(voq.fifo) : h < pkt.seq
    <3>1. PICK q \in Path : pkt \in Elements(net[q])
      BY <1>1 DEF InFlight
    <3>2. ~OldKind(pkt)
      BY <2>1 DEF OldKind
    <3> QED
      BY <1>5, <3>1, <3>2 DEF HeldInv
  <2>4. Increasing(voq'.fifo)
    BY <1>5, <2>1, <2>3, IncreasingAppend DEF HeldInv
  <2>5. ASSUME NEW q \in Path, NEW y \in Elements(net'[q])
        PROVE  IF OldKind(y)'
               THEN /\ y.txTime + MaxDelay[q] < voq'.flushAt
                    /\ \A h \in Elements(voq'.fifo) : y.seq < h
               ELSE \A h \in Elements(voq'.fifo) : h < y.seq
    <3>0. /\ y \in Elements(net[q]) /\ y \in InFlight' /\ y \in InFlight
          /\ y.epoch \in Nat /\ y.phase \in {0, 1}
      BY <1>1, FlightFacts DEF InFlight, AllInv
    <3>1. OldKind(y)' <=> OldKind(y)
      BY <2>1 DEF OldKind
    <3>2. CASE OldKind(y)
      <4>1. y.seq < pkt.seq
        BY <1>1, <2>1, <3>0, <3>2 DEF OldKind, AllInv, SendInv, StreamInv
      <4>2. /\ y.txTime + MaxDelay[q] < voq.flushAt
            /\ \A h \in Elements(voq.fifo) : y.seq < h
        BY <1>5, <3>0, <3>2 DEF HeldInv
      <4> QED
        BY <2>1, <2>2, <3>1, <3>2, <4>1, <4>2
    <3>3. CASE ~OldKind(y)
      <4>1. pkt.seq < y.seq
        BY <1>1, <2>1, <3>0, <3>3 DEF OldKind
      <4>2. \A h \in Elements(voq.fifo) : h < y.seq
        BY <1>5, <3>0, <3>3 DEF HeldInv
      <4> QED
        BY <2>2, <3>1, <3>3, <4>1, <4>2
    <3> QED
      BY <3>2, <3>3
  <2> QED
    BY <2>4, <2>5 DEF HeldInv
<1> QED
  BY <1>2, <1>3, <1>4, <1>5

\* What reaches the host was sent before all that is still in flight or held.
LEMMA PassesFirst ==
  ASSUME TimesSuit, AllInv, PastInv, StreamInv, RouteInv, HeldInv, AheadInv,
         NEW p \in Path, NEW pkt \in DataPkt, Arrives(p, pkt),
         PassesFilter(pkt) \/ PassesOld(pkt) \/ PassesNew(pkt)
  PROVE  /\ voq'.fifo = voq.fifo
         /\ \A y \in InFlight' : pkt.seq < y.seq
         /\ \A h \in Elements(voq.fifo) : pkt.seq < h
<1>0. /\ pkt \in InFlight /\ InFlight' \subseteq InFlight
      /\ \A y \in InFlight' :
           y.epoch > pkt.epoch \/ (y.epoch = pkt.epoch /\ y.phase >= pkt.phase)
             => pkt.seq < y.seq
      /\ ~EpochPhase(pkt, 1) => \A y \in InFlight' : pkt.seq < y.seq
      /\ rx.epoch \in Nat /\ tx.epoch \in Nat /\ pkt.epoch \in Nat
  BY HeadOrder, OldPathOrder, VoqFacts DEF Arrives, DataPkt
<1>1. voq.exists /\ OldKind(pkt) => \A h \in Elements(voq.fifo) : pkt.seq < h
  <2>1. PICK q \in Path : pkt \in Elements(net[q])
    BY <1>0 DEF InFlight
  <2> QED
    BY <2>1 DEF HeldInv
<1>2. ~voq.exists => Elements(voq.fifo) = {}
  BY NoElements DEF AllInv, IInv, VoqInv, ReorderingIffVoq
<1>3. CASE PassesFilter(pkt)
  <2>1. pkt.epoch < rx.epoch /\ rx.epoch <= tx.epoch
    BY <1>0, <1>3 DEF PassesFilter, AllInv, SendInv, PastInv
  <2>2. ~EpochPhase(pkt, 1) /\ OldKind(pkt)
    BY <1>0, <2>1 DEF EpochPhase, OldKind
  <2> QED
    BY <1>0, <1>1, <1>2, <1>3, <2>2 DEF PassesFilter
<1>4. CASE PassesOld(pkt)
  <2>1. ~EpochPhase(pkt, 1) /\ (voq.exists => OldKind(pkt))
    BY <1>4 DEF PassesOld, EpochPhase, OldKind
  <2> QED
    BY <1>0, <1>1, <1>2, <1>4, <2>1 DEF PassesOld
<1>5. CASE PassesNew(pkt)
  <2>1. ASSUME NEW y \in InFlight'  PROVE pkt.seq < y.seq
    <3>1. y \in InFlight /\ y.epoch \in Nat /\ y.phase \in {0, 1}
      BY <1>0, FlightFacts DEF AllInv
    <3>2. ~OldKind(y)
      BY <1>5, <3>1 DEF PassesNew, AheadInv
    <3> QED
      BY <1>0, <1>5, <3>1, <3>2 DEF PassesNew, OldKind
  <2> QED
    BY <1>2, <1>5, <2>1 DEF PassesNew
<1> QED
  BY <1>3, <1>4, <1>5

\* An arriving packet keeps AheadInv.
LEMMA AheadReceive ==
  ASSUME TimesSuit, AllInv, PastInv, StreamInv, RouteInv, HeldInv, AheadInv,
         NEW p \in Path, NEW pkt \in DataPkt, Arrives(p, pkt),
         PassesFilter(pkt) \/ PassesOld(pkt) \/ PassesNew(pkt) \/ Holds(pkt)
  PROVE  AheadInv'
<1>0. /\ pkt \in InFlight /\ InFlight' \subseteq InFlight
      /\ delivered \in Seq(Nat) /\ voq.fifo \in Seq(Nat) /\ pkt.seq \in Nat
      /\ rx.epoch \in Nat /\ rx.phase \in {0, 1}
  BY HeadOrder, VoqFacts DEF Arrives, DataPkt, AllInv, IInv, TypeOK, Voq
<1>1. ASSUME rx'.phase = 1, NEW y \in InFlight'
      PROVE  ~OldKind(y)'
  <2>0. y \in InFlight /\ y.epoch \in Nat
    BY <1>0, FlightFacts DEF AllInv
  <2>1. CASE PassesFilter(pkt) \/ PassesNew(pkt)
    BY <1>1, <2>0, <2>1 DEF PassesFilter, PassesNew, AheadInv, OldKind
  <2>2. CASE PassesOld(pkt)
    <3>1. pkt.flag = "TAIL"
      BY <1>0, <1>1, <2>2 DEF PassesOld, AheadInv, OldKind
    <3>2. y.epoch >= pkt.epoch /\ (y.epoch = pkt.epoch => y.phase = 1)
      BY <1>1, <3>1, TailIsLast DEF Arrives
    <3> QED
      BY <1>0, <2>0, <2>2, <3>2 DEF PassesOld, OldKind, DataPkt
  <2>3. CASE Holds(pkt)
    BY <1>1, <2>3 DEF Holds
  <2> QED
    BY <2>1, <2>2, <2>3
<1>2. CASE Holds(pkt)
  <2>1. delivered' = delivered /\ Elements(voq'.fifo) = Elements(voq.fifo) \union {pkt.seq}
    BY <1>0, <1>2, QueueElements DEF Holds
  <2> QED
    BY <1>0, <1>1, <2>1 DEF AheadInv
<1>3. CASE PassesFilter(pkt) \/ PassesOld(pkt) \/ PassesNew(pkt)
  <2>1. Elements(delivered') = Elements(delivered) \union {pkt.seq}
    <3>1. delivered' = Append(delivered, pkt.seq)
      BY <1>3 DEF PassesFilter, PassesOld, PassesNew
    <3> QED
      BY <1>0, <3>1, QueueElements
  <2>2. /\ voq'.fifo = voq.fifo
        /\ \A y \in InFlight' : pkt.seq < y.seq
        /\ \A h \in Elements(voq.fifo) : pkt.seq < h
    BY <1>3, PassesFirst
  <2> QED
    BY <1>0, <1>1, <2>1, <2>2 DEF AheadInv
<1> QED
  BY <1>2, <1>3

-----------------------------------------------------------------------------
(* The order invariant.                                                    *)

OrderInv == StreamInv /\ RouteInv /\ HeldInv /\ AheadInv

\* Steps that change nothing but the answers, the clock, and packets that are lost.
LEMMA OrderFewer ==
  ASSUME OrderInv, InFlight' \subseteq InFlight,
         \A p \in Path : Elements(net'[p]) \subseteq Elements(net[p]),
         tx'.known = tx.known, tx'.epoch = tx.epoch, tx'.phase = tx.phase,
         tx'.pathId = tx.pathId, tx'.tailTime = tx.tailTime,
         UNCHANGED <<rx, voq, delivered>>
  PROVE  OrderInv'
<1>1. StreamInv'
  BY StreamFewer DEF OrderInv
<1>2. HeldInv'
  BY HeldFewer DEF OrderInv
<1>3. \A y : /\ OldKind(y)' <=> OldKind(y)
             /\ EpochPhase(y, 1)' <=> EpochPhase(y, 1)
  BY DEF OldKind, EpochPhase
<1>4. AheadInv'
  BY <1>3 DEF OrderInv, AheadInv
<1>5. \A old : OldPath(old) => OldPath(old)'
  BY <1>3 DEF OldPath
<1>6. RouteInv'
  BY <1>5 DEF OrderInv, RouteInv
<1> QED
  BY <1>1, <1>2, <1>4, <1>6 DEF OrderInv

\* At the flush nothing is in flight that the VOQ was waiting for.
LEMMA OrderFlush ==
  ASSUME TimesSuit, AllInv, OrderInv, VoqFlush
  PROVE  OrderInv'
<1>0. /\ rx'.known = rx.known /\ rx'.epoch = rx.epoch /\ rx'.phase = 1
      /\ rx'.phase0TxTime = rx.phase0TxTime /\ rx'.phase0RxTime = rx.phase0RxTime
      /\ rx'.phase0Cache = rx.phase0Cache
      /\ voq.exists /\ ~voq'.exists /\ voq'.fifo = <<>> /\ voq.flushAt = now
      /\ delivered' = delivered \o voq.fifo
      /\ UNCHANGED <<now, tx, net>> /\ rx.known
      /\ now \in Nat /\ voq.fifo \in Seq(Nat) /\ delivered \in Seq(Nat)
  <2>1. rx \in RxState /\ voq.fifo \in Seq(Nat) /\ delivered \in Seq(Nat) /\ now \in Nat
    BY DEF AllInv, IInv, TypeOK, Voq
  <2> QED
    BY <2>1, VoqFacts DEF VoqFlush, NoVoq, ToHost, RxState, txVars, netVars
<1>1. InFlight' = InFlight
  BY <1>0 DEF InFlight
<1>2. \A y \in InFlight : ~OldKind(y)
  <2> SUFFICES ASSUME NEW y \in InFlight, OldKind(y)  PROVE FALSE
    OBVIOUS
  <2>1. PICK p \in Path : y \in Elements(net[p])
    BY DEF InFlight
  <2>2. y.txTime + MaxDelay[p] < now
    BY <1>0, <2>1 DEF OrderInv, HeldInv
  <2>3. PICK i \in 1 .. Len(net[p]) : y = net[p][i]
    <3>1. net[p] \in Seq(DataPkt)
      BY DEF AllInv, IInv, TypeOK
    <3> QED
      BY <2>1, <3>1 DEF Elements
  <2>4. now <= y.txTime + MaxDelay[p]
    BY <2>3 DEF AllInv, IInv, NetInv
  <2>5. y.txTime \in Nat /\ MaxDelay[p] \in Nat
    BY FlightFacts, DelayNat DEF AllInv
  <2> QED
    BY <1>0, <2>2, <2>4, <2>5
<1>3. Elements(delivered') = Elements(delivered) \union Elements(voq.fifo)
  BY <1>0, ConcatElements
<1>4. \A y \in InFlight : \A h \in Elements(voq.fifo) : h < y.seq
  <2> SUFFICES ASSUME NEW y \in InFlight  PROVE \A h \in Elements(voq.fifo) : h < y.seq
    OBVIOUS
  <2>1. PICK p \in Path : y \in Elements(net[p])
    BY DEF InFlight
  <2> QED
    BY <1>0, <1>2, <2>1 DEF OrderInv, HeldInv
<1>5. AheadInv'
  <2>1. \A y \in InFlight' : ~OldKind(y)'
    BY <1>0, <1>1, <1>2 DEF OldKind
  <2>2. \A g \in Elements(delivered') : \A y \in InFlight' : g < y.seq
    BY <1>1, <1>3, <1>4 DEF OrderInv, AheadInv
  <2> QED
    BY <1>0, <2>1, <2>2, NoElements DEF AheadInv
<1>6. StreamInv'
  BY <1>0, <1>1, StreamFewer DEF OrderInv
<1>7. RouteInv'
  <2>1. \A old : OldPath(old) => OldPath(old)'
    BY <1>0 DEF OldPath, EpochPhase
  <2>2. ~(tx.phase = 0 /\ rx.epoch = tx.epoch)
    BY <1>0 DEF AllInv, EpochInv
  <2> QED
    BY <1>0, <2>1, <2>2 DEF OrderInv, RouteInv
<1>8. HeldInv'
  BY <1>0 DEF HeldInv
<1> QED
  BY <1>5, <1>6, <1>7, <1>8 DEF OrderInv

\* Aging erases the destination ToR's entry only when no VOQ needs it.
LEMMA OrderAgingRx ==
  ASSUME TimesSuit, AllInv, OrderInv, AgingEventRx
  PROVE  OrderInv'
<1>0. /\ now \in Nat /\ rx.activeTime \in Nat /\ AgingTime \in Nat
      /\ MaxVoqWait \in Nat /\ WorstDelay \in Nat /\ WorstDelay + MaxVoqWait <= AgingTime
      /\ tx.phase \in {0, 1} /\ rx.phase \in {0, 1}
  BY VoqFacts, SuitFacts DEF TimesSuit
<1>1. UNCHANGED <<now, tx, voq, net, delivered>> /\ InFlight' = InFlight
  BY DEF AgingEventRx, txVars, netVars, InFlight
<1>2. CASE rx' = rx
  BY <1>1, <1>2, OrderFewer
<1>3. CASE rx' # rx
  <2>1. rx' = FreshRx /\ now > rx.activeTime + AgingTime
    BY <1>0, <1>3 DEF AgingEventRx, Stale
  <2>2. ~voq.exists
    BY <1>0, <2>1, VoqFacts
  <2>3. rx'.phase = 0 /\ ~rx'.phase0Cache
    BY <2>1 DEF FreshRx
  <2>4. StreamInv'
    BY <1>1, StreamFewer DEF OrderInv
  <2>5. \A old : OldPath(old) => OldPath(old)'
    BY <1>1, <2>3 DEF OldPath, EpochPhase
  <2>6. RouteInv'
    BY <1>1, <2>2, <2>3, <2>5 DEF OrderInv, RouteInv
  <2>7. HeldInv' /\ AheadInv'
    BY <1>1, <2>2, <2>3 DEF OrderInv, HeldInv, AheadInv
  <2> QED
    BY <2>4, <2>6, <2>7 DEF OrderInv
<1> QED
  BY <1>2, <1>3

\* The source ToR's entry is erased after the destination's.
LEMMA OrderAgingTx ==
  ASSUME OrderInv, AgingEventTx, SendInv', EpochInv', PastInv'
  PROVE  OrderInv'
<1>1. UNCHANGED <<now, rx, voq, net, delivered>> /\ InFlight' = InFlight
  BY DEF AgingEventTx, rxVars, netVars, InFlight
<1>2. CASE tx' = tx
  BY <1>1, <1>2, OrderFewer
<1>3. CASE tx' # tx
  <2>1. ~tx'.known /\ tx'.phase = 0
    BY <1>3 DEF AgingEventTx, FreshTx
  <2>2. /\ InFlight' = {} /\ ~voq'.exists /\ ~rx'.known
        /\ \A p \in Path : Elements(net'[p]) = {}
    BY <2>1 DEF SendInv, EpochInv, PastInv, InFlight
  <2>3. StreamInv'
    BY <2>1, <2>2 DEF StreamInv
  <2>4. RouteInv'
    BY <1>1, <2>1, <2>2 DEF OrderInv, RouteInv
  <2>5. HeldInv' /\ AheadInv'
    BY <1>1, <2>2 DEF OrderInv, HeldInv, AheadInv
  <2> QED
    BY <2>3, <2>4, <2>5 DEF OrderInv
<1> QED
  BY <1>2, <1>3

\* Every handler, and the clock, keeps OrderInv.
LEMMA OrderStep ==
  ASSUME TimesSuit, DelaysSuit, AllInv, AllInv', PastInv, PastInv', OnceInv, OrderInv,
         [Next]_vars
  PROVE  OrderInv'
<1>0. /\ StreamInv /\ RouteInv /\ HeldInv /\ AheadInv /\ TypeOK /\ TypeOK'
      /\ tx \in TxState
  BY DEF OrderInv, AllInv, IInv, TypeOK
<1>1. CASE TxData
  <2>1. PICK path \in Path, pkt \in DataPkt : Sends(path, pkt)
    BY <1>1, SendCases DEF AllInv
  <2> QED
    BY <1>0, <2>1, StreamSend, RouteSend, HeldSend, AheadSend DEF OrderInv
<1>2. CASE TxReply \/ TxNotify
  <2>1. UNCHANGED <<net, rx, voq, delivered>> /\ InFlight' = InFlight
    BY <1>2 DEF TxReply, TxNotify, rxVars, InFlight
  <2>2. /\ tx'.known = tx.known /\ tx'.epoch = tx.epoch /\ tx'.phase = tx.phase
        /\ tx'.pathId = tx.pathId /\ tx'.tailTime = tx.tailTime
    BY <1>0, <1>2 DEF TxReply, TxNotify, TxState
  <2> QED
    BY <2>1, <2>2, OrderFewer
<1>3. ASSUME NEW p \in Path,
             RxPrevEpoch(p) \/ RxPhase0(p) \/ RxPhase1InOrder(p) \/ RxPhase1OutOfOrder(p)
      PROVE  OrderInv'
  <2> DEFINE pkt == Head(net[p])
  <2>1. /\ Arrives(p, pkt)
        /\ PassesFilter(pkt) \/ PassesOld(pkt) \/ PassesNew(pkt) \/ Holds(pkt)
    BY <1>3, ArriveCases
  <2>2. pkt \in DataPkt
    BY <2>1, PopStep DEF Arrives, AllInv
  <2>3. StreamInv'
    <3>1. /\ InFlight' \subseteq InFlight /\ tx' = tx
          /\ \A r \in Path : Elements(net'[r]) \subseteq Elements(net[r])
      BY <1>0, <2>1, HeadOrder DEF Arrives
    <3> QED
      BY <1>0, <3>1, StreamFewer
  <2> HIDE DEF pkt
  <2>4. RouteInv'
    BY <1>0, <2>1, <2>2, RouteReceive
  <2>5. HeldInv'
    BY <1>0, <2>1, <2>2, HeldReceive
  <2>6. AheadInv'
    BY <1>0, <2>1, <2>2, AheadReceive
  <2> QED
    BY <2>3, <2>4, <2>5, <2>6 DEF OrderInv
<1>4. ASSUME NEW p \in Path, Drop(p)  PROVE OrderInv'
  <2>1. /\ net[p] # <<>> /\ net' = [net EXCEPT ![p] = Tail(net[p])]
        /\ UNCHANGED <<tx, rx, voq, delivered>>
    BY <1>4 DEF Drop, txVars, rxVars
  <2>2. /\ InFlight' \subseteq InFlight
        /\ \A r \in Path : Elements(net'[r]) \subseteq Elements(net[r])
    BY <1>0, <2>1, HeadOrder
  <2> QED
    BY <2>1, <2>2, OrderFewer
<1>5. CASE VoqFlush
  BY <1>5, OrderFlush
<1>6. CASE AgingEventRx
  BY <1>6, OrderAgingRx
<1>7. CASE AgingEventTx
  BY <1>7, OrderAgingTx DEF AllInv
<1>8. CASE UNCHANGED <<tx, rx, voq, net, delivered>>
  <2>1. InFlight' = InFlight
    BY <1>8 DEF InFlight
  <2> QED
    BY <1>8, <2>1, OrderFewer
<1> QED
  BY <1>1, <1>2, <1>3, <1>4, <1>5, <1>6, <1>7, <1>8
  DEF Next, RxData, Tick, Stop, vars, txVars, rxVars, netVars

\* It holds at the start.
LEMMA OrderInit == Init => OrderInv
<1> SUFFICES ASSUME Init  PROVE OrderInv
  OBVIOUS
<1>1. /\ tx = FreshTx /\ rx = FreshRx /\ voq = NoVoq /\ delivered = <<>>
      /\ \A p \in Path : net[p] = <<>>
  BY DEF Init
<1>2. /\ InFlight = {} /\ Elements(delivered) = {}
      /\ \A p \in Path : Elements(net[p]) = {}
  BY <1>1, NoElements DEF InFlight
<1>3. /\ ~tx.known /\ tx.phase = 0 /\ rx.phase = 0 /\ ~rx.phase0Cache /\ ~voq.exists
  BY <1>1 DEF FreshTx, FreshRx, NoVoq
<1> QED
  BY <1>2, <1>3 DEF OrderInv, StreamInv, RouteInv, HeldInv, AheadInv

\* All of it is invariant, as long as the two ToRs age in order.
FullInv == AllInv /\ PastInv /\ OnceInv /\ OrderInv

LEMMA FullInvariant ==
  ASSUME TimesSuit, DelaysSuit
  PROVE  Spec /\ [][AgesLast]_vars => []FullInv
<1>1. Spec => []AllInv
  BY AllInvariant
<1>2. Init => PastInv /\ OnceInv /\ OrderInv
  BY PastInit, OnceInit, OrderInit
<1>3. AllInv /\ AllInv' /\ PastInv /\ OnceInv /\ OrderInv /\ [Next]_vars /\ [AgesLast]_vars
        => PastInv' /\ OnceInv' /\ OrderInv'
  <2> SUFFICES ASSUME AllInv, AllInv', PastInv, OnceInv, OrderInv,
                      [Next]_vars, [AgesLast]_vars
               PROVE  PastInv' /\ OnceInv' /\ OrderInv'
    OBVIOUS
  <2>1. PastInv'
    BY PastStep DEF AllInv
  <2>2. OnceInv'
    BY OnceStep DEF AllInv, IInv
  <2> QED
    BY <2>1, <2>2, OrderStep
<1> QED
  BY <1>1, <1>2, <1>3, PTL DEF Spec, FullInv

-----------------------------------------------------------------------------
(* The host sees an ordered channel.                                       *)

\* What a queue of larger and larger numbers adds to the end of another.
LEMMA BatchAtEnd ==
  ASSUME NEW s \in Seq(Nat), NEW t \in Seq(Nat), t # <<>>, Increasing(t)
  PROVE  /\ Len(s \o t) > Len(s) /\ SubSeq(s \o t, 1, Len(s)) = s
         /\ {(s \o t)[i] : i \in Len(s) + 1 .. Len(s \o t)} = Elements(t)
         /\ \A i \in Len(s) + 1 .. Len(s \o t) - 1 : (s \o t)[i] < (s \o t)[i + 1]
         /\ t[Len(t)] \in Elements(t) /\ \A h \in Elements(t) : h <= t[Len(t)]
<1> DEFINE u == s \o t
           m == Len(s)
           n == Len(t)
<1>1. /\ DOMAIN s = 1 .. m /\ DOMAIN t = 1 .. n /\ Len(u) = m + n
      /\ m \in Nat /\ n \in Nat /\ n >= 1
      /\ \A i \in 1 .. n : t[i] \in Nat
      /\ \A i \in m + 1 .. m + n : u[i] = t[i - m]
  OBVIOUS
<1>2. SubSeq(u, 1, m) = s
  OBVIOUS
<1> HIDE DEF u, m, n
<1>3. {u[i] : i \in m + 1 .. m + n} = Elements(t)
  <2>1. ASSUME NEW i \in m + 1 .. m + n  PROVE u[i] \in Elements(t)
    <3>1. i - m \in 1 .. n
      BY <1>1
    <3> QED
      BY <1>1, <3>1 DEF Elements
  <2>2. ASSUME NEW a \in Elements(t)  PROVE a \in {u[i] : i \in m + 1 .. m + n}
    <3>1. PICK i \in 1 .. n : t[i] = a
      BY <1>1 DEF Elements
    <3>2. m + i \in m + 1 .. m + n /\ (m + i) - m = i
      BY <1>1
    <3>3. u[m + i] = a
      BY <1>1, <3>1, <3>2
    <3> QED
      BY <3>2, <3>3
  <2> QED
    BY <2>1, <2>2
<1>4. ASSUME NEW i \in m + 1 .. (m + n) - 1
      PROVE  u[i] < u[i + 1]
  <2>1. /\ i \in m + 1 .. m + n /\ i + 1 \in m + 1 .. m + n
        /\ i - m \in 1 .. n /\ (i + 1) - m \in 1 .. n /\ i - m < (i + 1) - m
    BY <1>1
  <2> QED
    BY <1>1, <2>1 DEF Increasing
<1>5. /\ t[n] \in Elements(t)
      /\ \A h \in Elements(t) : h <= t[n]
  <2>1. n \in 1 .. n
    BY <1>1
  <2>2. ASSUME NEW h \in Elements(t)  PROVE h <= t[n]
    <3>1. PICK i \in 1 .. n : t[i] = h
      BY <1>1 DEF Elements
    <3>2. i = n \/ i < n
      BY <1>1
    <3>3. i < n => t[i] < t[n]
      BY <1>1, <2>1 DEF Increasing
    <3>4. t[i] \in Nat /\ t[n] \in Nat
      BY <1>1, <2>1
    <3> QED
      BY <3>1, <3>2, <3>3, <3>4
  <2> QED
    BY <1>1, <2>1, <2>2 DEF Elements
<1>6. Len(u) > m
  BY <1>1
<1> QED
  BY <1>1, <1>2, <1>3, <1>4, <1>5, <1>6 DEF u, m, n

\* The numbers in a queue are those of its packets.
LEMMA SeqsElements ==
  ASSUME NEW q \in Seq(DataPkt), NEW k
  PROVE  k \in Elements(Seqs(q)) <=> \E y \in Elements(q) : y.seq = k
<1>1. DOMAIN q = 1 .. Len(q) /\ DOMAIN Seqs(q) = 1 .. Len(q)
  BY DEF Seqs
<1> QED
  BY <1>1 DEF Elements, Seqs

\* A batch that was sent after all that the host has, and before all that remains.
LEMMA DeliverStep ==
  ASSUME FullInv, TypeOK', OnceInv', AheadInv', NEW t \in Seq(Nat), t # <<>>, Increasing(t),
         delivered' = delivered \o t, UNCHANGED <<sent, lost>>,
         \A g \in Elements(delivered), h \in Elements(t) : g < h
  PROVE  OC!Deliver
<1> DEFINE upTo  == t[Len(t)]
           batch == (1 .. upTo) \ (lost \union Elements(delivered))
<1>0. /\ delivered \in Seq(Nat) /\ sent \in Nat
      /\ \A h \in Elements(t) : h \in Nat
  BY QueueElements DEF FullInv, AllInv, IInv, TypeOK
<1>1. /\ Len(delivered') > Len(delivered)
      /\ SubSeq(delivered', 1, Len(delivered)) = delivered
      /\ {delivered'[i] : i \in Len(delivered) + 1 .. Len(delivered')} = Elements(t)
      /\ \A i \in Len(delivered) + 1 .. Len(delivered') - 1 :
           delivered'[i] < delivered'[i + 1]
      /\ upTo \in Elements(t) /\ \A h \in Elements(t) : h <= upTo
  <2>1. LET u == delivered \o t IN
        /\ Len(u) > Len(delivered) /\ SubSeq(u, 1, Len(delivered)) = delivered
        /\ {u[i] : i \in Len(delivered) + 1 .. Len(u)} = Elements(t)
        /\ \A i \in Len(delivered) + 1 .. Len(u) - 1 : u[i] < u[i + 1]
        /\ t[Len(t)] \in Elements(t) /\ \A h \in Elements(t) : h <= t[Len(t)]
    BY <1>0, BatchAtEnd, Zenon
  <2> QED
    BY <2>1, Zenon
<1>2. Elements(delivered') = Elements(delivered) \union Elements(t)
  BY <1>0, ConcatElements
<1>3. Placed(Flight', Elements(voq'.fifo), Elements(delivered'), lost, sent)
  BY DEF OnceInv
<1>4. Elements(delivered') \subseteq 1 .. sent /\ Elements(delivered') \intersect lost = {}
  BY <1>3 DEF Placed
<1> HIDE DEF upTo
<1>5. upTo \in 1 .. sent /\ upTo \in Nat /\ upTo \in Elements(delivered')
  BY <1>0, <1>1, <1>2, <1>4
<1>6. ASSUME NEW s \in batch  PROVE s \in Elements(t)
  <2>1. s \in 1 .. sent /\ s \in Nat /\ s <= upTo /\ s \notin lost
    BY <1>0, <1>5
  <2>2. s \notin Elements(voq'.fifo)
    BY <1>5, <2>1 DEF AheadInv
  <2>3. ASSUME NEW q \in Path  PROVE s \notin Flight'[q]
    <3>1. \A y \in Elements(net'[q]) : upTo < y.seq
      BY <1>5 DEF AheadInv, InFlight
    <3>2. s \in Flight'[q] => \E y \in Elements(net'[q]) : y.seq = s
      <4>1. net'[q] \in Seq(DataPkt) /\ Flight'[q] = Elements(Seqs(net'[q]))
        BY DEF TypeOK, Flight
      <4> QED
        BY <4>1, SeqsElements
    <3> QED
      BY <1>5, <2>1, <3>1, <3>2
  <2>4. s \in Elements(delivered')
    BY <1>3, <2>1, <2>2, <2>3 DEF Placed
  <2> QED
    BY <1>2, <1>6, <2>4
<1>7. ASSUME NEW h \in Elements(t)  PROVE h \in batch
  <2>1. h \in Nat /\ h <= upTo /\ h \in Elements(delivered')
    BY <1>0, <1>1, <1>2
  <2>2. h \in 1 .. upTo /\ h \notin lost
    BY <1>4, <1>5, <2>1
  <2>3. h \notin Elements(delivered)
    BY <1>7, <2>1
  <2> QED
    BY <2>2, <2>3
<1>8. batch = Elements(t) /\ batch # {}
  BY <1>1, <1>6, <1>7
<1>9. OC!Got = Elements(delivered)
  <2>1. DOMAIN delivered = 1 .. Len(delivered)
    BY <1>0
  <2> QED
    BY <2>1 DEF OC!Got, Elements
<1> QED
  BY <1>1, <1>5, <1>8, <1>9 DEF OC!Deliver

\* Every step of the model is one of the channel's or a stutter.
LEMMA ChannelStep ==
  ASSUME TimesSuit, FullInv, FullInv', [Next]_vars
  PROVE  OC!Next \/ UNCHANGED OC!vars
<1>0. /\ AllInv /\ AllInv' /\ IInv /\ TypeOK /\ TypeOK' /\ PastInv /\ OnceInv /\ OnceInv'
      /\ StreamInv /\ RouteInv /\ HeldInv /\ AheadInv /\ AheadInv'
      /\ delivered \in Seq(Nat) /\ voq.fifo \in Seq(Nat) /\ sent \in Nat
  BY DEF FullInv, OrderInv, AllInv, IInv, TypeOK, Voq
<1>1. CASE TxData
  <2>1. PICK path \in Path, flag \in {"DATA", "INIT", "TAIL"}, epoch \in Nat,
             phase \in {0, 1}, tailTime \in Nat :
               Forward(path, flag, epoch, phase, tailTime)
    BY <1>0, <1>1, TxForwards DEF IInv
  <2>2. sent < MaxPkts /\ sent' = sent + 1 /\ UNCHANGED <<lost, delivered>>
    BY <2>1 DEF Forward, rxVars
  <2> QED
    BY <2>2 DEF OC!Next, OC!Send
<1>2. ASSUME NEW p \in Path,
             RxPrevEpoch(p) \/ RxPhase0(p) \/ RxPhase1InOrder(p) \/ RxPhase1OutOfOrder(p)
      PROVE  OC!Next \/ UNCHANGED OC!vars
  <2> DEFINE pkt == Head(net[p])
  <2>1. /\ Arrives(p, pkt) /\ pkt \in DataPkt /\ pkt \in InFlight
        /\ PassesFilter(pkt) \/ PassesOld(pkt) \/ PassesNew(pkt) \/ Holds(pkt)
    BY <1>0, <1>2, ArriveCases, PopStep, FlightFacts DEF Arrives
  <2> HIDE DEF pkt
  <2>2. UNCHANGED <<sent, lost>> /\ pkt.seq \in Nat
    BY <2>1 DEF Arrives, DataPkt
  <2>3. CASE Holds(pkt)
    BY <2>2, <2>3 DEF Holds, OC!vars
  <2>4. CASE ~Holds(pkt)
    <3> DEFINE t == <<pkt.seq>>
    <3>1. delivered' = delivered \o t
      <4>1. delivered' = Append(delivered, pkt.seq)
        BY <2>1, <2>4 DEF PassesFilter, PassesOld, PassesNew
      <4> QED
        BY <1>0, <2>2, <4>1
    <3>2. t \in Seq(Nat) /\ t # <<>> /\ DOMAIN t = {1} /\ t[1] = pkt.seq
      BY <2>2
    <3>3. Increasing(t) /\ Elements(t) = {pkt.seq}
      BY <3>2 DEF Increasing, Elements
    <3>4. \A g \in Elements(delivered), h \in Elements(t) : g < h
      BY <1>0, <2>1, <3>3 DEF AheadInv
    <3> HIDE DEF t
    <3>5. OC!Deliver
      BY <1>0, <2>2, <3>1, <3>2, <3>3, <3>4, DeliverStep
    <3> QED
      BY <3>5 DEF OC!Next
  <2> QED
    BY <2>3, <2>4
<1>3. CASE VoqFlush
  <2>1. /\ voq.exists /\ delivered' = delivered \o voq.fifo /\ UNCHANGED <<sent, lost>>
    BY <1>3 DEF VoqFlush, ToHost, txVars, netVars
  <2>2. voq.fifo # <<>>
    BY <1>0, <2>1 DEF IInv, VoqInv, ReorderingIffVoq
  <2>3. Increasing(voq.fifo)
    BY <1>0, <2>1 DEF HeldInv
  <2>4. \A g \in Elements(delivered), h \in Elements(voq.fifo) : g < h
    BY <1>0 DEF AheadInv
  <2>5. OC!Deliver
    BY <1>0, <2>1, <2>2, <2>3, <2>4, DeliverStep
  <2> QED
    BY <2>5 DEF OC!Next
<1>4. ASSUME NEW p \in Path, Drop(p)
      PROVE  OC!Next
  <2> DEFINE k == Head(net[p]).seq
  <2>1. /\ net[p] # <<>> /\ net' = [net EXCEPT ![p] = Tail(net[p])]
        /\ lost' = lost \union {k} /\ UNCHANGED <<sent, delivered>>
    BY <1>4 DEF Drop, txVars, rxVars
  <2>2. k \in Flight[p]
    BY <1>0, <2>1, FlightPop DEF OnceInv
  <2>3. k \in 1 .. sent /\ k \notin Elements(delivered)
    BY <2>2, <1>0 DEF OnceInv, Placed
  <2>4. OC!Got = Elements(delivered)
    <3>1. DOMAIN delivered = 1 .. Len(delivered)
      BY <1>0
    <3> QED
      BY <3>1 DEF OC!Got, Elements
  <2> HIDE DEF k
  <2> QED
    BY <2>1, <2>3, <2>4 DEF OC!Next, OC!Lose
<1>5. CASE UNCHANGED <<sent, lost, delivered>>
  BY <1>5 DEF OC!vars
<1>6. CASE TxReply \/ TxNotify \/ AgingEventRx \/ AgingEventTx \/ Tick \/ Stop
  BY <1>5, <1>6
  DEF TxReply, TxNotify, AgingEventRx, AgingEventTx, Tick, Stop, vars, txVars, rxVars,
      netVars
<1>7. CASE UNCHANGED vars
  BY <1>5, <1>7 DEF vars, txVars, rxVars, netVars
<1> QED
  BY <1>1, <1>2, <1>3, <1>4, <1>6, <1>7 DEF Next, RxData

\* ConWeave implements OrderedChannel: over any paths, with any losses, marks and
\* reroutes, RouteInput and the VOQ give the host the packets in the order of sending
\* and miss only what was dropped.  It takes time-outs that suit the delays, an
\* allowance for jitter that covers how much a path's delay varies, and the aging of
\* the source ToR's entry after the destination's.
THEOREM OrderedDeliveryRefined ==
  TimesSuit /\ DelaysSuit /\ Spec /\ [][AgesLast]_vars => OrderedDelivery
<1> SUFFICES ASSUME TimesSuit, DelaysSuit
             PROVE  Spec /\ [][AgesLast]_vars => OrderedDelivery
  OBVIOUS
<1>1. Init => OC!Init
  BY DEF Init, OC!Init
<1>2. FullInv /\ FullInv' /\ [Next]_vars => [OC!Next]_(OC!vars)
  BY ChannelStep
<1>3. Spec /\ [][AgesLast]_vars => []FullInv
  BY FullInvariant
<1> QED
  BY <1>1, <1>2, <1>3, PTL DEF Spec, OrderedDelivery, OC!Spec
=============================================================================

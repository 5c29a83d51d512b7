------------------------- MODULE ConWeaveEpochProofs ------------------------
(***************************************************************************)
(* What TLAPS proves of the epochs and phases of ConWeave.tla.  These are  *)
(* properties of the two ToRs together; they need an agreement between the *)
(* time-outs and the network's delays, or between the two aging timers,    *)
(* and each theorem states the agreement that it needs.                    *)
(***************************************************************************)
EXTENDS ConWeaveProofs

-----------------------------------------------------------------------------
(* Queues as sets.                                                         *)

\* What a queue holds when something joins it or leaves it.
LEMMA QueueElements ==
  ASSUME NEW S, NEW s \in Seq(S)
  PROVE  /\ Elements(s) \subseteq S
         /\ s = <<>> <=> Elements(s) = {}
         /\ \A e \in S : Elements(Append(s, e)) = Elements(s) \union {e}
         /\ s # <<>> => Elements(s) = {Head(s)} \union Elements(Tail(s))
<1>1. DOMAIN s = 1 .. Len(s) /\ Len(s) \in Nat /\ \A i \in 1 .. Len(s) : s[i] \in S
  OBVIOUS
<1>2. Elements(s) \subseteq S
  BY <1>1 DEF Elements
<1>3. s = <<>> <=> Elements(s) = {}
  <2>1. s # <<>> => s[1] \in Elements(s)
    BY <1>1 DEF Elements
  <2>2. Elements(<<>>) = {}
    BY NoElements
  <2> QED
    BY <2>1, <2>2
<1>4. ASSUME NEW e \in S
      PROVE  Elements(Append(s, e)) = Elements(s) \union {e}
  <2> DEFINE t == Append(s, e)
             n == Len(s)
  <2>1. /\ DOMAIN t = 1 .. n + 1 /\ t[n + 1] = e /\ \A i \in 1 .. n : t[i] = s[i]
        /\ \A i \in 1 .. n + 1 : i \in 1 .. n \/ i = n + 1
        /\ \A i \in 1 .. n : i \in 1 .. n + 1
        /\ n + 1 \in 1 .. n + 1 /\ DOMAIN s = 1 .. n
    BY <1>1
  <2> HIDE DEF t, n
  <2>2. \A a \in Elements(t) : a \in Elements(s) \union {e}
    BY <2>1 DEF Elements
  <2>3. \A a \in Elements(s) \union {e} : a \in Elements(t)
    BY <2>1 DEF Elements
  <2> QED
    BY <2>2, <2>3 DEF t
<1>5. ASSUME s # <<>>
      PROVE  Elements(s) = {Head(s)} \union Elements(Tail(s))
  <2> DEFINE t == Tail(s)
             n == Len(s) - 1
  <2>1. /\ DOMAIN s = 1 .. n + 1 /\ DOMAIN t = 1 .. n /\ n \in Nat
        /\ Head(s) = s[1] /\ \A i \in 1 .. n : t[i] = s[i + 1]
    BY <1>5, HeadTail
  <2>2. /\ 1 \in 1 .. n + 1
        /\ \A i \in 1 .. n : i + 1 \in 1 .. n + 1
        /\ \A i \in 1 .. n + 1 : i # 1 => i - 1 \in 1 .. n /\ (i - 1) + 1 = i
    BY <2>1
  <2> HIDE DEF t, n
  <2>3. \A a \in {Head(s)} \union Elements(t) : a \in Elements(s)
    BY <2>1, <2>2 DEF Elements
  <2>4. ASSUME NEW a \in Elements(s)  PROVE a \in {Head(s)} \union Elements(t)
    <3>1. PICK i \in 1 .. n + 1 : s[i] = a
      BY <2>1 DEF Elements
    <3>2. CASE i = 1
      BY <2>1, <3>1, <3>2
    <3>3. CASE i # 1
      <4>1. i - 1 \in 1 .. n /\ t[i - 1] = s[(i - 1) + 1] /\ (i - 1) + 1 = i
        BY <2>1, <2>2, <3>3
      <4>2. t[i - 1] = a
        BY <3>1, <4>1
      <4> QED
        BY <2>1, <4>1, <4>2 DEF Elements
    <3> QED
      BY <3>2, <3>3
  <2> QED
    BY <2>3, <2>4 DEF t
<1> QED
  BY <1>2, <1>3, <1>4, <1>5

\* What two queues hold one after the other.
LEMMA ConcatElements ==
  ASSUME NEW S, NEW s \in Seq(S), NEW t \in Seq(S)
  PROVE  Elements(s \o t) = Elements(s) \union Elements(t)
<1> DEFINE u == s \o t
           m == Len(s)
           n == Len(t)
<1>1. /\ DOMAIN s = 1 .. m /\ DOMAIN t = 1 .. n /\ DOMAIN u = 1 .. m + n
      /\ m \in Nat /\ n \in Nat
      /\ \A i \in 1 .. m : u[i] = s[i]
      /\ \A i \in 1 .. m + n : i \notin 1 .. m => u[i] = t[i - m]
  OBVIOUS
<1>2. /\ \A i \in 1 .. m : i \in 1 .. m + n
      /\ \A i \in 1 .. m + n : i \notin 1 .. m => i - m \in 1 .. n
      /\ \A i \in 1 .. n : i + m \in 1 .. m + n /\ i + m \notin 1 .. m /\ (i + m) - m = i
  BY <1>1
<1> HIDE DEF u, m, n
<1>3. \A a \in Elements(u) : a \in Elements(s) \union Elements(t)
  BY <1>1, <1>2 DEF Elements
<1>4. ASSUME NEW a \in Elements(t)  PROVE a \in Elements(u)
  <2>1. PICK i \in 1 .. n : t[i] = a
    BY <1>1 DEF Elements
  <2>2. u[i + m] = t[(i + m) - m] /\ (i + m) - m = i /\ i + m \in 1 .. m + n
    BY <1>1, <1>2
  <2> QED
    BY <1>1, <2>1, <2>2 DEF Elements
<1>5. \A a \in Elements(s) : a \in Elements(u)
  BY <1>1, <1>2 DEF Elements
<1> QED
  BY <1>3, <1>4, <1>5 DEF u

-----------------------------------------------------------------------------
(* What each kind of step does, seen from the packets.                     *)

InFlight == UNION {Elements(net[p]) : p \in Path}
Received == Elements(delivered) \union Elements(voq.fifo)

\* Packets in flight are packets, sent at most WorstDelay ago.
LEMMA FlightFacts ==
  ASSUME IInv
  PROVE  /\ InFlight \subseteq DataPkt
         /\ \A x \in InFlight : /\ x.seq \in Nat /\ x.epoch \in Nat /\ x.txTime \in Nat
                                /\ x.phase \in {0, 1} /\ x.tailTime \in Nat
                                /\ x.txTime <= now /\ now <= x.txTime + WorstDelay
         /\ \A p \in Path : net[p] # <<>> => /\ Head(net[p]) \in InFlight
                                             /\ Head(net[p]) \in Elements(net[p])
         /\ \A p \in Path : Elements(net[p]) \subseteq InFlight
<1>1. net \in [Path -> Seq(DataPkt)] /\ now \in Nat
  BY DEF IInv, TypeOK
<1>2. InFlight \subseteq DataPkt
  BY <1>1, QueueElements DEF InFlight
<1>3. ASSUME NEW x \in InFlight
      PROVE  x.txTime <= now /\ now <= x.txTime + WorstDelay
  <2>1. PICK p \in Path : x \in Elements(net[p])
    BY <1>3 DEF InFlight
  <2>2. PICK i \in 1 .. Len(net[p]) : x = net[p][i]
    BY <1>1, <2>1 DEF Elements
  <2>3. x.txTime \in Nat
    BY <1>2, <1>3 DEF DataPkt
  <2>4. x.txTime <= now /\ now <= x.txTime + MaxDelay[p]
    BY <2>2 DEF IInv, NetInv
  <2> QED
    BY <1>1, <2>3, <2>4, DelayNat, TimeNat
<1>4. ASSUME NEW p \in Path, net[p] # <<>>
      PROVE  Head(net[p]) \in Elements(net[p])
  BY <1>1, <1>4, QueueElements
<1> QED
  BY <1>2, <1>3, <1>4 DEF InFlight, DataPkt

\* A packet joins a path.
LEMMA PushStep ==
  ASSUME IInv, NEW p \in Path, NEW pkt \in DataPkt,
         net' = [net EXCEPT ![p] = Append(net[p], pkt)]
  PROVE  /\ Elements(net'[p]) = Elements(net[p]) \union {pkt}
         /\ \A r \in Path \ {p} : net'[r] = net[r]
         /\ InFlight' = InFlight \union {pkt}
<1>1. net \in [Path -> Seq(DataPkt)]
  BY DEF IInv, TypeOK
<1>2. net'[p] = Append(net[p], pkt) /\ \A r \in Path \ {p} : net'[r] = net[r]
  BY <1>1
<1>3. Elements(net'[p]) = Elements(net[p]) \union {pkt}
  BY <1>1, <1>2, QueueElements
<1>4. \A x \in InFlight' : x \in InFlight \union {pkt}
  BY <1>2, <1>3 DEF InFlight
<1>5. ASSUME NEW x \in InFlight \union {pkt}  PROVE x \in InFlight'
  <2>1. CASE x = pkt
    BY <1>3, <2>1 DEF InFlight
  <2>2. CASE x \in InFlight
    <3>1. PICK r \in Path : x \in Elements(net[r])
      BY <2>2 DEF InFlight
    <3>2. x \in Elements(net'[r])
      BY <1>2, <1>3, <3>1
    <3> QED
      BY <3>2 DEF InFlight
  <2> QED
    BY <1>5, <2>1, <2>2
<1> QED
  BY <1>2, <1>3, <1>4, <1>5

\* The head of a path leaves it.
LEMMA PopStep ==
  ASSUME IInv, NEW p \in Path, net[p] # <<>>,
         net' = [net EXCEPT ![p] = Tail(net[p])]
  PROVE  /\ Elements(net[p]) = Elements(net'[p]) \union {Head(net[p])}
         /\ \A r \in Path \ {p} : net'[r] = net[r]
         /\ InFlight = InFlight' \union {Head(net[p])}
         /\ Head(net[p]) \in DataPkt
<1>1. net \in [Path -> Seq(DataPkt)]
  BY DEF IInv, TypeOK
<1>2. net'[p] = Tail(net[p]) /\ \A r \in Path \ {p} : net'[r] = net[r]
  BY <1>1
<1>3. Elements(net[p]) = Elements(net'[p]) \union {Head(net[p])}
  BY <1>1, <1>2, QueueElements
<1>4. ASSUME NEW x \in InFlight  PROVE x \in InFlight' \union {Head(net[p])}
  <2>1. PICK r \in Path : x \in Elements(net[r])
    BY <1>4 DEF InFlight
  <2>2. x \in Elements(net'[r]) \/ x = Head(net[p])
    BY <1>2, <1>3, <2>1
  <2> QED
    BY <2>2 DEF InFlight
<1>5. ASSUME NEW x \in InFlight' \union {Head(net[p])}  PROVE x \in InFlight
  <2>1. CASE x = Head(net[p])
    BY <1>3, <2>1 DEF InFlight
  <2>2. CASE x \in InFlight'
    <3>1. PICK r \in Path : x \in Elements(net'[r])
      BY <2>2 DEF InFlight
    <3>2. x \in Elements(net[r])
      BY <1>2, <1>3, <3>1
    <3> QED
      BY <3>2 DEF InFlight
  <2> QED
    BY <1>5, <2>1, <2>2
<1>6. Head(net[p]) \in DataPkt
  BY <1>1, HeadTail
<1> QED
  BY <1>2, <1>3, <1>4, <1>5, <1>6

\* The source ToR sends pkt on path: it opens an epoch, ends phase 0 with a TAIL, or
\* goes on in its epoch and phase.
Sends(path, pkt) ==
  /\ net' = [net EXCEPT ![path] = Append(net[path], pkt)]
  /\ pkt.seq = sent + 1 /\ sent' = sent + 1 /\ pkt.txTime = now
  /\ pkt.epoch = tx'.epoch /\ tx'.known /\ tx'.activeTime = now
  /\ UNCHANGED <<now, pathTable, rxVars, ctl, lost, agingAt>>
  /\ \/ /\ Expired \/ (tx.known /\ ~Expired /\ tx.stabilized /\ path = tx.pathId)
        /\ pkt.flag = "INIT" /\ pkt.phase = 0 /\ pkt.tailTime = 0
        /\ tx'.epoch = tx.epoch + 1 /\ tx'.phase = 0 /\ ~tx'.stabilized
        /\ tx'.pathId = path /\ tx'.tailTime = 0
     \/ /\ tx.known /\ ~tx.stabilized /\ tx.phase = 0 /\ path = tx.pathId
        /\ pkt.flag = "TAIL" /\ pkt.phase = 0 /\ pkt.tailTime = now
        /\ tx'.epoch = tx.epoch /\ tx'.phase = 1 /\ ~tx'.stabilized
        /\ tx'.tailTime = now
     \/ /\ tx.known /\ ~tx.stabilized /\ path = tx.pathId
        /\ pkt.flag = "DATA" /\ pkt.phase = tx.phase /\ pkt.tailTime = tx.tailTime
        /\ tx'.epoch = tx.epoch /\ tx'.phase = tx.phase /\ ~tx'.stabilized
        /\ tx'.tailTime = tx.tailTime /\ tx'.pathId = tx.pathId

\* These are the four handlers of a packet from the host.
LEMMA SendCases ==
  ASSUME IInv, TxData
  PROVE  \E path \in Path, pkt \in DataPkt : Sends(path, pkt)
<1>1. /\ tx \in TxState /\ tx.pathId \in Path \union {NoPath} /\ tx.epoch \in Nat
      /\ tx.phase \in {0, 1} /\ tx.tailTime \in Nat /\ tx.epoch + 1 \in Nat
      /\ now \in Nat /\ sent + 1 \in Nat /\ now <= StopTime
  BY TimeNat DEF IInv, TypeOK, TxState, ClockInv, StartTime
<1>2. ~Expired => tx.known /\ tx.pathId \in Path
  <2>1. ~Expired => tx.known
    BY <1>1, TimeNat DEF Expired, IInv, TxInv, ClockInv, StartTime, TypeOK, TxState
  <2> QED
    BY <1>1, <2>1 DEF IInv, TxInv
<1> DEFINE P(flag, epoch, phase, tailTime) ==
             [seq |-> sent + 1, epoch |-> epoch, phase |-> phase,
              flag |-> flag, txTime |-> now, tailTime |-> tailTime]
<1>3. \A flag \in {"DATA", "INIT", "TAIL"}, epoch \in Nat, phase \in {0, 1},
         tailTime \in Nat :
        /\ P(flag, epoch, phase, tailTime) \in DataPkt
        /\ P(flag, epoch, phase, tailTime).seq = sent + 1
        /\ P(flag, epoch, phase, tailTime).txTime = now
        /\ P(flag, epoch, phase, tailTime).epoch = epoch
        /\ P(flag, epoch, phase, tailTime).phase = phase
        /\ P(flag, epoch, phase, tailTime).flag = flag
        /\ P(flag, epoch, phase, tailTime).tailTime = tailTime
  BY <1>1 DEF DataPkt
<1>4. \A path, flag, epoch, phase, tailTime :
        Forward(path, flag, epoch, phase, tailTime) =>
          /\ net' = [net EXCEPT ![path] = Append(net[path], P(flag, epoch, phase, tailTime))]
          /\ sent' = sent + 1
          /\ UNCHANGED <<now, pathTable, rxVars, ctl, lost, agingAt>>
  BY DEF Forward
<1> HIDE DEF P
<1>5. CASE TxExpired
  <2>1. PICK c \in PathChoice :
          LET path == IF c.found \/ tx.pathId = NoPath THEN c.path ELSE tx.pathId
          IN /\ tx' = [tx EXCEPT !.known = TRUE, !.stabilized = FALSE,
                                 !.activeTime = now,
                                 !.replyTimer = now + BaseRTT + ExtraReplyDeadline,
                                 !.epoch = @ + 1, !.phase = 0, !.pathId = path,
                                 !.tailTime = 0]
             /\ Forward(path, "INIT", tx.epoch + 1, 0, 0)
    BY <1>5 DEF TxExpired
  <2> DEFINE path == IF c.found \/ tx.pathId = NoPath THEN c.path ELSE tx.pathId
             pkt  == P("INIT", tx.epoch + 1, 0, 0)
  <2>0. /\ pkt \in DataPkt /\ pkt.seq = sent + 1 /\ pkt.txTime = now
        /\ pkt.epoch = tx.epoch + 1 /\ pkt.phase = 0 /\ pkt.flag = "INIT"
        /\ pkt.tailTime = 0
    BY <1>1, <1>3
  <2>2. path \in Path
    BY <1>1, ChoiceType
  <2>3. Forward(path, "INIT", tx.epoch + 1, 0, 0) /\ Expired
    BY <1>5, <2>1 DEF TxExpired
  <2>4. /\ tx'.known /\ ~tx'.stabilized /\ tx'.activeTime = now /\ tx'.pathId = path
        /\ tx'.epoch = tx.epoch + 1 /\ tx'.phase = 0 /\ tx'.tailTime = 0
    BY <1>1, <2>1 DEF TxState
  <2> HIDE DEF path
  <2>5. Sends(path, pkt) /\ pkt \in DataPkt
    <3>1. /\ net' = [net EXCEPT ![path] = Append(net[path], pkt)] /\ sent' = sent + 1
          /\ UNCHANGED <<now, pathTable, rxVars, ctl, lost, agingAt>>
      BY <1>4, <2>3
    <3> HIDE DEF pkt
    <3> QED
      BY <2>0, <2>3, <2>4, <3>1 DEF Sends
  <2> QED
    BY <2>2, <2>5
<1>6. CASE TxStabilized
  <2> DEFINE pkt == P("INIT", tx.epoch + 1, 0, 0)
  <2>1. /\ tx'.known = tx.known /\ ~tx'.stabilized /\ tx'.activeTime = now
        /\ tx'.pathId = tx.pathId
        /\ tx'.epoch = tx.epoch + 1 /\ tx'.phase = 0 /\ tx'.tailTime = 0
    BY <1>1, <1>6 DEF TxStabilized, TxState
  <2>2. Sends(tx.pathId, pkt) /\ pkt \in DataPkt
    <3>0. /\ pkt \in DataPkt /\ pkt.seq = sent + 1 /\ pkt.txTime = now
          /\ pkt.epoch = tx.epoch + 1 /\ pkt.phase = 0 /\ pkt.flag = "INIT"
          /\ pkt.tailTime = 0
      BY <1>1, <1>3
    <3>1. /\ net' = [net EXCEPT ![tx.pathId] = Append(net[tx.pathId], pkt)]
          /\ sent' = sent + 1
          /\ UNCHANGED <<now, pathTable, rxVars, ctl, lost, agingAt>>
      BY <1>4, <1>6 DEF TxStabilized
    <3> HIDE DEF pkt
    <3> QED
      BY <1>2, <1>6, <2>1, <3>0, <3>1 DEF Sends, TxStabilized
  <2> QED
    BY <1>2, <1>6, <2>2 DEF TxStabilized
<1>7. CASE TxReplyTimeout
  <2> DEFINE pkt == P("TAIL", tx.epoch, 0, now)
  <2>1. tx.phase = 0
    <3>1. tx.replyTimer < CW_MAX_TIME
      BY <1>1, <1>7, TimeNat DEF TxReplyTimeout, ReplyTimeout, TxState
    <3> QED
      BY <1>1, <3>1, TimeNat DEF IInv, TxInv
  <2>2. /\ tx'.known = tx.known /\ tx'.stabilized = tx.stabilized /\ tx'.activeTime = now
        /\ tx'.epoch = tx.epoch /\ tx'.phase = 1 /\ tx'.tailTime = now
    BY <1>1, <1>7 DEF TxReplyTimeout, TxState
  <2>3. Sends(tx.pathId, pkt) /\ pkt \in DataPkt
    <3>0. /\ pkt \in DataPkt /\ pkt.seq = sent + 1 /\ pkt.txTime = now
          /\ pkt.epoch = tx.epoch /\ pkt.phase = 0 /\ pkt.flag = "TAIL"
          /\ pkt.tailTime = now
      BY <1>1, <1>3
    <3>1. /\ net' = [net EXCEPT ![tx.pathId] = Append(net[tx.pathId], pkt)]
          /\ sent' = sent + 1
          /\ UNCHANGED <<now, pathTable, rxVars, ctl, lost, agingAt>>
      BY <1>4, <1>7 DEF TxReplyTimeout
    <3> HIDE DEF pkt
    <3> QED
      BY <1>2, <1>7, <2>1, <2>2, <3>0, <3>1 DEF Sends, TxReplyTimeout
  <2> QED
    BY <1>2, <1>7, <2>3 DEF TxReplyTimeout
<1>8. CASE TxUsual
  <2> DEFINE pkt == P("DATA", tx.epoch, tx.phase, tx.tailTime)
  <2>1. /\ tx'.known = tx.known /\ tx'.stabilized = tx.stabilized /\ tx'.activeTime = now
        /\ tx'.epoch = tx.epoch /\ tx'.phase = tx.phase /\ tx'.tailTime = tx.tailTime
        /\ tx'.pathId = tx.pathId
    BY <1>1, <1>8 DEF TxUsual, TxState
  <2>2. Sends(tx.pathId, pkt) /\ pkt \in DataPkt
    <3>0. /\ pkt \in DataPkt /\ pkt.seq = sent + 1 /\ pkt.txTime = now
          /\ pkt.epoch = tx.epoch /\ pkt.phase = tx.phase /\ pkt.flag = "DATA"
          /\ pkt.tailTime = tx.tailTime
      <4>1. tx.epoch \in Nat /\ tx.phase \in {0, 1} /\ tx.tailTime \in Nat
        BY <1>1
      <4> QED
        BY <1>3, <4>1
    <3>1. /\ net' = [net EXCEPT ![tx.pathId] = Append(net[tx.pathId], pkt)]
          /\ sent' = sent + 1
          /\ UNCHANGED <<now, pathTable, rxVars, ctl, lost, agingAt>>
      BY <1>4, <1>8 DEF TxUsual
    <3> HIDE DEF pkt
    <3> QED
      BY <1>2, <1>8, <2>1, <3>0, <3>1 DEF Sends, TxUsual
  <2> QED
    BY <1>2, <1>8, <2>2 DEF TxUsual
<1> QED
  BY <1>5, <1>6, <1>7, <1>8 DEF TxData

-----------------------------------------------------------------------------
(* The epochs of the packets in flight.                                    *)

\* No packet is of a later epoch than the source ToR's entry, nor sent after its
\* last use; later epochs are sent later; an entry that aging has erased has
\* outlived its packets.
SendInv ==
  /\ ~tx.known => tx.epoch = 0 /\ InFlight = {}
  /\ tx.known => tx.epoch >= 1
  /\ \A x \in InFlight : /\ x.seq <= sent /\ 1 <= x.epoch /\ x.epoch <= tx.epoch
                         /\ x.txTime <= tx.activeTime
  /\ \A x, y \in InFlight : x.epoch < y.epoch => x.seq < y.seq

\* The network is empty once a packet of the last use must have arrived.
LEMMA OldPacketsGone ==
  ASSUME IInv, SendInv, now > tx.activeTime + WorstDelay
  PROVE  InFlight = {}
<1> SUFFICES ASSUME NEW x \in InFlight  PROVE FALSE
  OBVIOUS
<1>1. /\ x.txTime \in Nat /\ now <= x.txTime + WorstDelay
      /\ x.txTime <= tx.activeTime /\ tx.activeTime \in Nat /\ now \in Nat
  BY FlightFacts DEF SendInv, IInv, TypeOK, TxState
<1> QED
  BY <1>1, TimeNat

\* Packets that leave the network disturb nothing.
LEMMA FewerPackets ==
  ASSUME SendInv, InFlight' \subseteq InFlight, UNCHANGED <<tx, sent>>
  PROVE  SendInv'
BY DEF SendInv

\* Every handler, and the clock, keeps SendInv.
LEMMA SendStep == IInv /\ SendInv /\ [Next]_vars => SendInv'
<1> SUFFICES ASSUME IInv, SendInv, [Next]_vars  PROVE SendInv'
  OBVIOUS
<1>0. /\ now \in Nat /\ tx \in TxState /\ tx.epoch \in Nat /\ tx.activeTime \in Nat
      /\ sent \in Nat
  BY DEF IInv, TypeOK, TxState
<1>1. CASE TxData
  <2>1. PICK path \in Path, pkt \in DataPkt : Sends(path, pkt)
    BY <1>1, SendCases
  <2>2. InFlight' = InFlight \union {pkt}
    BY <2>1, PushStep DEF Sends
  <2>3. /\ pkt.seq = sent + 1 /\ sent' = sent + 1 /\ pkt.txTime = now
        /\ pkt.epoch = tx'.epoch /\ tx'.known /\ tx'.activeTime = now
    BY <2>1 DEF Sends
  <2>4. tx'.epoch = tx.epoch + 1 \/ (tx.known /\ tx'.epoch = tx.epoch)
    BY <2>1 DEF Sends
  <2>5. tx'.epoch \in Nat /\ tx'.epoch >= 1 /\ tx'.epoch >= tx.epoch
    BY <1>0, <2>4 DEF SendInv
  <2>6. \A x \in InFlight : /\ x.seq \in Nat /\ x.epoch \in Nat /\ x.txTime \in Nat
                            /\ x.seq <= sent /\ 1 <= x.epoch /\ x.epoch <= tx.epoch
                            /\ x.txTime <= now
    BY FlightFacts DEF SendInv
  <2>7. \A x \in InFlight' : /\ x.seq <= sent' /\ 1 <= x.epoch /\ x.epoch <= tx'.epoch
                             /\ x.txTime <= tx'.activeTime
    BY <1>0, <2>2, <2>3, <2>5, <2>6
  <2>8. \A x, y \in InFlight' : x.epoch < y.epoch => x.seq < y.seq
    <3> SUFFICES ASSUME NEW x \in InFlight', NEW y \in InFlight', x.epoch < y.epoch
                 PROVE  x.seq < y.seq
      OBVIOUS
    <3>1. CASE x = pkt
      BY <1>0, <2>2, <2>3, <2>5, <2>6, <3>1
    <3>2. CASE x # pkt /\ y = pkt
      BY <1>0, <2>2, <2>3, <2>6, <3>2
    <3>3. CASE x # pkt /\ y # pkt
      BY <2>2, <3>3 DEF SendInv
    <3> QED
      BY <3>1, <3>2, <3>3
  <2> QED
    BY <2>3, <2>5, <2>7, <2>8 DEF SendInv
<1>2. CASE TxReply
  <2>1. /\ tx'.known = tx.known /\ tx'.epoch = tx.epoch
        /\ tx'.activeTime = tx.activeTime /\ UNCHANGED <<net, sent>>
    BY <1>0, <1>2 DEF TxReply, TxState
  <2>2. InFlight' = InFlight
    BY <2>1 DEF InFlight
  <2> QED
    BY <2>1, <2>2 DEF SendInv
<1>3. ASSUME NEW p \in Path,
             \/ RxPrevEpoch(p) \/ RxPhase0(p)
             \/ RxPhase1InOrder(p) \/ RxPhase1OutOfOrder(p) \/ Drop(p)
      PROVE  SendInv'
  <2>1. /\ net[p] # <<>> /\ net' = [net EXCEPT ![p] = Tail(net[p])]
        /\ UNCHANGED <<tx, sent>>
    BY <1>3 DEF RxPrevEpoch, RxPhase0, RxPhase1InOrder, RxPhase1OutOfOrder, Drop,
                Arrived, txVars
  <2>2. InFlight' \subseteq InFlight
    BY <2>1, PopStep
  <2> QED
    BY <2>1, <2>2, FewerPackets
<1>4. CASE AgingEventTx
  <2>1. CASE tx' = tx
    <3>1. InFlight' = InFlight /\ sent' = sent
      BY <1>4 DEF AgingEventTx, InFlight, netVars
    <3> QED
      BY <2>1, <3>1, FewerPackets
  <2>2. CASE tx' # tx
    <3>1. Stale(tx) /\ tx' = FreshTx /\ UNCHANGED <<net, sent>>
      BY <1>4, <2>2 DEF AgingEventTx, netVars
    <3>2. now > tx.activeTime + WorstDelay
      BY <1>0, <3>1, TimeNat, MaxVoqWaitFacts DEF Stale
    <3>3. InFlight' = {}
      BY <3>1, <3>2, OldPacketsGone DEF InFlight
    <3> QED
      BY <3>1, <3>3 DEF SendInv, FreshTx
  <2> QED
    BY <2>1, <2>2
<1>5. CASE UNCHANGED <<net, tx, sent>>
  <2>1. InFlight' = InFlight
    BY <1>5 DEF InFlight
  <2> QED
    BY <1>5, <2>1, FewerPackets
<1> QED
  BY <1>1, <1>2, <1>3, <1>4, <1>5
  DEF Next, RxData, TxNotify, VoqFlush, AgingEventRx, Tick, Stop, vars, txVars, netVars

\* Nothing is in flight at the start.
LEMMA SendInit == Init => SendInv
<1> SUFFICES ASSUME Init  PROVE SendInv
  OBVIOUS
<1>1. tx = FreshTx /\ \A p \in Path : net[p] = <<>>
  BY DEF Init
<1>2. InFlight = {}
  BY <1>1, NoElements DEF InFlight
<1> QED
  BY <1>1, <1>2 DEF SendInv, FreshTx

\* So it always holds.
LEMMA SendInvariant == Spec => []SendInv
  BY Invariant, SendInit, SendStep, PTL DEF Spec

-----------------------------------------------------------------------------
(* The epoch filter of the destination ToR.                                *)

\* What the arrival of a packet does to the entry, the VOQ and the host.
LEMMA ReceiveStep ==
  ASSUME IInv, NEW p \in Path,
         RxPrevEpoch(p) \/ RxPhase0(p) \/ RxPhase1InOrder(p) \/ RxPhase1OutOfOrder(p)
  PROVE  LET pkt == Head(net[p])
         IN  /\ net[p] # <<>> /\ net' = [net EXCEPT ![p] = Tail(net[p])]
             /\ UNCHANGED <<now, tx, sent, lost>>
             /\ rx'.known /\ rx'.activeTime = now
             /\ rx'.epoch = IF PrevEpoch(pkt) THEN rx.epoch ELSE pkt.epoch
             /\ Received' = Received \union {pkt.seq}
<1> DEFINE pkt == Head(net[p])
<1>1. /\ net[p] # <<>> /\ net' = [net EXCEPT ![p] = Tail(net[p])]
      /\ UNCHANGED <<now, tx, sent, lost>>
  BY DEF RxPrevEpoch, RxPhase0, RxPhase1InOrder, RxPhase1OutOfOrder, Arrived, txVars
<1>2. /\ rx \in RxState /\ voq \in Voq /\ voq.fifo \in Seq(Nat)
      /\ delivered \in Seq(Nat) /\ pkt \in DataPkt /\ pkt.seq \in Nat
  BY <1>1, PopStep DEF IInv, TypeOK, Voq, DataPkt
<1>3. /\ rx'.known /\ rx'.activeTime = now
      /\ rx'.epoch = IF PrevEpoch(pkt) THEN rx.epoch ELSE pkt.epoch
  <2>1. CASE RxPrevEpoch(p)
    BY <1>2, <2>1 DEF RxPrevEpoch, RxState
  <2>2. CASE ~RxPrevEpoch(p)
    <3>0. RxAfter(pkt) \in RxState
      BY <1>2, RxAfterType DEF IInv, TypeOK
    <3>1. /\ RxAfter(pkt).known /\ RxAfter(pkt).activeTime = now
          /\ RxAfter(pkt).epoch = pkt.epoch
      BY <1>2 DEF RxAfter, RxState
    <3>2. rx' = RxAfter(pkt) \/ rx' = [RxAfter(pkt) EXCEPT !.reordering = TRUE]
      BY <2>2 DEF RxPhase0, RxPhase1InOrder, RxPhase1OutOfOrder
    <3>3. ~PrevEpoch(pkt)
      BY <2>2 DEF RxPhase0, RxPhase1InOrder, RxPhase1OutOfOrder
    <3> QED
      BY <3>0, <3>1, <3>2, <3>3 DEF RxState
  <2> QED
    BY <2>1, <2>2
<1>4. \/ delivered' = delivered \o <<pkt.seq>> /\ voq'.fifo = voq.fifo
      \/ delivered' = delivered /\ voq'.fifo = Append(voq.fifo, pkt.seq)
  <2>1. CASE RxPrevEpoch(p)
    BY <2>1 DEF RxPrevEpoch, ToHost
  <2>2. CASE RxPhase0(p)
    <3>1. \/ voq' = voq
          \/ voq' = [voq EXCEPT !.flushAt = FlushAfterPhase0(RxAfter(pkt), pkt),
                               !.tailFrom = IF pkt.flag = "TAIL" THEN p ELSE NoPath]
      BY <2>2 DEF RxPhase0
    <3>2. voq'.fifo = voq.fifo
      BY <1>2, <3>1 DEF Voq
    <3> QED
      BY <2>2, <3>2 DEF RxPhase0, ToHost
  <2>3. CASE RxPhase1InOrder(p)
    BY <2>3 DEF RxPhase1InOrder, ToHost
  <2>4. CASE RxPhase1OutOfOrder(p)
    BY <2>4 DEF RxPhase1OutOfOrder
  <2> QED
    BY <2>1, <2>2, <2>3, <2>4
<1> HIDE DEF pkt
<1>5. delivered \o <<pkt.seq>> = Append(delivered, pkt.seq)
  BY <1>2
<1>6. /\ Elements(Append(delivered, pkt.seq)) = Elements(delivered) \union {pkt.seq}
      /\ Elements(Append(voq.fifo, pkt.seq)) = Elements(voq.fifo) \union {pkt.seq}
  <2>1. pkt.seq \in Nat /\ delivered \in Seq(Nat) /\ voq.fifo \in Seq(Nat)
    BY <1>2
  <2>2. \A e \in Nat : Elements(Append(delivered, e)) = Elements(delivered) \union {e}
    BY ONLY <2>1, QueueElements
  <2>3. \A e \in Nat : Elements(Append(voq.fifo, e)) = Elements(voq.fifo) \union {e}
    BY ONLY <2>1, QueueElements
  <2> QED
    BY ONLY <2>1, <2>2, <2>3
<1>7. Received' = Received \union {pkt.seq}
  BY <1>4, <1>5, <1>6 DEF Received
<1> QED
  BY <1>1, <1>3, <1>7 DEF pkt

\* What the flush of a VOQ does to the entry and the host.
LEMMA FlushStep ==
  ASSUME IInv, VoqFlush
  PROVE  /\ rx'.known = rx.known /\ rx'.epoch = rx.epoch /\ rx'.phase = 1
         /\ rx'.activeTime = rx.activeTime /\ ~voq'.exists
         /\ Received' = Received /\ UNCHANGED <<now, tx, sent, net, ctl, lost>>
<1>1. /\ rx \in RxState /\ voq.fifo \in Seq(Nat) /\ delivered \in Seq(Nat)
  BY DEF IInv, TypeOK, Voq
<1>2. Elements(delivered \o voq.fifo) = Elements(delivered) \union Elements(voq.fifo)
  BY <1>1, ConcatElements
<1>3. Received' = Received
  BY <1>2, NoElements DEF Received, VoqFlush, ToHost, NoVoq
<1> QED
  BY <1>1, <1>3 DEF VoqFlush, NoVoq, RxState, txVars, netVars

\* The source ToR's entry is erased only when the destination's has been.
AgesLast == tx.known /\ ~tx'.known => ~rx.known

\* The destination ToR's entry is not ahead of the source's, and a packet of an
\* epoch before its own was sent before one that has been received.
PastInv ==
  /\ ~rx.known => rx.epoch = 1
  /\ ~tx.known => ~rx.known
  /\ tx.known => rx.epoch <= tx.epoch
  /\ \A x \in InFlight : x.epoch < rx.epoch => \E s \in Received : x.seq < s

\* Every handler, and the clock, keeps PastInv, if the entries age in that order.
LEMMA PastStep ==
  IInv /\ SendInv /\ PastInv /\ [Next]_vars /\ [AgesLast]_vars => PastInv'
<1> SUFFICES ASSUME IInv, SendInv, PastInv, [Next]_vars, [AgesLast]_vars
             PROVE  PastInv'
  OBVIOUS
<1>0. /\ tx \in TxState /\ rx \in RxState /\ tx.epoch \in Nat /\ rx.epoch \in Nat
      /\ voq \in Voq
  BY DEF IInv, TypeOK, TxState, RxState
<1>1. CASE TxData
  <2>1. PICK path \in Path, pkt \in DataPkt : Sends(path, pkt)
    BY <1>1, SendCases
  <2>2. InFlight' = InFlight \union {pkt}
    BY <2>1, PushStep DEF Sends
  <2>3. /\ pkt.epoch = tx'.epoch /\ tx'.known /\ UNCHANGED rxVars
        /\ tx'.epoch = tx.epoch + 1 \/ (tx.known /\ tx'.epoch = tx.epoch)
    BY <2>1 DEF Sends
  <2>4. rx.epoch <= tx'.epoch /\ tx'.epoch \in Nat
    BY <1>0, <2>3 DEF PastInv
  <2>5. rx' = rx /\ Received' = Received
    BY <2>3 DEF rxVars, Received
  <2>6. ~(pkt.epoch < rx.epoch)
    BY <1>0, <2>3, <2>4
  <2> QED
    BY <2>2, <2>3, <2>4, <2>5, <2>6 DEF PastInv
<1>2. CASE TxReply
  <2>1. /\ tx'.known = tx.known /\ tx'.epoch = tx.epoch /\ UNCHANGED <<rxVars, net>>
    BY <1>0, <1>2 DEF TxReply, TxState
  <2>2. rx' = rx /\ Received' = Received /\ InFlight' = InFlight
    BY <2>1 DEF rxVars, Received, InFlight
  <2> QED
    BY <2>1, <2>2 DEF PastInv
<1>3. ASSUME NEW p \in Path,
             RxPrevEpoch(p) \/ RxPhase0(p) \/ RxPhase1InOrder(p) \/ RxPhase1OutOfOrder(p)
      PROVE  PastInv'
  <2> DEFINE pkt == Head(net[p])
  <2>1. /\ net[p] # <<>> /\ net' = [net EXCEPT ![p] = Tail(net[p])]
        /\ tx' = tx /\ rx'.known
        /\ rx'.epoch = IF PrevEpoch(pkt) THEN rx.epoch ELSE pkt.epoch
        /\ Received' = Received \union {pkt.seq}
    BY <1>3, ReceiveStep
  <2>2. InFlight = InFlight' \union {pkt} /\ pkt \in InFlight
    BY <2>1, PopStep, FlightFacts
  <2>3. /\ pkt.epoch \in Nat /\ pkt.epoch <= tx.epoch /\ tx.known
    BY <2>2, FlightFacts DEF SendInv
  <2> HIDE DEF pkt
  <2>4. rx'.epoch <= tx.epoch /\ rx'.epoch \in {rx.epoch, pkt.epoch}
    BY <1>0, <2>1, <2>3 DEF PastInv
  <2>5. ASSUME NEW x \in InFlight', x.epoch < rx'.epoch
        PROVE  \E s \in Received' : x.seq < s
    <3>1. CASE x.epoch < rx.epoch
      BY <2>1, <2>2, <3>1 DEF PastInv
    <3>2. CASE ~(x.epoch < rx.epoch)
      <4>1. rx'.epoch = pkt.epoch
        BY <2>4, <2>5, <3>2
      <4>2. x.seq < pkt.seq
        BY <2>2, <2>5, <4>1 DEF SendInv
      <4> QED
        BY <2>1, <4>2
    <3> QED
      BY <3>1, <3>2
  <2> QED
    BY <2>1, <2>3, <2>4, <2>5 DEF PastInv
<1>4. ASSUME NEW p \in Path, Drop(p)  PROVE PastInv'
  <2>1. /\ net[p] # <<>> /\ net' = [net EXCEPT ![p] = Tail(net[p])]
        /\ tx' = tx /\ rx' = rx /\ Received' = Received
    BY <1>4 DEF Drop, txVars, rxVars, Received
  <2>2. InFlight' \subseteq InFlight
    BY <2>1, PopStep
  <2> QED
    BY <2>1, <2>2 DEF PastInv
<1>5. CASE VoqFlush
  <2>1. /\ rx'.known = rx.known /\ rx'.epoch = rx.epoch
        /\ Received' = Received /\ tx' = tx /\ net' = net
    BY <1>5, FlushStep
  <2>2. InFlight' = InFlight
    BY <2>1 DEF InFlight
  <2> QED
    BY <2>1, <2>2 DEF PastInv
<1>6. CASE AgingEventRx
  <2>1. /\ UNCHANGED <<tx, voq, delivered, net>>
        /\ rx' = rx \/ rx' = FreshRx
    BY <1>6 DEF AgingEventRx, txVars, netVars
  <2>2. InFlight' = InFlight /\ Received' = Received
    BY <2>1 DEF InFlight, Received
  <2>3. CASE rx' = rx
    BY <2>1, <2>2, <2>3 DEF PastInv
  <2>4. CASE rx' = FreshRx
    <3>1. ~rx'.known /\ rx'.epoch = 1
      BY <2>4 DEF FreshRx
    <3>2. \A x \in InFlight : x.epoch \in Nat /\ 1 <= x.epoch
      BY FlightFacts DEF SendInv
    <3>3. \A x \in InFlight : ~(x.epoch < 1)
      BY <3>2
    <3>4. tx.known => 1 <= tx.epoch
      BY <1>0 DEF SendInv
    <3> QED
      BY <2>1, <2>2, <3>1, <3>3, <3>4 DEF PastInv
  <2> QED
    BY <2>1, <2>3, <2>4
<1>7. CASE AgingEventTx
  <2>1. /\ UNCHANGED <<rx, voq, delivered, net>>
        /\ tx' = tx \/ tx' = FreshTx
    BY <1>7 DEF AgingEventTx, rxVars, netVars
  <2>2. InFlight' = InFlight /\ Received' = Received
    BY <2>1 DEF InFlight, Received
  <2>3. CASE tx' = tx
    BY <2>1, <2>2, <2>3 DEF PastInv
  <2>4. CASE tx' = FreshTx /\ tx' # tx
    <3>1. ~tx'.known
      BY <2>4 DEF FreshTx
    <3>2. AgesLast
      BY <2>4 DEF vars, txVars
    <3>3. ~rx.known
      BY <3>1, <3>2 DEF AgesLast, PastInv
    <3> QED
      BY <2>1, <2>2, <3>1, <3>3 DEF PastInv
  <2> QED
    BY <2>1, <2>3, <2>4
<1>8. CASE UNCHANGED <<tx, rx, voq, delivered, net>>
  <2>1. InFlight' = InFlight /\ Received' = Received
    BY <1>8 DEF InFlight, Received
  <2> QED
    BY <1>8, <2>1 DEF PastInv
<1> QED
  BY <1>1, <1>2, <1>3, <1>4, <1>5, <1>6, <1>7, <1>8
  DEF Next, RxData, TxNotify, Tick, Stop, vars, txVars, rxVars, netVars

\* It holds at the start.
LEMMA PastInit == Init => PastInv
<1> SUFFICES ASSUME Init  PROVE PastInv
  OBVIOUS
<1>1. rx = FreshRx /\ tx = FreshTx /\ \A p \in Path : net[p] = <<>>
  BY DEF Init
<1>2. InFlight = {}
  BY <1>1, NoElements DEF InFlight
<1> QED
  BY <1>1, <1>2 DEF PastInv, FreshRx, FreshTx

\* "FILTER: if previous epoch, just pass to destination" passes only packets sent
\* before one that has been received, whatever the delays, losses and time-outs,
\* as long as AgingEvent does not erase the source ToR's entry of a flow while the
\* destination ToR keeps its own: the one way in which the filter goes wrong.
THEOREM PrevEpochCorrect == Spec /\ [][AgesLast]_vars => []PrevEpochIsPast
<1>1. IInv /\ PastInv => PrevEpochIsPast
  <2> SUFFICES ASSUME IInv, PastInv, NEW p \in Path, Arrived(p), PrevEpoch(Head(net[p]))
               PROVE  \E s \in Received : Head(net[p]).seq < s
    BY DEF PrevEpochIsPast, Received, Elements
  <2>1. Head(net[p]) \in InFlight /\ Head(net[p]).epoch \in Nat /\ rx.epoch \in Nat
    BY FlightFacts DEF Arrived, IInv, TypeOK, RxState
  <2>2. Head(net[p]).epoch < rx.epoch
    BY <2>1 DEF PrevEpoch
  <2> QED
    BY <2>1, <2>2 DEF PastInv
<1> QED
  BY <1>1, Invariant, SendInvariant, PastInit, PastStep, PTL DEF Spec

-----------------------------------------------------------------------------
(* The control packets in flight.                                          *)

\* The sending times of a queue of control packets never decrease.
InTime(q) == \A i, j \in 1 .. Len(q) : i <= j => q[i].sentAt <= q[j].sentAt

\* A reply is of an epoch of the source ToR's entry and of the phase that its kind
\* says; no control packet is in flight longer than CtlMaxDelay, or was sent later
\* than the last data packet can have arrived.
CtlInv ==
  /\ ~tx.known => ctl = <<>>
  /\ InTime(ctl)
  /\ \A r \in Elements(ctl) :
       /\ r.sentAt <= now /\ now <= r.sentAt + CtlMaxDelay
       /\ r.sentAt <= tx.activeTime + WorstDelay
       /\ r.kind # "NOTIFY" => /\ r.epoch <= tx.epoch
                               /\ r.kind = "INIT" <=> r.phase = 0

\* The entry of the source ToR outlives what it has caused to be in flight.
AnswersBeforeAging == WorstDelay + CtlMaxDelay <= AgingTime

\* The answers to a packet are sent now, a reply for the packet's epoch.
LEMMA AnswersFacts ==
  ASSUME IInv, NEW p \in Path, NEW pkt \in DataPkt, NEW ecn \in EcnMarks
  PROVE  /\ Answers(p, pkt, ecn) \in Seq(CtlPkt)
         /\ \A r \in Elements(Answers(p, pkt, ecn)) :
              /\ r.sentAt = now
              /\ r.kind # "NOTIFY" => /\ r.epoch = pkt.epoch /\ r.kind = pkt.flag
                                      /\ r.kind = "INIT" <=> r.phase = 0
<1> DEFINE notify == [kind |-> "NOTIFY", path |-> p, sentAt |-> now]
           init   == [kind |-> "INIT", epoch |-> pkt.epoch, phase |-> 0, sentAt |-> now]
           tail   == [kind |-> "TAIL", epoch |-> pkt.epoch, phase |-> 1, sentAt |-> now]
           first  == IF ecn THEN <<notify>> ELSE <<>>
           second == CASE pkt.flag = "INIT" -> <<init>>
                       [] pkt.flag = "TAIL" -> <<tail>>
                       [] OTHER -> <<>>
           Right(r) == /\ r.sentAt = now
                       /\ r.kind # "NOTIFY" => /\ r.epoch = pkt.epoch /\ r.kind = pkt.flag
                                               /\ r.kind = "INIT" <=> r.phase = 0
<1>0. now \in Nat /\ ecn \in BOOLEAN
  BY PathAssumption DEF IInv, TypeOK
<1>1. notify \in CtlPkt /\ init \in CtlPkt /\ tail \in CtlPkt
  BY <1>0 DEF CtlPkt, DataPkt
<1>2. /\ Right(notify) /\ (pkt.flag = "INIT" => Right(init))
      /\ (pkt.flag = "TAIL" => Right(tail))
  OBVIOUS
<1> HIDE DEF notify, init, tail, Right
<1>3. first \in Seq(CtlPkt) /\ \A r \in Elements(first) : Right(r)
  <2>1. CASE ecn
    BY <1>1, <1>2, <2>1 DEF Elements
  <2>2. CASE ~ecn
    BY <2>2, NoElements
  <2> QED
    BY <2>1, <2>2
<1>4. second \in Seq(CtlPkt) /\ \A r \in Elements(second) : Right(r)
  <2>1. CASE pkt.flag = "INIT"
    BY <1>1, <1>2, <2>1 DEF Elements
  <2>2. CASE pkt.flag = "TAIL"
    BY <1>1, <1>2, <2>2 DEF Elements
  <2>3. CASE pkt.flag \notin {"INIT", "TAIL"}
    BY <2>3, NoElements
  <2> QED
    BY <2>1, <2>2, <2>3
<1> HIDE DEF first, second
<1>5. first \o second \in Seq(CtlPkt)
  BY <1>3, <1>4
<1>6. \A r \in Elements(first \o second) : Right(r)
  BY <1>3, <1>4, ConcatElements
<1>7. Answers(p, pkt, ecn) = first \o second
  BY DEF Answers, first, second, notify, init, tail
<1> QED
  BY <1>5, <1>6, <1>7 DEF Right

\* What an arriving packet adds to the control packets in flight.
LEMMA ReceiveAnswers ==
  ASSUME IInv, NEW p \in Path,
         RxPrevEpoch(p) \/ RxPhase0(p) \/ RxPhase1InOrder(p) \/ RxPhase1OutOfOrder(p)
  PROVE  \E more \in Seq(CtlPkt) :
           /\ ctl' = ctl \o more
           /\ \A r \in Elements(more) :
                /\ r.sentAt = now
                /\ r.kind # "NOTIFY" => /\ r.epoch = Head(net[p]).epoch
                                        /\ r.kind = Head(net[p]).flag
                                        /\ r.kind = "INIT" <=> r.phase = 0
                                        /\ ~PrevEpoch(Head(net[p]))
<1>1. net[p] # <<>> /\ Head(net[p]) \in DataPkt /\ ctl \in Seq(CtlPkt)
  <2>1. net[p] # <<>>
    BY DEF RxPrevEpoch, RxPhase0, RxPhase1InOrder, RxPhase1OutOfOrder, Arrived
  <2> QED
    BY <2>1, FlightFacts DEF IInv, TypeOK
<1>2. CASE RxPrevEpoch(p)
  <2>1. ctl' = ctl \o <<>> /\ <<>> \in Seq(CtlPkt)
    BY <1>1, <1>2 DEF RxPrevEpoch
  <2> QED
    BY <2>1, NoElements
<1>3. CASE ~RxPrevEpoch(p)
  <2>1. PICK ecn \in EcnMarks : ctl' = ctl \o Answers(p, Head(net[p]), ecn)
    BY <1>3 DEF RxPhase0, RxPhase1InOrder, RxPhase1OutOfOrder
  <2>2. ~PrevEpoch(Head(net[p]))
    BY <1>3 DEF RxPhase0, RxPhase1InOrder, RxPhase1OutOfOrder
  <2> QED
    BY <1>1, <2>1, <2>2, AnswersFacts
<1> QED
  BY <1>2, <1>3

\* A queue of control packets that grows keeps its order in time.
LEMMA InTimeGrows ==
  ASSUME NEW s \in Seq(CtlPkt), NEW t \in Seq(CtlPkt), NEW time \in Nat, InTime(s),
         \A r \in Elements(s) : r.sentAt <= time,
         \A r \in Elements(t) : r.sentAt = time
  PROVE  InTime(s \o t)
<1> DEFINE u == s \o t
           m == Len(s)
           n == Len(t)
<1>1. /\ DOMAIN s = 1 .. m /\ DOMAIN t = 1 .. n /\ Len(u) = m + n
      /\ m \in Nat /\ n \in Nat
      /\ \A i \in 1 .. m : u[i] = s[i]
      /\ \A i \in 1 .. m + n : i \notin 1 .. m => u[i] = t[i - m] /\ i - m \in 1 .. n
  OBVIOUS
<1> HIDE DEF u, m, n
<1>2. \A i \in 1 .. m + n : i \notin 1 .. m => u[i].sentAt = time
  BY <1>1 DEF Elements
<1>3. \A i \in 1 .. m : u[i].sentAt <= time
  BY <1>1 DEF Elements
<1>4. ASSUME NEW i \in 1 .. m + n, NEW j \in 1 .. m + n, i <= j
      PROVE  u[i].sentAt <= u[j].sentAt
  <2>1. CASE j \notin 1 .. m
    BY <1>2, <1>3, <2>1
  <2>2. CASE j \in 1 .. m
    <3>1. i \in 1 .. m
      BY <1>1, <1>4, <2>2
    <3>2. s[i].sentAt <= s[j].sentAt
      BY <1>1, <1>4, <2>2, <3>1 DEF InTime, m
    <3> QED
      BY <1>1, <2>2, <3>1, <3>2
  <2> QED
    BY <2>1, <2>2
<1> QED
  BY <1>1, <1>4 DEF InTime, u

\* A control packet that arrives leaves the others as they are.
LEMMA CtlPop ==
  ASSUME NEW q \in Seq(CtlPkt), q # <<>>, InTime(q)
  PROVE  /\ Tail(q) \in Seq(CtlPkt) /\ InTime(Tail(q))
         /\ Head(q) \in Elements(q) /\ Elements(Tail(q)) \subseteq Elements(q)
         /\ \A r \in Elements(q) : Head(q).sentAt <= r.sentAt
<1>1. /\ Len(q) \in Nat \ {0} /\ Len(Tail(q)) = Len(q) - 1 /\ Head(q) = q[1]
      /\ \A i \in 1 .. Len(q) - 1 : Tail(q)[i] = q[i + 1]
      /\ DOMAIN q = 1 .. Len(q) /\ Tail(q) \in Seq(CtlPkt)
  BY HeadTail
<1>2. ASSUME NEW i \in 1 .. Len(Tail(q)), NEW j \in 1 .. Len(Tail(q)), i <= j
      PROVE  Tail(q)[i].sentAt <= Tail(q)[j].sentAt
  <2>1. /\ i + 1 <= j + 1 /\ i + 1 \in 1 .. Len(q) /\ j + 1 \in 1 .. Len(q)
        /\ Tail(q)[i] = q[i + 1] /\ Tail(q)[j] = q[j + 1]
    BY <1>1, <1>2
  <2> QED
    BY <2>1 DEF InTime
<1>3. InTime(Tail(q))
  BY <1>2 DEF InTime
<1>4. ASSUME NEW r \in Elements(q)  PROVE Head(q).sentAt <= r.sentAt
  <2>1. PICK i \in 1 .. Len(q) : q[i] = r
    BY <1>1 DEF Elements
  <2>2. 1 \in 1 .. Len(q) /\ 1 <= i
    BY <1>1
  <2> QED
    BY <1>1, <2>1, <2>2 DEF InTime
<1> QED
  BY <1>1, <1>3, <1>4, QueueElements

\* Every handler, and the clock, keeps CtlInv.
LEMMA CtlStep ==
  AnswersBeforeAging /\ IInv /\ SendInv /\ CtlInv /\ [Next]_vars => CtlInv'
<1> SUFFICES ASSUME AnswersBeforeAging, IInv, SendInv, CtlInv, [Next]_vars
             PROVE  CtlInv'
  OBVIOUS
<1>0. /\ now \in Nat /\ tx \in TxState /\ tx.epoch \in Nat /\ tx.activeTime \in Nat
      /\ ctl \in Seq(CtlPkt) /\ WorstDelay \in Nat /\ CtlMaxDelay \in Nat
      /\ AgingTime \in Nat
  BY TimeNat, TimeAssumption DEF IInv, TypeOK, TxState
<1>r. \A r \in Elements(ctl) :
        r.sentAt \in Nat /\ (r.kind # "NOTIFY" => r.epoch \in Nat)
  BY <1>0, QueueElements DEF CtlPkt
<1>1. CASE TxData
  <2>1. PICK path \in Path, pkt \in DataPkt : Sends(path, pkt)
    BY <1>1, SendCases
  <2>2. /\ tx'.known /\ tx'.activeTime = now /\ now' = now /\ ctl' = ctl
        /\ tx'.epoch = tx.epoch \/ tx'.epoch = tx.epoch + 1
    BY <2>1 DEF Sends
  <2>3. \A r \in Elements(ctl) : /\ r.sentAt <= now + WorstDelay
                                 /\ r.kind # "NOTIFY" => r.epoch <= tx'.epoch
    BY <1>0, <1>r, <2>2 DEF CtlInv
  <2> QED
    BY <2>2, <2>3 DEF CtlInv
<1>2. CASE TxReply \/ TxNotify
  <2>1. /\ ctl # <<>> /\ ctl' = Tail(ctl) /\ now' = now /\ tx'.known = tx.known
        /\ tx'.epoch = tx.epoch /\ tx'.activeTime = tx.activeTime
    BY <1>0, <1>2 DEF TxReply, TxNotify, CtlArrived, TxState
  <2>2. InTime(ctl') /\ Elements(ctl') \subseteq Elements(ctl)
    BY <1>0, <2>1, CtlPop DEF CtlInv
  <2> QED
    BY <2>1, <2>2 DEF CtlInv
<1>3. ASSUME NEW p \in Path,
             RxPrevEpoch(p) \/ RxPhase0(p) \/ RxPhase1InOrder(p) \/ RxPhase1OutOfOrder(p)
      PROVE  CtlInv'
  <2>1. net[p] # <<>> /\ now' = now /\ tx' = tx
    BY <1>3, ReceiveStep
  <2>2. Head(net[p]) \in InFlight
    BY <2>1, FlightFacts
  <2>3. /\ tx.known /\ Head(net[p]).epoch <= tx.epoch
        /\ now <= tx.activeTime + WorstDelay
    <3>1. /\ Head(net[p]).txTime \in Nat /\ now <= Head(net[p]).txTime + WorstDelay
          /\ Head(net[p]).txTime <= tx.activeTime
      BY <2>2, FlightFacts DEF SendInv
    <3> QED
      BY <1>0, <2>2, <3>1 DEF SendInv
  <2>4. PICK more \in Seq(CtlPkt) :
          /\ ctl' = ctl \o more
          /\ \A r \in Elements(more) :
               /\ r.sentAt = now
               /\ r.kind # "NOTIFY" => /\ r.epoch = Head(net[p]).epoch
                                       /\ r.kind = "INIT" <=> r.phase = 0
    BY <1>3, ReceiveAnswers
  <2>5. InTime(ctl')
    BY <1>0, <2>4, InTimeGrows DEF CtlInv
  <2>6. \A r \in Elements(ctl') : r \in Elements(ctl) \/ r \in Elements(more)
    BY <1>0, <2>4, ConcatElements
  <2>7. ASSUME NEW r \in Elements(more)
        PROVE  /\ r.sentAt <= now /\ now <= r.sentAt + CtlMaxDelay
               /\ r.sentAt <= tx.activeTime + WorstDelay
               /\ r.kind # "NOTIFY" => /\ r.epoch <= tx.epoch
                                       /\ r.kind = "INIT" <=> r.phase = 0
    BY <1>0, <2>3, <2>4
  <2> QED
    BY <2>1, <2>3, <2>5, <2>6, <2>7 DEF CtlInv
<1>4. CASE Tick
  <2>1. /\ now' = now + 1 /\ tx' = tx /\ ctl' = ctl
        /\ ctl # <<>> => Head(ctl).sentAt + CtlMaxDelay # now
    BY <1>4 DEF Tick, Due, txVars, netVars
  <2>2. ASSUME NEW r \in Elements(ctl)
        PROVE  r.sentAt <= now + 1 /\ now + 1 <= r.sentAt + CtlMaxDelay
    <3>1. ctl # <<>>
      BY NoElements
    <3>2. Head(ctl) \in Elements(ctl) /\ Head(ctl).sentAt <= r.sentAt
      BY <1>0, <3>1, CtlPop DEF CtlInv
    <3>3. /\ Head(ctl).sentAt \in Nat /\ r.sentAt \in Nat /\ r.sentAt <= now
          /\ now <= Head(ctl).sentAt + CtlMaxDelay
          /\ Head(ctl).sentAt + CtlMaxDelay # now
      BY <1>r, <2>1, <3>1, <3>2 DEF CtlInv
    <3> QED
      BY <1>0, <3>2, <3>3
  <2> QED
    BY <2>1, <2>2 DEF CtlInv
<1>5. CASE AgingEventTx
  <2>1. now' = now /\ ctl' = ctl
    BY <1>5 DEF AgingEventTx, netVars
  <2>2. CASE tx' = tx
    BY <2>1, <2>2 DEF CtlInv
  <2>3. CASE tx' # tx
    <3>1. Stale(tx) /\ tx' = FreshTx
      BY <1>5, <2>3 DEF AgingEventTx
    <3>2. now > tx.activeTime + WorstDelay + CtlMaxDelay
      BY <1>0, <3>1 DEF Stale, AnswersBeforeAging
    <3>3. Elements(ctl) = {}
      BY <1>0, <1>r, <3>2 DEF CtlInv
    <3>4. ctl = <<>>
      BY <1>0, <3>3, QueueElements
    <3> QED
      BY <2>1, <3>3, <3>4 DEF CtlInv
  <2> QED
    BY <2>2, <2>3
<1>6. CASE UNCHANGED <<now, tx, ctl>>
  BY <1>6 DEF CtlInv
<1> QED
  BY <1>1, <1>2, <1>3, <1>4, <1>5, <1>6
  DEF Next, RxData, VoqFlush, AgingEventRx, Drop, Stop, vars, txVars, netVars

\* Nothing is in flight at the start.
LEMMA CtlInit == Init => CtlInv
<1> SUFFICES ASSUME Init  PROVE CtlInv
  OBVIOUS
<1>1. ctl = <<>> /\ Len(ctl) = 0
  BY DEF Init
<1> QED
  BY <1>1, NoElements DEF CtlInv, InTime

-----------------------------------------------------------------------------
(* One reroute at a time.                                                  *)

\* A path is a FIFO of the order of sending.
Sorted(q) == \A i, j \in 1 .. Len(q) : i < j => q[i].seq < q[j].seq

EpochTail(x)  == x.flag = "TAIL" /\ x.epoch = tx.epoch
EpochPhase(x, phase) == x.phase = phase /\ x.epoch = tx.epoch
EpochClear(r) == r.kind = "TAIL" /\ r.epoch = tx.epoch
OnePath       == \A p \in Path \ {tx.pathId} : net[p] = <<>>

\* The flow has left path old with the TAIL number s: nothing is in flight but on
\* the old path, up to the TAIL, and on the new one.
Rerouted(old, s) ==
  /\ \A p \in Path \ {old, tx.pathId} : net[p] = <<>>
  /\ old # tx.pathId => \A x \in Elements(net[old]) : x.seq <= s
  /\ \A p \in Path : \A x \in Elements(net[p]) :
       /\ EpochTail(x) => p = old /\ x.seq = s
       /\ EpochPhase(x, 0) => p = old /\ x.seq <= s

\* Before the TAIL of its epoch the flow is on one path; after it, on two until the
\* TAIL has arrived, and its CLEAR is in flight only after that.
SettleInv ==
  /\ \A p \in Path : Sorted(net[p])
  /\ tx.known /\ (tx.phase = 0 \/ tx.stabilized) => OnePath
  /\ tx.phase = 0 => /\ \A x \in InFlight : ~EpochTail(x)
                     /\ \A r \in Elements(ctl) : ~EpochClear(r)
  /\ tx.phase = 1 => \E old \in Path, s \in 1 .. sent : Rerouted(old, s)
  /\ \A r \in Elements(ctl) :
       EpochClear(r) => OnePath /\ \A x \in InFlight : ~EpochPhase(x, 0)

\* An epoch that begins after the flowlet gap finds the network empty.
GapOutlastsFlight == WorstDelay <= TxExpiryTime

\* A packet with a new number at the end, or the head gone, leaves a path sorted.
LEMMA SortedQueue ==
  ASSUME NEW q \in Seq(DataPkt), Sorted(q)
  PROVE  /\ \A pkt \in DataPkt :
              (\A x \in Elements(q) : x.seq < pkt.seq) => Sorted(Append(q, pkt))
         /\ q # <<>> => /\ Sorted(Tail(q))
                        /\ \A x \in Elements(Tail(q)) : Head(q).seq < x.seq
<1>1. Len(q) \in Nat /\ DOMAIN q = 1 .. Len(q)
  OBVIOUS
<1>2. ASSUME NEW pkt \in DataPkt, \A x \in Elements(q) : x.seq < pkt.seq
      PROVE  Sorted(Append(q, pkt))
  <2> DEFINE a == Append(q, pkt)
             n == Len(q)
  <2>1. /\ Len(a) = n + 1 /\ a[n + 1] = pkt /\ \A i \in 1 .. n : a[i] = q[i]
        /\ n \in Nat /\ \A i \in 1 .. n : q[i] \in Elements(q)
    BY <1>1 DEF Elements
  <2> HIDE DEF a
  <2>2. ASSUME NEW i \in 1 .. n + 1, NEW j \in 1 .. n + 1, i < j
        PROVE  a[i].seq < a[j].seq
    <3>1. i \in 1 .. n
      BY <2>1, <2>2
    <3>2. CASE j = n + 1
      BY <1>2, <2>1, <3>1, <3>2
    <3>3. CASE j \in 1 .. n
      BY <2>1, <2>2, <3>1, <3>3 DEF Sorted
    <3> QED
      BY <2>1, <3>2, <3>3
  <2> QED
    BY <2>1, <2>2 DEF Sorted, a
<1>3. ASSUME q # <<>>
      PROVE  /\ Sorted(Tail(q))
             /\ \A x \in Elements(Tail(q)) : Head(q).seq < x.seq
  <2> DEFINE t == Tail(q)
             n == Len(q) - 1
  <2>1. /\ Len(t) = n /\ DOMAIN t = 1 .. n /\ n \in Nat /\ Len(q) = n + 1
        /\ Head(q) = q[1] /\ \A i \in 1 .. n : t[i] = q[i + 1]
    BY <1>3, HeadTail
  <2>2. /\ 1 \in 1 .. n + 1
        /\ \A i \in 1 .. n : i + 1 \in 1 .. n + 1 /\ 1 < i + 1
        /\ \A i, j \in 1 .. n : i < j => i + 1 < j + 1
    BY <2>1
  <2> HIDE DEF t, n
  <2>3. \A i, j \in 1 .. n : i < j => t[i].seq < t[j].seq
    BY <2>1, <2>2 DEF Sorted
  <2>4. \A i \in 1 .. n : Head(q).seq < t[i].seq
    BY <2>1, <2>2 DEF Sorted
  <2> QED
    BY <2>1, <2>3, <2>4 DEF Sorted, Elements, t
<1> QED
  BY <1>2, <1>3

\* A packet that the source ToR sends keeps SettleInv.
LEMMA SettleSend ==
  ASSUME GapOutlastsFlight, IInv, SendInv, CtlInv, SettleInv,
         NEW path \in Path, NEW pkt \in DataPkt, Sends(path, pkt)
  PROVE  SettleInv'
<1>0. /\ now \in Nat /\ tx.epoch \in Nat /\ tx.activeTime \in Nat /\ sent \in Nat
      /\ net \in [Path -> Seq(DataPkt)] /\ WorstDelay \in Nat /\ TxExpiryTime \in Nat
  BY TimeNat DEF IInv, TypeOK, TxState
<1>1. /\ Elements(net'[path]) = Elements(net[path]) \union {pkt}
      /\ \A r \in Path \ {path} : net'[r] = net[r]
      /\ InFlight' = InFlight \union {pkt}
  BY PushStep DEF Sends
<1>2. /\ pkt.seq = sent + 1 /\ sent' = sent + 1 /\ ctl' = ctl /\ tx'.known
      /\ pkt.epoch = tx'.epoch
  BY DEF Sends
<1>3. ASSUME NEW p \in Path  PROVE Sorted(net'[p])
  <2>1. net'[path] = Append(net[path], pkt)
    BY <1>0 DEF Sends
  <2>2. \A x \in Elements(net[path]) : x.seq < pkt.seq
    <3>1. \A x \in InFlight : x.seq \in Nat /\ x.seq <= sent
      BY FlightFacts DEF SendInv
    <3>2. \A x \in InFlight : x.seq < pkt.seq
      BY <1>0, <1>2, <3>1
    <3> QED
      BY <3>2 DEF InFlight
  <2>3. Sorted(net[path]) /\ net[path] \in Seq(DataPkt)
    BY <1>0 DEF SettleInv
  <2>4. Sorted(net'[path])
    BY <2>1, <2>2, <2>3, SortedQueue
  <2>5. Sorted(net[p])
    BY DEF SettleInv
  <2> QED
    BY <1>1, <2>4, <2>5
<1>4. CASE pkt.flag = "INIT"
  <2>1. /\ Expired \/ (tx.known /\ tx.stabilized /\ path = tx.pathId)
        /\ tx'.epoch = tx.epoch + 1 /\ tx'.phase = 0 /\ tx'.pathId = path
    BY <1>4 DEF Sends
  <2>2. \A p \in Path \ {path} : net[p] = <<>>
    <3>1. CASE Expired
      <4>1. InFlight = {}
        <5>1. CASE tx.known
          <6>1. now > tx.activeTime + WorstDelay
            BY <1>0, <3>1 DEF Expired, GapOutlastsFlight
          <6> QED
            BY <6>1, OldPacketsGone
        <5> QED
          BY <5>1 DEF SendInv
      <4> QED
        <5>1. \A p \in Path : net[p] \in Seq(DataPkt) /\ Elements(net[p]) = {}
          BY <1>0, <4>1 DEF InFlight
        <5> QED
          BY <5>1, QueueElements
    <3>2. CASE tx.known /\ tx.stabilized /\ path = tx.pathId
      BY <3>2 DEF SettleInv, OnePath
    <3> QED
      BY <2>1, <3>1, <3>2
  <2>3. OnePath'
    BY <1>1, <2>1, <2>2 DEF OnePath
  <2>4. \A x \in InFlight' : ~(x.flag = "TAIL" /\ x.epoch = tx'.epoch)
    <3>1. \A x \in InFlight : x.epoch \in Nat /\ x.epoch <= tx.epoch
      BY FlightFacts DEF SendInv
    <3>2. \A x \in InFlight : x.epoch # tx.epoch + 1
      BY <1>0, <3>1
    <3> QED
      BY <1>1, <1>4, <2>1, <3>2
  <2>5. \A r \in Elements(ctl') : ~(r.kind = "TAIL" /\ r.epoch = tx'.epoch)
    <3>1. \A r \in Elements(ctl) : r.kind = "TAIL" => r.epoch # tx.epoch + 1
      BY <1>0 DEF CtlInv
    <3> QED
      BY <1>2, <2>1, <3>1
  <2> QED
    BY <1>3, <2>1, <2>3, <2>4, <2>5 DEF SettleInv, EpochTail, EpochClear
<1>5. CASE pkt.flag = "TAIL"
  <2>1. /\ tx.known /\ tx.phase = 0 /\ path = tx.pathId
        /\ tx'.epoch = tx.epoch /\ tx'.phase = 1 /\ ~tx'.stabilized
    BY <1>5 DEF Sends
  <2>2. /\ \A p \in Path \ {path} : net'[p] = <<>>
        /\ \A x \in InFlight : ~EpochTail(x)
        /\ \A r \in Elements(ctl) : ~EpochClear(r)
    BY <1>1, <2>1 DEF SettleInv, OnePath
  <2>s. PICK s \in 1 .. sent' : s = sent + 1
    BY <1>0, <1>2
  <2>3. ASSUME NEW x \in Elements(net'[path])
        PROVE  x.seq <= s /\ (EpochTail(x)' => x.seq = s)
    <3>1. CASE x = pkt
      BY <1>0, <1>2, <2>s, <3>1
    <3>2. CASE x \in Elements(net[path])
      <4>1. x \in InFlight /\ x.seq \in Nat /\ x.seq <= sent
        BY <3>2, FlightFacts DEF SendInv
      <4>2. ~EpochTail(x)'
        BY <2>1, <2>2, <4>1 DEF EpochTail
      <4> QED
        BY <1>0, <2>s, <4>1, <4>2
    <3> QED
      BY <1>1, <2>3, <3>1, <3>2
  <2>4. \A p \in Path \ {path} : Elements(net'[p]) = {}
    BY <2>2, NoElements
  <2>5. Rerouted(path, s)'
    BY <2>2, <2>3, <2>4 DEF Rerouted
  <2>6. \A r \in Elements(ctl') : ~EpochClear(r)'
    BY <1>2, <2>1, <2>2 DEF EpochClear
  <2> QED
    BY <1>3, <2>1, <2>5, <2>6 DEF SettleInv
<1>6. CASE pkt.flag = "DATA"
  <2>1. /\ tx.known /\ ~tx.stabilized /\ path = tx.pathId /\ tx'.pathId = path
        /\ tx'.epoch = tx.epoch /\ tx'.phase = tx.phase /\ ~tx'.stabilized
    BY <1>6 DEF Sends
  <2>2. OnePath => OnePath'
    BY <1>1, <2>1 DEF OnePath
  <2>3. \A x : /\ EpochTail(x)' <=> EpochTail(x)
               /\ EpochClear(x)' <=> EpochClear(x)
               /\ EpochPhase(x, 0)' <=> EpochPhase(x, 0)
    BY <2>1 DEF EpochTail, EpochClear, EpochPhase
  <2>4. ~EpochTail(pkt) /\ (tx.phase = 1 => ~EpochPhase(pkt, 0))
    BY <1>6 DEF EpochTail, EpochPhase, Sends
  <2>5. ASSUME NEW old \in Path, NEW s \in 1 .. sent, Rerouted(old, s), tx.phase = 1
        PROVE  Rerouted(old, s)'
    <3>1. \A p \in Path : \A x \in Elements(net'[p]) :
            /\ EpochTail(x)' => p = old /\ x.seq = s
            /\ EpochPhase(x, 0)' => p = old /\ x.seq <= s
      BY <1>1, <2>3, <2>4, <2>5 DEF Rerouted
    <3> QED
      BY <1>1, <2>1, <2>5, <3>1 DEF Rerouted
  <2>6. tx'.phase = 1 => \E old \in Path, s \in 1 .. sent' : Rerouted(old, s)'
    <3>1. \A s \in 1 .. sent : s \in 1 .. sent'
      BY <1>0, <1>2
    <3> QED
      BY <2>1, <2>5, <3>1 DEF SettleInv
  <2>7. tx.phase = 0 \/ tx.phase = 1
    BY DEF IInv, TypeOK, TxState
  <2>8. \A r \in Elements(ctl') : EpochClear(r)' =>
          OnePath' /\ \A x \in InFlight' : ~EpochPhase(x, 0)'
    BY <1>1, <1>2, <2>2, <2>3, <2>4, <2>7 DEF SettleInv
  <2> QED
    BY <1>1, <1>2, <1>3, <2>1, <2>2, <2>3, <2>4, <2>6, <2>8 DEF SettleInv
<1> QED
  BY <1>4, <1>5, <1>6 DEF Sends

\* A packet that leaves the network, and causes the answers it does, keeps SettleInv.
LEMMA SettlePop ==
  ASSUME IInv, CtlInv, SettleInv, NEW p \in Path, net[p] # <<>>,
         net' = [net EXCEPT ![p] = Tail(net[p])], UNCHANGED <<tx, sent>>,
         NEW more \in Seq(CtlPkt), ctl' = ctl \o more,
         \A r \in Elements(more) :
           r.kind # "NOTIFY" => /\ r.epoch = Head(net[p]).epoch
                                /\ r.kind = Head(net[p]).flag
  PROVE  SettleInv'
<1> DEFINE pkt == Head(net[p])
<1>0. net \in [Path -> Seq(DataPkt)] /\ ctl \in Seq(CtlPkt) /\ sent \in Nat
  BY DEF IInv, TypeOK
<1>1. /\ Elements(net[p]) = Elements(net'[p]) \union {pkt}
      /\ \A r \in Path \ {p} : net'[r] = net[r]
      /\ InFlight = InFlight' \union {pkt}
  BY PopStep
<1>2. net'[p] = Tail(net[p]) /\ net[p] \in Seq(DataPkt) /\ net'[p] \in Seq(DataPkt)
  BY <1>0, HeadTail
<1>3. Sorted(net'[p]) /\ \A x \in Elements(net'[p]) : pkt.seq < x.seq
  BY <1>2, SortedQueue DEF SettleInv
<1> HIDE DEF pkt
<1>4. \A r \in Path : Sorted(net'[r])
  BY <1>1, <1>3 DEF SettleInv
<1>5. \A r \in Path : net[r] = <<>> => net'[r] = <<>>
  BY <1>1
<1>6. /\ OnePath => OnePath'
      /\ \A x : /\ EpochTail(x)' <=> EpochTail(x)
                /\ EpochClear(x)' <=> EpochClear(x)
                /\ EpochPhase(x, 0)' <=> EpochPhase(x, 0)
  BY <1>5 DEF OnePath, EpochTail, EpochClear, EpochPhase
<1>7. \A r \in Path : Elements(net'[r]) \subseteq Elements(net[r])
  BY <1>1
<1>8. ASSUME NEW old \in Path, NEW s \in 1 .. sent, Rerouted(old, s)
      PROVE  /\ Rerouted(old, s)'
             /\ EpochTail(pkt) => OnePath' /\ \A x \in InFlight' : ~EpochPhase(x, 0)
  <2>1. Rerouted(old, s)'
    BY <1>5, <1>6, <1>7, <1>8 DEF Rerouted
  <2>2. ASSUME EpochTail(pkt)
        PROVE  OnePath' /\ \A x \in InFlight' : ~EpochPhase(x, 0)
    <3>1. p = old /\ pkt.seq = s
      BY <1>1, <1>8, <2>2 DEF Rerouted
    <3>2. \A x \in Elements(net'[old]) : ~(x.seq <= s)
      <4>1. Elements(net'[old]) \subseteq DataPkt
        BY <1>2, <3>1, QueueElements
      <4>2. \A x \in Elements(net'[old]) : x.seq \in Nat /\ s < x.seq
        BY <1>3, <3>1, <4>1 DEF DataPkt
      <4> QED
        BY <1>0, <4>2
    <3>3. ASSUME old # tx.pathId  PROVE net'[old] = <<>>
      <4>1. Elements(net'[old]) = {}
        BY <1>7, <1>8, <3>2, <3>3 DEF Rerouted
      <4> QED
        BY <1>2, <3>1, <4>1, QueueElements
    <3>4. \A r \in Path \ {old, tx.pathId} : net'[r] = <<>>
      BY <1>5, <1>8 DEF Rerouted
    <3>5. \A r \in Path : \A x \in Elements(net'[r]) : ~EpochPhase(x, 0)
      BY <1>7, <1>8, <3>2 DEF Rerouted
    <3> QED
      BY <3>3, <3>4, <3>5 DEF OnePath, InFlight
  <2> QED
    BY <2>1, <2>2
<1>9. tx.phase \in {0, 1}
  BY DEF IInv, TypeOK, TxState
<1>10. ASSUME NEW r \in Elements(more), EpochClear(r)
       PROVE  tx.phase = 1 /\ OnePath' /\ \A x \in InFlight' : ~EpochPhase(x, 0)
  <2>1. EpochTail(pkt)
    BY <1>10 DEF EpochClear, EpochTail, pkt
  <2>2. tx.phase = 1
    BY <1>1, <1>9, <2>1 DEF SettleInv
  <2> QED
    BY <1>8, <2>1, <2>2 DEF SettleInv
<1>11. \A r \in Elements(ctl') : r \in Elements(ctl) \/ r \in Elements(more)
  BY <1>0, ConcatElements
<1>12. /\ tx.phase = 0 => /\ \A x \in InFlight' : ~EpochTail(x)'
                          /\ \A r \in Elements(ctl') : ~EpochClear(r)'
       /\ \A r \in Elements(ctl') :
            EpochClear(r)' => OnePath' /\ \A x \in InFlight' : ~EpochPhase(x, 0)'
  BY <1>1, <1>6, <1>10, <1>11 DEF SettleInv
<1>13. tx.phase = 1 => \E old \in Path, s \in 1 .. sent : Rerouted(old, s)'
  BY <1>8 DEF SettleInv
<1> QED
  BY <1>4, <1>6, <1>12, <1>13 DEF SettleInv

\* Every handler, and the clock, keeps SettleInv.
LEMMA SettleStep ==
  /\ AnswersBeforeAging /\ GapOutlastsFlight
  /\ IInv /\ SendInv /\ CtlInv /\ SettleInv /\ [Next]_vars
  => SettleInv'
<1> SUFFICES ASSUME AnswersBeforeAging, GapOutlastsFlight,
                    IInv, SendInv, CtlInv, SettleInv, [Next]_vars
             PROVE  SettleInv'
  OBVIOUS
<1>0. ctl \in Seq(CtlPkt) /\ tx \in TxState /\ tx.phase \in {0, 1}
  BY DEF IInv, TypeOK, TxState
<1>1. CASE TxData
  BY <1>1, SendCases, SettleSend
<1>2. CASE TxReply
  <2>1. /\ ctl # <<>> /\ ctl' = Tail(ctl) /\ UNCHANGED <<net, sent>>
        /\ tx'.known = tx.known /\ tx'.epoch = tx.epoch /\ tx'.phase = tx.phase
        /\ tx'.pathId = tx.pathId
    BY <1>0, <1>2 DEF TxReply, CtlArrived, TxState
  <2>2. Head(ctl) \in Elements(ctl) /\ Elements(ctl') \subseteq Elements(ctl)
    BY <1>0, <2>1, CtlPop DEF CtlInv
  <2>3. tx'.known /\ tx'.stabilized => OnePath
    <3>1. CASE tx'.stabilized = tx.stabilized
      BY <2>1, <3>1 DEF SettleInv
    <3>2. CASE ReplyCounts(Head(ctl)) /\ Head(ctl).kind # "NOTIFY"
      <4>1. /\ Head(ctl).epoch = tx.epoch /\ Head(ctl).phase = tx.phase
            /\ Head(ctl).kind = "INIT" <=> Head(ctl).phase = 0
        BY <2>2, <3>2 DEF ReplyCounts, ReplyMatches, CtlInv
      <4>2. Head(ctl) \in CtlPkt
        BY <1>0, <2>1, HeadTail
      <4>3. CASE tx.phase = 0
        BY <2>1, <4>3 DEF SettleInv
      <4>4. CASE tx.phase = 1
        <5>1. Head(ctl).kind = "TAIL"
          BY <3>2, <4>1, <4>2, <4>4 DEF CtlPkt
        <5> QED
          BY <2>2, <4>1, <5>1 DEF SettleInv, EpochClear
      <4> QED
        BY <1>0, <4>3, <4>4
    <3> QED
      BY <1>0, <1>2, <3>1, <3>2 DEF TxReply, TxState
  <2>4. /\ OnePath' <=> OnePath
        /\ InFlight' = InFlight
        /\ \A x : /\ EpochTail(x)' <=> EpochTail(x)
                  /\ EpochClear(x)' <=> EpochClear(x)
                  /\ EpochPhase(x, 0)' <=> EpochPhase(x, 0)
        /\ \A old, s : Rerouted(old, s)' <=> Rerouted(old, s)
    BY <2>1 DEF OnePath, InFlight, EpochTail, EpochClear, EpochPhase, Rerouted
  <2>5. (\A p \in Path : Sorted(net[p])) => \A p \in Path : Sorted(net'[p])
    BY <2>1
  <2> QED
    BY <2>1, <2>2, <2>3, <2>4, <2>5 DEF SettleInv
<1>3. CASE TxNotify
  <2>1. ctl # <<>> /\ ctl' = Tail(ctl) /\ UNCHANGED <<net, tx, sent>>
    BY <1>3 DEF TxNotify, CtlArrived
  <2>2. Elements(ctl') \subseteq Elements(ctl)
    BY <1>0, <2>1, CtlPop DEF CtlInv
  <2> QED
    BY <2>1, <2>2 DEF SettleInv, OnePath, InFlight, EpochTail, EpochClear, EpochPhase, Rerouted
<1>4. ASSUME NEW p \in Path,
             RxPrevEpoch(p) \/ RxPhase0(p) \/ RxPhase1InOrder(p) \/ RxPhase1OutOfOrder(p)
      PROVE  SettleInv'
  <2>1. /\ net[p] # <<>> /\ net' = [net EXCEPT ![p] = Tail(net[p])]
        /\ UNCHANGED <<tx, sent>>
    BY <1>4, ReceiveStep
  <2> QED
    BY <1>4, <2>1, ReceiveAnswers, SettlePop
<1>5. ASSUME NEW p \in Path, Drop(p)  PROVE SettleInv'
  <2>1. /\ net[p] # <<>> /\ net' = [net EXCEPT ![p] = Tail(net[p])]
        /\ UNCHANGED <<tx, sent>> /\ ctl' = ctl \o <<>> /\ <<>> \in Seq(CtlPkt)
    BY <1>0, <1>5 DEF Drop, txVars
  <2> QED
    BY <2>1, NoElements, SettlePop
<1>6. CASE AgingEventTx
  <2>1. UNCHANGED <<net, ctl, sent>>
    BY <1>6 DEF AgingEventTx, netVars
  <2>2. CASE tx' = tx
    BY <2>1, <2>2 DEF SettleInv, OnePath, InFlight, EpochTail, EpochClear, EpochPhase, Rerouted
  <2>3. CASE tx' # tx
    <3>1. Stale(tx) /\ tx' = FreshTx
      BY <1>6, <2>3 DEF AgingEventTx
    <3>2. ~tx'.known /\ tx'.phase = 0
      BY <3>1 DEF FreshTx
    <3>3. InFlight' = {} /\ Elements(ctl') = {}
      <4>1. SendInv' /\ CtlInv'
        BY SendStep, CtlStep
      <4> QED
        BY <3>2, <4>1, NoElements DEF SendInv, CtlInv
    <3>4. \A p \in Path : Sorted(net'[p])
      BY <2>1 DEF SettleInv
    <3> QED
      BY <3>2, <3>3, <3>4 DEF SettleInv
  <2> QED
    BY <2>2, <2>3
<1>7. CASE UNCHANGED <<tx, sent, net, ctl>>
  BY <1>7 DEF SettleInv, OnePath, InFlight, EpochTail, EpochClear, EpochPhase, Rerouted
<1> QED
  BY <1>1, <1>2, <1>3, <1>4, <1>5, <1>6, <1>7
  DEF Next, RxData, VoqFlush, AgingEventRx, Tick, Stop, vars, txVars, netVars

\* Nothing is in flight at the start.
LEMMA SettleInit == Init => SettleInv
<1> SUFFICES ASSUME Init  PROVE SettleInv
  OBVIOUS
<1>1. tx = FreshTx /\ ctl = <<>> /\ \A p \in Path : net[p] = <<>>
  BY DEF Init
<1>2. InFlight = {} /\ Elements(ctl) = {}
  BY <1>1, NoElements DEF InFlight
<1>3. \A p \in Path : Sorted(net[p])
  <2>1. Len(<<>>) = 0
    OBVIOUS
  <2> QED
    BY <1>1, <2>1 DEF Sorted
<1> QED
  BY <1>1, <1>2, <1>3 DEF SettleInv, FreshTx

\* "out-of-order issue is resolved for this flowcut": when a reply has made the flow
\* ready for its next epoch, its packets in flight are all on the path it stays on,
\* however packets and replies are delayed, lost or dropped, if no delay is longer
\* than the flowlet gap and entries do not age while answers are in flight.
THEOREM SettledAlways ==
  AnswersBeforeAging /\ GapOutlastsFlight /\ Spec => []SettledOnOnePath
<1> SUFFICES ASSUME AnswersBeforeAging, GapOutlastsFlight
             PROVE  Spec => []SettledOnOnePath
  OBVIOUS
<1>1. SettleInv => SettledOnOnePath
  BY DEF SettleInv, OnePath, SettledOnOnePath
<1>2. Init => CtlInv /\ SettleInv
  BY CtlInit, SettleInit
<1>3. IInv /\ SendInv /\ CtlInv /\ SettleInv /\ [Next]_vars => CtlInv' /\ SettleInv'
  BY CtlStep, SettleStep
<1> QED
  BY <1>1, <1>2, <1>3, Invariant, SendInvariant, PTL DEF Spec

-----------------------------------------------------------------------------
(* Phases and the times that packets carry.                                *)

\* Only DATA packets are of phase 1, and only of an epoch whose TAIL has been sent;
\* a phase-1 packet carries a TAIL time that no phase-0 packet of its epoch exceeds.
PhaseInv ==
  /\ rx.phase0TxTime <= now
  /\ \A x \in InFlight : /\ x.flag # "DATA" => x.phase = 0
                         /\ x.flag = "TAIL" => x.tailTime = x.txTime
  /\ tx.phase = 0 => \A x \in InFlight : ~EpochPhase(x, 1)
  /\ tx.phase = 1 => /\ \A x \in InFlight : EpochPhase(x, 0) => x.txTime <= tx.tailTime
                     /\ rx.phase0Cache /\ rx.epoch = tx.epoch
                          => rx.phase0TxTime <= tx.tailTime
  /\ \A x \in InFlight : x.phase = 1 =>
       /\ \A y \in InFlight : y.phase = 0 /\ y.epoch = x.epoch => y.txTime <= x.tailTime
       /\ rx.phase0Cache /\ rx.epoch = x.epoch => rx.phase0TxTime <= x.tailTime

\* What an arriving packet does to the entry's phase and to the VOQ.
LEMMA ReceiveEntry ==
  ASSUME IInv, NEW p \in Path,
         RxPrevEpoch(p) \/ RxPhase0(p) \/ RxPhase1InOrder(p) \/ RxPhase1OutOfOrder(p)
  PROVE  LET pkt == Head(net[p])
         IN  \/ /\ PrevEpoch(pkt) /\ UNCHANGED <<voq, ctl>>
                /\ rx'.epoch = rx.epoch /\ rx'.phase = rx.phase
                /\ rx'.phase0TxTime = rx.phase0TxTime /\ rx'.phase0Cache = rx.phase0Cache
             \/ /\ ~PrevEpoch(pkt)
                /\ rx'.epoch = pkt.epoch /\ rx'.phase = PhaseAfter(pkt)
                /\ rx'.phase0TxTime = IF pkt.phase = 0 THEN pkt.txTime ELSE rx.phase0TxTime
                /\ rx'.phase0Cache
                     => pkt.phase = 0 \/ (rx.phase0Cache /\ rx.epoch = pkt.epoch)
                /\ \/ /\ pkt.phase = 0
                      /\ voq'.exists = voq.exists
                      /\ voq.exists /\ pkt.flag = "TAIL" => voq'.flushAt = now
                   \/ /\ pkt.phase = 1 /\ ~OutOfOrder(pkt) /\ voq' = voq
                   \/ /\ pkt.phase = 1 /\ OutOfOrder(pkt) /\ voq'.exists
                      /\ voq.exists => voq'.flushAt = voq.flushAt
<1> DEFINE pkt == Head(net[p])
<1>1. net[p] # <<>>
  BY DEF RxPrevEpoch, RxPhase0, RxPhase1InOrder, RxPhase1OutOfOrder, Arrived
<1>2. /\ rx \in RxState /\ rx.epoch \in Nat /\ voq \in Voq /\ now \in Nat
      /\ pkt \in DataPkt /\ pkt.epoch \in Nat /\ pkt.phase \in {0, 1}
      /\ rx.reordering = voq.exists
  BY <1>1, FlightFacts DEF IInv, TypeOK, VoqInv, ReorderingIffVoq, RxState, Voq
<1>3. RxAfter(pkt) \in RxState
  BY <1>2, RxAfterType DEF IInv, TypeOK
<1>4. CASE RxPrevEpoch(p)
  BY <1>2, <1>4 DEF RxPrevEpoch, RxState
<1>5. CASE ~RxPrevEpoch(p)
  <2>1. /\ ~PrevEpoch(pkt)
        /\ rx' = RxAfter(pkt) \/ rx' = [RxAfter(pkt) EXCEPT !.reordering = TRUE]
    BY <1>5 DEF RxPhase0, RxPhase1InOrder, RxPhase1OutOfOrder
  <2>2. /\ rx'.epoch = RxAfter(pkt).epoch /\ rx'.phase = RxAfter(pkt).phase
        /\ rx'.phase0TxTime = RxAfter(pkt).phase0TxTime
        /\ rx'.phase0Cache = RxAfter(pkt).phase0Cache
    BY <1>3, <2>1 DEF RxState
  <2>3. /\ RxAfter(pkt).epoch = pkt.epoch /\ RxAfter(pkt).phase = PhaseAfter(pkt)
        /\ RxAfter(pkt).phase0TxTime = IF pkt.phase = 0 THEN pkt.txTime
                                       ELSE rx.phase0TxTime
        /\ RxAfter(pkt).phase0Cache = (pkt.phase = 0 \/ (rx.phase0Cache /\ ~NewEpoch(pkt)))
    BY <1>2 DEF RxAfter, RxState
  <2>4. ~NewEpoch(pkt) => rx.epoch = pkt.epoch
    BY <1>2, <2>1 DEF NewEpoch, PrevEpoch
  <2>5. CASE RxPhase0(p)
    <3>1. /\ pkt.phase = 0
          /\ voq' = IF rx.reordering
                    THEN [voq EXCEPT !.flushAt = FlushAfterPhase0(RxAfter(pkt), pkt),
                                     !.tailFrom = IF pkt.flag = "TAIL" THEN p ELSE NoPath]
                    ELSE voq
      BY <2>5 DEF RxPhase0
    <3>2. /\ voq'.exists = voq.exists
          /\ voq.exists => voq'.flushAt = FlushAfterPhase0(RxAfter(pkt), pkt)
      BY <1>2, <3>1 DEF Voq
    <3>3. pkt.flag = "TAIL" => FlushAfterPhase0(RxAfter(pkt), pkt) = now
      BY DEF FlushAfterPhase0
    <3> QED
      BY <2>1, <2>2, <2>3, <2>4, <3>1, <3>2, <3>3
  <2>6. CASE RxPhase1InOrder(p)
    <3>1. pkt.phase = 1 /\ ~OutOfOrder(pkt) /\ voq' = voq
      BY <2>6 DEF RxPhase1InOrder
    <3> QED
      BY <2>1, <2>2, <2>3, <2>4, <3>1
  <2>7. CASE RxPhase1OutOfOrder(p)
    <3>1. /\ pkt.phase = 1 /\ OutOfOrder(pkt) /\ voq'.exists
          /\ voq.exists => voq'.flushAt = voq.flushAt
      BY <1>2, <2>7 DEF RxPhase1OutOfOrder
    <3> QED
      BY <2>1, <2>2, <2>3, <2>4, <3>1
  <2> QED
    BY <1>5, <2>5, <2>6, <2>7
<1> QED
  BY <1>4, <1>5

\* A packet that the source ToR sends keeps PhaseInv.
LEMMA PhaseSend ==
  ASSUME IInv, SendInv, PhaseInv, NEW path \in Path, NEW pkt \in DataPkt,
         Sends(path, pkt)
  PROVE  PhaseInv'
<1>0. /\ now \in Nat /\ tx.epoch \in Nat /\ tx.phase \in {0, 1}
      /\ rx' = rx /\ now' = now /\ InFlight' = InFlight \union {pkt}
      /\ pkt.epoch = tx'.epoch /\ pkt.txTime = now
  BY PushStep DEF IInv, TypeOK, TxState, Sends, rxVars
<1>1. \A x \in InFlight : /\ x.epoch \in Nat /\ x.epoch <= tx.epoch
                          /\ x.txTime \in Nat /\ x.txTime <= now /\ x.phase \in {0, 1}
  BY FlightFacts DEF SendInv
<1>2. /\ rx.phase0TxTime <= now
      /\ \A x \in InFlight : /\ x.flag # "DATA" => x.phase = 0
                             /\ x.flag = "TAIL" => x.tailTime = x.txTime
      /\ \A x \in InFlight : x.phase = 1 =>
           /\ \A y \in InFlight : y.phase = 0 /\ y.epoch = x.epoch => y.txTime <= x.tailTime
           /\ rx.phase0Cache /\ rx.epoch = x.epoch => rx.phase0TxTime <= x.tailTime
  BY DEF PhaseInv
<1>3. CASE pkt.phase = 0 /\ pkt.flag = "INIT"
  <2>1. tx'.epoch = tx.epoch + 1 /\ tx'.phase = 0
    BY <1>3 DEF Sends
  <2>2. \A x \in InFlight : x.epoch # tx'.epoch
    BY <1>0, <1>1, <2>1
  <2> QED
    BY <1>0, <1>2, <1>3, <2>1, <2>2 DEF PhaseInv, EpochPhase
<1>4. CASE pkt.phase = 0 /\ pkt.flag # "INIT"
  <2>1. /\ tx.phase = 0 /\ tx'.epoch = tx.epoch
        /\ pkt.flag = "TAIL" => pkt.tailTime = now
        /\ tx'.phase = 1 => tx'.tailTime = now
    BY <1>4 DEF Sends
  <2>2. \A x \in InFlight : ~(x.phase = 1 /\ x.epoch = tx.epoch)
    BY <2>1 DEF PhaseInv, EpochPhase
  <2>3. \A x \in InFlight' : x.txTime <= now
    BY <1>0, <1>1
  <2>4. tx'.phase = 0 => \A x \in InFlight' : ~EpochPhase(x, 1)'
    BY <1>0, <1>4, <2>1, <2>2 DEF EpochPhase
  <2>5. tx'.phase = 1 => /\ \A x \in InFlight' : EpochPhase(x, 0)' => x.txTime <= tx'.tailTime
                         /\ rx'.phase0TxTime <= tx'.tailTime
    BY <1>0, <1>2, <2>1, <2>3
  <2>6. \A x \in InFlight' : x.phase = 1 =>
           /\ \A y \in InFlight' : y.phase = 0 /\ y.epoch = x.epoch => y.txTime <= x.tailTime
           /\ rx.phase0Cache /\ rx.epoch = x.epoch => rx.phase0TxTime <= x.tailTime
    BY <1>0, <1>2, <1>4, <2>1, <2>2
  <2> QED
    BY <1>0, <1>2, <1>4, <2>1, <2>4, <2>5, <2>6 DEF PhaseInv
<1>5. CASE pkt.phase = 1
  <2>1. /\ tx.phase = 1 /\ tx'.phase = 1 /\ tx'.epoch = tx.epoch /\ pkt.flag = "DATA"
        /\ tx'.tailTime = tx.tailTime /\ pkt.tailTime = tx.tailTime
    BY <1>5 DEF Sends
  <2>2. /\ \A y \in InFlight : y.phase = 0 /\ y.epoch = tx.epoch => y.txTime <= tx.tailTime
        /\ rx.phase0Cache /\ rx.epoch = tx.epoch => rx.phase0TxTime <= tx.tailTime
    BY <2>1 DEF PhaseInv, EpochPhase
  <2>3. \A y \in InFlight' : y.phase = 0 => y \in InFlight
    BY <1>0, <1>5
  <2>4. \A x \in InFlight' : x.phase = 1 =>
           /\ \A y \in InFlight' : y.phase = 0 /\ y.epoch = x.epoch => y.txTime <= x.tailTime
           /\ rx.phase0Cache /\ rx.epoch = x.epoch => rx.phase0TxTime <= x.tailTime
    BY <1>0, <1>2, <2>1, <2>2, <2>3
  <2> QED
    BY <1>0, <1>2, <1>5, <2>1, <2>2, <2>3, <2>4 DEF PhaseInv, EpochPhase
<1> QED
  BY <1>3, <1>4, <1>5 DEF DataPkt

\* Fewer packets and the same entries keep PhaseInv.
LEMMA PhaseFewer ==
  ASSUME PhaseInv, InFlight' \subseteq InFlight, now' = now, rx' = rx,
         tx'.epoch = tx.epoch, tx'.phase = tx.phase, tx'.tailTime = tx.tailTime
  PROVE  PhaseInv'
BY DEF PhaseInv, EpochPhase

\* Every handler, and the clock, keeps PhaseInv.
LEMMA PhaseStep == IInv /\ SendInv /\ PhaseInv /\ [Next]_vars => PhaseInv'
<1> SUFFICES ASSUME IInv, SendInv, PhaseInv, [Next]_vars  PROVE PhaseInv'
  OBVIOUS
<1>0. /\ now \in Nat /\ tx \in TxState /\ rx \in RxState /\ rx.phase0TxTime \in Nat
  BY DEF IInv, TypeOK, RxState
<1>1. CASE TxData
  BY <1>1, SendCases, PhaseSend
<1>2. CASE TxReply
  <2>1. /\ tx'.epoch = tx.epoch /\ tx'.phase = tx.phase /\ tx'.tailTime = tx.tailTime
        /\ UNCHANGED <<now, rx, net>>
    BY <1>0, <1>2 DEF TxReply, TxState, rxVars
  <2>2. InFlight' = InFlight
    BY <2>1 DEF InFlight
  <2> QED
    BY <2>1, <2>2, PhaseFewer
<1>3. ASSUME NEW p \in Path,
             RxPrevEpoch(p) \/ RxPhase0(p) \/ RxPhase1InOrder(p) \/ RxPhase1OutOfOrder(p)
      PROVE  PhaseInv'
  <2> DEFINE pkt == Head(net[p])
  <2>1. /\ net[p] # <<>> /\ net' = [net EXCEPT ![p] = Tail(net[p])]
        /\ now' = now /\ tx' = tx
    BY <1>3, ReceiveStep
  <2>2. InFlight' \subseteq InFlight /\ pkt \in InFlight
    BY <2>1, PopStep, FlightFacts
  <2>3. pkt.txTime <= now /\ pkt.phase \in {0, 1}
    BY <2>2, FlightFacts
  <2>4. \/ /\ rx'.epoch = rx.epoch /\ rx'.phase0TxTime = rx.phase0TxTime
           /\ rx'.phase0Cache = rx.phase0Cache
        \/ /\ rx'.epoch = pkt.epoch
           /\ rx'.phase0TxTime = IF pkt.phase = 0 THEN pkt.txTime ELSE rx.phase0TxTime
           /\ rx'.phase0Cache
                => pkt.phase = 0 \/ (rx.phase0Cache /\ rx.epoch = pkt.epoch)
    BY <1>3, ReceiveEntry
  <2> HIDE DEF pkt
  <2>5. rx'.phase0TxTime <= now
    BY <2>3, <2>4 DEF PhaseInv
  <2>6. \A time, epoch :
          /\ rx.phase0Cache /\ rx.epoch = epoch => rx.phase0TxTime <= time
          /\ pkt.phase = 0 /\ pkt.epoch = epoch => pkt.txTime <= time
          => (rx'.phase0Cache /\ rx'.epoch = epoch => rx'.phase0TxTime <= time)
    BY <2>4
  <2>7. tx.phase = 1 /\ rx'.phase0Cache /\ rx'.epoch = tx.epoch
          => rx'.phase0TxTime <= tx.tailTime
    BY <2>2, <2>6 DEF PhaseInv, EpochPhase
  <2>8. \A x \in InFlight' : x.phase = 1 /\ rx'.phase0Cache /\ rx'.epoch = x.epoch
          => rx'.phase0TxTime <= x.tailTime
    BY <2>2, <2>6 DEF PhaseInv
  <2> QED
    BY <2>1, <2>2, <2>5, <2>7, <2>8 DEF PhaseInv, EpochPhase
<1>4. ASSUME NEW p \in Path, Drop(p)  PROVE PhaseInv'
  <2>1. /\ net[p] # <<>> /\ net' = [net EXCEPT ![p] = Tail(net[p])]
        /\ tx' = tx /\ rx' = rx /\ now' = now
    BY <1>4 DEF Drop, txVars, rxVars
  <2>2. InFlight' \subseteq InFlight
    BY <2>1, PopStep
  <2> QED
    BY <2>1, <2>2, PhaseFewer
<1>5. CASE VoqFlush
  <2>1. /\ UNCHANGED <<now, tx, net>> /\ rx'.epoch = rx.epoch
        /\ rx'.phase0TxTime = rx.phase0TxTime /\ rx'.phase0Cache = rx.phase0Cache
    BY <1>0, <1>5 DEF VoqFlush, txVars, netVars, RxState
  <2>2. InFlight' = InFlight
    BY <2>1 DEF InFlight
  <2> QED
    BY <2>1, <2>2 DEF PhaseInv, EpochPhase
<1>6. CASE AgingEventRx
  <2>1. UNCHANGED <<now, tx, net>> /\ (rx' = rx \/ rx' = FreshRx)
    BY <1>6 DEF AgingEventRx, txVars, netVars
  <2>2. InFlight' = InFlight
    BY <2>1 DEF InFlight
  <2>3. CASE rx' = rx
    BY <2>1, <2>2, <2>3, PhaseFewer
  <2>4. CASE rx' = FreshRx
    <3>1. rx'.phase0TxTime = 0 /\ ~rx'.phase0Cache
      BY <2>4 DEF FreshRx
    <3> QED
      BY <1>0, <2>1, <2>2, <3>1 DEF PhaseInv, EpochPhase
  <2> QED
    BY <2>1, <2>3, <2>4
<1>7. CASE AgingEventTx
  <2>1. UNCHANGED <<now, rx, net>>
    BY <1>7 DEF AgingEventTx, rxVars, netVars
  <2>2. CASE tx' = tx
    <3>1. InFlight' = InFlight
      BY <2>1 DEF InFlight
    <3> QED
      BY <2>1, <2>2, <3>1, PhaseFewer
  <2>3. CASE tx' # tx
    <3>1. ~tx'.known /\ tx'.phase = 0
      BY <1>7, <2>3 DEF AgingEventTx, FreshTx
    <3>2. InFlight' = {}
      BY <3>1, SendStep DEF SendInv
    <3> QED
      BY <2>1, <3>1, <3>2 DEF PhaseInv
  <2> QED
    BY <2>2, <2>3
<1>8. CASE Tick
  <2>1. now' = now + 1 /\ UNCHANGED <<tx, rx, net>>
    BY <1>8 DEF Tick, txVars, rxVars, netVars
  <2>2. InFlight' = InFlight /\ rx.phase0TxTime <= now + 1
    BY <1>0, <2>1 DEF InFlight, PhaseInv
  <2> QED
    BY <2>1, <2>2 DEF PhaseInv, EpochPhase
<1>9. CASE UNCHANGED <<now, tx, rx, net>>
  BY <1>9 DEF PhaseInv, EpochPhase, InFlight
<1> QED
  BY <1>1, <1>2, <1>3, <1>4, <1>5, <1>6, <1>7, <1>8, <1>9
  DEF Next, RxData, TxNotify, Stop, vars, txVars, rxVars, netVars

\* It holds at the start.
LEMMA PhaseInit == Init => PhaseInv
<1> SUFFICES ASSUME Init  PROVE PhaseInv
  OBVIOUS
<1>1. tx = FreshTx /\ rx = FreshRx /\ \A p \in Path : net[p] = <<>>
  BY DEF Init
<1>2. InFlight = {} /\ now \in Nat
  BY <1>1, NoElements, TimeNat DEF InFlight, Init, StartTime
<1> QED
  BY <1>1, <1>2 DEF PhaseInv, FreshTx, FreshRx

-----------------------------------------------------------------------------
(* One VOQ at a time.                                                      *)

\* The flowlet gap and the aging time outlast a delay followed by any wait in a VOQ,
\* a CLEAR takes time, and so does a packet.
TimesSuit ==
  /\ WorstDelay + MaxVoqWait <= TxExpiryTime
  /\ WorstDelay + MaxVoqWait <= AgingTime
  /\ WorstDelay + CtlMaxDelay <= AgingTime
  /\ CtlMinDelay >= 1
  /\ \A p \in Path : MinDelay[p] >= 1

\* The source ToR knows that the destination ToR has reached the packet's epoch.
Closed(x) == x.epoch < tx.epoch \/ tx.stabilized

\* A VOQ that still waits will be flushed by time.
FlushBy(time) == voq.exists => voq.flushAt <= time

\* When the source ToR goes on to an epoch the VOQ of the epoch before is empty, or
\* due.
EpochInv ==
  /\ tx.known => rx.activeTime <= tx.activeTime + WorstDelay
  /\ ~tx.known => ~voq.exists
  /\ voq.exists => rx.phase = 0 /\ rx.epoch <= tx.epoch
  /\ tx.phase = 0 /\ rx.epoch = tx.epoch => ~voq.exists
  /\ rx.epoch < tx.epoch \/ tx.stabilized => FlushBy(now)
  /\ \A x \in InFlight : x.epoch > rx.epoch => FlushBy(x.txTime)
  /\ \A x \in InFlight : Closed(x) =>
       /\ rx.known /\ x.epoch <= rx.epoch /\ x.txTime <= rx.activeTime + CtlMaxDelay
       /\ x.epoch = rx.epoch => IF x.phase = 0 THEN ~voq.exists
                                ELSE voq.exists \/ rx.phase = 1
  /\ \A r \in Elements(ctl) : r.kind # "NOTIFY" =>
       /\ rx.known /\ r.epoch <= rx.epoch /\ r.sentAt <= rx.activeTime
       /\ EpochClear(r) /\ rx.epoch = tx.epoch
            => (voq.exists \/ rx.phase = 1) /\ FlushBy(r.sentAt + 1)

\* What TimesSuit means for numbers.
LEMMA SuitFacts ==
  ASSUME TimesSuit
  PROVE  /\ AnswersBeforeAging /\ GapOutlastsFlight
         /\ MaxVoqWait \in Nat /\ WorstDelay \in Nat /\ CtlMaxDelay \in Nat
         /\ CtlMinDelay \in Nat /\ CtlMinDelay >= 1 /\ AgingTime \in Nat
         /\ \A p \in Path : MinDelay[p] \in Nat /\ MinDelay[p] >= 1
<1>1. /\ WorstDelay \in Nat /\ CtlMaxDelay \in Nat /\ CtlMinDelay \in Nat
      /\ TxExpiryTime \in Nat /\ AgingTime \in Nat
  BY TimeAssumption
<1>2. MaxVoqWait \in Nat
  BY TimeNat DEF MaxVoqWait
<1> QED
  BY <1>1, <1>2, DelayNat DEF TimesSuit, AnswersBeforeAging, GapOutlastsFlight

\* All the invariants that the argument about VOQs needs.
AllInv == IInv /\ SendInv /\ CtlInv /\ SettleInv /\ PhaseInv /\ EpochInv

\* A VOQ that waits does so from now on, for an epoch that is not the next one.
LEMMA VoqFacts ==
  ASSUME TimesSuit, AllInv
  PROVE  /\ now \in Nat /\ tx.epoch \in Nat /\ rx.epoch \in Nat /\ voq.flushAt \in Nat
         /\ rx.activeTime \in Nat /\ tx.activeTime \in Nat
         /\ tx.phase \in {0, 1} /\ rx.phase \in {0, 1}
         /\ rx.reordering = voq.exists
         /\ voq.exists => /\ rx.known /\ now <= voq.flushAt
                          /\ now <= rx.activeTime + MaxVoqWait
         /\ tx.known /\ tx.activeTime + WorstDelay + MaxVoqWait < now => ~voq.exists
<1>1. /\ now \in Nat /\ tx.epoch \in Nat /\ rx.epoch \in Nat /\ voq.flushAt \in Nat
      /\ rx.activeTime \in Nat /\ tx.activeTime \in Nat
      /\ tx.phase \in {0, 1} /\ rx.phase \in {0, 1}
  BY DEF AllInv, IInv, TypeOK, TxState, RxState, Voq
<1>2. rx.reordering = voq.exists
  BY DEF AllInv, IInv, VoqInv, ReorderingIffVoq, TypeOK, RxState, Voq
<1>3. ASSUME voq.exists
      PROVE  rx.known /\ now <= voq.flushAt /\ now <= rx.activeTime + MaxVoqWait
  <2>1. rx.known /\ now <= voq.flushAt /\ voq.flushAt <= rx.activeTime + MaxVoqWait
    BY <1>1, <1>3 DEF AllInv, IInv, VoqInv, ReorderingIffVoq, VoqWaitBounded
  <2> QED
    BY <1>1, <2>1, SuitFacts
<1>4. ASSUME tx.known, tx.activeTime + WorstDelay + MaxVoqWait < now, voq.exists
      PROVE  FALSE
  <2>1. rx.activeTime <= tx.activeTime + WorstDelay
    BY <1>4 DEF AllInv, EpochInv
  <2> QED
    BY <1>1, <1>3, <1>4, <2>1, SuitFacts
<1> QED
  BY <1>1, <1>2, <1>3, <1>4

\* A packet that opens an epoch at the destination ToR finds no VOQ there.
LEMMA NewEpochFindsNoVoq ==
  ASSUME TimesSuit, AllInv, NEW p \in Path, Arrived(p), NewEpoch(Head(net[p]))
  PROVE  ~voq.exists
<1>1. Head(net[p]) \in InFlight /\ Head(net[p]).txTime + MinDelay[p] <= now
  BY FlightFacts DEF Arrived, AllInv
<1>2. Head(net[p]).txTime \in Nat /\ Head(net[p]).epoch \in Nat
  BY <1>1, FlightFacts DEF AllInv
<1>3. Head(net[p]).epoch > rx.epoch
  BY <1>2, VoqFacts DEF NewEpoch
<1>4. FlushBy(Head(net[p]).txTime)
  BY <1>1, <1>3 DEF AllInv, EpochInv
<1> QED
  BY <1>1, <1>2, <1>4, SuitFacts, VoqFacts DEF FlushBy

\* An INIT that opens an epoch is sent only when no VOQ waits, or it is due; so does
\* every other packet of an epoch that the destination ToR has not reached.
LEMMA EpochSend ==
  ASSUME TimesSuit, AllInv, NEW path \in Path, NEW pkt \in DataPkt, Sends(path, pkt)
  PROVE  EpochInv'
<1>0. /\ rx' = rx /\ voq' = voq /\ now' = now /\ ctl' = ctl
      /\ InFlight' = InFlight \union {pkt} /\ tx'.known /\ tx'.activeTime = now
      /\ pkt.epoch = tx'.epoch /\ pkt.txTime = now /\ ~tx'.stabilized
  BY PushStep DEF AllInv, Sends, rxVars
<1>1. /\ now \in Nat /\ tx.epoch \in Nat /\ rx.epoch \in Nat /\ rx.activeTime \in Nat
      /\ tx.phase \in {0, 1} /\ WorstDelay \in Nat /\ rx.activeTime <= now
  BY VoqFacts, SuitFacts DEF AllInv, IInv, VoqInv, RxInv
<1>2. \A time : FlushBy(time)' <=> FlushBy(time)
  BY <1>0 DEF FlushBy
<1>3. \A x \in InFlight : x.epoch \in Nat /\ x.epoch <= tx.epoch
  BY FlightFacts DEF AllInv, SendInv
<1>4. /\ tx'.epoch \in Nat /\ tx.epoch <= tx'.epoch
      /\ \/ tx'.epoch = tx.epoch /\ tx.known /\ ~tx.stabilized
         \/ /\ tx'.epoch = tx.epoch + 1 /\ tx'.phase = 0
            /\ Expired \/ (tx.known /\ tx.stabilized)
  BY <1>1 DEF Sends
<1>5. CASE tx'.epoch = tx.epoch + 1 /\ tx'.phase = 0
  <2>1. FlushBy(now)
    <3>1. CASE Expired /\ tx.known
      <4>1. tx.activeTime + WorstDelay + MaxVoqWait < now
        <5>1. /\ tx.activeTime \in Nat /\ TxExpiryTime \in Nat /\ MaxVoqWait \in Nat
              /\ WorstDelay + MaxVoqWait <= TxExpiryTime
          BY VoqFacts, SuitFacts, TimeNat DEF TimesSuit
        <5> QED
          BY <1>1, <3>1, <5>1 DEF Expired
      <4> QED
        BY <3>1, <4>1, VoqFacts DEF FlushBy
    <3>2. CASE ~tx.known
      BY <3>2 DEF AllInv, EpochInv, FlushBy
    <3>3. CASE tx.known /\ tx.stabilized
      BY <3>3 DEF AllInv, EpochInv
    <3> QED
      BY <1>1, <1>4, <1>5, <3>1, <3>2, <3>3
  <2>2. \A x \in InFlight : Closed(x)
    <3>1. CASE Expired
      <4>1. InFlight = {}
        <5>1. CASE tx.known
          <6>1. now > tx.activeTime + WorstDelay
            BY <1>1, <3>1, SuitFacts, TimeNat, VoqFacts DEF Expired, GapOutlastsFlight
          <6> QED
            BY <6>1, OldPacketsGone DEF AllInv
        <5> QED
          BY <5>1 DEF AllInv, SendInv
      <4> QED
        BY <4>1
    <3>2. CASE tx.stabilized
      BY <3>2 DEF Closed
    <3> QED
      BY <1>1, <1>4, <1>5, <3>1, <3>2
  <2>3. ~Closed(pkt)'
    BY <1>0, <1>4 DEF Closed
  <2>4. \A r \in Elements(ctl) : r.kind # "NOTIFY" => ~EpochClear(r)'
    BY <1>1, <1>5 DEF EpochClear, AllInv, CtlInv
  <2>5. voq.exists => rx.epoch <= tx'.epoch /\ rx.epoch # tx'.epoch
    BY <1>1, <1>5 DEF AllInv, EpochInv
  <2> QED
    BY <1>0, <1>1, <1>2, <2>1, <2>2, <2>3, <2>4, <2>5 DEF AllInv, EpochInv
<1>6. CASE tx'.epoch = tx.epoch /\ tx.known /\ ~tx.stabilized
  <2>1. /\ \A x : Closed(x)' => Closed(x)
        /\ \A r : EpochClear(r)' => EpochClear(r)
    BY <1>0, <1>6 DEF Closed, EpochClear
  <2>2. ~Closed(pkt)'
    BY <1>0, <1>4 DEF Closed
  <2>3. pkt.epoch > rx.epoch => FlushBy(now)
    BY <1>0, <1>1, <1>6 DEF AllInv, EpochInv
  <2>4. tx'.phase = 0 => tx.phase = 0
    BY <1>1, <1>6 DEF Sends
  <2> QED
    BY <1>0, <1>1, <1>2, <1>6, <2>1, <2>2, <2>3, <2>4 DEF AllInv, EpochInv
<1> QED
  BY <1>4, <1>5, <1>6

\* A packet that the destination ToR passes on or holds: it opens a VOQ for an epoch
\* only while the source ToR has not gone on to the next.
LEMMA EpochReceive ==
  ASSUME TimesSuit, AllInv, NEW p \in Path,
         RxPrevEpoch(p) \/ RxPhase0(p) \/ RxPhase1InOrder(p) \/ RxPhase1OutOfOrder(p)
  PROVE  EpochInv'
<1> DEFINE pkt == Head(net[p])
<1>0. /\ now \in Nat /\ tx.epoch \in Nat /\ rx.epoch \in Nat /\ voq.flushAt \in Nat
      /\ tx.phase \in {0, 1} /\ rx.phase \in {0, 1} /\ rx.reordering = voq.exists
      /\ WorstDelay \in Nat /\ CtlMaxDelay \in Nat /\ tx.activeTime \in Nat
  BY VoqFacts, SuitFacts
<1>1. /\ net[p] # <<>> /\ net' = [net EXCEPT ![p] = Tail(net[p])]
      /\ now' = now /\ tx' = tx /\ rx'.known /\ rx'.activeTime = now
  BY ReceiveStep DEF AllInv
<1>2. InFlight' \subseteq InFlight /\ pkt \in InFlight
  BY <1>1, PopStep, FlightFacts DEF AllInv
<1>3. \A x \in InFlight : /\ x.epoch \in Nat /\ x.epoch <= tx.epoch /\ x.phase \in {0, 1}
                          /\ x.txTime \in Nat /\ x.txTime <= now
                          /\ now <= tx.activeTime + WorstDelay
                          /\ x.flag # "DATA" => x.phase = 0
  <2>1. \A x \in InFlight : /\ x.txTime \in Nat /\ now <= x.txTime + WorstDelay
                            /\ x.txTime <= tx.activeTime
    BY FlightFacts DEF AllInv, SendInv
  <2>2. \A x \in InFlight : now <= tx.activeTime + WorstDelay
    BY <1>0, <2>1
  <2> QED
    BY <2>2, FlightFacts DEF AllInv, SendInv, PhaseInv
<1>4. tx.known
  BY <1>2 DEF AllInv, SendInv
<1>5. PICK more \in Seq(CtlPkt) :
        /\ ctl' = ctl \o more
        /\ \A r \in Elements(more) :
             /\ r.sentAt = now
             /\ r.kind # "NOTIFY" => /\ r.epoch = pkt.epoch /\ r.kind = pkt.flag
                                     /\ ~PrevEpoch(pkt)
  BY ReceiveAnswers DEF AllInv
<1>6. \A r \in Elements(ctl') : r \in Elements(ctl) \/ r \in Elements(more)
  BY <1>5, ConcatElements DEF AllInv, IInv, TypeOK
<1>7. /\ \A r \in Elements(ctl) : r.sentAt <= now
      /\ \A x : (Closed(x)' <=> Closed(x)) /\ (EpochClear(x)' <=> EpochClear(x))
  BY <1>1 DEF AllInv, CtlInv, Closed, EpochClear
<1>8. \/ /\ PrevEpoch(pkt) /\ UNCHANGED <<voq, ctl>>
         /\ rx'.epoch = rx.epoch /\ rx'.phase = rx.phase
      \/ /\ ~PrevEpoch(pkt)
         /\ rx'.epoch = pkt.epoch /\ rx'.phase = PhaseAfter(pkt)
         /\ \/ /\ pkt.phase = 0 /\ voq'.exists = voq.exists
               /\ voq.exists /\ pkt.flag = "TAIL" => voq'.flushAt = now
            \/ /\ pkt.phase = 1 /\ ~OutOfOrder(pkt) /\ voq' = voq
            \/ /\ pkt.phase = 1 /\ OutOfOrder(pkt) /\ voq'.exists
               /\ voq.exists => voq'.flushAt = voq.flushAt
  BY ReceiveEntry DEF AllInv
<1>9. NewEpoch(pkt) => ~voq.exists
  <2>1. Arrived(p)
    BY DEF RxPrevEpoch, RxPhase0, RxPhase1InOrder, RxPhase1OutOfOrder
  <2> QED
    BY <2>1, NewEpochFindsNoVoq
<1>10. /\ PrevEpoch(pkt) <=> rx.epoch > pkt.epoch
       /\ NewEpoch(pkt) <=> rx.epoch < pkt.epoch
       /\ OutOfOrder(pkt) <=> pkt.phase > PhaseAfter(pkt)
       /\ PhaseAfter(pkt) = IF NewEpoch(pkt) THEN IF pkt.flag = "TAIL" THEN 1 ELSE 0
                            ELSE IF pkt.flag = "TAIL" /\ ~voq.exists THEN 1 ELSE rx.phase
  BY <1>0 DEF PrevEpoch, NewEpoch, OutOfOrder, PhaseAfter
<1> HIDE DEF pkt
\* What holds of every packet that arrives.
<1>11. ASSUME /\ voq'.exists => rx'.phase = 0 /\ rx'.epoch <= tx.epoch
              /\ tx.phase = 0 /\ rx'.epoch = tx.epoch => ~voq'.exists
              /\ rx'.epoch < tx.epoch \/ tx.stabilized => FlushBy(now)'
              /\ \A x \in InFlight' : x.epoch > rx'.epoch => FlushBy(x.txTime)'
              /\ \A x \in InFlight' : Closed(x) =>
                   /\ x.epoch <= rx'.epoch
                   /\ x.epoch = rx'.epoch => IF x.phase = 0 THEN ~voq'.exists
                                             ELSE voq'.exists \/ rx'.phase = 1
              /\ \A r \in Elements(ctl') : r.kind # "NOTIFY" =>
                   /\ r.epoch <= rx'.epoch
                   /\ EpochClear(r) /\ rx'.epoch = tx.epoch
                        => (voq'.exists \/ rx'.phase = 1) /\ FlushBy(r.sentAt + 1)'
       PROVE  EpochInv'
  <2>1. \A r \in Elements(ctl') : r.sentAt <= now
    BY <1>0, <1>5, <1>6, <1>7
  <2>2. now <= tx.activeTime + WorstDelay /\ \A x \in InFlight' : x.txTime <= now + CtlMaxDelay
    BY <1>0, <1>2, <1>3
  <2> QED
    BY <1>1, <1>4, <1>7, <1>11, <2>1, <2>2 DEF EpochInv
<1>12. CASE PrevEpoch(pkt)
  <2>1. /\ UNCHANGED <<voq, ctl>> /\ rx'.epoch = rx.epoch /\ rx'.phase = rx.phase
    BY <1>8, <1>12
  <2>2. \A time : FlushBy(time)' <=> (voq'.exists => voq'.flushAt <= time')
    BY DEF FlushBy
  <2> QED
    BY <1>1, <1>2, <1>11, <2>1 DEF AllInv, EpochInv, FlushBy
<1>13. CASE NewEpoch(pkt)
  <2>1. ~voq.exists /\ rx.epoch < pkt.epoch /\ ~PrevEpoch(pkt)
    BY <1>0, <1>2, <1>3, <1>9, <1>10, <1>13
  <2>2. pkt.epoch = tx.epoch /\ ~tx.stabilized
    <3>1. ~Closed(pkt)
      BY <1>0, <1>2, <1>3, <2>1 DEF AllInv, EpochInv
    <3> QED
      BY <1>0, <1>2, <1>3, <3>1 DEF Closed
  <2>3. /\ rx'.epoch = tx.epoch
        /\ rx'.phase = IF pkt.flag = "TAIL" THEN 1 ELSE 0
        /\ voq'.exists => pkt.phase = 1
    BY <1>8, <1>10, <1>13, <2>1, <2>2
  <2>4. pkt.flag = "TAIL" => ~voq'.exists
    BY <1>2, <1>3, <2>3
  <2>5. voq'.exists => tx.phase = 1
    BY <1>0, <1>2, <2>2, <2>3 DEF AllInv, PhaseInv, EpochPhase
  <2>6. \A x \in InFlight' : /\ ~(x.epoch > rx'.epoch)
                             /\ Closed(x) => x.epoch <= rx'.epoch /\ x.epoch # rx'.epoch
    BY <1>0, <1>2, <1>3, <2>2, <2>3 DEF Closed
  <2>7. ASSUME NEW r \in Elements(ctl'), r.kind # "NOTIFY"
        PROVE  /\ r.epoch <= rx'.epoch
               /\ EpochClear(r) => rx'.phase = 1 /\ ~voq'.exists
    <3>1. CASE r \in Elements(ctl)
      <4>1. r.epoch \in Nat
        <5>1. ctl \in Seq(CtlPkt)
          BY DEF AllInv, IInv, TypeOK
        <5>2. r \in CtlPkt
          BY <3>1, <5>1, QueueElements
        <5> QED
          BY <2>7, <5>2 DEF CtlPkt
      <4>2. r.epoch <= rx.epoch
        BY <2>7, <3>1 DEF AllInv, EpochInv
      <4> QED
        BY <1>0, <2>1, <2>2, <2>3, <4>1, <4>2 DEF EpochClear
    <3>2. CASE r \in Elements(more)
      BY <1>0, <1>5, <2>2, <2>3, <2>4, <2>7, <3>2 DEF EpochClear
    <3> QED
      BY <1>6, <2>7, <3>1, <3>2
  <2>8. rx'.epoch <= tx.epoch /\ ~(rx'.epoch < tx.epoch)
    BY <1>0, <2>3
  <2>9. voq'.exists => rx'.phase = 0
    BY <2>3, <2>4
  <2> QED
    BY <1>11, <2>2, <2>5, <2>6, <2>7, <2>8, <2>9 DEF FlushBy
<1>14. CASE ~PrevEpoch(pkt) /\ ~NewEpoch(pkt)
  <2>1. pkt.epoch = rx.epoch /\ rx'.epoch = rx.epoch /\ rx'.phase = PhaseAfter(pkt)
    BY <1>0, <1>2, <1>3, <1>8, <1>10, <1>14
  <2>2. /\ pkt.phase \in {0, 1} /\ (pkt.flag # "DATA" => pkt.phase = 0)
        /\ rx.epoch <= tx.epoch
    BY <1>2, <1>3, <2>1
  <2>3. Closed(pkt) => IF pkt.phase = 0 THEN ~voq.exists ELSE voq.exists \/ rx.phase = 1
    BY <1>2, <2>1 DEF AllInv, EpochInv
  <2>4. ~Closed(pkt) => rx'.epoch = tx.epoch /\ ~tx.stabilized
    BY <1>0, <2>1, <2>2 DEF Closed
  <2>5. \A x \in InFlight' : /\ Closed(x) => x.epoch <= rx'.epoch
                             /\ Closed(x) /\ ~Closed(pkt) => x.epoch # rx'.epoch
                             /\ ~(x.epoch > tx.epoch)
    <3>1. \A x \in InFlight' : Closed(x) => x.epoch <= rx.epoch
      BY <1>2 DEF AllInv, EpochInv
    <3>2. \A x \in InFlight' : Closed(x) /\ ~Closed(pkt) => x.epoch # rx'.epoch
      BY <1>0, <1>2, <1>3, <2>4 DEF Closed
    <3> QED
      BY <1>0, <1>2, <1>3, <2>1, <3>1, <3>2
  <2>6. \A r \in Elements(ctl') : r.kind # "NOTIFY" => r.epoch <= rx'.epoch
    BY <1>0, <1>5, <1>6, <2>1 DEF AllInv, EpochInv
  <2>7. CASE pkt.phase = 0
    <3>1. /\ voq'.exists = voq.exists
          /\ voq.exists /\ pkt.flag = "TAIL" => voq'.flushAt = now
      BY <1>8, <1>14, <2>7
    <3>2. /\ voq'.exists => rx'.phase = 0 /\ rx'.epoch <= tx.epoch
          /\ tx.phase = 0 /\ rx'.epoch = tx.epoch => ~voq'.exists
          /\ rx.phase = 1 => rx'.phase = 1
      BY <1>10, <1>14, <2>1, <2>2, <3>1 DEF AllInv, EpochInv
    <3>3. ~voq'.exists \/ (rx'.epoch = tx.epoch /\ ~tx.stabilized)
      BY <2>3, <2>4, <2>7, <3>1
    <3>4. ASSUME NEW r \in Elements(ctl'), r.kind # "NOTIFY", EpochClear(r),
                 rx'.epoch = tx.epoch
          PROVE  (voq'.exists \/ rx'.phase = 1) /\ FlushBy(r.sentAt + 1)'
      <4>1. r \in Elements(more)
        <5>1. EpochPhase(pkt, 0)
          BY <2>1, <2>7, <3>4 DEF EpochPhase
        <5> QED
          BY <1>2, <1>6, <3>4, <5>1 DEF AllInv, SettleInv
      <4>2. r.sentAt = now /\ pkt.flag = "TAIL"
        BY <1>5, <3>4, <4>1 DEF EpochClear
      <4>3. voq.exists \/ rx'.phase = 1
        BY <1>10, <1>14, <2>1, <4>2
      <4> QED
        BY <1>0, <3>1, <4>2, <4>3 DEF FlushBy
    <3>5. /\ rx'.epoch < tx.epoch \/ tx.stabilized => FlushBy(now)'
          /\ \A x \in InFlight' : x.epoch > rx'.epoch => FlushBy(x.txTime)'
      BY <1>0, <2>5, <3>3 DEF FlushBy
    <3>6. \A x \in InFlight' : Closed(x) /\ x.epoch = rx'.epoch =>
            IF x.phase = 0 THEN ~voq'.exists ELSE voq'.exists \/ rx'.phase = 1
      BY <1>2, <2>1, <3>1, <3>2 DEF AllInv, EpochInv
    <3> QED
      BY <1>11, <2>5, <2>6, <3>2, <3>4, <3>5, <3>6
  <2>8. CASE pkt.phase = 1 /\ ~OutOfOrder(pkt)
    <3>1. voq' = voq /\ rx'.phase = rx.phase
      BY <1>8, <1>10, <1>14, <2>1, <2>2, <2>8
    <3>2. \A r \in Elements(ctl') : r.kind # "NOTIFY" /\ EpochClear(r) => r \in Elements(ctl)
      BY <1>5, <1>6, <2>2, <2>8 DEF EpochClear
    <3>3. \A time : FlushBy(time) => (voq'.exists => voq'.flushAt <= time)
      BY <3>1 DEF FlushBy
    <3>4. \A r \in Elements(ctl') : r.kind # "NOTIFY" /\ EpochClear(r) /\ rx'.epoch = tx.epoch
            => (voq'.exists \/ rx'.phase = 1) /\ FlushBy(r.sentAt + 1)'
      BY <2>1, <3>1, <3>2, <3>3 DEF AllInv, EpochInv, FlushBy
    <3>5. /\ rx'.epoch < tx.epoch \/ tx.stabilized => FlushBy(now)'
          /\ \A x \in InFlight' : x.epoch > rx'.epoch => FlushBy(x.txTime)'
      BY <1>1, <1>2, <2>1, <3>3 DEF AllInv, EpochInv, FlushBy
    <3>6. /\ voq'.exists => rx'.phase = 0 /\ rx'.epoch <= tx.epoch
          /\ tx.phase = 0 /\ rx'.epoch = tx.epoch => ~voq'.exists
          /\ \A x \in InFlight' : Closed(x) /\ x.epoch = rx'.epoch =>
               IF x.phase = 0 THEN ~voq'.exists ELSE voq'.exists \/ rx'.phase = 1
      BY <1>2, <2>1, <3>1 DEF AllInv, EpochInv
    <3> QED
      BY <1>11, <2>5, <2>6, <3>4, <3>5, <3>6
  <2>9. CASE pkt.phase = 1 /\ OutOfOrder(pkt)
    <3>1. /\ voq'.exists /\ (voq.exists => voq'.flushAt = voq.flushAt)
          /\ rx.phase = 0 /\ rx'.phase = 0
      BY <1>0, <1>8, <1>10, <1>14, <2>1, <2>2, <2>9
    <3>2. tx.phase = 0 /\ rx'.epoch = tx.epoch => FALSE
      BY <1>2, <2>1, <2>9 DEF AllInv, PhaseInv, EpochPhase
    <3>3. Closed(pkt) => voq.exists
      BY <2>3, <2>9, <3>1
    <3>4. \A time : voq.exists /\ FlushBy(time) => (voq'.exists => voq'.flushAt <= time)
      BY <3>1 DEF FlushBy
    <3>5. \A r \in Elements(ctl') : r.kind # "NOTIFY" /\ EpochClear(r) => r \in Elements(ctl)
      BY <1>5, <1>6, <2>2, <2>9 DEF EpochClear
    <3>6. \A r \in Elements(ctl') : r.kind # "NOTIFY" /\ EpochClear(r) /\ rx'.epoch = tx.epoch
            => (voq'.exists \/ rx'.phase = 1) /\ FlushBy(r.sentAt + 1)'
      BY <2>1, <3>1, <3>4, <3>5 DEF AllInv, EpochInv, FlushBy
    <3>7. rx'.epoch < tx.epoch \/ tx.stabilized => FlushBy(now)'
      BY <1>0, <1>1, <2>1, <2>4, <3>3, <3>4 DEF AllInv, EpochInv, FlushBy
    <3>8. \A x \in InFlight' : x.epoch > rx'.epoch => FlushBy(x.txTime)'
      <4>1. CASE Closed(pkt)
        BY <1>2, <2>1, <3>3, <3>4, <4>1 DEF AllInv, EpochInv, FlushBy
      <4>2. CASE ~Closed(pkt)
        BY <2>4, <2>5, <4>2
      <4> QED
        BY <4>1, <4>2
    <3>9. \A x \in InFlight' : Closed(x) /\ x.epoch = rx'.epoch =>
            IF x.phase = 0 THEN ~voq'.exists ELSE voq'.exists \/ rx'.phase = 1
      BY <1>2, <2>1, <2>5, <3>1, <3>3 DEF AllInv, EpochInv
    <3> QED
      BY <1>11, <2>1, <2>2, <2>5, <2>6, <3>1, <3>2, <3>6, <3>7, <3>8, <3>9
  <2> QED
    BY <2>2, <2>7, <2>8, <2>9
<1> QED
  BY <1>12, <1>13, <1>14

\* An answer that counts tells that the VOQ of the epoch is empty or due, and that the
\* destination ToR has reached the epoch of every packet in flight.
LEMMA EpochReply ==
  ASSUME TimesSuit, AllInv, TxReply
  PROVE  EpochInv'
<1> DEFINE r == Head(ctl)
<1>0. /\ now \in Nat /\ tx.epoch \in Nat /\ rx.epoch \in Nat /\ voq.flushAt \in Nat
      /\ rx.activeTime \in Nat /\ CtlMinDelay \in Nat /\ CtlMinDelay >= 1
      /\ CtlMaxDelay \in Nat /\ tx \in TxState /\ ctl \in Seq(CtlPkt)
      /\ tx.phase \in {0, 1}
  BY VoqFacts, SuitFacts DEF AllInv, IInv, TypeOK
<1>1. /\ ctl # <<>> /\ ctl' = Tail(ctl) /\ UNCHANGED <<now, rx, voq, net>>
      /\ r.sentAt + CtlMinDelay <= now /\ r.kind # "NOTIFY"
      /\ tx'.known = tx.known /\ tx'.epoch = tx.epoch /\ tx'.phase = tx.phase
      /\ tx'.activeTime = tx.activeTime
  BY <1>0 DEF TxReply, CtlArrived, TxState, rxVars
<1>2. r \in Elements(ctl) /\ Elements(ctl') \subseteq Elements(ctl) /\ r \in CtlPkt
  BY <1>0, <1>1, CtlPop, HeadTail DEF AllInv, CtlInv
<1>3. InFlight' = InFlight /\ \A time : FlushBy(time)' <=> (voq.exists => voq.flushAt <= time')
  BY <1>1 DEF InFlight, FlushBy
<1>4. \A x : EpochClear(x)' <=> EpochClear(x)
  BY <1>1 DEF EpochClear
<1>5. CASE tx' = tx
  BY <1>1, <1>2, <1>3, <1>5 DEF AllInv, EpochInv, Closed, EpochClear, FlushBy
<1>6. CASE ReplyCounts(r)
  <2>1. /\ r.epoch = tx.epoch /\ r.phase = tx.phase /\ r.kind \in {"INIT", "TAIL"}
        /\ r.kind = "INIT" <=> r.phase = 0
        /\ r.sentAt \in Nat /\ now <= r.sentAt + CtlMaxDelay
        /\ rx.known /\ r.epoch <= rx.epoch /\ r.sentAt <= rx.activeTime
        /\ EpochClear(r) /\ rx.epoch = tx.epoch
            => (voq.exists \/ rx.phase = 1) /\ FlushBy(r.sentAt + 1)
    BY <1>1, <1>2, <1>6
    DEF ReplyCounts, ReplyMatches, CtlPkt, AllInv, CtlInv, EpochInv
  <2> HIDE DEF r
  <2>2. \A x \in InFlight : /\ x.epoch \in Nat /\ x.epoch <= tx.epoch
                            /\ x.txTime \in Nat /\ x.txTime <= now /\ x.phase \in {0, 1}
    BY FlightFacts DEF AllInv, SendInv
  <2>3. \A x \in InFlight : /\ x.epoch <= rx.epoch
                            /\ x.txTime <= rx.activeTime + CtlMaxDelay
    BY <1>0, <2>1, <2>2
  <2>4. /\ FlushBy(now)
        /\ \A x \in InFlight : x.epoch = rx.epoch =>
             IF x.phase = 0 THEN ~voq.exists ELSE voq.exists \/ rx.phase = 1
    <3>1. CASE rx.epoch # tx.epoch
      <4>1. rx.epoch > tx.epoch
        BY <1>0, <2>1, <3>1
      <4>2. ~voq.exists
        BY <1>0, <4>1 DEF AllInv, EpochInv
      <4> QED
        BY <1>0, <2>2, <4>1, <4>2 DEF FlushBy
    <3>2. CASE rx.epoch = tx.epoch /\ r.kind = "INIT"
      <4>1. tx.phase = 0 /\ ~voq.exists
        BY <2>1, <3>2 DEF AllInv, EpochInv
      <4>2. \A x \in InFlight : x.epoch = rx.epoch => x.phase = 0
        BY <2>2, <3>2, <4>1 DEF AllInv, PhaseInv, EpochPhase
      <4> QED
        BY <4>1, <4>2 DEF FlushBy
    <3>3. CASE rx.epoch = tx.epoch /\ r.kind = "TAIL"
      <4>1. EpochClear(r)
        BY <2>1, <3>3 DEF EpochClear
      <4>2. \A x \in InFlight : x.epoch = rx.epoch => x.phase # 0
        BY <1>2, <3>3, <4>1 DEF AllInv, SettleInv, EpochPhase
      <4>3. FlushBy(now)
        BY <1>0, <1>1, <2>1, <3>3, <4>1 DEF FlushBy
      <4> QED
        BY <2>1, <3>3, <4>1, <4>2, <4>3
    <3> QED
      BY <2>1, <3>1, <3>2, <3>3
  <2>5. \A s \in Elements(ctl') : s.kind # "NOTIFY" =>
          /\ rx.known /\ s.epoch <= rx.epoch /\ s.sentAt <= rx.activeTime
          /\ EpochClear(s) /\ rx.epoch = tx.epoch
               => (voq.exists \/ rx.phase = 1) /\ FlushBy(s.sentAt + 1)
    BY <1>2 DEF AllInv, EpochInv
  <2>6. tx.known
    BY <1>1 DEF AllInv, CtlInv
  <2> QED
    BY <1>1, <1>3, <1>4, <2>1, <2>3, <2>4, <2>5, <2>6 DEF AllInv, EpochInv, FlushBy
<1> QED
  BY <1>5, <1>6 DEF TxReply

\* Aging erases an entry of the destination ToR only when what the source ToR knows of
\* it does not matter any more.
LEMMA EpochAgingRx ==
  ASSUME TimesSuit, AllInv, AgingEventRx
  PROVE  EpochInv'
<1>0. /\ now \in Nat /\ rx.activeTime \in Nat /\ rx.epoch \in Nat /\ tx.epoch \in Nat
      /\ AgingTime \in Nat /\ CtlMaxDelay \in Nat /\ WorstDelay \in Nat
      /\ MaxVoqWait \in Nat /\ WorstDelay + MaxVoqWait <= AgingTime
      /\ WorstDelay + CtlMaxDelay <= AgingTime /\ tx.activeTime \in Nat
  BY VoqFacts, SuitFacts DEF TimesSuit
<1>1. UNCHANGED <<now, tx, voq, net, ctl>> /\ InFlight' = InFlight
  BY DEF AgingEventRx, txVars, netVars, InFlight
<1>2. CASE rx' = rx
  BY <1>1, <1>2 DEF AllInv, EpochInv, Closed, EpochClear, FlushBy
<1>3. CASE rx' # rx
  <2>1. rx' = FreshRx /\ now > rx.activeTime + AgingTime
    BY <1>0, <1>3 DEF AgingEventRx, Stale
  <2>2. ~voq.exists
    BY <1>0, <2>1, VoqFacts
  <2>3. \A x \in InFlight : ~Closed(x)
    <3>1. \A x \in InFlight : /\ x.txTime \in Nat /\ now <= x.txTime + WorstDelay
                              /\ Closed(x) => x.txTime <= rx.activeTime + CtlMaxDelay
      BY FlightFacts DEF AllInv, EpochInv
    <3> QED
      BY <1>0, <2>1, <3>1
  <2>4. \A r \in Elements(ctl) : r.kind = "NOTIFY"
    <3>1. ctl \in Seq(CtlPkt)
      BY DEF AllInv, IInv, TypeOK
    <3>2. \A r \in Elements(ctl) : r.sentAt \in Nat
      BY <3>1, QueueElements DEF CtlPkt
    <3>3. \A r \in Elements(ctl) : /\ now <= r.sentAt + CtlMaxDelay
                                   /\ r.kind # "NOTIFY" => r.sentAt <= rx.activeTime
      BY DEF AllInv, CtlInv, EpochInv
    <3> QED
      BY <1>0, <2>1, <3>2, <3>3
  <2>5. rx'.activeTime = 0
    BY <2>1 DEF FreshRx
  <2>6. \A x : Closed(x)' <=> Closed(x)
    BY <1>1 DEF Closed
  <2> QED
    BY <1>0, <1>1, <2>2, <2>3, <2>4, <2>5, <2>6 DEF EpochInv, FlushBy
<1> QED
  BY <1>2, <1>3

\* Nor one of the source ToR while a VOQ waits.
LEMMA EpochAgingTx ==
  ASSUME TimesSuit, AllInv, AgingEventTx, SendInv', CtlInv'
  PROVE  EpochInv'
<1>0. /\ now \in Nat /\ rx.epoch \in Nat /\ tx.activeTime \in Nat
      /\ AgingTime \in Nat /\ WorstDelay \in Nat
      /\ MaxVoqWait \in Nat /\ WorstDelay + MaxVoqWait <= AgingTime
  BY VoqFacts, SuitFacts DEF TimesSuit
<1>1. UNCHANGED <<now, rx, voq, net, ctl>> /\ InFlight' = InFlight
  BY DEF AgingEventTx, rxVars, netVars, InFlight
<1>2. CASE tx' = tx
  BY <1>1, <1>2 DEF AllInv, EpochInv, Closed, EpochClear, FlushBy
<1>3. CASE tx' # tx
  <2>1. tx' = FreshTx /\ now > tx.activeTime + AgingTime
    BY <1>0, <1>3 DEF AgingEventTx, Stale
  <2>2. ~tx'.known
    BY <2>1 DEF FreshTx
  <2>3. InFlight' = {} /\ Elements(ctl') = {}
    BY <2>2, NoElements DEF SendInv, CtlInv
  <2>4. ~voq.exists
    <3>1. tx.activeTime + WorstDelay + MaxVoqWait < now
      BY <1>0, <2>1
    <3> QED
      BY <3>1, VoqFacts DEF AllInv, EpochInv
  <2> QED
    BY <1>1, <2>2, <2>3, <2>4 DEF EpochInv, FlushBy
<1> QED
  BY <1>2, <1>3

\* Fewer packets in flight, of both kinds, and the same entries keep EpochInv.
LEMMA EpochFewer ==
  ASSUME EpochInv, InFlight' \subseteq InFlight, Elements(ctl') \subseteq Elements(ctl),
         now \in Nat, now' \in {now, now + 1}, UNCHANGED <<tx, rx, voq>>, voq.flushAt \in Nat
  PROVE  EpochInv'
<1>1. /\ \A x : (Closed(x)' <=> Closed(x)) /\ (EpochClear(x)' <=> EpochClear(x))
      /\ FlushBy(now) => FlushBy(now)'
  BY DEF Closed, EpochClear, FlushBy
<1>2. \A x \in InFlight : FlushBy(x.txTime) => FlushBy(x.txTime)'
  BY DEF FlushBy
<1>3. \A r \in Elements(ctl) : FlushBy(r.sentAt + 1) => FlushBy(r.sentAt + 1)'
  BY DEF FlushBy
<1> QED
  BY <1>1, <1>2, <1>3 DEF EpochInv

\* Every handler, and the clock, keeps EpochInv.
LEMMA EpochStep ==
  TimesSuit /\ AllInv /\ SendInv' /\ CtlInv' /\ [Next]_vars => EpochInv'
<1> SUFFICES ASSUME TimesSuit, AllInv, SendInv', CtlInv', [Next]_vars
             PROVE  EpochInv'
  OBVIOUS
<1>0. /\ now \in Nat /\ voq.flushAt \in Nat /\ ctl \in Seq(CtlPkt) /\ EpochInv
      /\ rx \in RxState
  BY VoqFacts DEF AllInv, IInv, TypeOK
<1>1. CASE TxData
  BY <1>1, SendCases, EpochSend DEF AllInv
<1>2. CASE TxReply
  BY <1>2, EpochReply
<1>3. CASE TxNotify
  <2>1. /\ ctl # <<>> /\ ctl' = Tail(ctl) /\ UNCHANGED <<now, tx, rx, voq, net>>
    BY <1>3 DEF TxNotify, CtlArrived, rxVars
  <2>2. Elements(ctl') \subseteq Elements(ctl) /\ InFlight' = InFlight
    BY <1>0, <2>1, CtlPop DEF AllInv, CtlInv, InFlight
  <2> QED
    BY <1>0, <2>1, <2>2, EpochFewer
<1>4. ASSUME NEW p \in Path,
             RxPrevEpoch(p) \/ RxPhase0(p) \/ RxPhase1InOrder(p) \/ RxPhase1OutOfOrder(p)
      PROVE  EpochInv'
  BY <1>4, EpochReceive
<1>5. ASSUME NEW p \in Path, Drop(p)  PROVE EpochInv'
  <2>1. /\ net[p] # <<>> /\ net' = [net EXCEPT ![p] = Tail(net[p])]
        /\ UNCHANGED <<now, tx, rx, voq, ctl>>
    BY <1>5 DEF Drop, txVars, rxVars
  <2>2. InFlight' \subseteq InFlight
    BY <2>1, PopStep DEF AllInv
  <2> QED
    BY <1>0, <2>1, <2>2, EpochFewer
<1>6. CASE VoqFlush
  <2>1. /\ rx'.known = rx.known /\ rx'.epoch = rx.epoch /\ rx'.phase = 1
        /\ rx'.activeTime = rx.activeTime /\ ~voq'.exists
        /\ UNCHANGED <<now, tx, net, ctl>>
    BY <1>6, FlushStep DEF AllInv
  <2>2. /\ InFlight' = InFlight
        /\ \A x : (Closed(x)' <=> Closed(x)) /\ (EpochClear(x)' <=> EpochClear(x))
    BY <2>1 DEF InFlight, Closed, EpochClear
  <2> QED
    BY <1>0, <2>1, <2>2 DEF EpochInv, FlushBy
<1>7. CASE AgingEventRx
  BY <1>7, EpochAgingRx
<1>8. CASE AgingEventTx
  BY <1>8, EpochAgingTx
<1>9. CASE UNCHANGED <<tx, rx, voq, net, ctl>> /\ now' \in {now, now + 1}
  <2>1. InFlight' = InFlight /\ ctl' = ctl
    BY <1>9 DEF InFlight
  <2> QED
    BY <1>0, <1>9, <2>1, EpochFewer
<1> QED
  BY <1>1, <1>2, <1>3, <1>4, <1>5, <1>6, <1>7, <1>8, <1>9
  DEF Next, RxData, Tick, Stop, vars, txVars, rxVars, netVars

\* It holds at the start.
LEMMA EpochInit == Init => EpochInv
<1> SUFFICES ASSUME Init  PROVE EpochInv
  OBVIOUS
<1>1. /\ tx = FreshTx /\ rx = FreshRx /\ voq = NoVoq /\ ctl = <<>>
      /\ \A p \in Path : net[p] = <<>>
  BY DEF Init
<1>2. InFlight = {} /\ Elements(ctl) = {}
  BY <1>1, NoElements DEF InFlight
<1> QED
  BY <1>1, <1>2 DEF EpochInv, FlushBy, FreshTx, NoVoq

\* All of it is invariant.
LEMMA AllInvariant ==
  ASSUME TimesSuit
  PROVE  Spec => []AllInv
<1>1. Init => AllInv
  BY Initially, SendInit, CtlInit, SettleInit, PhaseInit, EpochInit DEF AllInv
<1>2. AllInv /\ [Next]_vars => AllInv'
  <2> SUFFICES ASSUME AllInv, [Next]_vars  PROVE AllInv'
    OBVIOUS
  <2>1. IInv' /\ SendInv' /\ CtlInv' /\ SettleInv' /\ PhaseInv'
    BY SuitFacts, Inductive, SendStep, CtlStep, SettleStep, PhaseStep DEF AllInv
  <2> QED
    BY <2>1, EpochStep DEF AllInv
<1> QED
  BY <1>1, <1>2, PTL DEF Spec

\* "too aggressively": the destination ToR never starts a new epoch while it still
\* holds packets of an older one, if the flowlet gap and the aging time outlast a
\* delay followed by the wait of a VOQ; whatever is lost and however often aging
\* erases an entry.
THEOREM NoEpochWhileReorderingAlways == TimesSuit /\ Spec => []NoEpochWhileReordering
<1> SUFFICES ASSUME TimesSuit  PROVE Spec => []NoEpochWhileReordering
  OBVIOUS
<1>1. AllInv => NoEpochWhileReordering
  BY NewEpochFindsNoVoq DEF NoEpochWhileReordering
<1> QED
  BY <1>1, AllInvariant, PTL

\* The assertions of RouteInput at both ToRs, and the exit(1) of its prediction of the
\* TAIL's arrival, never fail, under the same condition.  (Those of the source ToR and
\* the exit(1) need no condition; the others do: a lost INIT breaks them when a packet
\* may be in flight longer than the flowlet gap.)
THEOREM AssertionsAlways == TimesSuit /\ Spec => []AssertionsHold
<1> SUFFICES ASSUME TimesSuit  PROVE Spec => []AssertionsHold
  OBVIOUS
<1>1. AllInv => RxAssertions
  <2> SUFFICES ASSUME AllInv, NEW p \in Path, Arrived(p), ~PrevEpoch(Head(net[p]))
               PROVE  LET pkt == Head(net[p])
                          r   == RxAfter(pkt)
                      IN /\ NewEpoch(pkt) => (rx.reordering <=> voq.exists)
                         /\ pkt.phase = 0 => (rx.reordering => voq.exists)
                         /\ pkt.phase = 1 /\ ~OutOfOrder(pkt) => ~rx.reordering /\ ~voq.exists
                         /\ (pkt.phase = 1 \/ pkt.flag = "TAIL") /\ r.phase0Cache
                              => r.tailTime >= r.phase0TxTime
    BY DEF RxAssertions
  <2> DEFINE pkt == Head(net[p])
  <2>1. /\ rx.reordering = voq.exists /\ rx.epoch \in Nat /\ rx.phase \in {0, 1}
        /\ rx \in RxState /\ now \in Nat
        /\ voq.exists => rx.phase = 0
    BY VoqFacts, TimesSuit DEF AllInv, EpochInv, IInv, TypeOK
  <2>2. /\ pkt \in InFlight /\ pkt \in DataPkt /\ pkt.epoch \in Nat
        /\ pkt.phase \in {0, 1} /\ pkt.txTime \in Nat /\ pkt.tailTime \in Nat
        /\ pkt.flag # "DATA" => pkt.phase = 0
        /\ pkt.flag = "TAIL" => pkt.tailTime = pkt.txTime
    BY FlightFacts DEF Arrived, AllInv, PhaseInv
  <2>3. pkt.phase = 1 /\ ~OutOfOrder(pkt) => ~voq.exists
    BY <2>1, <2>2 DEF OutOfOrder, PhaseAfter
  <2>4. (pkt.phase = 1 \/ pkt.flag = "TAIL") /\ RxAfter(pkt).phase0Cache
          => RxAfter(pkt).tailTime >= RxAfter(pkt).phase0TxTime
    <3>1. /\ RxAfter(pkt).phase0TxTime = IF pkt.phase = 0 THEN pkt.txTime ELSE rx.phase0TxTime
          /\ RxAfter(pkt).phase0Cache => pkt.phase = 0 \/ (rx.phase0Cache /\ ~NewEpoch(pkt))
          /\ pkt.flag = "TAIL" \/ pkt.phase = 1 => RxAfter(pkt).tailTime = pkt.tailTime
      BY <2>1, <2>2 DEF RxAfter, RxState
    <3>2. CASE pkt.flag = "TAIL"
      BY <2>2, <3>1, <3>2
    <3>3. CASE pkt.phase = 1
      <4>1. ~NewEpoch(pkt) => pkt.epoch = rx.epoch
        BY <2>1, <2>2 DEF NewEpoch, PrevEpoch
      <4>2. rx.phase0TxTime \in Nat
        BY <2>1 DEF RxState
      <4>3. rx.phase0Cache /\ rx.epoch = pkt.epoch => rx.phase0TxTime <= pkt.tailTime
        BY <2>2, <3>3 DEF AllInv, PhaseInv
      <4> HIDE DEF pkt
      <4>4. /\ RxAfter(pkt).phase0TxTime = rx.phase0TxTime
            /\ RxAfter(pkt).tailTime = pkt.tailTime
            /\ RxAfter(pkt).phase0Cache => rx.phase0Cache /\ ~NewEpoch(pkt)
        BY <3>1, <3>3
      <4> QED
        BY <2>2, <4>1, <4>2, <4>3, <4>4
    <3> QED
      BY <2>2, <3>2, <3>3
  <2> QED
    BY <2>1, <2>3, <2>4
<1>2. RxAssertions /\ TxAssertions => AssertionsHold
  BY DEF AssertionsHold
<1> QED
  BY <1>1, <1>2, AllInvariant, TxAssertionsHold, PTL
=============================================================================

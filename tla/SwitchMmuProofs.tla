--------------------------- MODULE SwitchMmuProofs --------------------------
(***************************************************************************)
(* What TLAPS proves of SwitchMmu.tla for all ports, classes, sizes and    *)
(* limits: the charge of an egress queue is what it contains, headroom is  *)
(* never held by packets that have left, headroom in use keeps a class     *)
(* paused, and the switch resumes only what it has paused.                 *)
(***************************************************************************)
EXTENDS SwitchMmu, TLAPS

-----------------------------------------------------------------------------
(* Types.  That the egress counters of ports and pools do not become       *)
(* negative rests on sums over queues: SwitchMmuSumProofs proves it.       *)

IngTypes ==
  ing \in [total : Nat, sp : [Pool -> Nat], port : [Port -> Nat],
           pg : [PG -> Nat], hdrm : [PG -> Nat]]

EgrTypes ==
  egr \in [qmin : [PG -> Nat], shared : [PG -> Nat], port : [Port -> Int],
           sp : [Pool -> Int]]

PfcTypes ==
  /\ pfc \in [paused : [PG -> BOOLEAN], remote : [PG -> BOOLEAN],
              timer : [PG -> BOOLEAN]]
  /\ told \in [PG -> {"nothing", "PAUSE", "RESUME", "stray RESUME"}]

\* A queue's packets lie one behind the other.
Contiguous(s) ==
  /\ s # <<>> => s[1].ahead = 0
  /\ \A n \in 1 .. Len(s) - 1 : s[n + 1].ahead = s[n].ahead + s[n].size
  /\ \A m, n \in 1 .. Len(s) : m < n => s[m].ahead + s[m].size <= s[n].ahead

QueueInv ==
  /\ queue \in [PG -> Seq(Packet)]
  /\ \A x \in PG : Contiguous(queue[x])

\* The constants, one at a time.
LEMMA SizeNat ==
  /\ PortCnt \in Nat /\ MTU \in Nat /\ MaxBufferBytes \in Nat
  /\ IngressAlphaInv \in Nat /\ EgressAlpha \in Nat /\ AlphaOffDiff \in Nat
  /\ Size \subseteq Nat \ {0}
  /\ PgMin \in Nat /\ PortMin \in Nat /\ QMin \in Nat
  /\ BufferLimitSp \in Nat
  BY SizeAssumption, BufferAssumption DEF PgMin, PortMin, QMin

-----------------------------------------------------------------------------
(* Queues.                                                                 *)

\* A packet that joins a queue adds its size to it.
LEMMA JoinQueue ==
  ASSUME NEW s \in Seq(Packet), Contiguous(s), NEW i \in Port, NEW size \in Size
  PROVE  LET t == Append(s, [in |-> i, size |-> size, ahead |-> Bytes(s)])
         IN  /\ t \in Seq(Packet)
             /\ Contiguous(t)
             /\ Bytes(t) = Bytes(s) + size
<1> DEFINE p == [in |-> i, size |-> size, ahead |-> Bytes(s)]
           t == Append(s, p)
<1>0. \A n \in 1 .. Len(s) : s[n].ahead \in Nat /\ s[n].size \in Nat
  <2>1. \A n \in 1 .. Len(s) : s[n] \in Packet
    OBVIOUS
  <2> QED
    BY <2>1, SizeNat DEF Packet
<1>1. Bytes(s) \in Nat
  BY <1>0 DEF Bytes
<1>2. p \in Packet
  BY <1>1 DEF Packet
<1>3. /\ t \in Seq(Packet) /\ Len(t) = Len(s) + 1
      /\ t[Len(s) + 1] = p
      /\ \A n \in 1 .. Len(s) : t[n] = s[n]
  BY <1>2
<1>4. /\ \A n \in 1 .. Len(s) : s[n].ahead \in Nat /\ s[n].size \in Nat
      /\ p.ahead = Bytes(s) /\ p.size = size /\ size \in Nat
  BY <1>0, SizeNat
<1> HIDE DEF p, t
<1>5. Bytes(t) = Bytes(s) + size
  BY <1>3, <1>4 DEF Bytes
<1>6. t # <<>> => t[1].ahead = 0
  BY <1>3, <1>4 DEF Contiguous, Bytes
<1>7. ASSUME NEW n \in 1 .. Len(t) - 1
      PROVE  t[n + 1].ahead = t[n].ahead + t[n].size
  <2>1. CASE n = Len(s)
    BY <2>1, <1>3, <1>4 DEF Bytes
  <2>2. CASE n < Len(s)
    BY <2>2, <1>3 DEF Contiguous
  <2> QED
    BY <2>1, <2>2, <1>3
<1>8. ASSUME NEW m \in 1 .. Len(t), NEW n \in 1 .. Len(t), m < n
      PROVE  t[m].ahead + t[m].size <= t[n].ahead
  <2>1. m \in 1 .. Len(s) /\ t[m] = s[m]
    BY <1>8, <1>3
  <2>2. CASE n = Len(s) + 1
    <3>1. t[n].ahead = s[Len(s)].ahead + s[Len(s)].size
      BY <2>1, <2>2, <1>3, <1>4 DEF Bytes
    <3>2. Len(s) \in 1 .. Len(s)
      BY <2>1
    <3>3. CASE m = Len(s)
      BY <3>1, <3>3, <2>1, <1>4
    <3>4. CASE m < Len(s)
      <4>1. s[m].ahead + s[m].size <= s[Len(s)].ahead
        BY <3>2, <3>4, <2>1 DEF Contiguous
      <4>2. s[Len(s)].ahead \in Nat /\ s[Len(s)].size \in Nat
        BY <3>2, <1>4
      <4> QED
        BY <4>1, <4>2, <3>1, <2>1, <1>4
    <3> QED
      BY <3>3, <3>4, <2>1
  <2>3. CASE n <= Len(s)
    <3>1. n \in 1 .. Len(s) /\ t[n] = s[n]
      BY <2>3, <1>3
    <3> QED
      BY <3>1, <2>1, <1>8 DEF Contiguous
  <2> QED
    BY <2>2, <2>3, <1>3
<1>9. Contiguous(t)
  BY <1>6, <1>7, <1>8 DEF Contiguous
<1> QED
  BY <1>3, <1>5, <1>9 DEF p, t

\* The packet that leaves a queue takes its size from it.
LEMMA LeaveQueue ==
  ASSUME NEW s \in Seq(Packet), Contiguous(s), s # <<>>
  PROVE  /\ Head(s) \in Packet
         /\ Head(s).size <= Bytes(s)
         /\ Rest(s) \in Seq(Packet)
         /\ Contiguous(Rest(s))
         /\ Bytes(Rest(s)) = Bytes(s) - Head(s).size
<1> DEFINE h == Head(s)
           t == Rest(s)
<1>1. /\ h = s[1] /\ Len(s) \in Nat \ {0}
      /\ \A n \in 1 .. Len(s) : s[n] \in Packet
  OBVIOUS
<1>2. \A n \in 1 .. Len(s) : /\ s[n].ahead \in Nat /\ s[n].size \in Nat
                             /\ s[n].in \in Port /\ s[n].size \in Size
  BY <1>1, SizeNat DEF Packet
<1>3. h.size \in Nat /\ \A n \in 2 .. Len(s) : h.size <= s[n].ahead
  <2>1. ASSUME NEW n \in 2 .. Len(s)
        PROVE  h.size <= s[n].ahead
    <3>1. 1 \in 1 .. Len(s) /\ n \in 1 .. Len(s) /\ 1 < n
      BY <1>1
    <3>2. s[1].ahead + s[1].size <= s[n].ahead
      BY <3>1 DEF Contiguous
    <3> QED
      BY <3>1, <3>2, <1>1, <1>2
  <2> QED
    BY <2>1, <1>1, <1>2
<1>4. ASSUME NEW n \in 1 .. Len(s) - 1
      PROVE  /\ s[n + 1].ahead >= h.size
             /\ t[n].ahead = s[n + 1].ahead - h.size
             /\ t[n].size = s[n + 1].size
             /\ t[n] \in Packet
  <2>1. n + 1 \in 1 .. Len(s) /\ n + 1 \in 2 .. Len(s)
    BY <1>1
  <2>2. t[n] = [s[n + 1] EXCEPT !.ahead = @ - h.size]
    BY DEF Rest
  <2>3. s[n + 1].ahead - h.size \in Nat
    BY <2>1, <1>2, <1>3
  <2> QED
    BY <2>1, <2>2, <2>3, <1>1, <1>3 DEF Packet
<1>5. t \in Seq(Packet) /\ Len(t) = Len(s) - 1
  BY <1>1, <1>4 DEF Rest
<1> HIDE DEF h, t
<1>6. t # <<>> => t[1].ahead = 0
  <2> SUFFICES ASSUME t # <<>>  PROVE t[1].ahead = 0
    OBVIOUS
  <2>1. 1 \in 1 .. Len(s) - 1
    BY <1>1, <1>5
  <2>2. s[2].ahead = s[1].ahead + s[1].size /\ s[1].ahead = 0
    BY <2>1 DEF Contiguous
  <2>3. t[1].ahead = s[2].ahead - h.size
    BY <2>1, <1>4
  <2>4. s[1].size \in Nat
    BY <1>1, <1>2
  <2> QED
    BY <2>2, <2>3, <2>4, <1>1
<1>7. ASSUME NEW n \in 1 .. Len(t) - 1
      PROVE  t[n + 1].ahead = t[n].ahead + t[n].size
  <2>1. n \in 1 .. Len(s) - 1 /\ n + 1 \in 1 .. Len(s) - 1
    BY <1>5, <1>1
  <2>2. s[n + 2].ahead = s[n + 1].ahead + s[n + 1].size
    BY <2>1 DEF Contiguous
  <2>3. /\ t[n].ahead = s[n + 1].ahead - h.size /\ t[n].size = s[n + 1].size
        /\ t[n + 1].ahead = s[n + 2].ahead - h.size
    BY <2>1, <1>4
  <2>4. /\ s[n + 1].ahead \in Nat /\ s[n + 1].size \in Nat
        /\ s[n + 2].ahead \in Nat
    BY <2>1, <1>1, <1>2
  <2> QED
    BY <2>2, <2>3, <2>4, <1>3
<1>8. ASSUME NEW m \in 1 .. Len(t), NEW n \in 1 .. Len(t), m < n
      PROVE  t[m].ahead + t[m].size <= t[n].ahead
  <2>1. /\ m \in 1 .. Len(s) - 1 /\ n \in 1 .. Len(s) - 1
        /\ m + 1 \in 1 .. Len(s) /\ n + 1 \in 1 .. Len(s)
    BY <1>5, <1>1
  <2>2. s[m + 1].ahead + s[m + 1].size <= s[n + 1].ahead
    BY <2>1, <1>8 DEF Contiguous
  <2>3. /\ t[m].ahead = s[m + 1].ahead - h.size /\ t[m].size = s[m + 1].size
        /\ t[n].ahead = s[n + 1].ahead - h.size
    BY <2>1, <1>4
  <2>4. /\ s[m + 1].ahead \in Nat /\ s[m + 1].size \in Nat
        /\ s[n + 1].ahead \in Nat
    BY <2>1, <1>2
  <2> HIDE DEF h
  <2>5. h.size \in Nat
    BY <1>3
  <2>6. (s[m + 1].ahead - h.size) + s[m + 1].size <= s[n + 1].ahead - h.size
    BY <2>2, <2>4, <2>5, SMTT(30)
  <2> QED
    BY <2>3, <2>6
<1>9. Bytes(t) = Bytes(s) - h.size /\ h.size <= Bytes(s)
  <2>1. CASE Len(s) = 1
    BY <2>1, <1>1, <1>2, <1>5 DEF Bytes, Contiguous
  <2>2. CASE Len(s) > 1
    <3>1. Len(s) - 1 \in 1 .. Len(s) - 1 /\ Len(s) \in 2 .. Len(s)
      BY <2>2, <1>1
    <3>2. /\ t[Len(t)].ahead = s[Len(s)].ahead - h.size
          /\ t[Len(t)].size = s[Len(s)].size
      BY <3>1, <1>1, <1>4, <1>5
    <3>3. /\ s[Len(s)].ahead \in Nat /\ s[Len(s)].size \in Nat
          /\ h.size <= s[Len(s)].ahead
      BY <3>1, <1>2, <1>3
    <3>4. Bytes(s) = s[Len(s)].ahead + s[Len(s)].size
      BY DEF Bytes
    <3>5. Bytes(t) = t[Len(t)].ahead + t[Len(t)].size
      BY <2>2, <1>1, <1>5 DEF Bytes
    <3> QED
      BY <3>2, <3>3, <3>4, <3>5, <1>3
  <2>3. Len(s) = 1 \/ Len(s) > 1
    BY <1>1
  <2> QED
    BY <2>1, <2>2, <2>3
<1>10. h \in Packet
  BY <1>1
<1>11. Contiguous(t)
  BY <1>6, <1>7, <1>8 DEF Contiguous
<1> QED
  BY <1>5, <1>9, <1>10, <1>11 DEF h, t

-----------------------------------------------------------------------------
(* Egress queues.                                                          *)

EgressInv == EgrTypes /\ QueueInv /\ EgressQueueCharged

\* An admitted packet is charged its size, the guarantee first.
LEMMA ChargeQueue ==
  ASSUME EgressInv, NEW o \in Port, NEW q \in Class, NEW size \in Size
  PROVE  LET e == UpdateEgressAdmission(o, q, size)
         IN  /\ e \in [qmin : [PG -> Nat], shared : [PG -> Nat],
                       port : [Port -> Int], sp : [Pool -> Int]]
             /\ \A x \in PG :
                  /\ e.qmin[x] + e.shared[x] =
                       egr.qmin[x] + egr.shared[x]
                         + (IF x = <<o, q>> THEN size ELSE 0)
                  /\ e.shared[x] > 0 => e.qmin[x] = QMin
                  /\ e.qmin[x] <= QMin
<1> DEFINE y == <<o, q>>
           e == UpdateEgressAdmission(o, q, size)
           m == IF egr.qmin[y] + size < QMin THEN egr.qmin[y] + size ELSE QMin
<1>1. y \in PG /\ size \in Nat /\ QMin \in Nat /\ GetEgressSP(q) \in Pool
  BY SizeNat DEF PG, GetEgressSP, Pool
<1>2. /\ egr.qmin \in [PG -> Nat] /\ egr.shared \in [PG -> Nat]
      /\ egr.port \in [Port -> Int] /\ egr.sp \in [Pool -> Int]
  BY DEF EgressInv, EgrTypes
<1>3. /\ \A x \in PG : egr.shared[x] > 0 => egr.qmin[x] = QMin
      /\ \A x \in PG : egr.qmin[x] <= QMin
  BY DEF EgressInv, EgressQueueCharged
<1>4. /\ e.qmin = [egr.qmin EXCEPT ![y] = m]
      /\ e.shared = [egr.shared EXCEPT ![y] = egr.shared[y] + EgressSpill(o, q, size)]
      /\ e.port = [egr.port EXCEPT ![o] = egr.port[o] + size]
      /\ e.sp = [egr.sp EXCEPT ![GetEgressSP(q)] =
                   egr.sp[GetEgressSP(q)] + EgressSpill(o, q, size)]
      /\ e = [qmin |-> e.qmin, shared |-> e.shared, port |-> e.port, sp |-> e.sp]
  BY <1>1, <1>2 DEF UpdateEgressAdmission
<1>5. /\ m \in Nat /\ m <= QMin /\ EgressSpill(o, q, size) \in Nat
      /\ m + EgressSpill(o, q, size) = egr.qmin[y] + size
      /\ egr.shared[y] + EgressSpill(o, q, size) > 0 => m = QMin
  <2>1. egr.qmin[y] \in Nat /\ egr.shared[y] \in Nat
    BY <1>1, <1>2
  <2>2. egr.qmin[y] <= QMin /\ (egr.shared[y] > 0 => egr.qmin[y] = QMin)
    BY <1>1, <1>3
  <2> QED
    BY <2>1, <2>2, <1>1 DEF EgressSpill
<1> HIDE DEF e, m, y
<1>6. e \in [qmin : [PG -> Nat], shared : [PG -> Nat],
             port : [Port -> Int], sp : [Pool -> Int]]
  <2>1. e.qmin \in [PG -> Nat]
    BY <1>1, <1>2, <1>4, <1>5
  <2>2. e.shared \in [PG -> Nat]
    BY <1>1, <1>2, <1>4, <1>5
  <2>3. e.port \in [Port -> Int]
    BY <1>1, <1>2, <1>4
  <2>4. e.sp \in [Pool -> Int]
    BY <1>1, <1>2, <1>4, <1>5
  <2> QED
    BY <2>1, <2>2, <2>3, <2>4, <1>4
<1>7. ASSUME NEW x \in PG
      PROVE  /\ e.qmin[x] + e.shared[x] =
                  egr.qmin[x] + egr.shared[x] + (IF x = y THEN size ELSE 0)
             /\ e.shared[x] > 0 => e.qmin[x] = QMin
             /\ e.qmin[x] <= QMin
  <2>1. egr.qmin[x] \in Nat /\ egr.shared[x] \in Nat
    BY <1>2
  <2>2. CASE x = y
    BY <2>1, <2>2, <1>1, <1>2, <1>4, <1>5
  <2>3. CASE x # y
    BY <2>1, <2>3, <1>2, <1>3, <1>4
  <2> QED
    BY <2>2, <2>3
<1> QED
  BY <1>6, <1>7 DEF e, y

\* A leaving packet is given back its size, the shared part first.
LEMMA DischargeQueue ==
  ASSUME EgressInv, NEW o \in Port, NEW q \in Class, NEW size \in Nat,
         size <= Bytes(queue[<<o, q>>])
  PROVE  LET e == RemoveFromEgressAdmission(o, q, size)
         IN  /\ e \in [qmin : [PG -> Nat], shared : [PG -> Nat],
                       port : [Port -> Int], sp : [Pool -> Int]]
             /\ \A x \in PG :
                  /\ e.qmin[x] + e.shared[x] =
                       egr.qmin[x] + egr.shared[x]
                         - (IF x = <<o, q>> THEN size ELSE 0)
                  /\ e.shared[x] > 0 => e.qmin[x] = QMin
                  /\ e.qmin[x] <= QMin
<1> DEFINE y == <<o, q>>
           e == RemoveFromEgressAdmission(o, q, size)
           s == EgressFromShared(o, q, size)
<1>1. y \in PG /\ QMin \in Nat /\ GetEgressSP(q) \in Pool
  BY SizeNat DEF PG, GetEgressSP, Pool
<1>2. /\ egr.qmin \in [PG -> Nat] /\ egr.shared \in [PG -> Nat]
      /\ egr.port \in [Port -> Int] /\ egr.sp \in [Pool -> Int]
  BY DEF EgressInv, EgrTypes
<1>3. /\ \A x \in PG : egr.shared[x] > 0 => egr.qmin[x] = QMin
      /\ \A x \in PG : egr.qmin[x] <= QMin
  BY DEF EgressInv, EgressQueueCharged
<1>4. /\ e.qmin = [egr.qmin EXCEPT ![y] = egr.qmin[y] - (size - s)]
      /\ e.shared = [egr.shared EXCEPT ![y] = egr.shared[y] - s]
      /\ e.port = [egr.port EXCEPT ![o] = egr.port[o] - size]
      /\ e.sp = [egr.sp EXCEPT ![GetEgressSP(q)] = egr.sp[GetEgressSP(q)] - s]
      /\ e = [qmin |-> e.qmin, shared |-> e.shared, port |-> e.port, sp |-> e.sp]
  BY <1>1, <1>2 DEF RemoveFromEgressAdmission
<1>5. /\ s \in Nat /\ s <= size /\ s <= egr.shared[y]
      /\ size - s <= egr.qmin[y]
      /\ egr.shared[y] - s > 0 => size = s /\ egr.qmin[y] = QMin
  <2>1. egr.qmin[y] \in Nat /\ egr.shared[y] \in Nat
    BY <1>1, <1>2
  <2>2. egr.qmin[y] <= QMin /\ (egr.shared[y] > 0 => egr.qmin[y] = QMin)
    BY <1>1, <1>3
  <2>3. size <= egr.qmin[y] + egr.shared[y]
    BY <1>1 DEF EgressInv, EgressQueueCharged
  <2>4. CASE egr.qmin[y] < QMin
    <3>1. s = 0
      BY <2>4, <2>1, <1>1 DEF EgressFromShared
    <3>2. egr.shared[y] = 0
      BY <2>1, <2>2, <2>4, <1>1
    <3> HIDE DEF s, y
    <3> QED
      BY <3>1, <3>2, <2>1, <2>3
  <2>5. CASE egr.qmin[y] = QMin /\ egr.shared[y] < size
    <3>1. s = egr.shared[y]
      BY <2>5, <1>1 DEF EgressFromShared
    <3> HIDE DEF s, y
    <3> QED
      BY <3>1, <2>1, <2>3, <2>5
  <2>6. CASE egr.qmin[y] = QMin /\ ~(egr.shared[y] < size)
    <3>1. s = size
      BY <2>6, <1>1 DEF EgressFromShared
    <3> HIDE DEF s, y
    <3> QED
      BY <3>1, <2>1, <2>6
  <2> QED
    BY <2>1, <2>2, <2>4, <2>5, <2>6, <1>1
<1> HIDE DEF e, s, y
<1>6. e \in [qmin : [PG -> Nat], shared : [PG -> Nat],
             port : [Port -> Int], sp : [Pool -> Int]]
  <2>0. egr.qmin[y] \in Nat /\ egr.shared[y] \in Nat
    BY <1>1, <1>2
  <2>1. e.qmin \in [PG -> Nat]
    <3>1. egr.qmin[y] - (size - s) \in Nat
      BY <2>0, <1>5
    <3> QED
      BY <3>1, <1>1, <1>2, <1>4
  <2>2. e.shared \in [PG -> Nat]
    <3>1. egr.shared[y] - s \in Nat
      BY <2>0, <1>5
    <3> QED
      BY <3>1, <1>1, <1>2, <1>4
  <2>3. e.port \in [Port -> Int]
    BY <1>1, <1>2, <1>4
  <2>4. e.sp \in [Pool -> Int]
    BY <1>1, <1>2, <1>4, <1>5
  <2> QED
    BY <2>1, <2>2, <2>3, <2>4, <1>4
<1>7. ASSUME NEW x \in PG
      PROVE  /\ e.qmin[x] + e.shared[x] =
                  egr.qmin[x] + egr.shared[x] - (IF x = y THEN size ELSE 0)
             /\ e.shared[x] > 0 => e.qmin[x] = QMin
             /\ e.qmin[x] <= QMin
  <2>1. egr.qmin[x] \in Nat /\ egr.shared[x] \in Nat /\ egr.qmin[x] <= QMin
    BY <1>2, <1>3
  <2>2. CASE x = y
    <3>1. /\ e.qmin[x] = egr.qmin[x] - (size - s)
          /\ e.shared[x] = egr.shared[x] - s
      BY <2>2, <1>2, <1>4
    <3> QED
      BY <3>1, <2>1, <2>2, <1>1, <1>5
  <2>3. CASE x # y
    BY <2>1, <2>3, <1>2, <1>3, <1>4
  <2> QED
    BY <2>2, <2>3
<1> QED
  BY <1>6, <1>7 DEF e, y

\* The egress counters and the queues, from the start and by every step.
LEMMA EgressInvInit == Init => EgressInv
<1> SUFFICES ASSUME Init  PROVE EgressInv
  OBVIOUS
<1>1. EgrTypes
  BY DEF Init, EgrTypes
<1>2. \A x \in PG : queue[x] = <<>> /\ egr.qmin[x] = 0 /\ egr.shared[x] = 0
  BY DEF Init
<1>3. QueueInv
  <2>1. <<>> \in Seq(Packet) /\ Contiguous(<<>>)
    BY DEF Contiguous
  <2>2. queue = [x \in PG |-> <<>>]
    BY DEF Init
  <2> QED
    BY <2>1, <2>2 DEF QueueInv
<1>4. EgressQueueCharged
  BY <1>2, SizeNat DEF EgressQueueCharged, Bytes
<1> QED
  BY <1>1, <1>3, <1>4 DEF EgressInv

\* Every step keeps the charge of the egress queues.
LEMMA EgressInvStep == EgressInv /\ [Next]_vars => EgressInv'
<1> SUFFICES ASSUME EgressInv, [Next]_vars  PROVE EgressInv'
  OBVIOUS
<1>0. EgrTypes /\ QueueInv /\ EgressQueueCharged
  BY DEF EgressInv
<1>1. ASSUME NEW i \in Port, NEW o \in Port, NEW q \in Class, NEW size \in Size,
             SwitchSend(i, o, q, size)
      PROVE  EgressInv'
  <2> DEFINE y == <<o, q>>
             t == Append(queue[y], [in |-> i, size |-> size, ahead |-> Bytes(queue[y])])
  <2>1. y \in PG /\ queue' = [queue EXCEPT ![y] = t]
    BY <1>1 DEF SwitchSend, PG
  <2>2. t \in Seq(Packet) /\ Contiguous(t) /\ Bytes(t) = Bytes(queue[y]) + size
    BY <2>1, <1>0, JoinQueue DEF QueueInv
  <2>3. /\ egr' \in [qmin : [PG -> Nat], shared : [PG -> Nat],
                     port : [Port -> Int], sp : [Pool -> Int]]
        /\ \A x \in PG :
             /\ egr'.qmin[x] + egr'.shared[x] =
                  egr.qmin[x] + egr.shared[x] + (IF x = y THEN size ELSE 0)
             /\ egr'.shared[x] > 0 => egr'.qmin[x] = QMin
             /\ egr'.qmin[x] <= QMin
    BY <1>1, ChargeQueue DEF SwitchSend
  <2> HIDE DEF y, t
  <2>4. \A x \in PG : queue'[x] = IF x = y THEN t ELSE queue[x]
    BY <2>1, <1>0 DEF QueueInv
  <2>5. QueueInv'
    <3>1. queue' \in [PG -> Seq(Packet)]
      BY <2>1, <2>2, <1>0 DEF QueueInv
    <3>2. \A x \in PG : Contiguous(queue'[x])
      BY <2>2, <2>4, <1>0 DEF QueueInv
    <3> QED
      BY <3>1, <3>2 DEF QueueInv
  <2>6. EgressQueueCharged'
    <3> SUFFICES ASSUME NEW x \in PG
                 PROVE  egr'.qmin[x] + egr'.shared[x] = Bytes(queue'[x])
      BY <2>3 DEF EgressQueueCharged
    <3>1. egr.qmin[x] + egr.shared[x] = Bytes(queue[x])
      BY <1>0 DEF EgressQueueCharged
    <3>2. egr.qmin[x] \in Nat /\ egr.shared[x] \in Nat /\ size \in Nat
      BY <1>0, SizeNat DEF EgrTypes
    <3>3. CASE x = y
      BY <3>1, <3>2, <3>3, <2>2, <2>3, <2>4
    <3>4. CASE x # y
      BY <3>1, <3>2, <3>4, <2>3, <2>4
    <3> QED
      BY <3>3, <3>4
  <2> QED
    BY <2>3, <2>5, <2>6 DEF EgressInv, EgrTypes
<1>2. ASSUME NEW o \in Port, NEW q \in Class, SwitchNotifyDequeue(o, q)
      PROVE  EgressInv'
  <2> DEFINE y == <<o, q>>
             h == Head(queue[y])
             t == Rest(queue[y])
  <2>1. /\ y \in PG /\ queue[y] # <<>>
        /\ queue' = [queue EXCEPT ![y] = t]
        /\ egr' = RemoveFromEgressAdmission(o, q, h.size)
    BY <1>2 DEF SwitchNotifyDequeue, PG
  <2>2. /\ h \in Packet /\ h.size <= Bytes(queue[y])
        /\ t \in Seq(Packet) /\ Contiguous(t)
        /\ Bytes(t) = Bytes(queue[y]) - h.size
    BY <2>1, <1>0, LeaveQueue DEF QueueInv
  <2>3. h.size \in Nat
    BY <2>2, SizeNat DEF Packet
  <2>4. /\ egr' \in [qmin : [PG -> Nat], shared : [PG -> Nat],
                     port : [Port -> Int], sp : [Pool -> Int]]
        /\ \A x \in PG :
             /\ egr'.qmin[x] + egr'.shared[x] =
                  egr.qmin[x] + egr.shared[x] - (IF x = y THEN h.size ELSE 0)
             /\ egr'.shared[x] > 0 => egr'.qmin[x] = QMin
             /\ egr'.qmin[x] <= QMin
    BY <2>1, <2>2, <2>3, DischargeQueue, ZenonT(40)
  <2> HIDE DEF y, h, t
  <2>5. \A x \in PG : queue'[x] = IF x = y THEN t ELSE queue[x]
    <3>1. queue \in [PG -> Seq(Packet)]
      BY <1>0 DEF QueueInv
    <3> QED
      BY <2>1, <3>1
  <2>6. QueueInv'
    <3>1. queue' \in [PG -> Seq(Packet)]
      BY <2>1, <2>2, <1>0 DEF QueueInv
    <3>2. \A x \in PG : Contiguous(queue'[x])
      BY <2>2, <2>5, <1>0 DEF QueueInv
    <3> QED
      BY <3>1, <3>2 DEF QueueInv
  <2>7. EgressQueueCharged'
    <3> SUFFICES ASSUME NEW x \in PG
                 PROVE  egr'.qmin[x] + egr'.shared[x] = Bytes(queue'[x])
      BY <2>4 DEF EgressQueueCharged
    <3>1. egr.qmin[x] + egr.shared[x] = Bytes(queue[x])
      BY <1>0 DEF EgressQueueCharged
    <3>2. egr.qmin[x] \in Nat /\ egr.shared[x] \in Nat
      BY <1>0 DEF EgrTypes
    <3>3. CASE x = y
      <4>1. Bytes(queue'[x]) = Bytes(queue[x]) - h.size
        BY <3>3, <2>2, <2>5
      <4>2. egr'.qmin[x] + egr'.shared[x] = egr.qmin[x] + egr.shared[x] - h.size
        <5>1. y \in PG /\ x = y
          BY <2>1, <3>3
        <5> QED
          BY <5>1, <2>4, SMTT(30)
      <4> QED
        BY <4>1, <4>2, <3>1, <3>2, <2>3, SMTT(30)
    <3>4. CASE x # y
      BY <3>1, <3>2, <3>4, <2>4, <2>5
    <3> QED
      BY <3>3, <3>4
  <2> QED
    BY <2>4, <2>6, <2>7 DEF EgressInv, EgrTypes
<1>3. CASE UNCHANGED <<egr, queue>>
  BY <1>0, <1>3 DEF EgressInv, EgrTypes, QueueInv, EgressQueueCharged
<1>4. ASSUME NEW i \in Port, NEW o \in Port, NEW q \in Class, NEW size \in Size,
             DropAtIngress(i, o, q, size) \/ DropAtEgress(i, o, q, size)
      PROVE  UNCHANGED <<egr, queue>>
  BY <1>4 DEF DropAtIngress, DropAtEgress
<1>5. ASSUME NEW i \in Port, NEW q \in Class, SetResume(i, q)
      PROVE  UNCHANGED <<egr, queue>>
  BY <1>5 DEF SetResume
<1>6. CASE UNCHANGED vars
  BY <1>3, <1>6 DEF vars
<1> QED
  BY <1>1, <1>2, <1>3, <1>4, <1>5, <1>6 DEF Next

\* The charge of every egress queue is what the queue contains, its guarantee is
\* used first and freed last: UpdateEgressAdmission and RemoveFromEgressAdmission
\* undo each other for any sizes and any guarantee.
THEOREM EgressQueueChargedAlways == Spec => []EgressQueueCharged
<1>1. EgressInv => EgressQueueCharged
  BY DEF EgressInv
<1> QED
  BY <1>1, EgressInvInit, EgressInvStep, PTL DEF Spec

-----------------------------------------------------------------------------
(* Headroom.                                                               *)

HeadroomInv == IngTypes /\ HeadroomWithinClass

\* What admission and removal do to the counters of a class, and to their types.
LEMMA ChargeIngress ==
  ASSUME IngTypes, NEW i \in Port, NEW q \in Class, NEW size \in Size
  PROVE  LET c == UpdateIngressAdmission(i, q, size)
         IN  /\ c \in [total : Nat, sp : [Pool -> Nat], port : [Port -> Nat],
                       pg : [PG -> Nat], hdrm : [PG -> Nat]]
             /\ \A x \in PG \ {<<i, q>>} :
                  c.pg[x] = ing.pg[x] /\ c.hdrm[x] = ing.hdrm[x]
             /\ c.pg[<<i, q>>] = ing.pg[<<i, q>>] + size
             /\ c.hdrm[<<i, q>>] \in {ing.hdrm[<<i, q>>], ing.hdrm[<<i, q>>] + size}
<1> DEFINE y == <<i, q>>
           c == UpdateIngressAdmission(i, q, size)
           over == ing.sp[GetIngressSP(q)] + size > BufferLimitSp
           g == IF over THEN ing.hdrm[y] + size ELSE ing.hdrm[y]
<1>1. y \in PG /\ size \in Nat /\ GetIngressSP(q) \in Pool
  BY SizeNat DEF PG, GetIngressSP, Pool
<1>2. /\ ing.total \in Nat /\ ing.sp \in [Pool -> Nat]
      /\ ing.port \in [Port -> Nat]
      /\ ing.pg \in [PG -> Nat] /\ ing.hdrm \in [PG -> Nat]
  BY DEF IngTypes
<1>3. c = [total |-> ing.total + size,
           sp    |-> [ing.sp EXCEPT ![GetIngressSP(q)] =
                        ing.sp[GetIngressSP(q)] + size],
           port  |-> [ing.port EXCEPT ![i] = ing.port[i] + size],
           pg    |-> [ing.pg EXCEPT ![y] = ing.pg[y] + size],
           hdrm  |-> [ing.hdrm EXCEPT ![y] = g]]
  BY <1>1, <1>2 DEF UpdateIngressAdmission
<1>4. g \in Nat /\ g \in {ing.hdrm[y], ing.hdrm[y] + size}
  BY <1>1, <1>2
<1> HIDE DEF c, g, y, over
<1> QED
  BY <1>1, <1>2, <1>3, <1>4 DEF c, y

\* A removal at ingress takes the packet's size from its own class only.
LEMMA DischargeIngress ==
  ASSUME IngTypes, NEW i \in Port, NEW q \in Class, NEW size \in Nat
  PROVE  LET c == RemoveFromIngressAdmission(i, q, size)
         IN  /\ c \in [total : Nat, sp : [Pool -> Nat], port : [Port -> Nat],
                       pg : [PG -> Nat], hdrm : [PG -> Nat]]
             /\ \A x \in PG \ {<<i, q>>} :
                  c.pg[x] = ing.pg[x] /\ c.hdrm[x] = ing.hdrm[x]
             /\ c.pg[<<i, q>>] = Less(ing.pg[<<i, q>>], size)
             /\ c.hdrm[<<i, q>>] = Less(ing.hdrm[<<i, q>>], size)
<1> DEFINE y == <<i, q>>
           c == RemoveFromIngressAdmission(i, q, size)
<1>1. y \in PG /\ GetIngressSP(q) \in Pool
  BY DEF PG, GetIngressSP, Pool
<1>2. /\ ing.total \in Nat /\ ing.sp \in [Pool -> Nat]
      /\ ing.port \in [Port -> Nat]
      /\ ing.pg \in [PG -> Nat] /\ ing.hdrm \in [PG -> Nat]
  BY DEF IngTypes
<1>3. c = [total |-> Less(ing.total, size),
           sp    |-> [ing.sp EXCEPT ![GetIngressSP(q)] =
                        Less(ing.sp[GetIngressSP(q)], size)],
           port  |-> [ing.port EXCEPT ![i] = Less(ing.port[i], size)],
           pg    |-> [ing.pg EXCEPT ![y] = Less(ing.pg[y], size)],
           hdrm  |-> [ing.hdrm EXCEPT ![y] = Less(ing.hdrm[y], size)]]
  BY <1>1, <1>2 DEF RemoveFromIngressAdmission, HdrmAfterRemove
<1>4. \A a \in Nat : Less(a, size) \in Nat
  BY DEF Less
<1> HIDE DEF c, y
<1> QED
  BY <1>1, <1>2, <1>3, <1>4 DEF c, y

\* The headroom of a class stays within its packets, from the start and by every step.
LEMMA HeadroomInvInit == Init => HeadroomInv
  BY DEF Init, HeadroomInv, IngTypes, HeadroomWithinClass

\* So far the queues hold packets of the ports and sizes of the model.
LEMMA HeadroomInvStep ==
  QueueInv /\ HeadroomInv /\ [Next]_vars => HeadroomInv'
<1> SUFFICES ASSUME QueueInv, HeadroomInv, [Next]_vars  PROVE HeadroomInv'
  OBVIOUS
<1>0. IngTypes /\ \A x \in PG : /\ ing.hdrm[x] <= ing.pg[x]
                                /\ ing.hdrm[x] \in Nat /\ ing.pg[x] \in Nat
  BY DEF HeadroomInv, IngTypes, HeadroomWithinClass
<1>1. ASSUME NEW i \in Port, NEW o \in Port, NEW q \in Class, NEW size \in Size,
             SwitchSend(i, o, q, size)
      PROVE  HeadroomInv'
  <2> DEFINE y == <<i, q>>
  <2>1. y \in PG /\ size \in Nat /\ ing' = UpdateIngressAdmission(i, q, size)
    BY <1>1, SizeNat DEF SwitchSend, PG
  <2>2. /\ IngTypes'
        /\ \A x \in PG \ {y} : ing'.pg[x] = ing.pg[x] /\ ing'.hdrm[x] = ing.hdrm[x]
        /\ ing'.pg[y] = ing.pg[y] + size
        /\ ing'.hdrm[y] \in {ing.hdrm[y], ing.hdrm[y] + size}
    BY <2>1, <1>0, ChargeIngress DEF IngTypes
  <2> HIDE DEF y
  <2>3. HeadroomWithinClass'
    <3> SUFFICES ASSUME NEW x \in PG  PROVE ing'.hdrm[x] <= ing'.pg[x]
      BY DEF HeadroomWithinClass
    <3> QED
      BY <2>1, <2>2, <1>0
  <2> QED
    BY <2>2, <2>3 DEF HeadroomInv
<1>2. ASSUME NEW o \in Port, NEW q \in Class, SwitchNotifyDequeue(o, q)
      PROVE  HeadroomInv'
  <2> DEFINE h == Head(queue[<<o, q>>])
             y == <<h.in, q>>
  <2>1. /\ queue[<<o, q>>] # <<>> /\ <<o, q>> \in PG
        /\ ing' = RemoveFromIngressAdmission(h.in, q, h.size)
    BY <1>2 DEF SwitchNotifyDequeue, PG
  <2>2. h \in Packet
    BY <2>1 DEF QueueInv
  <2>3. h.in \in Port /\ h.size \in Nat /\ y \in PG
    BY <2>2, SizeNat DEF Packet, PG
  <2>4. /\ IngTypes'
        /\ \A x \in PG \ {y} : ing'.pg[x] = ing.pg[x] /\ ing'.hdrm[x] = ing.hdrm[x]
        /\ ing'.pg[y] = Less(ing.pg[y], h.size)
        /\ ing'.hdrm[y] = Less(ing.hdrm[y], h.size)
    <3> HIDE DEF h
    <3> DEFINE c == RemoveFromIngressAdmission(h.in, q, h.size)
    <3>1. /\ c \in [total : Nat, sp : [Pool -> Nat], port : [Port -> Nat],
                    pg : [PG -> Nat], hdrm : [PG -> Nat]]
          /\ \A x \in PG \ {y} : c.pg[x] = ing.pg[x] /\ c.hdrm[x] = ing.hdrm[x]
          /\ c.pg[y] = Less(ing.pg[y], h.size)
          /\ c.hdrm[y] = Less(ing.hdrm[y], h.size)
      BY <2>3, <1>0, DischargeIngress, ZenonT(40)
    <3> HIDE DEF c, y
    <3> QED
      BY <3>1, <2>1 DEF IngTypes, c
  <2> HIDE DEF y, h
  <2>5. HeadroomWithinClass'
    <3> SUFFICES ASSUME NEW x \in PG  PROVE ing'.hdrm[x] <= ing'.pg[x]
      BY DEF HeadroomWithinClass
    <3>1. CASE x = y
      BY <3>1, <2>3, <2>4, <1>0 DEF Less
    <3>2. CASE x # y
      BY <3>2, <2>4, <1>0
    <3> QED
      BY <3>1, <3>2
  <2> QED
    BY <2>4, <2>5 DEF HeadroomInv
<1>3. CASE UNCHANGED ing
  BY <1>3 DEF HeadroomInv, IngTypes, HeadroomWithinClass
<1>4. ASSUME NEW i \in Port, NEW o \in Port, NEW q \in Class, NEW size \in Size,
             DropAtIngress(i, o, q, size) \/ DropAtEgress(i, o, q, size)
      PROVE  UNCHANGED ing
  BY <1>4 DEF DropAtIngress, DropAtEgress
<1>5. ASSUME NEW i \in Port, NEW q \in Class, SetResume(i, q)
      PROVE  UNCHANGED ing
  BY <1>5 DEF SetResume
<1>6. CASE UNCHANGED vars
  BY <1>3, <1>6 DEF vars
<1> QED
  BY <1>1, <1>2, <1>3, <1>4, <1>5, <1>6 DEF Next

\* RemoveFromIngressAdmission frees headroom before anything else, so that no class
\* keeps headroom for packets that have left: it would stay paused for ever.
THEOREM HeadroomWithinClassAlways == Spec => []HeadroomWithinClass
<1>1. EgressInv => QueueInv
  BY DEF EgressInv
<1>2. HeadroomInv => HeadroomWithinClass
  BY DEF HeadroomInv
<1> QED
  BY <1>1, <1>2, EgressInvInit, EgressInvStep, HeadroomInvInit, HeadroomInvStep, PTL
     DEF Spec

-----------------------------------------------------------------------------
(* PAUSE and RESUME.                                                       *)

\* A step that admits a packet to a class that uses headroom pauses the class.
LEMMA HeadroomPausesStep ==
  QueueInv /\ HeadroomInv /\ [Next]_vars =>
    \A x \in PG :
      ing'.pg[x] > ing.pg[x] /\ ing'.pg[x] > PgMin + PortMin /\ ing'.hdrm[x] # 0
        => pfc'.paused[x] /\ pfc'.timer[x] /\ told'[x] = "PAUSE"
<1> SUFFICES ASSUME QueueInv, HeadroomInv, [Next]_vars, NEW x \in PG,
                    ing'.pg[x] > ing.pg[x], ing'.pg[x] > PgMin + PortMin,
                    ing'.hdrm[x] # 0
             PROVE  pfc'.paused[x] /\ pfc'.timer[x] /\ told'[x] = "PAUSE"
  OBVIOUS
<1>0. IngTypes /\ ing.pg[x] \in Nat
  BY DEF HeadroomInv, IngTypes
<1>1. ASSUME NEW i \in Port, NEW o \in Port, NEW q \in Class, NEW size \in Size,
             SwitchSend(i, o, q, size)
      PROVE  pfc'.paused[x] /\ pfc'.timer[x] /\ told'[x] = "PAUSE"
  <2> DEFINE c == UpdateIngressAdmission(i, q, size)
             pauses == {i} \X GetPauseClasses(c, i, q)
             resumes == {z \in {i} \X Class :
                           /\ pfc.remote[z] \/ z \in pauses
                           /\ GetResumeClasses(c, pfc.paused[z] \/ z \in pauses,
                                               i, z[2])}
  <2>1. ing' = c /\ CheckAndSendPfc(c, i, q)
    BY <1>1 DEF SwitchSend
  <2>2. x = <<i, q>>
    <3>1. \A z \in PG \ {<<i, q>>} :
            c.pg[z] = ing.pg[z] /\ c.hdrm[z] = ing.hdrm[z]
      BY <1>0, ChargeIngress, Zenon
    <3> HIDE DEF c
    <3> QED
      BY <3>1, <2>1, <1>0
  <2>3. q \in GetPauseClasses(c, i, q)
    BY <2>1, <2>2 DEF GetPauseClasses
  <2>4. x \in pauses
    BY <2>2, <2>3
  <2>5. x \notin resumes
    BY <2>1, <2>2 DEF GetResumeClasses
  <2>6. /\ pfc'.paused[x] = ((pfc.paused[x] \/ x \in pauses) /\ x \notin resumes)
        /\ pfc'.timer[x] = ((pfc.timer[x] \/ x \in pauses) /\ x \notin resumes)
        /\ told'[x] = LET last == IF x \in pauses THEN "PAUSE" ELSE told[x]
                      IN  IF x \in resumes THEN Resume(last) ELSE last
    BY <2>1 DEF CheckAndSendPfc, Pauses, Resumes
  <2> HIDE DEF c, pauses, resumes
  <2> QED
    BY <2>4, <2>5, <2>6
<1>2. ASSUME NEW o \in Port, NEW q \in Class, SwitchNotifyDequeue(o, q)
      PROVE  FALSE
  <2> DEFINE h == Head(queue[<<o, q>>])
             y == <<h.in, q>>
  <2>1. /\ queue[<<o, q>>] # <<>> /\ <<o, q>> \in PG
        /\ ing' = RemoveFromIngressAdmission(h.in, q, h.size)
    BY <1>2 DEF SwitchNotifyDequeue, PG
  <2>2. h \in Packet
    BY <2>1 DEF QueueInv
  <2>3. h.in \in Port /\ h.size \in Nat
    BY <2>2, SizeNat DEF Packet
  <2>4. ing'.pg[x] = ing.pg[x] \/ ing'.pg[x] = Less(ing.pg[x], h.size)
    <3> HIDE DEF h
    <3> DEFINE c == RemoveFromIngressAdmission(h.in, q, h.size)
    <3>1. /\ \A z \in PG \ {y} :
               c.pg[z] = ing.pg[z] /\ c.hdrm[z] = ing.hdrm[z]
          /\ c.pg[y] = Less(ing.pg[y], h.size)
      BY <2>3, <1>0, DischargeIngress, ZenonT(40)
    <3> HIDE DEF c, y
    <3> QED
      BY <3>1, <2>1 DEF c
  <2> HIDE DEF h
  <2> QED
    BY <2>3, <2>4, <1>0 DEF Less
<1>3. CASE UNCHANGED ing
  BY <1>0, <1>3
<1>4. ASSUME NEW i \in Port, NEW o \in Port, NEW q \in Class, NEW size \in Size,
             DropAtIngress(i, o, q, size) \/ DropAtEgress(i, o, q, size)
      PROVE  UNCHANGED ing
  BY <1>4 DEF DropAtIngress, DropAtEgress
<1>5. ASSUME NEW i \in Port, NEW q \in Class, SetResume(i, q)
      PROVE  UNCHANGED ing
  BY <1>5 DEF SetResume
<1>6. CASE UNCHANGED vars
  BY <1>3, <1>6 DEF vars
<1> QED
  BY <1>1, <1>2, <1>3, <1>4, <1>5, <1>6 DEF Next

\* As long as a class uses headroom, every packet admitted to it beyond its
\* guarantees pauses it (GetPauseClasses looks at the headroom of the packet's
\* class, and no RESUME follows in the same call).
THEOREM HeadroomPausesAlways == Spec => HeadroomPauses
<1>1. EgressInv => QueueInv
  BY DEF EgressInv
<1> QED
  BY <1>1, EgressInvInit, EgressInvStep, HeadroomInvInit, HeadroomInvStep,
     HeadroomPausesStep, PTL DEF Spec, HeadroomPauses

\* A class that the switch takes for paused has been sent PAUSE last.
ToldInv ==
  /\ PfcTypes
  /\ \A x \in PG : pfc.paused[x] => told[x] = "PAUSE"
  /\ ResumeFollowsPause

\* The history of PAUSE and RESUME frames, from the start and by every step.
LEMMA ToldInvInit == Uninit = {FALSE} /\ Init => ToldInv
<1> SUFFICES ASSUME Uninit = {FALSE}, Init  PROVE ToldInv
  OBVIOUS
<1>1. /\ pfc \in [paused : [PG -> {FALSE}], remote : [PG -> {FALSE}],
                  timer : [PG -> {FALSE}]]
      /\ told = [x \in PG |-> "nothing"]
  BY DEF Init
<1> QED
  BY <1>1 DEF ToldInv, PfcTypes, ResumeFollowsPause

\* Every step keeps what a paused class was told.
LEMMA ToldInvStep == QueueInv /\ ToldInv /\ [Next]_vars => ToldInv'
<1> SUFFICES ASSUME QueueInv, ToldInv, [Next]_vars  PROVE ToldInv'
  OBVIOUS
<1>0. /\ PfcTypes
      /\ \A x \in PG : pfc.paused[x] => told[x] = "PAUSE"
      /\ \A x \in PG : told[x] # "stray RESUME"
  BY DEF ToldInv, ResumeFollowsPause
<1>1. ASSUME NEW i \in Port, NEW o \in Port, NEW q \in Class, NEW size \in Size,
             SwitchSend(i, o, q, size)
      PROVE  ToldInv'
  <2> DEFINE c == UpdateIngressAdmission(i, q, size)
             pauses == {i} \X GetPauseClasses(c, i, q)
             resumes == {z \in {i} \X Class :
                           /\ pfc.remote[z] \/ z \in pauses
                           /\ GetResumeClasses(c, pfc.paused[z] \/ z \in pauses,
                                               i, z[2])}
             Set(f) == [z \in PG |-> (f[z] \/ z \in pauses) /\ z \notin resumes]
  <2>1. /\ pfc' = [paused |-> Set(pfc.paused), remote |-> Set(pfc.remote),
                   timer |-> Set(pfc.timer)]
        /\ told' = [z \in PG |->
                      LET last == IF z \in pauses THEN "PAUSE" ELSE told[z]
                      IN  IF z \in resumes THEN Resume(last) ELSE last]
    BY <1>1 DEF SwitchSend, CheckAndSendPfc, Pauses, Resumes
  <2>2. \A z \in resumes : pfc.paused[z] \/ z \in pauses
    BY DEF GetResumeClasses
  <2> HIDE DEF c, pauses, resumes
  <2>3. \A z \in PG :
          told'[z] = IF z \in resumes THEN "RESUME"
                     ELSE IF z \in pauses THEN "PAUSE" ELSE told[z]
    BY <2>1, <2>2, <1>0 DEF Resume
  <2>4. PfcTypes'
    BY <2>1, <2>3, <1>0 DEF PfcTypes
  <2>5. ASSUME NEW z \in PG
        PROVE  (pfc'.paused[z] => told'[z] = "PAUSE") /\ told'[z] # "stray RESUME"
    BY <2>1, <2>3, <1>0
  <2> QED
    BY <2>4, <2>5 DEF ToldInv, ResumeFollowsPause
<1>2. ASSUME NEW o \in Port, NEW q \in Class, SwitchNotifyDequeue(o, q)
      PROVE  ToldInv'
  <2> DEFINE h == Head(queue[<<o, q>>])
             y == <<h.in, q>>
             c == RemoveFromIngressAdmission(h.in, q, h.size)
  <2>1. /\ queue[<<o, q>>] # <<>> /\ <<o, q>> \in PG
        /\ CheckAndSendResume(c, h.in, q)
    BY <1>2 DEF SwitchNotifyDequeue, PG
  <2>2. h \in Packet
    BY <2>1 DEF QueueInv
  <2>3. y \in PG
    BY <2>2 DEF Packet, PG
  <2> HIDE DEF c, h
  <2>4. CASE GetResumeClasses(c, pfc.paused[y], h.in, q)
    <3>1. /\ pfc' = [pfc EXCEPT !.paused[y] = FALSE, !.timer[y] = FALSE]
          /\ told' = [told EXCEPT ![y] = Resume(told[y])]
      BY <2>1, <2>4 DEF CheckAndSendResume
    <3>2. pfc.paused[y]
      BY <2>4 DEF GetResumeClasses
    <3>3. Resume(told[y]) = "RESUME"
      BY <3>2, <2>3, <1>0 DEF Resume
    <3> HIDE DEF y
    <3> QED
      BY <3>1, <3>3, <2>3, <1>0 DEF ToldInv, PfcTypes, ResumeFollowsPause
  <2>5. CASE ~GetResumeClasses(c, pfc.paused[y], h.in, q)
    <3>1. UNCHANGED <<pfc, told>>
      BY <2>1, <2>5 DEF CheckAndSendResume
    <3> QED
      BY <3>1, <1>0 DEF ToldInv, PfcTypes, ResumeFollowsPause
  <2> QED
    BY <2>4, <2>5
<1>3. ASSUME NEW i \in Port, NEW q \in Class, SetResume(i, q)
      PROVE  ToldInv'
  <2> DEFINE y == <<i, q>>
  <2>1. /\ y \in PG /\ told' = told
        /\ pfc' = [pfc EXCEPT !.paused[y] = FALSE, !.timer[y] = FALSE]
    BY <1>3 DEF SetResume, PG
  <2> HIDE DEF y
  <2> QED
    BY <2>1, <1>0 DEF ToldInv, PfcTypes, ResumeFollowsPause
<1>4. CASE UNCHANGED <<pfc, told>>
  BY <1>0, <1>4 DEF ToldInv, PfcTypes, ResumeFollowsPause
<1>5. ASSUME NEW i \in Port, NEW o \in Port, NEW q \in Class, NEW size \in Size,
             DropAtIngress(i, o, q, size) \/ DropAtEgress(i, o, q, size)
      PROVE  UNCHANGED <<pfc, told>>
  BY <1>5 DEF DropAtIngress, DropAtEgress
<1>6. CASE UNCHANGED vars
  BY <1>4, <1>6 DEF vars
<1> QED
  BY <1>1, <1>2, <1>3, <1>4, <1>5, <1>6 DEF Next

\* If the pause flags start out clear, the switch sends RESUME for a class only
\* after PAUSE: m_pause_remote, which a resume at dequeue and the timer leave set,
\* makes no difference, because `paused` is asked as well.
THEOREM ResumeFollowsPauseAlways ==
  Uninit = {FALSE} => (Spec => []ResumeFollowsPause)
<1>1. EgressInv => QueueInv
  BY DEF EgressInv
<1>2. ToldInv => ResumeFollowsPause
  BY DEF ToldInv
<1>3. ASSUME Uninit = {FALSE}
      PROVE  Init => ToldInv
  BY <1>3, ToldInvInit
<1> SUFFICES ASSUME Uninit = {FALSE}
             PROVE  Spec => []ResumeFollowsPause
  OBVIOUS
<1> QED
  BY <1>1, <1>2, <1>3, EgressInvInit, EgressInvStep, ToldInvStep, PTL DEF Spec

=============================================================================

----------------------------- MODULE SwitchMmu ------------------------------
(***************************************************************************)
(* The shared buffer of a switch and the PFC frames that protect it        *)
(* (src/point-to-point/model/switch-mmu.cc and DoSwitchSend,               *)
(* SwitchNotifyDequeue, CheckAndSendPfc and CheckAndSendResume of          *)
(* switch-node.cc).                                                        *)
(*                                                                         *)
(* A data packet that arrives is charged to ingress counters of its port   *)
(* and class and to egress counters of its queue, by different rules; when *)
(* it leaves both are freed, by rules that are different again.  Packets   *)
(* of class 0 (ACK, PFC, ConWeave's replies) bypass the MMU and are not    *)
(* modelled, nor are static thresholds: the attribute DynamicThreshold is  *)
(* true by default and nothing in the repository changes it.               *)
(***************************************************************************)
EXTENDS Integers, Sequences, FiniteSets, Functions

CONSTANTS
  PortCnt,        \* m_activePortCnt: the ports are 1 .. PortCnt, port 0 is unused
  Route,          \* pairs of ports: where packets come in and go out
  Class,          \* priority classes of data packets
  QCnt,           \* qCnt: classes that buffer is reserved for
  Size,           \* sizes of packets
  MTU,
  MaxBufferBytes, \* m_maxBufferBytes
  HdrmLimit,      \* m_pg_hdrm_limit, ports 0 .. PortCnt
  IngressAlphaInv,\* 1 / m_pg_shared_alpha_cell
  EgressAlpha,    \* m_pg_shared_alpha_cell_egress
  AlphaOffDiff,   \* m_pg_shared_alpha_cell_off_diff
  Uninit,         \* what memory that the constructor leaves alone may contain
  MaxQueued       \* bound: packets in the switch

Port == 1 .. PortCnt
PG   == Port \X Class
Pool == {0, 1}

ASSUME SizeAssumption ==
  /\ {PortCnt, QCnt, MTU, MaxBufferBytes, IngressAlphaInv, EgressAlpha,
      AlphaOffDiff, MaxQueued} \subseteq Nat
  /\ Size \subseteq Nat \ {0}
  /\ Route \subseteq Port \X Port
  /\ Class \subseteq Nat \ {0} /\ IsFiniteSet(Class)
  /\ HdrmLimit \in [0 .. PortCnt -> Nat]
  /\ Uninit \subseteq BOOLEAN /\ Uninit # {}

VARIABLES
  ing,     \* ingress counters: m_usedTotalBytes, m_usedIngress...Bytes
  egr,     \* egress counters: m_usedEgress...Bytes
  pfc,     \* paused, m_pause_remote, whether resumeEvt is pending
  queue,   \* packets by egress port and class
  told,    \* history: the last PFC frame sent to the peer of a port, by class
  dropped  \* history: which admission control has dropped a packet

vars == <<ing, egr, pfc, queue, told, dropped>>

\* `ahead`: bytes of the queue ahead of the packet.
Packet == [in : Port, size : Size, ahead : Nat]

TypeOK ==
  /\ ing \in [total : Nat, sp : [Pool -> Nat], port : [Port -> Nat],
              pg : [PG -> Nat], hdrm : [PG -> Nat]]
  /\ egr \in [qmin : [PG -> Nat], shared : [PG -> Nat], port : [Port -> Nat],
              sp : [Pool -> Nat]]
  /\ pfc \in [paused : [PG -> BOOLEAN], remote : [PG -> BOOLEAN],
              timer : [PG -> BOOLEAN]]
  /\ queue \in [PG -> Seq(Packet)]
  /\ told \in [PG -> {"nothing", "PAUSE", "RESUME", "stray RESUME"}]
  /\ dropped \subseteq {"ingress", "egress"}

-----------------------------------------------------------------------------
(* InitSwitch.                                                             *)

PgMin   == MTU
PortMin == MTU
QMin    == 1 + MTU

\* What the ports' guarantees take.
Reserved == PortCnt * (IF QCnt * PgMin > PortMin THEN QCnt * PgMin ELSE PortMin)

\* m_buffer_cell_limit_sp: the loop adds the headroom of ports 0 .. PortCnt - 1.
BufferLimitSp ==
  MaxBufferBytes - SumFunctionOnSet(HdrmLimit, 0 .. PortCnt - 1) - Reserved

\* m_op_buffer_shared_limit_cell
EgressLimitSp == MaxBufferBytes - Reserved

\* The limits are unsigned: the buffer is large enough for what is reserved.
ASSUME BufferAssumption == BufferLimitSp \in Nat

Init ==
  /\ ing = [total |-> 0, sp |-> [s \in Pool |-> 0], port |-> [p \in Port |-> 0],
            pg |-> [x \in PG |-> 0], hdrm |-> [x \in PG |-> 0]]
  /\ egr = [qmin |-> [x \in PG |-> 0], shared |-> [x \in PG |-> 0],
            port |-> [p \in Port |-> 0], sp |-> [s \in Pool |-> 0]]
  /\ pfc \in [paused : [PG -> Uninit], remote : [PG -> Uninit],
              timer : [PG -> {FALSE}]]
  /\ queue = [x \in PG |-> <<>>]
  /\ told = [x \in PG |-> "nothing"]
  /\ dropped = {}

-----------------------------------------------------------------------------
(* Admission.                                                              *)

GetIngressSP(q) == IF q = 1 THEN 1 ELSE 0
GetEgressSP(q)  == IF q = 0 THEN 0 ELSE 1

\* Mutant: the headroom is not used.
CheckIngressAdmission_NoHeadroom(i, q, size) ==
  /\ ing.total + size <= MaxBufferBytes
  /\ \/ ing.pg[<<i, q>>] + size <= PgMin
     \/ ing.port[i] + size <= PortMin
     \/ ing.sp[GetIngressSP(q)] <= BufferLimitSp

\* Mutant: the headroom has no limit.
CheckIngressAdmission_NoLimit(i, q, size) == ing.total + size <= MaxBufferBytes

\* Beyond the guarantees and with the pool over its limit, only headroom is left.
CheckIngressAdmission(i, q, size) ==
  /\ ing.total + size <= MaxBufferBytes
  /\ \/ ing.pg[<<i, q>>] + size <= PgMin
     \/ ing.port[i] + size <= PortMin
     \/ ing.sp[GetIngressSP(q)] <= BufferLimitSp
     \/ ing.hdrm[<<i, q>>] + size <= HdrmLimit[i]

CheckEgressAdmission(o, q, size) ==
  /\ egr.sp[GetEgressSP(q)] + size <= EgressLimitSp
  /\ egr.port[o] + size <= MaxBufferBytes
  /\ egr.shared[<<o, q>>] + size <= MaxBufferBytes
  /\ egr.shared[<<o, q>>] + size
       <= EgressAlpha * (EgressLimitSp - egr.sp[GetEgressSP(q)])

UpdateIngressAdmission(i, q, size) ==
  LET over == ing.sp[GetIngressSP(q)] + size > BufferLimitSp
  IN  [total |-> ing.total + size,
       sp    |-> [ing.sp   EXCEPT ![GetIngressSP(q)] = @ + size],
       port  |-> [ing.port EXCEPT ![i] = @ + size],
       pg    |-> [ing.pg   EXCEPT ![<<i, q>>] = @ + size],
       hdrm  |-> [ing.hdrm EXCEPT ![<<i, q>>] = IF over THEN @ + size ELSE @]]

\* Bytes of the packet that do not fit in the queue's guarantee.
EgressSpill(o, q, size) ==
  IF egr.qmin[<<o, q>>] + size < QMin THEN 0 ELSE size + egr.qmin[<<o, q>>] - QMin

\* Mutant: the pool is charged the whole packet.
UpdateEgressAdmission_Pool(o, q, size) ==
  [qmin   |-> [egr.qmin   EXCEPT ![<<o, q>>] = IF @ + size < QMin THEN @ + size
                                           ELSE QMin],
   shared |-> [egr.shared EXCEPT ![<<o, q>>] = @ + EgressSpill(o, q, size)],
   port   |-> [egr.port   EXCEPT ![o] = @ + size],
   sp     |-> [egr.sp     EXCEPT ![GetEgressSP(q)] = @ + size]]

UpdateEgressAdmission(o, q, size) ==
  [qmin   |-> [egr.qmin   EXCEPT ![<<o, q>>] = IF @ + size < QMin THEN @ + size
                                           ELSE QMin],
   shared |-> [egr.shared EXCEPT ![<<o, q>>] = @ + EgressSpill(o, q, size)],
   port   |-> [egr.port   EXCEPT ![o] = @ + size],
   sp     |-> [egr.sp     EXCEPT ![GetEgressSP(q)] = @ + EgressSpill(o, q, size)]]

\* a - b, but 0 where the code says "Illegal Remove" or stops at zero
Less(a, b) == IF a < b THEN 0 ELSE a - b

\* Mutants: headroom is released at once, or only by a packet it holds entirely.
HdrmAfterRemove_AtOnce(i, q, size) == 0
HdrmAfterRemove_Entire(i, q, size) ==
  IF ing.hdrm[<<i, q>>] < size THEN ing.hdrm[<<i, q>>] ELSE ing.hdrm[<<i, q>>] - size

HdrmAfterRemove(i, q, size) == Less(ing.hdrm[<<i, q>>], size)

\* Mutant: one pool for all classes.
RemoveFromIngressAdmission_Pool0(i, q, size) ==
  [total |-> Less(ing.total, size),
   sp    |-> [ing.sp   EXCEPT ![0] = Less(@, size)],
   port  |-> [ing.port EXCEPT ![i] = Less(@, size)],
   pg    |-> [ing.pg   EXCEPT ![<<i, q>>] = Less(@, size)],
   hdrm  |-> [ing.hdrm EXCEPT ![<<i, q>>] = HdrmAfterRemove(i, q, size)]]

RemoveFromIngressAdmission(i, q, size) ==
  [total |-> Less(ing.total, size),
   sp    |-> [ing.sp   EXCEPT ![GetIngressSP(q)] = Less(@, size)],
   port  |-> [ing.port EXCEPT ![i] = Less(@, size)],
   pg    |-> [ing.pg   EXCEPT ![<<i, q>>] = Less(@, size)],
   hdrm  |-> [ing.hdrm EXCEPT ![<<i, q>>] = HdrmAfterRemove(i, q, size)]]

\* Mutants: the guarantee is freed first; a packet is never split.
EgressFromShared_Last(o, q, size) == Less(size, egr.qmin[<<o, q>>])
EgressFromShared_All(o, q, size) == IF egr.qmin[<<o, q>>] < QMin THEN 0 ELSE size

\* Bytes of a leaving packet that the shared pool gets back: as many as it has, but
\* none while the guarantee is not full.
EgressFromShared(o, q, size) ==
  CASE egr.qmin[<<o, q>>] < QMin -> 0
    [] egr.qmin[<<o, q>>] = QMin /\ egr.shared[<<o, q>>] < size -> egr.shared[<<o, q>>]
    [] OTHER -> size

RemoveFromEgressAdmission(o, q, size) ==
  LET s == EgressFromShared(o, q, size)
  IN  [qmin   |-> [egr.qmin   EXCEPT ![<<o, q>>] = @ - (size - s)],
       shared |-> [egr.shared EXCEPT ![<<o, q>>] = @ - s],
       port   |-> [egr.port   EXCEPT ![o] = @ - size],
       sp     |-> [egr.sp     EXCEPT ![GetEgressSP(q)] = @ - s]]

-----------------------------------------------------------------------------
(* PFC.  The operators take the ingress counters as a packet leaves them.  *)

\* Mutant: one guarantee too many.
GetPauseClasses_Late(c, i, q) ==
  {j \in Class : /\ c.pg[<<i, j>>] > PgMin + PortMin + MTU
                 /\ \/ IngressAlphaInv * (c.pg[<<i, j>>] - PgMin - PortMin)
                         > BufferLimitSp - c.sp[GetIngressSP(q)]
                    \/ c.hdrm[<<i, q>>] # 0}

\* Classes of a port that hold more than their share, and, if the packet's class
\* uses headroom, all that exceed the guarantees.
GetPauseClasses(c, i, q) ==
  {j \in Class : /\ c.pg[<<i, j>>] > PgMin + PortMin
                 /\ \/ IngressAlphaInv * (c.pg[<<i, j>>] - PgMin - PortMin)
                         > BufferLimitSp - c.sp[GetIngressSP(q)]
                    \/ c.hdrm[<<i, q>>] # 0}

\* Mutant: a class is resumed whether it has been paused or not.
GetResumeClasses_Any(c, isPaused, i, q) ==
  /\ IngressAlphaInv * (c.pg[<<i, q>>] - PgMin - PortMin)
       < BufferLimitSp - c.sp[GetIngressSP(q)] - AlphaOffDiff
  /\ c.hdrm[<<i, q>>] = 0

GetResumeClasses(c, isPaused, i, q) ==
  /\ isPaused
  /\ IngressAlphaInv * (c.pg[<<i, q>>] - PgMin - PortMin)
       < BufferLimitSp - c.sp[GetIngressSP(q)] - AlphaOffDiff
  /\ c.hdrm[<<i, q>>] = 0

\* The peer asserts that a class it resumes is paused.
Resume(last) == IF last = "PAUSE" THEN "RESUME" ELSE "stray RESUME"

\* The classes of port i that are sent PAUSE after a packet of class q, and those
\* that are then sent RESUME.
Pauses(c, i, q) == {i} \X GetPauseClasses(c, i, q)

Resumes(c, i, q) ==
  {x \in {i} \X Class :
     /\ pfc.remote[x] \/ x \in Pauses(c, i, q)
     /\ GetResumeClasses(c, pfc.paused[x] \/ x \in Pauses(c, i, q), i, x[2])}

\* A PAUSE starts the resume timer, a RESUME cancels it.
CheckAndSendPfc(c, i, q) ==
  LET pauses  == Pauses(c, i, q)
      resumes == Resumes(c, i, q)
      Set(f)  == [x \in PG |-> (f[x] \/ x \in pauses) /\ x \notin resumes]
  IN /\ pfc' = [paused |-> Set(pfc.paused), remote |-> Set(pfc.remote),
                timer |-> Set(pfc.timer)]
     /\ told' = [x \in PG |->
                   LET last == IF x \in pauses THEN "PAUSE" ELSE told[x]
                   IN  IF x \in resumes THEN Resume(last) ELSE last]

\* m_pause_remote is left alone.
CheckAndSendResume(c, i, q) ==
  IF GetResumeClasses(c, pfc.paused[<<i, q>>], i, q)
  THEN /\ pfc' = [pfc EXCEPT !.paused[<<i, q>>] = FALSE, !.timer[<<i, q>>] = FALSE]
       /\ told' = [told EXCEPT ![<<i, q>>] = Resume(@)]
  ELSE UNCHANGED <<pfc, told>>

-----------------------------------------------------------------------------
(* The switch.                                                             *)

\* Bytes in a queue.
Bytes(s) == IF s = <<>> THEN 0 ELSE s[Len(s)].ahead + s[Len(s)].size

\* A queue without its first packet.
Rest(s) == [n \in 1 .. Len(s) - 1 |-> [s[n + 1] EXCEPT !.ahead = @ - Head(s).size]]

Arrival(i, o) ==
  /\ <<i, o>> \in Route
  /\ SumFunction([x \in PG |-> Len(queue[x])]) < MaxQueued

\* DoSwitchSend, packet admitted
SwitchSend(i, o, q, size) ==
  LET c == UpdateIngressAdmission(i, q, size)
  IN /\ Arrival(i, o)
     /\ CheckEgressAdmission(o, q, size)
     /\ CheckIngressAdmission(i, q, size)
     /\ ing' = c
     /\ egr' = UpdateEgressAdmission(o, q, size)
     /\ CheckAndSendPfc(c, i, q)
     /\ queue' = [queue EXCEPT ![<<o, q>>] =
                    Append(@, [in |-> i, size |-> size, ahead |-> Bytes(@)])]
     /\ UNCHANGED dropped

\* DoSwitchSend, packet refused
DropAtIngress(i, o, q, size) ==
  /\ Arrival(i, o)
  /\ CheckEgressAdmission(o, q, size)
  /\ ~CheckIngressAdmission(i, q, size)
  /\ dropped' = dropped \union {"ingress"}
  /\ UNCHANGED <<ing, egr, pfc, queue, told>>

DropAtEgress(i, o, q, size) ==
  /\ Arrival(i, o)
  /\ ~CheckEgressAdmission(o, q, size)
  /\ dropped' = dropped \union {"egress"}
  /\ UNCHANGED <<ing, egr, pfc, queue, told>>

\* The device takes the next packet of a class that its peer has not paused; which
\* classes those are is up to the peer.
SwitchNotifyDequeue(o, q) ==
  LET p == Head(queue[<<o, q>>])
      c == RemoveFromIngressAdmission(p.in, q, p.size)
  IN /\ queue[<<o, q>>] # <<>>
     /\ queue' = [queue EXCEPT ![<<o, q>>] = Rest(@)]
     /\ ing' = c
     /\ egr' = RemoveFromEgressAdmission(o, q, p.size)
     /\ CheckAndSendResume(c, p.in, q)
     /\ UNCHANGED dropped

\* The resume timer fires: only `paused` is reset.
SetResume(i, q) ==
  /\ pfc.timer[<<i, q>>]
  /\ pfc' = [pfc EXCEPT !.paused[<<i, q>>] = FALSE, !.timer[<<i, q>>] = FALSE]
  /\ UNCHANGED <<ing, egr, queue, told, dropped>>

Next ==
  \/ \E i, o \in Port, q \in Class, size \in Size :
       \/ SwitchSend(i, o, q, size)
       \/ DropAtIngress(i, o, q, size)
       \/ DropAtEgress(i, o, q, size)
  \/ \E o \in Port, q \in Class : SwitchNotifyDequeue(o, q)
  \/ \E i \in Port, q \in Class : SetResume(i, q)

Spec == Init /\ [][Next]_vars

-----------------------------------------------------------------------------
(* Properties.                                                             *)

\* What a queue is charged, guarantee and shared part together, is what it
\* contains, and the shared part is used only when the guarantee is full: the
\* split at admission and its reversal at removal agree, whatever mixture of sizes
\* passes in between ("STOP overflow" is never printed).
EgressQueueCharged ==
  \A x \in PG :
    /\ egr.qmin[x] + egr.shared[x] = Bytes(queue[x])
    /\ egr.shared[x] > 0 => egr.qmin[x] = QMin
    /\ egr.qmin[x] <= QMin

\* The egress counters of ports and pools are the sums of those of their queues.
EgressSums ==
  /\ \A p \in Port :
       egr.port[p] = SumFunction([q \in Class |-> egr.qmin[<<p, q>>] + egr.shared[<<p, q>>]])
  /\ \A s \in Pool :
       egr.sp[s] = SumFunctionOnSet(egr.shared, {x \in PG : GetEgressSP(x[2]) = s})

\* The ingress counters are what the switch contains of each port and class, in
\* whatever order the packets leave ("Illegal Remove" is never printed).
IngressCharged ==
  LET InQueue(x, i) == SumFunction([n \in DOMAIN queue[x] |->
                         IF queue[x][n].in = i THEN queue[x][n].size ELSE 0])
  IN /\ \A i \in Port, q \in Class :
          ing.pg[<<i, q>>] = SumFunction([o \in Port |-> InQueue(<<o, q>>, i)])
     /\ \A i \in Port :
          ing.port[i] = SumFunction([q \in Class |-> ing.pg[<<i, q>>]])
     /\ \A s \in Pool :
          ing.sp[s] = SumFunctionOnSet(ing.pg, {x \in PG : GetIngressSP(x[2]) = s})
     /\ ing.total = ing.sp[0] + ing.sp[1]

\* A class is never charged more headroom than it has packets in the switch: an
\* empty class holds no headroom, which would keep it paused for ever.
HeadroomWithinClass == \A x \in PG : ing.hdrm[x] <= ing.pg[x]

\* What a pool holds beyond its limit is at most the headroom in use.
ExcessIsHeadroom ==
  \A s \in Pool :
    ing.sp[s] <= BufferLimitSp
      + SumFunctionOnSet(ing.hdrm, {x \in PG : GetIngressSP(x[2]) = s})

\* What a class may be charged of headroom once its pool is over the limit: its own, or
\* what the guarantees admit.
Allowance(x) ==
  LET guarantee == IF PgMin < PortMin THEN PortMin ELSE PgMin
  IN  IF HdrmLimit[x[1]] < guarantee THEN guarantee ELSE HdrmLimit[x[1]]

\* Headroom in use, by class, as far as it is allowed: a class that keeps taking its
\* pool across the limit is charged for that beyond its headroom.
Allowed(h) == [x \in PG |-> IF h[x] < Allowance(x) THEN h[x] ELSE Allowance(x)]

\* A pool overruns its limit by a packet and the headroom configured for the classes
\* that use it, never more, in whatever order packets are charged to the pool or to
\* headroom and leave: headroom is never given out twice.
PoolWithinHeadroom ==
  \A s \in Pool : \E size \in Size \union {0} :
    ing.sp[s] <= BufferLimitSp + size
      + SumFunctionOnSet(Allowed(ing.hdrm), {x \in PG : GetIngressSP(x[2]) = s})

\* As long as a class uses headroom, each of its packets that is admitted leaves it
\* paused, its peer told so, unless it is within its guarantees; that others have
\* left the pool in the meantime does not matter.
HeadroomPauses ==
  [][\A x \in PG :
       ing'.pg[x] > ing.pg[x] /\ ing'.pg[x] > PgMin + PortMin /\ ing'.hdrm[x] # 0
         => pfc'.paused[x] /\ pfc'.timer[x] /\ told'[x] = "PAUSE"]_vars

\* "Must be PAUSEd": the switch sends RESUME for a class only if the last frame
\* it sent for it was a PAUSE.
ResumeFollowsPause == \A x \in PG : told[x] # "stray RESUME"

=============================================================================

------------------------------ MODULE PfcLink -------------------------------
(***************************************************************************)
(* A switch and the devices that feed it, with time: data packets and PFC  *)
(* frames take a while to cross a link, the switch and its peer each keep  *)
(* a timer for one and the same pause (src/point-to-point/model:           *)
(* Receive, Resume, SendPfc and DequeueAndTransmit of qbb-net-device.cc,   *)
(* SetPause and SetResume of switch-mmu.cc, above the buffer of            *)
(* SwitchMmu).                                                             *)
(*                                                                         *)
(* The unit of time is the transmission of a packet, all packets have the  *)
(* size MTU.  A peer sends at most one packet per unit.  The devices       *)
(* behind the switch accept packets as fast as they please.  The simulator *)
(* runs events that are due together in the order they were scheduled: a   *)
(* timer comes before the rest, whatever else is due came up later.        *)
(***************************************************************************)
EXTENDS SwitchMmu

CONSTANTS
  Delay,      \* of every link, QbbChannel's m_delay
  PauseTime   \* m_pausetime of the switch's devices

Feeder == {r[1] : r \in Route}

\* Headroom as SetupSwitches configures it: a round trip and two packets.
ASSUME LinkAssumption ==
  /\ Delay \in Nat \ {0} /\ PauseTime \in Nat /\ PauseTime > Delay + 1
  /\ Size = {MTU}
  /\ \A i \in Feeder : HdrmLimit[i] = (2 * Delay + 2) * MTU
  /\ MaxQueued * MTU > MaxBufferBytes

VARIABLES
  wire,     \* data packets on their way to the switch, by port
  rev,      \* PFC frames on their way to the peer, by port
  peer,     \* m_paused and m_resumeEvt of the peers' devices
  resumeIn, \* when the switch's resumeEvt is due
  busy,     \* peers that are transmitting (m_txMachineState)
  expired   \* history: classes whose pause has ended by a peer's timer

linkVars == <<wire, rev, peer, resumeIn, busy, expired>>

\* No event is scheduled.
Never == -1

LinkTypeOK ==
  /\ TypeOK
  /\ wire \in [Feeder -> Seq([class : Class, left : 0 .. Delay + 1])]
  /\ rev \in [Feeder -> Seq([class : Class, pause : BOOLEAN, left : 0 .. Delay + 1])]
  /\ peer.paused = [x \in PG |-> peer.evt[x] # Never]
  /\ peer \in [paused : [PG -> BOOLEAN], evt : [PG -> Never .. PauseTime]]
  /\ resumeIn \in [PG -> 0 .. PauseTime]
  /\ busy \subseteq Feeder
  /\ expired \subseteq PG

LinkInit ==
  /\ Init
  /\ wire = [i \in Feeder |-> <<>>]
  /\ rev = [i \in Feeder |-> <<>>]
  /\ peer = [paused |-> [x \in PG |-> FALSE], evt |-> [x \in PG |-> Never]]
  /\ resumeIn = [x \in PG |-> 0]
  /\ busy = {}
  /\ expired = {}

\* No timer is due.
TimersDone == \A x \in PG : peer.evt[x] # 0 /\ (pfc.timer[x] => resumeIn[x] > 0)

-----------------------------------------------------------------------------
(* The switch.                                                             *)

\* The n-th class of S, in the order of the loops over the classes.
NthClass(S, n) == CHOOSE c \in S : Cardinality({d \in S : d < c}) = n - 1

\* A frame for every class of S, to arrive after d.
PfcFrames(S, b, d) ==
  [n \in 1 .. Cardinality(S) |-> [class |-> NthClass(S, n), pause |-> b, left |-> d]]

\* SendPfc: PAUSE for some classes of port i, then RESUME for some.  Frames precede all
\* data but wait for the end of a packet in transmission.  They share queue 0, a FIFO,
\* with acknowledgements; those, and the frames themselves, take no time to transmit here.
SendPfc(i, pauses, resumes) ==
  IF pauses = {} /\ resumes = {} THEN UNCHANGED rev
  ELSE \E d \in {Delay, Delay + 1} :
         /\ rev[i] # <<>> => rev[i][Len(rev[i])].left <= d
         /\ rev' = [rev EXCEPT ![i] = @ \o PfcFrames({x[2] : x \in pauses}, TRUE, d)
                                        \o PfcFrames({x[2] : x \in resumes}, FALSE, d)]

\* SetPause and SetResume: the timer, anew for every PAUSE.
SetPauses(pauses, resumes) ==
  resumeIn' = [x \in PG |-> IF x \in resumes THEN 0
                            ELSE IF x \in pauses THEN PauseTime ELSE resumeIn[x]]

\* A packet reaches the switch.
SwitchReceive(i) ==
  /\ TimersDone
  /\ wire[i] # <<>> /\ Head(wire[i]).left = 0
  /\ wire' = [wire EXCEPT ![i] = Tail(@)]
  /\ LET q == Head(wire[i]).class
         c == UpdateIngressAdmission(i, q, MTU)
     IN \E o \in Port :
          \/ /\ SwitchSend(i, o, q, MTU)
             /\ SendPfc(i, Pauses(c, i, q), Resumes(c, i, q))
             /\ SetPauses(Pauses(c, i, q), Resumes(c, i, q))
          \/ /\ DropAtIngress(i, o, q, MTU) \/ DropAtEgress(i, o, q, MTU)
             /\ UNCHANGED <<rev, resumeIn>>
  /\ UNCHANGED <<peer, busy, expired>>

\* A packet leaves the switch.
SwitchTransmit(o, q) ==
  /\ TimersDone
  /\ SwitchNotifyDequeue(o, q)
  /\ LET p == Head(queue[<<o, q>>])
         c == RemoveFromIngressAdmission(p.in, q, p.size)
         resumes == {x \in {<<p.in, q>>} : GetResumeClasses(c, pfc.paused[x], p.in, q)}
     IN SendPfc(p.in, {}, resumes) /\ SetPauses({}, resumes)
  /\ UNCHANGED <<wire, peer, busy, expired>>

ResumeTimer(i, q) ==
  /\ resumeIn[<<i, q>>] = 0
  /\ SetResume(i, q)
  /\ UNCHANGED linkVars

-----------------------------------------------------------------------------
(* The peers.                                                              *)

\* DequeueAndTransmit, if the peer has a packet of class q
PeerTransmit(i, q) ==
  /\ TimersDone
  /\ i \notin busy
  /\ ~peer.paused[<<i, q>>]
  /\ busy' = busy \union {i}
  /\ wire' = [wire EXCEPT ![i] = Append(@, [class |-> q, left |-> Delay + 1])]
  /\ UNCHANGED <<vars, rev, peer, resumeIn, expired>>

\* Mutant: the timer is not cancelled.
PeerResume_NoCancel(x) == [peer EXCEPT !.paused[x] = FALSE]

\* Mutants: PAUSE relies on the RESUME to come; the timer that runs is left alone.
ReceivePause_NoTimer(x) == [peer EXCEPT !.paused[x] = TRUE, !.evt[x] = Never]
ReceivePause_Once(x) ==
  [peer EXCEPT !.paused[x] = TRUE, !.evt[x] = IF @ = Never THEN PauseTime ELSE @]

ReceivePause(x) == [peer EXCEPT !.paused[x] = TRUE, !.evt[x] = PauseTime]

PeerResume(x) == [peer EXCEPT !.paused[x] = FALSE, !.evt[x] = Never]

PeerReceive(i) ==
  /\ TimersDone
  /\ rev[i] # <<>> /\ Head(rev[i]).left = 0
  /\ LET x == <<i, Head(rev[i]).class>>
     IN peer' = IF Head(rev[i]).pause THEN ReceivePause(x) ELSE PeerResume(x)
  /\ rev' = [rev EXCEPT ![i] = Tail(@)]
  /\ UNCHANGED <<vars, wire, resumeIn, busy, expired>>

PeerTimer(i, q) ==
  /\ peer.evt[<<i, q>>] = 0
  /\ peer' = PeerResume(<<i, q>>)
  /\ expired' = expired \union {<<i, q>>}
  /\ UNCHANGED <<vars, wire, rev, resumeIn, busy>>

-----------------------------------------------------------------------------
\* Time passes when nothing is due.
Elapse(s) == [n \in DOMAIN s |-> [s[n] EXCEPT !.left = @ - 1]]

Tick ==
  /\ \A i \in Feeder : \A s \in {wire[i], rev[i]} : s # <<>> => Head(s).left > 0
  /\ TimersDone
  /\ wire' = [i \in Feeder |-> Elapse(wire[i])]
  /\ rev' = [i \in Feeder |-> Elapse(rev[i])]
  /\ peer' = [peer EXCEPT !.evt = [x \in PG |-> IF @[x] = Never THEN Never ELSE @[x] - 1]]
  /\ resumeIn' = [x \in PG |-> IF resumeIn[x] = 0 THEN 0 ELSE resumeIn[x] - 1]
  /\ busy' = {}
  /\ UNCHANGED <<vars, expired>>

LinkNext ==
  \/ \E i \in Feeder : SwitchReceive(i) \/ PeerReceive(i)
  \/ \E o \in Port, q \in Class : SwitchTransmit(o, q)
  \/ \E i \in Port, q \in Class : ResumeTimer(i, q) \/ PeerTimer(i, q)
  \/ \E i \in Feeder, q \in Class : PeerTransmit(i, q)
  \/ Tick

LinkSpec == LinkInit /\ [][LinkNext]_<<vars, linkVars>>

\* The simulator goes on; what is not Tick comes to an end in every unit of time.
LinkFairSpec == LinkSpec /\ WF_<<vars, linkVars>>(LinkNext)

-----------------------------------------------------------------------------
(* Properties.                                                             *)

\* Frame n on its way to the peer of port i is the last one of class q.
IsLastFrame(i, q, n) ==
  /\ n \in DOMAIN rev[i] /\ rev[i][n].class = q
  /\ \A m \in n + 1 .. Len(rev[i]) : rev[i][m].class # q

NoFrame(i, q) == \A n \in DOMAIN rev[i] : rev[i][n].class # q

\* While the switch takes a class for paused, its peer is paused or will be: the
\* last frame on its way is a PAUSE.  The timers of the two run for the same time,
\* the peer's starts later.
PeerPaused ==
  \A i \in Feeder, q \in Class :
    pfc.paused[<<i, q>>] =>
      \/ NoFrame(i, q) /\ peer.paused[<<i, q>>]
      \/ \E n \in DOMAIN rev[i] : IsLastFrame(i, q, n) /\ rev[i][n].pause

\* A lossless class: as long as no peer's timer has ended a pause, the headroom takes
\* all that is on its way when a PAUSE is sent.
HeadroomSuffices == expired = {} => dropped = {}

\* A pause ends, if not by a RESUME then by the peer's own timer: the switch forgets a
\* pause after PauseTime and then never sends RESUME for it.
PauseEnds == \A x \in PG : peer.paused[x] ~> ~peer.paused[x]

\* "Must be PAUSEd": a RESUME reaches a class that is paused.
ResumeFindsPaused ==
  \A i \in Feeder :
    rev[i] # <<>> /\ Head(rev[i]).left = 0 /\ ~Head(rev[i]).pause
      => peer.paused[<<i, Head(rev[i]).class>>]

=============================================================================

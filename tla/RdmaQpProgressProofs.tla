------------------------- MODULE RdmaQpProgressProofs --------------------------
(***************************************************************************)
(* What TLAPS proves of RdmaQp.tla about its progress: a sender that waits *)
(* for an acknowledgement has its retransmission timer running or can send *)
(* something, for any window, bandwidth-delay product and number of        *)
(* losses.  The exception is IRN above PFC, which retransmits nothing on a *)
(* time-out; run.py refuses that configuration.                            *)
(***************************************************************************)
EXTENDS RdmaQpProofs

\* The sender's queue pair between two events: its bit in m_qp_finished is true to
\* what it has posted, without a timer it has gone back, and no SACK block took it
\* beyond the highest acknowledgement.
Ready(q) ==
  /\ q.finishedBit => IsFinished(q) /\ q.state # "none"
  /\ q.state = "active" /\ ~q.timer /\ ~IsFinished(q) => q.nxt = q.una
  /\ q.irn => q.una <= q.highestAck

ReadyInv == Ready(qp)

\* run.py refuses IRN above PFC ("If IRN is turn-on, then you should turn off PFC").
NoIrnWithPfc == QbbEnabled => TRUE \notin Irn

ProgressInv == NoIrnWithPfc /\ qp.irn \in Irn /\ ReadyInv

\* What the steps of ReceiveAck leave alone once snd_una has moved.
Keeps(q, r) ==
  /\ r.una = q.una /\ r.highestAck = q.highestAck /\ r.posted = q.posted
  /\ r.irn = q.irn /\ r.finishedBit = q.finishedBit
  /\ r.state \in {q.state, "complete"}

-----------------------------------------------------------------------------
(* The steps of the sender.                                                *)

\* Skipping the front block leaves the queue pair ready: one that has gone back
\* has no block there.
LEMMA SkipFrontReady ==
  ASSUME NEW q \in QpType, q.una \notin q.sack
  PROVE  /\ Keeps(q, SkipFront(q)) /\ SkipFront(q).timer = q.timer
         /\ Ready(q) => Ready(SkipFront(q))
<1>1. CASE q.irn /\ IsFront(q.sack, q.nxt)
  <2> DEFINE e == BlockEnd(q.sack, q.nxt)
             r == [q EXCEPT !.nxt = e, !.sack = DiscardUpTo(@, e)]
  <2>1. SkipFront(q) = r
    BY <1>1 DEF SkipFront
  <2> HIDE DEF e
  <2>2. Keeps(q, r) /\ r.state = q.state /\ r.timer = q.timer
    BY DEF Keeps, QpType
  <2>3. q.nxt # q.una
    BY <1>1 DEF IsFront
  <2>4. IsFinished(r) <=> IsFinished(q)
    BY <2>2 DEF Keeps, IsFinished, Size
  <2> HIDE DEF r
  <2> QED
    BY <2>1, <2>2, <2>3, <2>4 DEF Keeps, Ready
<1>2. CASE ~(q.irn /\ IsFront(q.sack, q.nxt))
  <2>1. SkipFront(q) = q
    BY <1>2 DEF SkipFront
  <2> QED
    BY <2>1 DEF Keeps
<1> QED
  BY <1>1, <1>2

\* Whatever the blocks, skipping keeps what it does not name.
LEMMA SkipFrontKeeps ==
  ASSUME NEW q \in QpType
  PROVE  Keeps(q, SkipFront(q)) /\ SkipFront(q).state = q.state
<1>1. CASE q.irn /\ IsFront(q.sack, q.nxt)
  <2> DEFINE e == BlockEnd(q.sack, q.nxt)
             r == [q EXCEPT !.nxt = e, !.sack = DiscardUpTo(@, e)]
  <2>1. SkipFront(q) = r
    BY <1>1 DEF SkipFront
  <2> HIDE DEF e
  <2>2. Keeps(q, r) /\ r.state = q.state
    BY DEF Keeps, QpType
  <2> QED
    BY <2>1, <2>2
<1>2. CASE ~(q.irn /\ IsFront(q.sack, q.nxt))
  BY <1>2 DEF SkipFront, Keeps
<1> QED
  BY <1>1, <1>2

\* QpComplete touches nothing that the sender needs to go on.
LEMMA QpCompleteKeeps ==
  ASSUME NEW q \in QpType
  PROVE  Keeps(q, QpComplete(q)) /\ QpComplete(q).state = "complete"
BY DEF Keeps, QpComplete, QpType

\* Nor does the completion of WQEs or of the queue pair.
LEMMA CompleteKeeps ==
  ASSUME NEW A, NEW q, Good(q, A), A \subseteq 0 .. Size(q) - 1
  PROVE  Keeps(q, Complete(q))
<1>1. q \in QpType
  BY DEF Good, Sound
<1>2. Keeps(q, SkipFront(q)) /\ SkipFront(q) \in QpType
  <2>1. Good(SkipFront(q), A)
    BY SkipFrontStep
  <2> QED
    BY <1>1, <2>1, SkipFrontKeeps DEF Good, Sound
<1>3. CASE q.persistent
  <2> DEFINE c == CompletePersistentWqes(q)
             b == c.timer /\ ~IsPersistentIdle(c)
  <2>1. Complete(q) = [c EXCEPT !.timer = b]
    BY <1>3 DEF Complete
  <2>2. \E n : c = [q EXCEPT !.completed = n]
    BY DEF CompletePersistentWqes
  <2> HIDE DEF b, c
  <2> QED
    BY <1>1, <2>1, <2>2 DEF Keeps, QpType
<1>4. CASE ~q.persistent /\ IsFinished(q)
  <2> DEFINE p == SkipFront(q)
  <2>1. Complete(q) = QpComplete(p)
    BY <1>4 DEF Complete
  <2>2. Keeps(p, QpComplete(p)) /\ QpComplete(p).state = "complete"
    BY <1>2, QpCompleteKeeps
  <2> QED
    BY <1>2, <2>1, <2>2 DEF Keeps
<1>5. CASE ~q.persistent /\ ~IsFinished(q)
  BY <1>2, <1>5 DEF Complete
<1> QED
  BY <1>3, <1>4, <1>5

\* Afterwards the timer runs unless all that was sent is acknowledged.
LEMMA RestartTimerReady ==
  ASSUME NEW A, NEW q, Good(q, A), A \subseteq 0 .. Size(q) - 1
  PROVE  LET r == RestartTimer(q)
         IN  /\ Keeps(q, r)
             /\ ~r.timer /\ ~IsFinished(r) => r.nxt = r.una
<1> DEFINE p == SkipFront(q)
           b == p.timer \/ (~IsFinished(p) /\ p.nxt > p.una)
           r == [p EXCEPT !.timer = b]
<1>1. Good(p, A) /\ Keeps(q, p)
  <2>1. q \in QpType
    BY DEF Good, Sound
  <2> QED
    BY <2>1, SkipFrontStep, SkipFrontKeeps
<1>2. RestartTimer(q) = r
  BY DEF RestartTimer
<1> HIDE DEF p
<1>3. p \in QpType /\ p.una \in Nat /\ p.nxt \in Nat /\ p.una <= p.nxt
  <2>1. p \in QpType /\ p.una <= p.nxt
    BY <1>1 DEF Good, Sound
  <2> QED
    BY <2>1, WqeEnds DEF QpType
<1> HIDE DEF b
<1>4. Keeps(p, r) /\ r.timer = b /\ r.nxt = p.nxt /\ r.una = p.una /\ r.state = p.state
  BY <1>3 DEF Keeps, QpType
<1>5. IsFinished(r) <=> IsFinished(p)
  BY <1>4 DEF Keeps, IsFinished, Size
<1>6. ~b /\ ~IsFinished(p) => p.nxt = p.una
  BY <1>3 DEF b
<1> HIDE DEF r
<1>7. Keeps(q, r)
  BY <1>1, <1>4 DEF Keeps
<1> QED
  BY <1>2, <1>4, <1>5, <1>6, <1>7

\* Going back to una leaves a sender without a timer ready to send.
LEMMA RecoverReady ==
  ASSUME NEW q \in QpType, NEW a, ~q.timer /\ ~IsFinished(q) => q.nxt = q.una
  PROVE  LET r == Recover(q, a)
         IN  Keeps(q, r) /\ (~r.timer /\ ~IsFinished(r) => r.nxt = r.una)
<1> DEFINE r == Recover(q, a)
<1>1. /\ Keeps(q, r) /\ r.timer = q.timer /\ r.nxt \in {q.nxt, q.una} /\ r.una = q.una
  BY DEF Recover, RecoverQueue, Keeps, QpType
<1> HIDE DEF r
<1>2. IsFinished(r) <=> IsFinished(q)
  BY <1>1 DEF Keeps, IsFinished, Size
<1> QED
  BY <1>1, <1>2 DEF r

\* A CNP starts timers of congestion control and nothing else.
LEMMA HandleCnpReady ==
  ASSUME NEW q \in QpType, NEW a, ~q.timer /\ ~IsFinished(q) => q.nxt = q.una
  PROVE  LET r == HandleCnp(q, a)
         IN  Keeps(q, r) /\ (~r.timer /\ ~IsFinished(r) => r.nxt = r.una)
<1> DEFINE r == HandleCnp(q, a)
<1>1. Keeps(q, r) /\ r.timer = q.timer /\ r.nxt = q.nxt /\ r.una = q.una
  BY DEF HandleCnp, Keeps, QpType
<1> HIDE DEF r
<1>2. IsFinished(r) <=> IsFinished(q)
  BY <1>1 DEF Keeps, IsFinished, Size
<1> QED
  BY <1>1, <1>2 DEF r

-----------------------------------------------------------------------------
(* Acknowledgements.                                                       *)

\* The number an acknowledgement takes snd_una to is none that the sender has a
\* block for, nor the one that the acknowledgement selects.
LEMMA NewUnaUnsacked ==
  ASSUME IInv, MarkInv, NEW a \in Ack, acks[a] > 0, qp.irn, qp.state = "active"
  PROVE  LET u == MaxOf(qp.una, a.seq)
         IN  u \notin qp.sack /\ (a.sel # NoSel => a.sel # u)
<1> DEFINE u == MaxOf(qp.una, a.seq)
<1>1. /\ qp.una \in Nat /\ a.seq \in Nat /\ a.sel \in 0 .. Total
      /\ qp.sack \subseteq SeqNo /\ Total \in Nat
  BY WqeEnds DEF IInv, TypeOK, QpType, Ack
<1>2. u \in {qp.una, a.seq} /\ u >= qp.una /\ u >= a.seq
  BY <1>1 DEF MaxOf
<1> HIDE DEF u
<1>3. \A m \in SeqNo : MarkSound(m) => m # u
  BY <1>2 DEF MarkSound
<1>4. a.sel # NoSel => a.sel \in SeqNo /\ a.sel # a.seq
  BY <1>1 DEF MarkInv, NoSel, SeqNo
<1>5. a.sel # NoSel /\ a.sel >= u => Marks(a, a.sel)
  BY <1>1, <1>2, <1>4 DEF Marks
<1>6. a.sel # NoSel => a.sel # u
  BY <1>1, <1>2, <1>3, <1>4, <1>5 DEF MarkInv
<1>7. u \notin qp.sack
  BY <1>1, <1>3 DEF MarkInv
<1> QED
  BY <1>6, <1>7 DEF u

\* snd_una moves up, under IRN to the highest acknowledgement.
LEMMA AckedReady ==
  ASSUME NEW q \in QpType, NEW a \in Ack, Ready(q),
         LET u == MaxOf(q.una, a.seq)
         IN  q.irn => u \notin q.sack /\ (a.sel # NoSel => a.sel # u)
  PROVE  LET r == IF q.irn THEN CatchUp(Sack(Acknowledge(q, a), a))
                  ELSE CatchUp(Acknowledge(q, a))
         IN  /\ r.una >= q.una /\ r.posted = q.posted /\ r.irn = q.irn
             /\ r.finishedBit = q.finishedBit /\ r.state = q.state
             /\ r.irn => r.una <= r.highestAck
<1> DEFINE u == MaxOf(q.una, a.seq)
           p == [q EXCEPT !.una = u]
           S == p.sack \union {x \in {a.sel} : x # NoSel}
           D == DiscardUpTo(S, u)
           h == MaxOf(p.highestAck, a.seq)
           b == p.recovery /\ u < p.recoverySeq
           s == [p EXCEPT !.una = u, !.sack = D, !.highestAck = h, !.recovery = b]
<1>0. /\ q.una \in Nat /\ a.seq \in Nat /\ q.highestAck \in Nat
  BY WqeEnds DEF QpType, Ack
<1>1. /\ Acknowledge(q, a) = p /\ p.una = u /\ p.sack = q.sack
      /\ p.highestAck = q.highestAck
  BY DEF Acknowledge, QpType
<1>2. u >= q.una /\ (q.irn => u <= h)
  BY <1>0, <1>1 DEF MaxOf, Ready
<1>3. CASE ~q.irn
  <2>1. \E n : CatchUp(p) = [q EXCEPT !.una = u, !.nxt = n]
    BY DEF CatchUp
  <2> HIDE DEF u, p
  <2> QED
    BY <1>1, <1>2, <1>3, <2>1 DEF QpType
<1>4. CASE q.irn
  <2>1. u \notin S
    BY <1>1, <1>4
  <2>2. ~IsFront(S, p.una)
    BY <1>1, <2>1 DEF IsFront
  <2>3. Sack(p, a) = s
    BY <1>1, <2>2 DEF Sack
  <2>4. \E n : CatchUp(s) = [q EXCEPT !.una = u, !.sack = D, !.highestAck = h,
                                      !.recovery = b, !.nxt = n]
    BY DEF CatchUp
  <2> HIDE DEF u, p, D, s, b, h
  <2> QED
    BY <1>1, <1>2, <1>4, <2>3, <2>4 DEF QpType
<1> QED
  BY <1>3, <1>4

\* After an acknowledgement the sender has a timer, or is ready, or is done.
LEMMA AfterAckReady ==
  ASSUME IInv, MarkInv, ReadyInv, NEW a \in Ack, acks[a] > 0, qp.state = "active"
  PROVE  Ready(AfterAck(qp, a))
<1> DEFINE q1 == IF qp.irn THEN CatchUp(Sack(Acknowledge(qp, a), a))
                 ELSE CatchUp(Acknowledge(qp, a))
           q2 == Complete(q1)
           q3 == RestartTimer(q2)
           q4 == Recover(q3, a)
           q5 == HandleCnp(q4, a)
           q6 == TearDown(q5)
           Waits(q) == ~q.timer /\ ~IsFinished(q) => q.nxt = q.una
<1>0. /\ qp \in QpType /\ Good(qp, arrived) /\ arrived \subseteq 0 .. Size(qp) - 1
      /\ AckSound(a, arrived, qp.irn)
  BY DEF IInv, TypeOK
<1>1. q6 = AfterAck(qp, a)
  BY DEF AfterAck
<1>2. Good(q1, arrived) /\ Follows(qp, q1) /\ Size(q1) = Size(qp) /\ q1.state = "active"
  BY <1>0, AckedStep DEF AckSound
<1>3. /\ q1.una >= qp.una /\ q1.posted = qp.posted /\ q1.irn = qp.irn
      /\ q1.finishedBit = qp.finishedBit /\ q1.state = qp.state
      /\ q1.irn => q1.una <= q1.highestAck
  BY <1>0, NewUnaUnsacked, AckedReady DEF ReadyInv
<1> HIDE DEF q1
<1>4. Good(q2, arrived) /\ Follows(q1, q2) /\ Keeps(q1, q2)
  BY <1>0, <1>2, CompleteStep, CompleteKeeps
<1> HIDE DEF q2
<1>5. Size(q2) = Size(qp)
  BY <1>2, <1>4 DEF Size, Follows
<1>6. Good(q3, arrived) /\ Follows(q2, q3) /\ Keeps(q2, q3) /\ Waits(q3)
  BY <1>0, <1>4, <1>5, RestartTimerStep, RestartTimerReady
<1> HIDE DEF q3
<1>7. q3 \in QpType
  BY <1>6 DEF Good, Sound
<1>8. Good(q4, arrived) /\ Follows(q3, q4) /\ Keeps(q3, q4) /\ Waits(q4)
  BY <1>6, <1>7, RecoverStep, RecoverReady
<1> HIDE DEF q4
<1>9. q4 \in QpType /\ (q4.persistent => q4.state = "active")
  BY <1>2, <1>4, <1>6, <1>8 DEF Good, Sound, Follows
<1>10. Good(q5, arrived) /\ Keeps(q4, q5) /\ Waits(q5)
  BY <1>8, <1>9, HandleCnpStep, HandleCnpReady
<1> HIDE DEF q5
<1>11. q5 \in QpType
  BY <1>10 DEF Good, Sound
<1>12. Keeps(q5, q6) /\ (q6.state = "complete" \/ q6 = q5)
  BY <1>11, QpCompleteKeeps DEF TearDown, Keeps
<1> HIDE DEF q6
<1>13. Keeps(q1, q6)
  BY <1>4, <1>6, <1>8, <1>10, <1>12 DEF Keeps
<1>14. IsFinished(qp) => IsFinished(q6)
  <2>1. Size(q6) = Size(qp) /\ q6.una = q1.una
    BY <1>3, <1>13 DEF Keeps, Size
  <2>2. qp.una \in Nat /\ q1.una \in Nat /\ Size(qp) \in Nat
    BY <1>0, <1>2, SizeType, WqeEnds DEF Good, Sound, QpType
  <2> QED
    BY <1>3, <2>1, <2>2 DEF IsFinished
<1>15. q6.state # "none"
  BY <1>2, <1>13 DEF Keeps
<1>16. q6.state = "active" => Waits(q6)
  BY <1>10, <1>12
<1>17. q6.finishedBit => IsFinished(q6)
  BY <1>3, <1>13, <1>14 DEF Keeps, ReadyInv, Ready
<1>18. q6.irn => q6.una <= q6.highestAck
  BY <1>3, <1>13 DEF Keeps
<1> QED
  BY <1>1, <1>15, <1>16, <1>17, <1>18 DEF Ready

-----------------------------------------------------------------------------
(* The steps.                                                              *)

\* A queue pair with nothing posted is ready.
LEMMA ReadyInit == Init => ReadyInv
<1> SUFFICES ASSUME Init PROVE ReadyInv
  OBVIOUS
<1>1. /\ qp.finishedBit = FALSE /\ qp.state = "none" /\ qp.una = 0 /\ qp.highestAck = 0
  BY DEF Init
<1> QED
  BY <1>1 DEF ReadyInv, Ready

\* A new WQE: all before it was acknowledged, or the sender was ready for it.
LEMMA ReadyAppend == IInv /\ ReadyInv /\ AppendPersistentWqe => ReadyInv'
<1> SUFFICES ASSUME IInv, ReadyInv, AppendPersistentWqe PROVE ReadyInv'
  OBVIOUS
<1>1. /\ qp \in QpType /\ qp.una \in Nat /\ qp.nxt \in Nat /\ Size(qp) \in Nat
      /\ qp.una <= qp.nxt /\ qp.nxt <= Size(qp)
  <2>1. qp \in QpType /\ qp.una <= qp.nxt /\ qp.nxt <= Size(qp)
    BY DEF IInv, TypeOK, Good, Sound
  <2> QED
    BY <2>1, SizeType, WqeEnds DEF QpType
<1>2. /\ qp'.una = qp.una /\ qp'.nxt = qp.nxt /\ qp'.timer = qp.timer
      /\ qp'.highestAck = qp.highestAck /\ qp'.irn = qp.irn /\ qp'.finishedBit = FALSE
  BY <1>1 DEF AppendPersistentWqe, QpType
<1>3. qp.state = "none" => Size(qp) = 0
  BY DEF IInv, Good, Sound, Size
<1>4. ~qp.timer => qp.nxt = qp.una
  <2>1. CASE IsFinished(qp)
    BY <1>1, <2>1 DEF IsFinished
  <2>2. CASE ~IsFinished(qp)
    BY <1>1, <1>3, <2>2 DEF ReadyInv, Ready, IsFinished, AppendPersistentWqe
  <2> QED
    BY <2>1, <2>2
<1> QED
  BY <1>2, <1>4 DEF ReadyInv, Ready

\* A time-out gives up what is in flight; with IRN above PFC it would not.
LEMMA ReadyTimeout ==
  ASSUME NoIrnWithPfc, qp.irn \in Irn,
         IInv, MarkInv, ReadyInv, HandleTimeout
  PROVE  ReadyInv'
<1> DEFINE p == SkipFront(qp)
           q == [p EXCEPT !.timer = FALSE]
           b == q.recovery \/ q.irn
           t == [q EXCEPT !.nxt = q.una, !.recovery = b]
<1>1. Good(p, arrived) /\ p.una <= p.nxt /\ p.nxt <= Size(p)
  BY SkipFrontStep DEF IInv, Good, Sound
<1>2. Ready(p) /\ Keeps(qp, p)
  BY UnaUnsacked, SkipFrontReady DEF IInv, TypeOK, UnaNeverSacked, ReadyInv
<1>3. qp' = IF IsFinished(q) THEN q ELSE t
  <2>1. q.irn = qp.irn
    BY <1>1, <1>2 DEF Keeps, Good, Sound, QpType
  <2>2. ~(q.irn /\ QbbEnabled)
    BY <2>1 DEF NoIrnWithPfc
  <2>3. t = [RecoverQueue(q) EXCEPT !.recovery = @ \/ q.irn]
    BY DEF RecoverQueue
  <2> QED
    BY <2>2, <2>3 DEF HandleTimeout
<1> HIDE DEF p
<1>4. /\ q.una = p.una /\ q.nxt = p.nxt /\ q.highestAck = p.highestAck /\ q.irn = p.irn
      /\ q.finishedBit = p.finishedBit /\ q.state = p.state /\ q.posted = p.posted
      /\ q \in QpType
  BY <1>1 DEF Good, Sound, QpType
<1> HIDE DEF q, b
<1>5. /\ t.una = q.una /\ t.nxt = q.una /\ t.highestAck = q.highestAck /\ t.irn = q.irn
      /\ t.finishedBit = q.finishedBit /\ t.state = q.state /\ t.posted = q.posted
  BY <1>4 DEF QpType
<1> HIDE DEF t
<1>6. /\ IsFinished(q) <=> IsFinished(p)
      /\ IsFinished(t) <=> IsFinished(p)
  BY <1>4, <1>5 DEF IsFinished, Size
<1> QED
  BY <1>2, <1>3, <1>4, <1>5, <1>6 DEF ReadyInv, Ready

\* A queue pair keeps its protocol.
LEMMA IrnStays ==
  ASSUME IInv, [Next]_vars
  PROVE  qp'.irn = qp.irn
<1>0. qp \in QpType
  BY DEF IInv, TypeOK
<1>1. SkipFront(qp) \in QpType /\ SkipFront(qp).irn = qp.irn
  BY SkipFrontStep DEF IInv, Good, Sound, Follows
<1>2. CASE AddQueuePair \/ AppendPersistentWqe
  BY <1>0, <1>2 DEF AddQueuePair, AppendPersistentWqe, QpType
<1>3. CASE SealPersistentQueuePair
  BY <1>0, <1>3 DEF SealPersistentQueuePair, Install, QpComplete, QpType
<1>4. CASE DequeueAndTransmit
  BY <1>1, <1>4 DEF DequeueAndTransmit, QpType
<1>5. CASE SkippedByScan
  BY <1>1, <1>5 DEF SkippedByScan, QpType
<1>6. CASE HandleTimeout
  BY <1>1, <1>6 DEF HandleTimeout, RecoverQueue, QpType
<1>7. ASSUME NEW a \in Ack, ReceiveAck(a) PROVE qp'.irn = qp.irn
  <2>1. CASE qp.state = "active"
    BY <1>7, <2>1, AfterAckStep DEF IInv, AckSound, ReceiveAck, Install
  <2>2. CASE qp.state # "active"
    BY <1>7, <2>2 DEF ReceiveAck, Install
  <2> QED
    BY <2>1, <2>2
<1>8. CASE UNCHANGED qp
  BY <1>8
<1> QED
  BY <1>2, <1>3, <1>4, <1>5, <1>6, <1>7, <1>8
     DEF Next, vars, NackTimerExpires, LoseData, LoseAck, ReceiveUdp

\* Every step keeps the sender ready.
LEMMA ProgressInductive ==
  IInv /\ MarkInv /\ ProgressInv /\ [Next]_vars => ProgressInv'
<1> SUFFICES ASSUME NoIrnWithPfc, IInv, MarkInv, ReadyInv, qp.irn \in Irn, [Next]_vars
             PROVE  ReadyInv'
  BY IrnStays DEF ProgressInv, NoIrnWithPfc
<1> DEFINE p == SkipFront(qp)
<1>0. qp \in QpType
  BY DEF IInv, TypeOK
<1>1. Ready(p) /\ Keeps(qp, p) /\ p \in QpType
  <2>1. Good(p, arrived)
    BY SkipFrontStep DEF IInv
  <2> QED
    BY <1>0, <2>1, UnaUnsacked, SkipFrontReady DEF UnaNeverSacked, ReadyInv, Good, Sound
<1>2. ASSUME UNCHANGED qp PROVE ReadyInv'
  BY <1>2 DEF ReadyInv, Ready, IsFinished, Size
<1>3. CASE AddQueuePair
  <2>1. /\ qp'.una = qp.una /\ qp'.nxt = qp.nxt /\ qp'.highestAck = qp.highestAck
        /\ qp'.irn = qp.irn /\ qp'.finishedBit = qp.finishedBit /\ qp.state = "none"
    BY <1>0, <1>3 DEF AddQueuePair, QpType
  <2>2. qp.una <= qp.nxt /\ qp.nxt <= Size(qp) /\ Size(qp) = 0
    BY <2>1 DEF IInv, Good, Sound, Size
  <2>3. qp.una = 0 /\ qp.nxt = 0
    BY <1>0, <2>2, WqeEnds DEF QpType
  <2> QED
    BY <2>1, <2>3 DEF ReadyInv, Ready
<1>4. CASE AppendPersistentWqe
  BY <1>4, ReadyAppend
<1>5. CASE SealPersistentQueuePair
  <2> DEFINE q == [qp EXCEPT !.sealed = TRUE]
             r == QpComplete(q)
  <2>1. qp' = r \/ qp' = q
    BY <1>5 DEF SealPersistentQueuePair, Install
  <2>2. /\ q \in QpType /\ Keeps(qp, q) /\ q.state = qp.state /\ q.timer = qp.timer
        /\ q.nxt = qp.nxt
    BY <1>0 DEF QpType, Keeps
  <2> HIDE DEF q
  <2>3. Keeps(q, r) /\ r.state = "complete"
    BY <2>2, QpCompleteKeeps
  <2> HIDE DEF r
  <2>4. /\ IsFinished(q) <=> IsFinished(qp)
        /\ IsFinished(r) <=> IsFinished(qp)
    BY <2>2, <2>3 DEF Keeps, IsFinished, Size
  <2> QED
    BY <2>1, <2>2, <2>3, <2>4 DEF ReadyInv, Ready, Keeps
<1>6. CASE DequeueAndTransmit
  <2>1. /\ \E m : qp' = [p EXCEPT !.nxt = p.nxt + 1, !.timer = TRUE, !.maxSeq = m]
        /\ ~qp.finishedBit
    BY <1>6 DEF DequeueAndTransmit
  <2> HIDE DEF p
  <2>2. qp'.timer = TRUE /\ Keeps(p, qp')
    BY <1>1, <2>1 DEF QpType, Keeps
  <2> QED
    BY <1>1, <2>1, <2>2 DEF ReadyInv, Ready, Keeps
<1>7. CASE SkippedByScan
  <2>1. qp' = [p EXCEPT !.finishedBit = IsFinished(p)] /\ qp.state # "none"
    BY <1>7 DEF SkippedByScan
  <2> HIDE DEF p
  <2>2. /\ qp'.finishedBit = IsFinished(p) /\ qp'.una = p.una /\ qp'.posted = p.posted
        /\ qp'.nxt = p.nxt /\ qp'.timer = p.timer /\ qp'.state = p.state
        /\ qp'.irn = p.irn /\ qp'.highestAck = p.highestAck
    BY <1>1, <2>1 DEF QpType
  <2>3. IsFinished(qp') <=> IsFinished(p)
    BY <2>2 DEF IsFinished, Size
  <2> QED
    BY <1>1, <2>1, <2>2, <2>3 DEF ReadyInv, Ready, Keeps
<1>8. CASE HandleTimeout
  BY <1>8, ReadyTimeout
<1>9. ASSUME NEW a \in Ack, ReceiveAck(a) PROVE ReadyInv'
  <2>1. CASE qp.state = "active"
    <3>1. acks[a] > 0 /\ qp' = AfterAck(qp, a)
      BY <1>9, <2>1 DEF ReceiveAck, Install
    <3>2. Ready(AfterAck(qp, a))
      BY <2>1, <3>1, AfterAckReady
    <3> QED
      BY <3>1, <3>2 DEF ReadyInv
  <2>2. CASE qp.state # "active"
    BY <1>2, <1>9, <2>2 DEF ReceiveAck, Install
  <2> QED
    BY <2>1, <2>2
<1> QED
  BY <1>2, <1>3, <1>4, <1>5, <1>6, <1>7, <1>8, <1>9
     DEF Next, vars, NackTimerExpires, LoseData, LoseAck, ReceiveUdp

-----------------------------------------------------------------------------
\* However small the window and the bandwidth-delay product: a sender whose timer
\* does not run has gone back to snd_una, finds no block there, and its window is open.
LEMMA ReadyNotStuck == IInv /\ MarkInv /\ ReadyInv => NeverStuck
<1> SUFFICES ASSUME IInv, MarkInv, ReadyInv, qp.state = "active", ~IsFinished(qp), ~qp.timer
             PROVE  ~qp.finishedBit /\ WindowAllowed(qp) /\ SkipFront(qp).nxt < Size(qp)
  BY DEF NeverStuck
<1>1. /\ qp \in QpType /\ qp.una \in Nat /\ qp.highestAck \in Nat /\ qp.nxt = qp.una
      /\ Win \in Nat /\ Bdp \in Nat \ {0} /\ Size(qp) \in Nat
  <2>1. qp \in QpType
    BY DEF IInv, TypeOK
  <2> QED
    BY <2>1, SizeType, WqeEnds, QpAssumption DEF QpType, ReadyInv, Ready
<1>2. ~qp.finishedBit
  BY DEF ReadyInv, Ready
<1>3. SkipFront(qp) = qp
  BY <1>1, UnaUnsacked DEF SkipFront, IsFront, UnaNeverSacked
<1>4. qp.nxt < Size(qp)
  BY <1>1 DEF IsFinished
<1>5. CanIrnTransmit(qp)
  BY <1>1 DEF ReadyInv, Ready, CanIrnTransmit
<1>6. Win = 0 \/ qp.nxt - qp.una < Win
  BY <1>1
<1> QED
  BY <1>2, <1>3, <1>4, <1>5, <1>6 DEF WindowAllowed

\* Losing everything in flight does not stop a transfer: as long as data is not
\* acknowledged the retransmission timer runs or the queue pair is ready to send.
THEOREM NeverStuckAlways == NoIrnWithPfc /\ Spec => []NeverStuck
<1>1. NoIrnWithPfc /\ Init => ProgressInv
  BY ReadyInit DEF Init, ProgressInv
<1>2. IInv /\ MarkInv /\ ProgressInv => NeverStuck
  BY ReadyNotStuck DEF ProgressInv
<1> QED
  BY <1>1, <1>2, ProgressInductive, MarkInit, MarkInductive, Invariance, PTL DEF Spec

=============================================================================

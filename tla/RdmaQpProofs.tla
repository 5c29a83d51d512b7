---------------------------- MODULE RdmaQpProofs ----------------------------
(***************************************************************************)
(* What TLAPS proves of RdmaQp.tla for any list of WQEs, both protocols    *)
(* and both kinds of queue pair, any window and any number of losses: no   *)
(* acknowledgement covers a hole, the packet to repeat first is never in   *)
(* the SACK list, the send pointer stays within the WQEs, no timer runs    *)
(* after the teardown, and the queue pair implements ReliableTransfer.     *)
(***************************************************************************)
EXTENDS RdmaQp, FiniteSetTheorems, WellFoundedInduction, TLAPS

-----------------------------------------------------------------------------
(* Constants.                                                              *)

\* The ends of the WQEs increase, the last one is the total.
LEMMA WqeEnds ==
  /\ Len(WqeEnd) \in Nat \ {0}
  /\ Total \in Nat \ {0}
  /\ \A k \in 1 .. Len(WqeEnd) : WqeEnd[k] \in Nat \ {0} /\ WqeEnd[k] <= Total
  /\ \A j, k \in 1 .. Len(WqeEnd) : j <= k => WqeEnd[j] <= WqeEnd[k]
<1>1. Len(WqeEnd) \in Nat \ {0} /\ WqeEnd \in [1 .. Len(WqeEnd) -> Nat \ {0}]
  BY QpAssumption
<1>2. \A j, k \in 1 .. Len(WqeEnd) : j <= k => WqeEnd[j] <= WqeEnd[k]
  <2> SUFFICES ASSUME NEW j \in 1 .. Len(WqeEnd), NEW k \in 1 .. Len(WqeEnd), j <= k
               PROVE  WqeEnd[j] <= WqeEnd[k]
    OBVIOUS
  <2>1. CASE j = k
    BY <1>1, <2>1
  <2>2. CASE j < k
    BY <1>1, <2>2, QpAssumption
  <2> QED
    BY <1>1, <2>1, <2>2
<1> QED
  BY <1>1, <1>2 DEF Total

\* A non-empty set of numbers has a least one.
LEMMA Least ==
  ASSUME NEW T \in SUBSET Nat, T # {}
  PROVE  \E x \in T : \A y \in T : x <= y
<1> DEFINE R == OpToRel(<, Nat)
<1>1. \E x \in T : \A y \in T : <<y, x>> \notin R
  <2> HIDE DEF R
  <2> QED
    BY WFMin, NatLessThanWellFounded DEF R
<1>2. \A x, y \in T : <<y, x>> \notin R => x <= y
  BY DEF OpToRel
<1> QED
  BY <1>1, <1>2

\* A block ends at the first number that it does not contain.
LEMMA BlockEndIs ==
  ASSUME NEW S \in SUBSET SeqNo, NEW n \in 0 .. Total
  PROVE  /\ BlockEnd(S, n) \in n .. Total
         /\ BlockEnd(S, n) \notin S
         /\ n .. BlockEnd(S, n) - 1 \subseteq S
<1> DEFINE T == {m \in n .. Total : m \notin S}
<1>1. Total \in T /\ T \subseteq Nat
  BY WqeEnds DEF SeqNo
<1>2. PICK m \in T : \A y \in T : m <= y
  BY <1>1, Least
<1>3. m \in n .. Total /\ m \notin S
  OBVIOUS
<1>4. n .. m - 1 \subseteq S
  <2> SUFFICES ASSUME NEW k \in n .. m - 1, k \notin S
               PROVE  FALSE
    OBVIOUS
  <2>1. k \in T /\ k < m
    BY <1>3, WqeEnds
  <2> QED
    BY <1>2, <1>3, <2>1, WqeEnds
<1> QED
  BY <1>3, <1>4 DEF BlockEnd

\* The WQEs that end at or below u are the first ones.
LEMMA CountEnded ==
  ASSUME NEW p \in 0 .. Len(WqeEnd), NEW u \in Nat
  PROVE  LET c == Cardinality({k \in 1 .. p : WqeEnd[k] <= u})
         IN  /\ c \in 0 .. p
             /\ c > 0 => WqeEnd[c] <= u
             /\ \A k \in 1 .. p : WqeEnd[k] <= u => k <= c
<1> DEFINE S == {k \in 1 .. p : WqeEnd[k] <= u}
           c == Cardinality(S)
<1>0. p \in Nat /\ p <= Len(WqeEnd)
  BY WqeEnds
<1>1. \A n \in Nat : IsFiniteSet(1 .. n) /\ Cardinality(1 .. n) = n
  BY FS_Interval
<1>2. \A T : T \subseteq 1 .. p => IsFiniteSet(T)
  BY <1>0, <1>1, FS_Subset
<1>3. S \subseteq 1 .. p
  OBVIOUS
<1>4. \A j, k \in 1 .. p : j <= k /\ k \in S => j \in S
  BY <1>0, WqeEnds
<1>5. \A k \in S : WqeEnd[k] <= u
  OBVIOUS
<1>6. \A k \in 1 .. p : WqeEnd[k] <= u => k \in S
  OBVIOUS
<1> HIDE DEF S
<1>7. c \in Nat /\ c <= p
  <2>1. IsFiniteSet(1 .. p) /\ Cardinality(1 .. p) = p
    BY <1>0, <1>1
  <2>2. Cardinality(S) <= Cardinality(1 .. p)
    BY <2>1, <1>3, FS_Subset
  <2>3. Cardinality(S) \in Nat
    BY <1>2, <1>3, FS_CardinalityType
  <2> QED
    BY <2>1, <2>2, <2>3
<1> HIDE DEF c
<1>8. ASSUME NEW k \in S PROVE k <= c
  <2>1. k \in Nat /\ k \in 1 .. p /\ 1 .. k \subseteq S
    BY <1>0, <1>3, <1>4
  <2>2. Cardinality(1 .. k) <= Cardinality(S)
    BY <2>1, <1>2, <1>3, FS_Subset
  <2> QED
    BY <2>1, <2>2, <1>1 DEF c
<1>9. c > 0 => c \in S
  <2> SUFFICES ASSUME c > 0, c \notin S PROVE FALSE
    OBVIOUS
  <2>1. c - 1 \in Nat /\ c \in 1 .. p
    BY <1>0, <1>7
  <2>2. S \subseteq 1 .. c - 1
    <3> SUFFICES ASSUME NEW k \in S PROVE k \in 1 .. c - 1
      OBVIOUS
    <3> QED
      BY <1>0, <1>3, <1>7, <1>8
  <2>3. Cardinality(S) <= Cardinality(1 .. c - 1)
    BY <2>1, <2>2, <1>1, FS_Subset
  <2> QED
    BY <2>1, <2>3, <1>1, <1>7 DEF c
<1> QED
  BY <1>0, <1>5, <1>6, <1>7, <1>8, <1>9 DEF S, c

-----------------------------------------------------------------------------
(* The inductive invariant.                                                *)

\* The sender's queue pair q, when A has arrived.
Sound(q, A) ==
  /\ q \in QpType
  /\ 0 .. q.una - 1 \subseteq A
  /\ q.sack \subseteq A
  /\ q.una <= Size(q) /\ q.nxt <= Size(q)
  /\ q.completed <= q.posted
  /\ q.completed > 0 => WqeEnd[q.completed] <= q.una
  /\ ~q.persistent => q.completed = 0
  /\ q.state = "none" => q.posted = 0
  /\ ~q.persistent /\ q.state # "none" => q.posted = Len(WqeEnd)
  /\ q.sealed => q.posted = Len(WqeEnd)

\* A queue pair that has been torn down has completed everything.
Ended(q) ==
  q.state = "complete" =>
    /\ IsFinished(q) /\ ~q.timer
    /\ q.posted = Len(WqeEnd)
    /\ q.persistent => q.completed = Len(WqeEnd) /\ q.mlx # "adjusting"

Good(q, A) == Sound(q, A) /\ q.una <= q.nxt /\ Ended(q)

\* What the steps of ReceiveAck keep.
Follows(q, r) ==
  /\ r.irn = q.irn /\ r.persistent = q.persistent
  /\ r.posted = q.posted /\ r.sealed = q.sealed
  /\ q.completed <= r.completed
  /\ q.persistent => r.state = q.state

\* Nothing but acknowledgements moves snd_una or adds a SACK block.
Shrinks(q, r) == r.una = q.una /\ r.sack \subseteq q.sack

RxSound(r, A, irn) ==
  /\ ~irn => r.sack = {}
  /\ 0 .. r.expected - 1 \subseteq A
  /\ r.sack \subseteq A
  /\ \A s \in r.sack : s > r.expected

AckSound(a, A, irn) ==
  /\ 0 .. a.seq - 1 \subseteq A
  /\ irn /\ a.sel # NoSel => a.sel \in A

IInv ==
  /\ TypeOK
  /\ Good(qp, arrived)
  /\ RxSound(rx, arrived, qp.irn)
  /\ \A a \in Ack : acks[a] > 0 => AckSound(a, arrived, qp.irn)
  /\ arrived \subseteq 0 .. Size(qp) - 1
  /\ \A s \in SeqNo : data[s] > 0 => s < Size(qp)

-----------------------------------------------------------------------------
(* The steps of the sender.                                                *)

\* What is posted is a number of packets between none and all.
LEMMA SizeType ==
  ASSUME NEW q \in QpType
  PROVE  Size(q) \in 0 .. Total
BY WqeEnds DEF Size, QpType

\* GetBytesLeft, which moves nxt past the front SACK block.
LEMMA SkipFrontStep ==
  ASSUME NEW A, NEW q, Good(q, A), A \subseteq 0 .. Size(q) - 1
  PROVE  LET r == SkipFront(q)
         IN  /\ Good(r, A) /\ Follows(q, r) /\ Shrinks(q, r)
             /\ Size(r) = Size(q) /\ r.nxt >= q.nxt
             /\ r.una = q.una /\ r.state = q.state /\ r.timer = q.timer
             /\ r.completed = q.completed /\ r.mlx = q.mlx
<1>1. CASE q.irn /\ IsFront(q.sack, q.nxt)
  <2> DEFINE e == BlockEnd(q.sack, q.nxt)
             r == [q EXCEPT !.nxt = e, !.sack = DiscardUpTo(@, e)]
  <2>1. q \in QpType /\ q.sack \in SUBSET SeqNo /\ q.nxt \in 0 .. Total
        /\ q.una \in 0 .. Total
    BY DEF Good, Sound, QpType
  <2>2. e \in q.nxt .. Total /\ q.nxt .. e - 1 \subseteq q.sack
    BY <2>1, BlockEndIs
  <2>3. Size(q) \in 0 .. Total
    BY <2>1, SizeType
  <2>4. e <= Size(q)
    <3>1. e - 1 \in q.sack
      <4>1. q.nxt \in q.sack /\ e # q.nxt
        BY <1>1, <2>1, BlockEndIs DEF IsFront
      <4>2. Total \in Nat /\ q.nxt \in Nat
        BY <2>1, WqeEnds
      <4> HIDE DEF e
      <4>3. e - 1 \in q.nxt .. e - 1
        BY <4>1, <4>2, <2>2
      <4> QED
        BY <4>3, <2>2
    <3>2. e - 1 \in 0 .. Size(q) - 1
      BY <3>1 DEF Good, Sound
    <3> QED
      BY <3>2, <2>1, <2>2, <2>3, WqeEnds
  <2>5. e \in 0 .. Total /\ DiscardUpTo(q.sack, e) \subseteq q.sack
    BY <2>1, <2>2, WqeEnds DEF DiscardUpTo
  <2>6. SkipFront(q) = r
    BY <1>1 DEF SkipFront
  <2> HIDE DEF e
  <2>7. r \in QpType /\ Size(r) = Size(q) /\ r.nxt = e /\ r.sack = DiscardUpTo(q.sack, e)
    BY <2>1, <2>5 DEF QpType, Size
  <2>8. q.nxt <= e /\ q.una <= e
    BY <2>1, <2>2, WqeEnds DEF Good
  <2>9. Follows(q, r)
    BY <2>1 DEF Follows, QpType
  <2>10. Good(r, A)
    BY <2>1, <2>4, <2>5, <2>7, <2>8 DEF Good, Sound, Ended, IsFinished, QpType
  <2>11. Shrinks(q, r)
    BY <2>1, <2>5, <2>7 DEF Shrinks, QpType
  <2> QED
    BY <2>1, <2>6, <2>7, <2>8, <2>9, <2>10, <2>11 DEF QpType
<1>2. CASE ~(q.irn /\ IsFront(q.sack, q.nxt))
  <2>1. SkipFront(q) = q
    BY <1>2 DEF SkipFront
  <2>2. q \in QpType
    BY DEF Good, Sound
  <2>3. q.nxt \in Nat
    BY <2>2, WqeEnds DEF QpType
  <2>4. Follows(q, q)
    BY <2>2 DEF Follows, QpType
  <2> QED
    BY <2>1, <2>3, <2>4 DEF Shrinks
<1> QED
  BY <1>1, <1>2

\* Recover, which may go back to una.
LEMMA RecoverStep ==
  ASSUME NEW A, NEW q, Good(q, A), NEW a
  PROVE  LET r == Recover(q, a) IN Good(r, A) /\ Follows(q, r) /\ Shrinks(q, r)
<1> DEFINE r == Recover(q, a)
<1>1. q \in QpType /\ q.una \in 0 .. Total /\ Size(q) \in 0 .. Total
  BY SizeType DEF Good, Sound, QpType
<1>2. /\ r \in QpType /\ Size(r) = Size(q)
      /\ r.nxt \in {q.nxt, q.una} /\ r.una = q.una
      /\ r.completed = q.completed /\ r.state = q.state /\ r.posted = q.posted
      /\ r.sack = q.sack /\ r.irn = q.irn /\ r.persistent = q.persistent
      /\ r.sealed = q.sealed /\ r.timer = q.timer /\ r.mlx = q.mlx
  BY <1>1 DEF Recover, RecoverQueue, QpType, Size
<1> HIDE DEF r
<1>3. Good(r, A)
  BY <1>1, <1>2 DEF Good, Sound, Ended, IsFinished
<1>4. Follows(q, r) /\ Shrinks(q, r)
  BY <1>1, <1>2 DEF Follows, Shrinks, QpType
<1> QED
  BY <1>3, <1>4 DEF r

\* HandleCnp, which may start the timers of congestion control.
LEMMA HandleCnpStep ==
  ASSUME NEW A, NEW q, Good(q, A), NEW a, q.persistent => q.state = "active"
  PROVE  LET r == HandleCnp(q, a) IN Good(r, A) /\ Follows(q, r) /\ Shrinks(q, r)
<1> DEFINE r == HandleCnp(q, a)
<1>1. q \in QpType
  BY DEF Good, Sound
<1>2. /\ r \in QpType /\ Size(r) = Size(q) /\ r.nxt = q.nxt /\ r.una = q.una
      /\ r.completed = q.completed /\ r.state = q.state /\ r.posted = q.posted
      /\ r.sack = q.sack /\ r.irn = q.irn /\ r.persistent = q.persistent
      /\ r.sealed = q.sealed /\ r.timer = q.timer
  BY <1>1 DEF HandleCnp, QpType, Size
<1> HIDE DEF r
<1>3. Good(r, A)
  BY <1>1, <1>2 DEF Good, Sound, Ended, IsFinished
<1>4. Follows(q, r) /\ Shrinks(q, r)
  BY <1>1, <1>2 DEF Follows, Shrinks, QpType
<1> QED
  BY <1>3, <1>4 DEF r

\* RestartTimer.
LEMMA RestartTimerStep ==
  ASSUME NEW A, NEW q, Good(q, A), A \subseteq 0 .. Size(q) - 1
  PROVE  LET r == RestartTimer(q) IN Good(r, A) /\ Follows(q, r) /\ Shrinks(q, r)
<1> DEFINE p == SkipFront(q)
           r == [p EXCEPT !.timer = @ \/ (~IsFinished(p) /\ p.nxt > p.una)]
<1>1. Good(p, A) /\ Follows(q, p) /\ Shrinks(q, p)
  BY SkipFrontStep
<1> HIDE DEF p
<1>2. p \in QpType
  BY <1>1 DEF Good, Sound
<1>3. /\ r \in QpType /\ Size(r) = Size(p) /\ r.nxt = p.nxt /\ r.una = p.una
      /\ r.completed = p.completed /\ r.state = p.state /\ r.posted = p.posted
      /\ r.sack = p.sack /\ r.irn = p.irn /\ r.persistent = p.persistent
      /\ r.sealed = p.sealed /\ r.mlx = p.mlx
      /\ IsFinished(p) => r.timer = p.timer
  BY <1>2 DEF QpType, Size
<1>4. RestartTimer(q) = r
  BY DEF RestartTimer, p
<1> HIDE DEF r
<1>5. Good(r, A)
  BY <1>1, <1>2, <1>3 DEF Good, Sound, Ended, IsFinished
<1>6. Follows(q, r) /\ Shrinks(q, r)
  BY <1>1, <1>3 DEF Follows, Shrinks
<1> QED
  BY <1>4, <1>5, <1>6

\* Complete: of a persistent queue pair the WQEs that una has passed, else all of it.
LEMMA CompleteStep ==
  ASSUME NEW A, NEW q, Good(q, A), A \subseteq 0 .. Size(q) - 1, q.state = "active"
  PROVE  LET r == Complete(q) IN Good(r, A) /\ Follows(q, r) /\ Shrinks(q, r)
<1>0. q \in QpType /\ q.posted \in 0 .. Len(WqeEnd) /\ q.una \in Nat
      /\ q.completed \in 0 .. Len(WqeEnd) /\ q.completed \in Nat
  BY WqeEnds DEF Good, Sound, QpType
<1>1. CASE q.persistent
  <2> DEFINE n == Cardinality({k \in 1 .. q.posted : WqeEnd[k] <= q.una})
             r == Complete(q)
  <2>1. /\ n \in 0 .. q.posted
        /\ n > 0 => WqeEnd[n] <= q.una
        /\ \A k \in 1 .. q.posted : WqeEnd[k] <= q.una => k <= n
    BY <1>0, CountEnded
  <2>2. n \in 0 .. Len(WqeEnd) /\ n \in Nat /\ n <= q.posted
    BY <1>0, <2>1, WqeEnds
  <2>3. q.completed <= n
    <3>1. q.completed \in 1 .. q.posted \/ q.completed = 0
      BY <1>0, WqeEnds DEF Good, Sound
    <3> HIDE DEF n
    <3> QED
      BY <3>1, <2>1, <2>2 DEF Good, Sound
  <2>4. /\ r \in QpType /\ Size(r) = Size(q) /\ r.nxt = q.nxt /\ r.una = q.una
        /\ r.completed = n /\ r.state = q.state /\ r.posted = q.posted
        /\ r.sack = q.sack /\ r.irn = q.irn /\ r.persistent = q.persistent
        /\ r.sealed = q.sealed
    <3> DEFINE c == [q EXCEPT !.completed = n]
    <3>1. Complete(q) = [c EXCEPT !.timer = c.timer /\ ~IsPersistentIdle(c)]
      BY <1>1 DEF Complete, CompletePersistentWqes
    <3> HIDE DEF n
    <3>2. /\ c \in QpType /\ Size(c) = Size(q) /\ c.nxt = q.nxt /\ c.una = q.una
          /\ c.completed = n /\ c.state = q.state /\ c.posted = q.posted
          /\ c.sack = q.sack /\ c.irn = q.irn /\ c.persistent = q.persistent
          /\ c.sealed = q.sealed
      BY <2>2, <1>0 DEF QpType, Size
    <3> HIDE DEF c
    <3> QED
      BY <3>1, <3>2 DEF QpType, Size
  <2> HIDE DEF n, r
  <2>5. Good(r, A)
    BY <1>0, <1>1, <2>1, <2>2, <2>4 DEF Good, Sound, Ended
  <2>6. Follows(q, r) /\ Shrinks(q, r)
    BY <2>3, <2>4 DEF Follows, Shrinks
  <2> QED
    BY <2>5, <2>6 DEF r
<1>2. CASE ~q.persistent /\ IsFinished(q)
  <2> DEFINE p == SkipFront(q)
             r == QpComplete(p)
  <2>1. /\ Good(p, A) /\ Follows(q, p) /\ Size(p) = Size(q) /\ Shrinks(q, p)
        /\ p.completed = q.completed /\ p.state = q.state
    BY SkipFrontStep
  <2>2. Complete(q) = r
    BY <1>2 DEF Complete
  <2> HIDE DEF p
  <2>3. /\ r \in QpType /\ Size(r) = Size(p) /\ r.nxt = p.nxt /\ r.una = p.una
        /\ r.completed = p.completed /\ r.state = "complete" /\ r.posted = p.posted
        /\ r.sack = p.sack /\ r.irn = p.irn /\ r.persistent = p.persistent
        /\ r.sealed = p.sealed /\ r.timer = FALSE
    <3>1. p \in QpType
      BY <2>1 DEF Good, Sound
    <3> QED
      BY <3>1 DEF QpComplete, QpType, Size
  <2> HIDE DEF r
  <2>4. p.posted = Len(WqeEnd)
    BY <1>2, <2>1 DEF Good, Sound, Follows
  <2>5. Good(r, A)
    BY <1>2, <2>1, <2>3, <2>4 DEF Good, Sound, Ended, IsFinished, Follows, Shrinks
  <2>6. Follows(q, r) /\ Shrinks(q, r)
    BY <1>2, <2>1, <2>3 DEF Follows, Shrinks
  <2> QED
    BY <2>2, <2>5, <2>6
<1>3. CASE ~q.persistent /\ ~IsFinished(q)
  <2>1. Complete(q) = SkipFront(q)
    BY <1>3 DEF Complete
  <2> QED
    BY <2>1, SkipFrontStep
<1> QED
  BY <1>1, <1>2, <1>3

\* TearDown: a sealed queue pair with nothing left to complete ends.
LEMMA TearDownStep ==
  ASSUME NEW A, NEW q, Good(q, A)
  PROVE  LET r == TearDown(q)
         IN  /\ Good(r, A) /\ Size(r) = Size(q) /\ Shrinks(q, r)
             /\ r.irn = q.irn /\ r.persistent = q.persistent
             /\ r.posted = q.posted /\ r.completed = q.completed
<1> DEFINE r == QpComplete(q)
<1>1. q \in QpType
  BY DEF Good, Sound
<1>2. CASE q.persistent /\ q.sealed /\ IsPersistentIdle(q)
  <2>1. /\ r \in QpType /\ Size(r) = Size(q) /\ r.nxt = q.nxt /\ r.una = q.una
        /\ r.completed = q.completed /\ r.state = "complete" /\ r.posted = q.posted
        /\ r.sack = q.sack /\ r.irn = q.irn /\ r.persistent = q.persistent
        /\ r.sealed = q.sealed /\ r.timer = FALSE /\ r.mlx # "adjusting"
    BY <1>1 DEF QpComplete, QpType, Size
  <2>2. TearDown(q) = r
    BY <1>2 DEF TearDown
  <2> HIDE DEF r
  <2>3. Good(r, A)
    BY <1>2, <2>1 DEF Good, Sound, Ended, IsFinished, IsPersistentIdle
  <2> QED
    BY <2>1, <2>2, <2>3 DEF Shrinks
<1>3. CASE ~(q.persistent /\ q.sealed /\ IsPersistentIdle(q))
  BY <1>3 DEF TearDown, Shrinks
<1> QED
  BY <1>2, <1>3

\* The acknowledgement number and the block that a NACK adds.
LEMMA AckedStep ==
  ASSUME NEW A, NEW q, Good(q, A), A \subseteq 0 .. Size(q) - 1, q.state = "active",
         NEW a \in Ack, 0 .. a.seq - 1 \subseteq A,
         q.irn /\ a.sel # NoSel => a.sel \in A
  PROVE  LET r == IF q.irn THEN CatchUp(Sack(Acknowledge(q, a), a))
                  ELSE CatchUp(Acknowledge(q, a))
         IN  Good(r, A) /\ Follows(q, r) /\ Size(r) = Size(q) /\ r.state = "active"
<1> DEFINE p == Acknowledge(q, a)
           s == IF q.irn THEN Sack(p, a) ELSE p
           r == CatchUp(s)
           Same(x) == /\ x.completed = q.completed /\ x.state = q.state
                      /\ x.posted = q.posted /\ x.irn = q.irn
                      /\ x.persistent = q.persistent /\ x.sealed = q.sealed
                      /\ x.timer = q.timer /\ x.mlx = q.mlx
<1>1. /\ q \in QpType /\ q.una \in 0 .. Total /\ q.nxt \in 0 .. Total
      /\ q.sack \in SUBSET SeqNo /\ Size(q) \in 0 .. Total /\ Total \in Nat
      /\ q.highestAck \in 0 .. Total
  BY SizeType, WqeEnds DEF Good, Sound, QpType
<1>2. a.seq \in 0 .. Total /\ a.sel \in 0 .. Total
  BY DEF Ack
\* What has arrived is below what is posted.
<1>3. ASSUME NEW u \in 0 .. Total, 0 .. u - 1 \subseteq A PROVE u <= Size(q)
  <2>1. CASE u = 0
    BY <2>1, <1>1
  <2>2. CASE u > 0
    <3>1. u - 1 \in 0 .. u - 1
      BY <2>2
    <3>2. u - 1 \in 0 .. Size(q) - 1
      BY <3>1, <1>3
    <3> QED
      BY <3>2, <1>1
  <2> QED
    BY <2>1, <2>2
<1>4. /\ p \in QpType /\ Same(p) /\ p.una \in {q.una, a.seq} /\ p.una >= q.una
      /\ p.nxt = q.nxt /\ p.sack = q.sack /\ p.highestAck = q.highestAck
  <2> DEFINE m == MaxOf(q.una, a.seq)
  <2>1. m \in 0 .. Total /\ m \in {q.una, a.seq} /\ m >= q.una
    BY <1>1, <1>2 DEF MaxOf
  <2>2. p = [q EXCEPT !.una = m]
    BY DEF Acknowledge
  <2> HIDE DEF m, p
  <2> QED
    BY <1>1, <2>1, <2>2 DEF QpType
<1>5. 0 .. p.una - 1 \subseteq A /\ p.una \in 0 .. Total
  BY <1>1, <1>2, <1>4 DEF Good, Sound
<1> HIDE DEF p
<1>6. /\ s \in QpType /\ Same(s) /\ s.una >= q.una /\ s.una \in 0 .. Total
      /\ s.nxt = q.nxt /\ s.sack \subseteq A /\ 0 .. s.una - 1 \subseteq A
  <2>1. CASE q.irn
    <3> DEFINE S == p.sack \union {x \in {a.sel} : x # NoSel}
               u == IF IsFront(S, p.una) THEN BlockEnd(S, p.una) ELSE p.una
    <3>1. S \subseteq A
      BY <1>4, <2>1 DEF Good, Sound
    <3>2. S \in SUBSET SeqNo
      BY <1>1, <1>2, <1>4 DEF SeqNo, NoSel
    <3>3. s = [p EXCEPT !.una = u, !.sack = DiscardUpTo(S, u),
                        !.highestAck = MaxOf(p.highestAck, a.seq),
                        !.recovery = p.recovery /\ u < p.recoverySeq]
      BY <2>1 DEF Sack
    <3> HIDE DEF S
    <3>4. u \in 0 .. Total /\ u >= p.una /\ 0 .. u - 1 \subseteq A
      <4>1. CASE IsFront(S, p.una)
        <5> DEFINE e == BlockEnd(S, p.una)
        <5>1. e \in p.una .. Total /\ p.una .. e - 1 \subseteq S
          BY <3>2, <1>5, BlockEndIs
        <5>2. u = e
          BY <4>1
        <5> HIDE DEF e, u
        <5>3. 0 .. e - 1 \subseteq (0 .. p.una - 1) \union (p.una .. e - 1)
          BY <5>1, <1>5, <1>1
        <5> QED
          BY <5>1, <5>2, <5>3, <3>1, <1>5, <1>1
      <4>2. CASE ~IsFront(S, p.una)
        BY <4>2, <1>1, <1>5
      <4> QED
        BY <4>1, <4>2
    <3> HIDE DEF u
    <3>5. DiscardUpTo(S, u) \in SUBSET SeqNo /\ DiscardUpTo(S, u) \subseteq A
      BY <3>1, <3>2 DEF DiscardUpTo
    <3>6. MaxOf(p.highestAck, a.seq) \in 0 .. Total
      BY <1>1, <1>2, <1>4 DEF MaxOf
    <3> HIDE DEF s
    <3>7. /\ s \in QpType /\ Same(s) /\ s.una = u /\ s.nxt = p.nxt
          /\ s.sack = DiscardUpTo(S, u)
      BY <1>4, <3>3, <3>4, <3>5, <3>6 DEF QpType
    <3> QED
      BY <1>1, <1>4, <1>5, <3>4, <3>5, <3>7
  <2>2. CASE ~q.irn
    BY <2>2, <1>4, <1>5 DEF Good, Sound
  <2> QED
    BY <2>1, <2>2
<1>7. r = IF q.irn THEN CatchUp(Sack(Acknowledge(q, a), a))
          ELSE CatchUp(Acknowledge(q, a))
  BY DEF p
<1> HIDE DEF s
<1>8. s.una <= Size(q)
  BY <1>3, <1>6
<1>9. /\ r \in QpType /\ Same(r) /\ r.una = s.una /\ r.sack = s.sack
      /\ r.nxt \in {s.nxt, s.una} /\ r.nxt >= r.una
  <2> DEFINE m == MaxOf(s.nxt, s.una)
  <2>1. m \in 0 .. Total /\ m \in {s.nxt, s.una} /\ m >= s.una
    BY <1>1, <1>6 DEF MaxOf
  <2>2. r = [s EXCEPT !.nxt = m]
    BY DEF CatchUp
  <2> HIDE DEF m, r
  <2> QED
    BY <1>6, <2>1, <2>2 DEF QpType
<1> HIDE DEF r
<1>10. Size(r) = Size(q)
  BY <1>9 DEF Size
<1>11. q.completed > 0 => WqeEnd[q.completed] <= r.una
  <2>1. q.completed \in 0 .. Len(WqeEnd)
    BY <1>1 DEF QpType
  <2>2. q.completed > 0 => WqeEnd[q.completed] \in Nat
    BY <2>1, WqeEnds
  <2> QED
    BY <2>2, <1>1, <1>6, <1>9 DEF Good, Sound
<1>12. Sound(r, A)
  BY <1>1, <1>6, <1>8, <1>9, <1>10, <1>11 DEF Good, Sound
<1>13. Ended(r)
  BY <1>9 DEF Ended
<1>14. Follows(q, r)
  BY <1>1, <1>9 DEF Follows, QpType
<1> QED
  BY <1>7, <1>9, <1>10, <1>12, <1>13, <1>14, <1>6 DEF Good

\* ReceiveAck as a whole, from the operators above in their order.
LEMMA AfterAckStep ==
  ASSUME NEW A, NEW q, Good(q, A), A \subseteq 0 .. Size(q) - 1, q.state = "active",
         NEW a \in Ack, 0 .. a.seq - 1 \subseteq A,
         q.irn /\ a.sel # NoSel => a.sel \in A
  PROVE  LET r == AfterAck(q, a)
         IN  /\ Good(r, A) /\ Size(r) = Size(q)
             /\ r.irn = q.irn /\ r.persistent = q.persistent
             /\ r.posted = q.posted /\ q.completed <= r.completed
             /\ Shrinks(IF q.irn THEN CatchUp(Sack(Acknowledge(q, a), a))
                        ELSE CatchUp(Acknowledge(q, a)), r)
<1> DEFINE q1 == IF q.irn THEN CatchUp(Sack(Acknowledge(q, a), a))
                 ELSE CatchUp(Acknowledge(q, a))
           q2 == Complete(q1)
           q3 == RestartTimer(q2)
           q4 == Recover(q3, a)
           q5 == HandleCnp(q4, a)
           q6 == TearDown(q5)
<1>1. q6 = AfterAck(q, a)
  BY DEF AfterAck
<1>2. Good(q1, A) /\ Follows(q, q1) /\ Size(q1) = Size(q) /\ q1.state = "active"
  BY AckedStep
<1> HIDE DEF q1
<1>3. Good(q2, A) /\ Follows(q1, q2) /\ Shrinks(q1, q2)
  BY <1>2, CompleteStep
<1> HIDE DEF q2
<1>4. Size(q2) = Size(q)
  BY <1>2, <1>3 DEF Size, Follows
<1>5. Good(q3, A) /\ Follows(q2, q3) /\ Shrinks(q2, q3)
  BY <1>3, <1>4, RestartTimerStep
<1> HIDE DEF q3
<1>6. Good(q4, A) /\ Follows(q3, q4) /\ Shrinks(q3, q4)
  BY <1>5, RecoverStep
<1> HIDE DEF q4
<1>7. q4.persistent => q4.state = "active"
  BY <1>2, <1>3, <1>5, <1>6 DEF Follows
<1>8. Good(q5, A) /\ Follows(q4, q5) /\ Shrinks(q4, q5)
  BY <1>6, <1>7, HandleCnpStep
<1> HIDE DEF q5
<1>9. /\ Good(q6, A) /\ Size(q6) = Size(q5) /\ Shrinks(q5, q6)
      /\ q6.irn = q5.irn /\ q6.persistent = q5.persistent
      /\ q6.posted = q5.posted /\ q6.completed = q5.completed
  BY <1>8, TearDownStep
<1> HIDE DEF q6
<1>10. Size(q5) = Size(q)
  BY <1>4, <1>5, <1>6, <1>8 DEF Size, Follows
<1>11. /\ q.completed \in Nat /\ q1.completed \in Nat /\ q2.completed \in Nat
       /\ q3.completed \in Nat /\ q4.completed \in Nat /\ q5.completed \in Nat
  BY <1>2, <1>3, <1>5, <1>6, <1>8, WqeEnds DEF Good, Sound, QpType
<1>12. q.completed <= q5.completed
  BY <1>2, <1>3, <1>5, <1>6, <1>8, <1>11 DEF Follows
<1>13. Shrinks(q1, q6)
  BY <1>3, <1>5, <1>6, <1>8, <1>9 DEF Shrinks
<1>14. /\ q6.irn = q.irn /\ q6.persistent = q.persistent
       /\ q6.posted = q.posted /\ q.completed <= q6.completed
  BY <1>2, <1>3, <1>5, <1>6, <1>8, <1>9, <1>12 DEF Follows
<1> QED
  BY <1>1, <1>9, <1>10, <1>13, <1>14 DEF q1

-----------------------------------------------------------------------------
(* The step of the receiver.                                               *)

\* The receiver moves past the packet and the block behind it.
LEMMA AdvanceStep ==
  ASSUME NEW A, NEW r \in RxType, RxSound(r, A, TRUE), NEW s \in SeqNo, IsInOrder(r, s)
  PROVE  Advance(r, s) \in RxType /\ RxSound(Advance(r, s), A \union {s}, TRUE)
<1> DEFINE n == s + 1
           e == IF IsFront(r.sack, n) THEN BlockEnd(r.sack, n) ELSE n
           D == DiscardUpTo(r.sack, e)
<1>1. /\ Total \in Nat /\ s \in 0 .. Total - 1 /\ n \in 0 .. Total /\ n \in Nat
      /\ r.sack \in SUBSET SeqNo /\ r.expected \in 0 .. Total
      /\ r.expected \in {s, n}
  BY WqeEnds DEF RxType, SeqNo, IsInOrder
<1>2. 0 .. s \subseteq A \union {s}
  BY <1>1 DEF RxSound
<1>3. \A m \in r.sack : m >= n /\ (m = n => r.expected = s)
  BY <1>1 DEF RxSound, SeqNo
<1>4. e \in n .. Total /\ 0 .. e - 1 \subseteq A \union {s} /\ e \notin r.sack
  <2>1. CASE IsFront(r.sack, n)
    <3> DEFINE b == BlockEnd(r.sack, n)
    <3>1. b \in n .. Total /\ b \notin r.sack /\ n .. b - 1 \subseteq r.sack
      BY <1>1, BlockEndIs
    <3>2. e = b
      BY <2>1
    <3> HIDE DEF b, e
    <3>3. 0 .. b - 1 \subseteq (0 .. s) \union (n .. b - 1)
      BY <1>1, <3>1
    <3> QED
      BY <1>2, <3>1, <3>2, <3>3 DEF RxSound
  <2>2. CASE ~IsFront(r.sack, n)
    <3>1. e = n
      BY <2>2
    <3>2. n \notin r.sack
      BY <1>3, <2>2, <1>1 DEF IsFront, SeqNo
    <3> QED
      BY <1>1, <1>2, <3>1, <3>2
  <2> QED
    BY <2>1, <2>2
<1> HIDE DEF e
<1>5. D \in SUBSET SeqNo /\ D \subseteq A /\ \A m \in D : m > e
  BY <1>1, <1>4 DEF DiscardUpTo, RxSound, SeqNo
<1>6. Advance(r, s) = [r EXCEPT !.expected = e, !.sack = D]
  BY DEF Advance, e
<1> HIDE DEF D
<1>7. e \in 0 .. Total
  BY <1>1, <1>4
<1> QED
  BY <1>4, <1>5, <1>6, <1>7 DEF RxType, RxSound

\* ReceiverCheckSeq keeps what has arrived apart from what has not.
LEMMA CheckSeqStep ==
  ASSUME NEW A, NEW r \in RxType, RxSound(r, A, qp.irn), qp.irn \in BOOLEAN,
         NEW s \in SeqNo
  PROVE  LET c == ReceiverCheckSeq(r, s)
         IN  c.rx \in RxType /\ RxSound(c.rx, A \union {s}, qp.irn)
<1> DEFINE c == ReceiverCheckSeq(r, s)
<1> SUFFICES c.rx \in RxType /\ RxSound(c.rx, A \union {s}, qp.irn)
  OBVIOUS
<1> HIDE DEF c
<1>1. /\ Total \in Nat /\ s \in 0 .. Total - 1 /\ s \in Nat
      /\ r.sack \in SUBSET SeqNo /\ r.expected \in 0 .. Total /\ r.expected \in Nat
  BY WqeEnds DEF RxType, SeqNo
<1>2. RxSound(r, A \union {s}, qp.irn)
  BY DEF RxSound
<1>3. CASE IsInOrder(r, s)
  <2>0. ~(s > r.expected)
    BY <1>1, <1>3 DEF IsInOrder
  <2>1. CASE qp.irn
    <3> DEFINE v == Advance(r, s)
    <3>1. v \in RxType /\ RxSound(v, A \union {s}, TRUE)
      BY <1>3, <2>1, AdvanceStep
    <3>2. c = [rx |-> v, reply |-> IF v.sack = {} THEN "ACK" ELSE "NACK"]
      BY <1>3, <2>0, <2>1 DEF c, ReceiverCheckSeq
    <3> HIDE DEF v
    <3> QED
      BY <2>1, <3>1, <3>2
  <2>2. CASE ~qp.irn
    <3> DEFINE v == [r EXCEPT !.expected = s + 1]
               reply == IF v.expected >= AckInterval \/ v.expected % Chunk = 0
                        THEN "ACK" ELSE "nothing"
    <3>1. 0 .. s \subseteq A \union {s} /\ s + 1 \in 0 .. Total
      BY <1>1, <1>3 DEF RxSound, IsInOrder
    <3>2. 0 .. (s + 1) - 1 \subseteq A \union {s}
      BY <1>1, <3>1
    <3>3. v \in RxType /\ v.expected = s + 1 /\ v.sack = {}
      BY <2>2, <3>1 DEF RxType, RxSound
    <3>4. c = [rx |-> v, reply |-> reply]
      BY <1>3, <2>0, <2>2 DEF c, ReceiverCheckSeq
    <3> HIDE DEF v, reply
    <3>5. RxSound(v, A \union {s}, qp.irn)
      BY <2>2, <3>2, <3>3 DEF RxSound
    <3> QED
      BY <3>3, <3>4, <3>5
  <2> QED
    BY <2>1, <2>2
<1>4. CASE ~IsInOrder(r, s) /\ s > r.expected
  <2>1. CASE SkipNack(r, s)
    <3>1. c.rx = r
      BY <1>4, <2>1 DEF c, ReceiverCheckSeq
    <3> QED
      BY <1>2, <3>1
  <2>2. CASE ~SkipNack(r, s)
    <3>1. c.rx = Beyond(r, s)
      BY <1>4, <2>2 DEF c, ReceiverCheckSeq
    <3>2. CASE qp.irn
      <4> DEFINE v == [r EXCEPT !.nackTimer = TRUE, !.sack = r.sack \union {s}]
      <4>1. v \in RxType /\ v.sack = r.sack \union {s} /\ v.expected = r.expected
        BY <1>1 DEF RxType
      <4>2. c.rx = v
        BY <3>1, <3>2 DEF Beyond
      <4> HIDE DEF v
      <4>3. RxSound(v, A \union {s}, qp.irn)
        BY <4>1, <1>4, <3>2 DEF RxSound
      <4> QED
        BY <4>1, <4>2, <4>3
    <3>3. CASE ~qp.irn
      <4> DEFINE v == [r EXCEPT !.nackTimer = TRUE, !.lastNACK = r.expected]
      <4>1. v \in RxType /\ v.sack = r.sack /\ v.expected = r.expected
        BY <1>1 DEF RxType
      <4>2. c.rx = v
        BY <3>1, <3>3 DEF Beyond
      <4> HIDE DEF v
      <4>3. RxSound(v, A \union {s}, qp.irn)
        BY <4>1, <3>3 DEF RxSound
      <4> QED
        BY <4>1, <4>2, <4>3
    <3> QED
      BY <3>2, <3>3
  <2> QED
    BY <2>1, <2>2
<1>5. CASE ~IsInOrder(r, s) /\ ~(s > r.expected)
  <2>1. c.rx = r
    BY <1>5 DEF c, ReceiverCheckSeq
  <2> QED
    BY <1>2, <2>1
<1> QED
  BY <1>3, <1>4, <1>5

-----------------------------------------------------------------------------
(* What more arrivals leave alone.                                         *)

\* What was sound stays sound when more has arrived.
LEMMA Monotone ==
  ASSUME NEW A, NEW B, A \subseteq B
  PROVE  /\ \A q : Good(q, A) => Good(q, B)
         /\ \A a, irn : AckSound(a, A, irn) => AckSound(a, B, irn)
BY DEF Good, Sound, AckSound

\* A receiver that starts anew claims nothing.
LEMMA DeleteRx ==
  ASSUME NEW r, NEW A, NEW irn
  PROVE  DeleteRxQp(r) \in RxType /\ RxSound(DeleteRxQp(r), A, irn)
BY WqeEnds DEF DeleteRxQp, RxType, RxSound

-----------------------------------------------------------------------------
(* The invariant is inductive.                                             *)

\* The invariant holds initially.
LEMMA Initially == Init => IInv
<1> SUFFICES ASSUME Init PROVE IInv
  OBVIOUS
<1>1. /\ qp.irn \in BOOLEAN /\ qp.persistent \in BOOLEAN /\ qp \in QpType
      /\ qp.state = "none" /\ qp.posted = 0 /\ qp.completed = 0 /\ ~qp.sealed
      /\ qp.nxt = 0 /\ qp.una = 0 /\ qp.sack = {} /\ Size(qp) = 0
  <2>1. /\ 0 \in 0 .. Len(WqeEnd) /\ {0} \subseteq 0 .. Total /\ {0, Total} \subseteq 0 .. Total
        /\ {{}} \subseteq SUBSET SeqNo /\ Irn \subseteq BOOLEAN /\ Persistent \subseteq BOOLEAN
    BY QpAssumption, WqeEnds
  <2>2. qp \in QpType
    BY <2>1 DEF Init, QpType
  <2>3. /\ qp.state = "none" /\ qp.posted = 0 /\ qp.completed = 0 /\ ~qp.sealed
        /\ qp.nxt = 0 /\ qp.una = 0 /\ qp.sack = {}
    BY DEF Init
  <2> QED
    BY <2>2, <2>3 DEF QpType, Size
<1>2. Good(qp, arrived)
  BY <1>1, WqeEnds DEF Good, Sound, Ended
<1>3. /\ rx \in RxType /\ RxSound(rx, arrived, qp.irn)
      /\ rx.sack = {}
  BY WqeEnds DEF Init, RxType, RxSound
<1>4. /\ data \in [SeqNo -> Nat] /\ \A s \in SeqNo : data[s] = 0
      /\ acks \in [Ack -> Nat] /\ \A a \in Ack : acks[a] = 0
      /\ losses \in 0 .. MaxLoss /\ arrived = {}
  BY QpAssumption DEF Init
<1> QED
  BY <1>1, <1>2, <1>3, <1>4 DEF IInv, TypeOK

\* A step of the sender, which may put a packet on the network or take an
\* acknowledgement from it.
LEMMA SenderStep ==
  ASSUME IInv, Good(qp', arrived), Size(qp') >= Size(qp), qp'.irn = qp.irn,
         rx' = rx \/ rx' = DeleteRxQp(rx),
         data' \in [SeqNo -> Nat],
         \A s \in SeqNo : data'[s] > 0 => data[s] > 0 \/ s < Size(qp'),
         acks' \in [Ack -> Nat], \A a \in Ack : acks'[a] > 0 => acks[a] > 0,
         UNCHANGED <<losses, arrived>>
  PROVE  IInv'
<1>1. /\ qp' \in QpType /\ Size(qp) \in Nat /\ Size(qp') \in Nat
  BY SizeType, WqeEnds DEF IInv, TypeOK, Good, Sound
<1>2. rx' \in RxType /\ RxSound(rx', arrived, qp.irn)
  BY DeleteRx DEF IInv, TypeOK
<1>3. \A s \in SeqNo : data'[s] > 0 => s < Size(qp')
  BY <1>1 DEF IInv, SeqNo
<1>4. arrived \subseteq 0 .. Size(qp') - 1
  BY <1>1 DEF IInv
<1>5. TypeOK'
  BY <1>1, <1>2 DEF IInv, TypeOK
<1> QED
  BY <1>2, <1>3, <1>4, <1>5 DEF IInv

\* A step of the sender alone that keeps its record good keeps the invariant.
LEMMA LocalStep ==
  ASSUME IInv, Good(qp', arrived), Size(qp') >= Size(qp), qp'.irn = qp.irn,
         rx' = rx \/ rx' = DeleteRxQp(rx),
         UNCHANGED <<data, acks, losses, arrived>>
  PROVE  IInv'
<1>1. data' \in [SeqNo -> Nat] /\ acks' \in [Ack -> Nat]
  BY DEF IInv, TypeOK
<1> QED
  BY <1>1, SenderStep

\* A step of the network.
LEMMA NetworkStep ==
  ASSUME IInv, UNCHANGED <<qp, rx, arrived>>, losses' \in 0 .. MaxLoss,
         data' \in [SeqNo -> Nat], \A s \in SeqNo : data'[s] <= data[s],
         acks' \in [Ack -> Nat], \A a \in Ack : acks'[a] <= acks[a]
  PROVE  IInv'
<1>1. TypeOK'
  BY DEF IInv, TypeOK
<1>2. \A s \in SeqNo : data'[s] > 0 => data[s] > 0
  BY DEF IInv, TypeOK
<1>3. \A a \in Ack : acks'[a] > 0 => acks[a] > 0
  BY DEF IInv, TypeOK
<1> QED
  BY <1>1, <1>2, <1>3 DEF IInv

\* Install writes the record, and deletes the receiver's on completion.
LEMMA InstallStep ==
  ASSUME NEW q, Install(q)
  PROVE  qp' = q /\ (rx' = rx \/ rx' = DeleteRxQp(rx))
BY DEF Install

\* A legacy queue pair is added.
LEMMA AddStep == IInv /\ AddQueuePair => IInv'
<1> SUFFICES ASSUME IInv, AddQueuePair PROVE IInv'
  OBVIOUS
<1>1. /\ qp \in QpType /\ Len(WqeEnd) \in Nat \ {0}
      /\ Len(WqeEnd) \in 0 .. Len(WqeEnd)
  BY WqeEnds DEF IInv, TypeOK
<1>2. /\ qp' \in QpType /\ qp'.irn = qp.irn /\ qp'.persistent = qp.persistent
      /\ qp'.state = "active" /\ qp'.posted = Len(WqeEnd) /\ ~qp.persistent
      /\ qp'.nxt = qp.nxt /\ qp'.una = qp.una /\ qp'.sack = qp.sack
      /\ qp'.completed = qp.completed /\ qp'.sealed = qp.sealed
      /\ qp.state = "none" /\ UNCHANGED <<rx, data, acks, losses, arrived>>
  BY <1>1 DEF AddQueuePair, QpType
<1>3. Size(qp) = 0 /\ Size(qp') \in Nat
  BY <1>2, SizeType, WqeEnds DEF IInv, Good, Sound, Size
<1>4. qp.nxt <= Size(qp') /\ qp.una <= Size(qp')
  BY <1>1, <1>3, WqeEnds DEF IInv, Good, Sound, QpType
<1>5. Good(qp', arrived)
  BY <1>1, <1>2, <1>4 DEF IInv, Good, Sound, Ended, QpType
<1> QED
  BY <1>2, <1>3, <1>5, LocalStep

\* A WQE is posted to a persistent queue pair.
LEMMA AppendStep == IInv /\ AppendPersistentWqe => IInv'
<1> SUFFICES ASSUME IInv, AppendPersistentWqe PROVE IInv'
  OBVIOUS
<1>1. qp \in QpType /\ Len(WqeEnd) \in Nat \ {0} /\ Total \in Nat
  BY WqeEnds DEF IInv, TypeOK
<1>2. /\ qp' \in QpType /\ qp'.irn = qp.irn /\ qp'.persistent = qp.persistent
      /\ qp'.state = "active" /\ qp'.posted = qp.posted + 1 /\ qp.persistent
      /\ qp'.nxt = qp.nxt /\ qp'.una = qp.una /\ qp'.sack = qp.sack
      /\ qp'.completed = qp.completed /\ qp'.sealed = qp.sealed /\ ~qp.sealed
      /\ UNCHANGED <<rx, data, acks, losses, arrived>>
  <2>1. qp.posted + 1 \in 0 .. Len(WqeEnd)
    BY <1>1 DEF AppendPersistentWqe, QpType
  <2> QED
    BY <1>1, <2>1 DEF AppendPersistentWqe, QpType
<1>3. qp.posted \in 0 .. Len(WqeEnd) /\ qp'.posted \in 1 .. Len(WqeEnd)
  BY <1>1, <1>2 DEF QpType
<1>4. Size(qp) \in Nat /\ Size(qp') \in Nat /\ Size(qp') >= Size(qp)
  BY <1>1, <1>2, <1>3, WqeEnds DEF Size
<1>5. qp.nxt <= Size(qp') /\ qp.una <= Size(qp')
  BY <1>1, <1>4 DEF IInv, Good, Sound, QpType
<1>6. Good(qp', arrived)
  BY <1>1, <1>2, <1>3, <1>5 DEF IInv, Good, Sound, Ended, QpType
<1> QED
  BY <1>2, <1>4, <1>6, LocalStep

\* A persistent queue pair is sealed.
LEMMA SealStep == IInv /\ SealPersistentQueuePair => IInv'
<1> SUFFICES ASSUME IInv, SealPersistentQueuePair PROVE IInv'
  OBVIOUS
<1> DEFINE q == [qp EXCEPT !.sealed = TRUE]
           r == QpComplete(q)
<1>1. qp \in QpType
  BY DEF IInv, TypeOK
<1>2. /\ q \in QpType /\ Size(q) = Size(qp) /\ q.irn = qp.irn
      /\ q.persistent = qp.persistent /\ q.state = qp.state /\ q.posted = qp.posted
      /\ q.nxt = qp.nxt /\ q.una = qp.una /\ q.sack = qp.sack
      /\ q.completed = qp.completed /\ q.sealed
  BY <1>1 DEF QpType, Size
<1>3. /\ qp.persistent /\ qp.state = "active" /\ qp.posted = Len(WqeEnd)
      /\ Install(IF IsPersistentIdle(q) THEN r ELSE q)
      /\ UNCHANGED <<data, acks, losses, arrived>>
  BY DEF SealPersistentQueuePair
<1> HIDE DEF q
<1>4. Good(q, arrived)
  BY <1>2, <1>3 DEF IInv, Good, Sound, Ended
<1>5. /\ IsPersistentIdle(q) => Good(r, arrived)
      /\ Size(r) = Size(q) /\ r.irn = q.irn
  <2>1. /\ r \in QpType /\ Size(r) = Size(q) /\ r.nxt = q.nxt /\ r.una = q.una
        /\ r.completed = q.completed /\ r.state = "complete" /\ r.posted = q.posted
        /\ r.sack = q.sack /\ r.irn = q.irn /\ r.persistent = q.persistent
        /\ r.sealed = q.sealed /\ r.timer = FALSE /\ r.mlx # "adjusting"
    BY <1>2 DEF QpComplete, QpType, Size
  <2> HIDE DEF r
  <2> QED
    BY <1>2, <1>3, <1>4, <2>1 DEF Good, Sound, Ended, IsFinished, IsPersistentIdle
<1> HIDE DEF r
<1>6. PICK v : v = IF IsPersistentIdle(q) THEN r ELSE q
  OBVIOUS
<1>7. Good(v, arrived) /\ Size(v) = Size(qp) /\ v.irn = qp.irn
  BY <1>2, <1>4, <1>5, <1>6
<1>8. qp' = v /\ (rx' = rx \/ rx' = DeleteRxQp(rx))
  BY <1>3, <1>6, InstallStep
<1>9. Size(qp) \in Nat
  BY <1>1, SizeType, WqeEnds
<1> QED
  BY <1>3, <1>7, <1>8, <1>9, LocalStep

\* The NIC sends a packet.
LEMMA DequeueStep == IInv /\ DequeueAndTransmit => IInv'
<1> SUFFICES ASSUME IInv, DequeueAndTransmit PROVE IInv'
  OBVIOUS
<1> DEFINE q == SkipFront(qp)
           m == IF q.irn /\ q.maxSeq < q.nxt THEN q.nxt ELSE q.maxSeq
           r == [q EXCEPT !.nxt = q.nxt + 1, !.timer = TRUE, !.maxSeq = m]
<1>1. /\ Good(q, arrived) /\ Follows(qp, q) /\ Size(q) = Size(qp)
      /\ q.nxt >= qp.nxt /\ q.una = qp.una /\ q.state = qp.state
  BY SkipFrontStep DEF IInv
<1>2. /\ q.nxt < Size(q) /\ qp' = r /\ data' = [data EXCEPT ![q.nxt] = @ + 1]
      /\ UNCHANGED <<rx, acks, losses, arrived>>
  BY DEF DequeueAndTransmit
<1> HIDE DEF q
<1>3. /\ q \in QpType /\ q.nxt \in 0 .. Total /\ q.una \in 0 .. Total
      /\ q.maxSeq \in 0 .. Total /\ Size(q) \in 0 .. Total /\ Total \in Nat
  BY <1>1, SizeType, WqeEnds DEF Good, Sound, QpType
<1>4. q.nxt \in SeqNo /\ q.nxt + 1 \in 0 .. Total /\ m \in 0 .. Total
  BY <1>2, <1>3 DEF SeqNo
<1> HIDE DEF m
<1>5. /\ r \in QpType /\ Size(r) = Size(q) /\ r.nxt = q.nxt + 1 /\ r.una = q.una
      /\ r.completed = q.completed /\ r.state = q.state /\ r.posted = q.posted
      /\ r.sack = q.sack /\ r.irn = q.irn /\ r.persistent = q.persistent
      /\ r.sealed = q.sealed
  BY <1>3, <1>4 DEF QpType, Size
<1> HIDE DEF r
\* A queue pair that has been torn down has nothing left to send.
<1>6. q.state # "complete"
  BY <1>1, <1>2, <1>3 DEF Good, Ended, IsFinished
<1>7. Good(r, arrived)
  BY <1>1, <1>2, <1>3, <1>5, <1>6 DEF Good, Sound, Ended
<1>8. r.irn = qp.irn /\ Size(r) = Size(qp) /\ Size(r) >= Size(qp)
  BY <1>1, <1>3, <1>5 DEF Follows
<1>9. /\ data' \in [SeqNo -> Nat] /\ acks' \in [Ack -> Nat]
      /\ \A s \in SeqNo : data'[s] > 0 => data[s] > 0 \/ s < Size(r)
      /\ \A a \in Ack : acks'[a] > 0 => acks[a] > 0
  <2>1. data \in [SeqNo -> Nat] /\ acks \in [Ack -> Nat]
    BY DEF IInv, TypeOK
  <2>2. \A s \in SeqNo : data'[s] = IF s = q.nxt THEN data[s] + 1 ELSE data[s]
    BY <1>2, <1>4, <2>1
  <2>3. data' \in [SeqNo -> Nat]
    BY <1>2, <1>4, <2>1
  <2>4. q.nxt < Size(r)
    BY <1>2, <1>5
  <2> QED
    BY <1>2, <2>1, <2>2, <2>3, <2>4
<1> QED
  BY <1>2, <1>7, <1>8, <1>9, SenderStep

\* The NIC finds the queue pair not ready.
LEMMA ScanStep == IInv /\ SkippedByScan => IInv'
<1> SUFFICES ASSUME IInv, SkippedByScan PROVE IInv'
  OBVIOUS
<1> DEFINE q == SkipFront(qp)
           b == IsFinished(q)
           r == [q EXCEPT !.finishedBit = b]
<1>1. Good(q, arrived) /\ Follows(qp, q) /\ Size(q) = Size(qp)
  BY SkipFrontStep DEF IInv
<1>2. qp' = r /\ UNCHANGED <<rx, data, acks, losses, arrived>>
  BY DEF SkippedByScan
<1>3. b \in BOOLEAN
  BY DEF IsFinished
<1> HIDE DEF q, b
<1>4. q \in QpType /\ Size(q) \in Nat
  BY <1>1, SizeType, WqeEnds DEF Good, Sound
<1>5. /\ r \in QpType /\ Size(r) = Size(q) /\ r.nxt = q.nxt /\ r.una = q.una
      /\ r.completed = q.completed /\ r.state = q.state /\ r.posted = q.posted
      /\ r.sack = q.sack /\ r.irn = q.irn /\ r.persistent = q.persistent
      /\ r.sealed = q.sealed /\ r.timer = q.timer /\ r.mlx = q.mlx
  BY <1>3, <1>4 DEF QpType, Size
<1> HIDE DEF r
<1>6. Good(r, arrived)
  BY <1>1, <1>5 DEF Good, Sound, Ended, IsFinished
<1>7. r.irn = qp.irn /\ Size(r) >= Size(qp)
  BY <1>1, <1>4, <1>5 DEF Follows
<1> QED
  BY <1>2, <1>6, <1>7, LocalStep

\* The retransmission timer fires.
LEMMA TimeoutStep == IInv /\ HandleTimeout => IInv'
<1> SUFFICES ASSUME IInv, HandleTimeout PROVE IInv'
  OBVIOUS
<1> DEFINE p == SkipFront(qp)
           q == [p EXCEPT !.timer = FALSE]
           b == q.recovery \/ q.irn
           r == [q EXCEPT !.nxt = q.una]
           t == [r EXCEPT !.recovery = b]
<1>1. Good(p, arrived) /\ Follows(qp, p) /\ Size(p) = Size(qp)
  BY SkipFrontStep DEF IInv
<1>2. qp' \in {q, t} /\ UNCHANGED <<rx, data, acks, losses, arrived>>
  <2>1. t = [RecoverQueue(q) EXCEPT !.recovery = @ \/ q.irn]
    BY DEF RecoverQueue
  <2> QED
    BY <2>1 DEF HandleTimeout
<1> HIDE DEF p
<1>3. p \in QpType /\ Size(p) \in Nat
  BY <1>1, SizeType, WqeEnds DEF Good, Sound
<1>4. /\ q \in QpType /\ Size(q) = Size(p) /\ q.nxt = p.nxt /\ q.una = p.una
      /\ q.completed = p.completed /\ q.state = p.state /\ q.posted = p.posted
      /\ q.sack = p.sack /\ q.irn = p.irn /\ q.persistent = p.persistent
      /\ q.sealed = p.sealed /\ q.timer = FALSE /\ q.mlx = p.mlx
  BY <1>3 DEF QpType, Size
<1> HIDE DEF q
<1>5. Good(q, arrived)
  BY <1>1, <1>3, <1>4 DEF Good, Sound, Ended, IsFinished
<1>6. b \in BOOLEAN
  OBVIOUS
<1> HIDE DEF b
<1>7. /\ r \in QpType /\ Size(r) = Size(q) /\ r.nxt = q.una /\ r.una = q.una
      /\ r.completed = q.completed /\ r.state = q.state /\ r.posted = q.posted
      /\ r.sack = q.sack /\ r.irn = q.irn /\ r.persistent = q.persistent
      /\ r.sealed = q.sealed /\ r.timer = q.timer /\ r.mlx = q.mlx
  BY <1>4 DEF QpType, Size
<1> HIDE DEF r
<1>8. /\ t \in QpType /\ Size(t) = Size(q) /\ t.nxt = q.una /\ t.una = q.una
      /\ t.completed = q.completed /\ t.state = q.state /\ t.posted = q.posted
      /\ t.sack = q.sack /\ t.irn = q.irn /\ t.persistent = q.persistent
      /\ t.sealed = q.sealed /\ t.timer = q.timer /\ t.mlx = q.mlx
  BY <1>6, <1>7 DEF QpType, Size
<1> HIDE DEF t
<1>9. Good(t, arrived)
  BY <1>4, <1>5, <1>8 DEF Good, Sound, Ended, IsFinished, QpType
<1>10. /\ q.irn = qp.irn /\ Size(q) >= Size(qp)
       /\ t.irn = qp.irn /\ Size(t) >= Size(qp)
  BY <1>1, <1>3, <1>4, <1>8 DEF Follows
<1> QED
  BY <1>2, <1>5, <1>9, <1>10, LocalStep

\* An acknowledgement arrives.
LEMMA AckStep == \A a \in Ack : IInv /\ ReceiveAck(a) => IInv'
<1> SUFFICES ASSUME NEW a \in Ack, IInv, ReceiveAck(a) PROVE IInv'
  OBVIOUS
<1> DEFINE r == IF qp.state = "active" THEN AfterAck(qp, a) ELSE qp
<1>1. /\ acks[a] > 0 /\ acks' = [acks EXCEPT ![a] = @ - 1] /\ Install(r)
      /\ UNCHANGED <<data, losses, arrived>>
  BY DEF ReceiveAck
<1>2. Size(qp) \in Nat
  BY SizeType, WqeEnds DEF IInv, TypeOK
<1>3. Good(r, arrived) /\ r.irn = qp.irn /\ Size(r) = Size(qp)
  <2>1. CASE qp.state = "active"
    BY <1>1, <2>1, AfterAckStep DEF IInv, AckSound
  <2>2. CASE qp.state # "active"
    BY <2>2 DEF IInv
  <2> QED
    BY <2>1, <2>2
<1> HIDE DEF r
<1>4. qp' = r /\ (rx' = rx \/ rx' = DeleteRxQp(rx))
  BY <1>1, InstallStep
<1>5. /\ data' \in [SeqNo -> Nat] /\ acks' \in [Ack -> Nat]
      /\ \A c \in Ack : acks'[c] > 0 => acks[c] > 0
  BY <1>1 DEF IInv, TypeOK
<1> QED
  BY <1>1, <1>2, <1>3, <1>4, <1>5, SenderStep

\* The reply to a packet claims only what has arrived.
LEMMA ReplyStep ==
  ASSUME NEW A, NEW r \in RxType, RxSound(r, A, qp.irn), qp.irn \in BOOLEAN,
         NEW s \in SeqNo, NEW ecn \in BOOLEAN
  PROVE  /\ Reply(r, s, ecn) \in Ack
         /\ AckSound(Reply(r, s, ecn), A \union {s}, qp.irn)
<1> DEFINE c == ReceiverCheckSeq(r, s)
           sel == CASE c.reply = "ACK" -> NoSel
                    [] c.reply # "ACK" /\ qp.irn -> s
                    [] OTHER -> 0
           cnp == ecn \/ (s > r.expected /\ c.reply = "NACK")
<1>1. c.rx \in RxType /\ RxSound(c.rx, A \union {s}, qp.irn)
  BY CheckSeqStep
<1>2. Reply(r, s, ecn) = [seq |-> c.rx.expected, sel |-> sel, cnp |-> cnp]
  BY DEF Reply
<1> HIDE DEF c
<1>3. sel \in 0 .. Total /\ (qp.irn /\ sel # NoSel => sel = s)
  BY WqeEnds DEF NoSel, SeqNo
<1>4. cnp \in BOOLEAN
  BY Zenon
<1> HIDE DEF sel, cnp
<1>5. c.rx.expected \in 0 .. Total
  BY <1>1 DEF RxType
<1> QED
  BY <1>1, <1>2, <1>3, <1>4, <1>5 DEF Ack, AckSound, RxSound

\* A data packet arrives.
LEMMA UdpStep == \A s \in SeqNo, ecn \in Ecn : IInv /\ ReceiveUdp(s, ecn) => IInv'
<1> SUFFICES ASSUME NEW s \in SeqNo, NEW ecn \in Ecn, IInv, ReceiveUdp(s, ecn)
             PROVE  IInv'
  OBVIOUS
<1> DEFINE c == ReceiverCheckSeq(RxQp, s)
           y == Reply(RxQp, s, ecn)
           B == arrived \union {s}
<1>1. /\ qp.irn \in BOOLEAN /\ ecn \in BOOLEAN /\ rx \in RxType
      /\ RxSound(rx, arrived, qp.irn)
      /\ data \in [SeqNo -> Nat] /\ acks \in [Ack -> Nat]
  BY QpAssumption DEF IInv, TypeOK, QpType
<1>2. RxQp \in RxType /\ RxSound(RxQp, arrived, qp.irn)
  BY <1>1 DEF RxQp, RxType, RxSound
<1>3. c.rx \in RxType /\ RxSound(c.rx, B, qp.irn)
  BY <1>1, <1>2, CheckSeqStep
<1>4. y \in Ack /\ AckSound(y, B, qp.irn)
  BY <1>1, <1>2, ReplyStep
<1>5. /\ data[s] > 0 /\ data' = [data EXCEPT ![s] = @ - 1] /\ rx' = c.rx
      /\ acks' = acks \/ acks' = [acks EXCEPT ![y] = @ + 1]
      /\ arrived' = B /\ UNCHANGED <<qp, losses>>
  BY DEF ReceiveUdp
<1> HIDE DEF c, y
<1>6. s < Size(qp) /\ Size(qp) \in Nat /\ B \subseteq SeqNo
  BY <1>5, SizeType, WqeEnds DEF IInv, TypeOK
<1>7. B \subseteq 0 .. Size(qp) - 1
  BY <1>6 DEF IInv, SeqNo
<1>8. data' \in [SeqNo -> Nat] /\ \A t \in SeqNo : data'[t] > 0 => data[t] > 0
  BY <1>1, <1>5
<1>9. acks' \in [Ack -> Nat] /\ \A a \in Ack : acks'[a] > 0 => acks[a] > 0 \/ a = y
  BY <1>1, <1>4, <1>5
<1>10. /\ Good(qp, B)
       /\ \A a \in Ack : acks[a] > 0 => AckSound(a, B, qp.irn)
  BY Monotone DEF IInv
<1> HIDE DEF B
<1>11. TypeOK'
  BY <1>3, <1>5, <1>6, <1>8, <1>9 DEF IInv, TypeOK
<1>12. \A a \in Ack : acks'[a] > 0 => AckSound(a, B, qp.irn)
  BY <1>4, <1>9, <1>10
<1>13. \A t \in SeqNo : data'[t] > 0 => t < Size(qp)
  BY <1>8 DEF IInv
<1> QED
  BY <1>3, <1>5, <1>7, <1>10, <1>11, <1>12, <1>13 DEF IInv

\* The NACK timer expires.
LEMMA NackTimerStep == IInv /\ NackTimerExpires => IInv'
<1> SUFFICES ASSUME IInv, NackTimerExpires PROVE IInv'
  OBVIOUS
<1> DEFINE r == [rx EXCEPT !.nackTimer = FALSE]
<1>1. rx' = r /\ UNCHANGED <<qp, data, acks, losses, arrived>>
  BY DEF NackTimerExpires
<1>2. rx \in RxType /\ RxSound(rx, arrived, qp.irn)
  BY DEF IInv, TypeOK
<1>3. r \in RxType /\ r.expected = rx.expected /\ r.sack = rx.sack
  BY <1>2 DEF RxType
<1> HIDE DEF r
<1>4. RxSound(r, arrived, qp.irn)
  BY <1>2, <1>3 DEF RxSound
<1>5. TypeOK'
  BY <1>1, <1>3 DEF IInv, TypeOK
<1> QED
  BY <1>1, <1>4, <1>5 DEF IInv

\* The network drops data or an acknowledgement.
LEMMA LossStep ==
  /\ \A s \in SeqNo : IInv /\ LoseData(s) => IInv'
  /\ \A a \in Ack : IInv /\ LoseAck(a) => IInv'
<1>1. ASSUME NEW s \in SeqNo, IInv, LoseData(s) PROVE IInv'
  <2>1. /\ data \in [SeqNo -> Nat] /\ acks \in [Ack -> Nat]
        /\ losses \in 0 .. MaxLoss /\ MaxLoss \in Nat
    BY <1>1, QpAssumption DEF IInv, TypeOK
  <2>2. losses' \in 0 .. MaxLoss /\ UNCHANGED <<qp, rx, acks, arrived>>
    BY <1>1, <2>1 DEF LoseData
  <2>3. data' \in [SeqNo -> Nat] /\ \A t \in SeqNo : data'[t] <= data[t]
    BY <1>1, <2>1 DEF LoseData
  <2>4. acks' \in [Ack -> Nat] /\ \A a \in Ack : acks'[a] <= acks[a]
    BY <2>1, <2>2
  <2> QED
    BY <1>1, <2>2, <2>3, <2>4, NetworkStep
<1>2. ASSUME NEW a \in Ack, IInv, LoseAck(a) PROVE IInv'
  <2>1. /\ data \in [SeqNo -> Nat] /\ acks \in [Ack -> Nat]
        /\ losses \in 0 .. MaxLoss /\ MaxLoss \in Nat
    BY <1>2, QpAssumption DEF IInv, TypeOK
  <2>2. losses' \in 0 .. MaxLoss /\ UNCHANGED <<qp, rx, data, arrived>>
    BY <1>2, <2>1 DEF LoseAck
  <2>3. acks' \in [Ack -> Nat] /\ \A b \in Ack : acks'[b] <= acks[b]
    BY <1>2, <2>1 DEF LoseAck
  <2>4. data' \in [SeqNo -> Nat] /\ \A s \in SeqNo : data'[s] <= data[s]
    BY <2>1, <2>2
  <2> QED
    BY <1>2, <2>2, <2>3, <2>4, NetworkStep
<1> QED
  BY <1>1, <1>2

\* Every step keeps the invariant.
LEMMA Inductive == IInv /\ [Next]_vars => IInv'
<1> SUFFICES ASSUME IInv, [Next]_vars PROVE IInv'
  OBVIOUS
<1>1. CASE AddQueuePair
  BY <1>1, AddStep
<1>2. CASE AppendPersistentWqe
  BY <1>2, AppendStep
<1>3. CASE SealPersistentQueuePair
  BY <1>3, SealStep
<1>4. CASE DequeueAndTransmit
  BY <1>4, DequeueStep
<1>5. CASE SkippedByScan
  BY <1>5, ScanStep
<1>6. CASE HandleTimeout
  BY <1>6, TimeoutStep
<1>7. CASE NackTimerExpires
  BY <1>7, NackTimerStep
<1>8. CASE \E s \in SeqNo : LoseData(s) \/ \E ecn \in Ecn : ReceiveUdp(s, ecn)
  BY <1>8, LossStep, UdpStep
<1>9. CASE \E a \in Ack : ReceiveAck(a) \/ LoseAck(a)
  BY <1>9, LossStep, AckStep
<1>10. CASE UNCHANGED vars
  BY <1>10 DEF vars, IInv, TypeOK
<1> QED
  BY <1>1, <1>2, <1>3, <1>4, <1>5, <1>6, <1>7, <1>8, <1>9, <1>10 DEF Next

\* The invariant holds always.
LEMMA Invariance == Spec => []IInv
<1> QED
  BY Initially, Inductive, PTL DEF Spec

-----------------------------------------------------------------------------
(* Safety.                                                                 *)

\* TypeOK is an invariant: no sequence number leaves the range of what is posted
\* and no more packets arrive than were sent.
THEOREM TypeCorrect == Spec => []TypeOK
<1>1. IInv => TypeOK
  BY DEF IInv
<1> QED
  BY <1>1, Invariance, PTL

\* Whatever is lost, repeated or reordered, neither the receiver nor an
\* acknowledgement in flight nor the sender takes a packet for received that has
\* not arrived.
THEOREM HolesStayOpen == Spec => []NoHoleAcknowledged
<1>1. IInv => NoHoleAcknowledged
  BY DEF IInv, Good, Sound, RxSound, AckSound, NoHoleAcknowledged
<1> QED
  BY <1>1, Invariance, PTL

\* ReceiverCheckSeq's list of SACK blocks lies beyond the hole that it waits for, so
\* the assertion on discardUpTo holds.
THEOREM BlocksBeyondHole == Spec => []SackBeyondHole
<1>1. IInv => SackBeyondHole
  BY DEF IInv, RxSound, SackBeyondHole
<1> QED
  BY <1>1, Invariance, PTL

\* GetOnTheFly and GetNxtPacket: the send pointer never leaves the range from what
\* is acknowledged to what is posted, and where it points there is a WQE that is
\* not complete.
THEOREM SendPointerCorrect == Spec => []SendPointerWithinWqes
<1>1. IInv => SendPointerWithinWqes
  <2> SUFFICES ASSUME IInv PROVE SendPointerWithinWqes
    OBVIOUS
  <2>1. /\ qp \in QpType /\ qp.una \in Nat /\ qp.nxt \in Nat
        /\ qp.una <= Size(qp) /\ qp.nxt <= Size(qp) /\ qp.una <= qp.nxt
        /\ qp.completed \in 0 .. Len(WqeEnd) /\ qp.posted \in 0 .. Len(WqeEnd)
        /\ qp.completed <= qp.posted
        /\ qp.completed > 0 => WqeEnd[qp.completed] <= qp.una
    BY WqeEnds DEF IInv, Good, Sound, QpType
  <2>2. ASSUME qp.nxt < Size(qp)
        PROVE  \E k \in qp.completed + 1 .. qp.posted : qp.nxt < WqeEnd[k]
    <3>1. qp.posted > 0 /\ Size(qp) = WqeEnd[qp.posted]
      BY <2>1, <2>2, WqeEnds DEF Size
    <3>2. qp.completed # qp.posted
      BY <2>1, <2>2, <3>1, WqeEnds
    <3>3. qp.posted \in qp.completed + 1 .. qp.posted
      BY <2>1, <3>2, WqeEnds
    <3> QED
      BY <2>2, <3>1, <3>3
  <2> QED
    BY <2>1, <2>2 DEF SendPointerWithinWqes
<1> QED
  BY <1>1, Invariance, PTL

\* QpComplete is final: no step of a torn down queue pair, and no congestion control
\* of its last acknowledgement, starts a timer again.
THEOREM TimersEndWithQp == Spec => []NoTimerAfterTeardown
<1>1. IInv => NoTimerAfterTeardown
  BY DEF IInv, Good, Ended, NoTimerAfterTeardown
<1> QED
  BY <1>1, Invariance, PTL

-----------------------------------------------------------------------------
(* Refinement.                                                             *)

\* What ReliableTransfer calls completed.
Reported(q) ==
  CASE q.persistent -> q.completed
    [] ~q.persistent /\ q.state = "complete" -> Len(WqeEnd)
    [] OTHER -> 0

\* A step that only completes WQEs is Finish of ReliableTransfer.
LEMMA FinishStep ==
  ASSUME IInv, Good(qp', arrived), qp.state = "active",
         qp'.persistent = qp.persistent, qp'.posted = qp.posted,
         qp.completed <= qp'.completed, UNCHANGED arrived
  PROVE  RT!Finish
<1>1. /\ qp \in QpType /\ qp' \in QpType /\ qp.completed \in Nat /\ qp'.completed \in Nat
      /\ qp.posted \in 0 .. Len(WqeEnd) /\ qp'.completed \in 0 .. Len(WqeEnd)
      /\ Len(WqeEnd) \in Nat \ {0} /\ qp.persistent \in BOOLEAN
      /\ qp'.una \in Nat
  BY WqeEnds DEF IInv, Good, Sound, QpType
<1>2. \A c \in 1 .. Len(WqeEnd) : WqeEnd[c] <= qp'.una => 0 .. WqeEnd[c] - 1 \subseteq arrived
  <2> SUFFICES ASSUME NEW c \in 1 .. Len(WqeEnd), WqeEnd[c] <= qp'.una,
                      NEW s \in 0 .. WqeEnd[c] - 1
               PROVE  s \in arrived
    OBVIOUS
  <2>1. s \in 0 .. qp'.una - 1
    BY <1>1, WqeEnds
  <2> QED
    BY <2>1 DEF Good, Sound
<1>3. /\ Reported(qp') \in Reported(qp) .. qp.posted
      /\ Reported(qp') > Reported(qp) => 0 .. WqeEnd[Reported(qp')] - 1 \subseteq arrived
      /\ qp'.state = "complete" => Reported(qp') = Len(WqeEnd)
  <2>1. CASE qp.persistent
    <3>1. Reported(qp) = qp.completed /\ Reported(qp') = qp'.completed
      BY <2>1 DEF Reported
    <3>2. qp'.completed <= qp.posted
      BY DEF Good, Sound
    <3>3. qp'.completed > 0 => WqeEnd[qp'.completed] <= qp'.una
      BY DEF Good, Sound
    <3>4. qp'.completed > qp.completed => 0 .. WqeEnd[qp'.completed] - 1 \subseteq arrived
      BY <1>1, <1>2, <3>3
    <3>5. qp'.state = "complete" => qp'.completed = Len(WqeEnd)
      BY <2>1 DEF Good, Ended
    <3> QED
      BY <1>1, <3>1, <3>2, <3>4, <3>5
  <2>2. CASE ~qp.persistent
    <3>1. Reported(qp) = 0 /\ qp.posted = Len(WqeEnd)
      BY <2>2 DEF Reported, IInv, Good, Sound
    <3>2. CASE qp'.state = "complete"
      <4>1. Reported(qp') = Len(WqeEnd)
        BY <2>2, <3>2 DEF Reported
      <4>2. WqeEnd[Len(WqeEnd)] <= qp'.una
        BY <1>1, <3>1, <3>2, WqeEnds DEF Good, Ended, IsFinished, Size
      <4> QED
        BY <1>1, <1>2, <3>1, <4>1, <4>2
    <3>3. CASE qp'.state # "complete"
      <4>1. Reported(qp') = 0
        BY <2>2, <3>3 DEF Reported
      <4> QED
        BY <1>1, <3>1, <3>3, <4>1
    <3> QED
      BY <3>2, <3>3
  <2> QED
    BY <1>1, <2>1, <2>2
<1>4. (qp'.state = "complete") \in BOOLEAN /\ qp.state # "complete"
  OBVIOUS
<1> QED
  BY <1>3, <1>4 DEF RT!Finish, Reported

\* Every step is a step of ReliableTransfer, or a stutter.
LEMMA DeliveryStep ==
  IInv /\ IInv' /\ [Next]_vars => RT!Next \/ UNCHANGED RT!vars
<1> SUFFICES ASSUME IInv, IInv', [Next]_vars PROVE RT!Next \/ UNCHANGED RT!vars
  OBVIOUS
<1>0. /\ qp \in QpType /\ qp' \in QpType /\ Good(qp', arrived')
      /\ qp.posted \in 0 .. Len(WqeEnd) /\ Len(WqeEnd) \in Nat \ {0}
  BY WqeEnds DEF IInv, TypeOK, QpType
\* Steps that ReliableTransfer does not see.
<1>1. ASSUME qp'.posted = qp.posted, qp'.completed = qp.completed,
             qp'.persistent = qp.persistent, qp'.state = qp.state, arrived' = arrived
      PROVE  UNCHANGED RT!vars
  BY <1>1 DEF RT!vars
<1>2. ASSUME qp' = qp, arrived' = arrived PROVE UNCHANGED RT!vars
  BY <1>2 DEF RT!vars
<1>3. CASE AddQueuePair
  <2>1. /\ qp.state = "none" /\ ~qp.persistent /\ ~qp'.persistent
        /\ qp'.state = "active" /\ qp'.posted = Len(WqeEnd) /\ arrived' = arrived
    BY <1>0, <1>3 DEF AddQueuePair, QpType
  <2>2. qp.posted = 0
    BY <2>1 DEF IInv, Good, Sound
  <2> QED
    BY <1>0, <2>1, <2>2 DEF RT!Next, RT!Post
<1>4. CASE AppendPersistentWqe
  <2>1. /\ qp.state # "complete" /\ qp.persistent /\ qp'.persistent
        /\ qp'.state = "active" /\ qp'.posted = qp.posted + 1 /\ arrived' = arrived
        /\ qp'.completed = qp.completed
    BY <1>0, <1>4 DEF AppendPersistentWqe, QpType
  <2>2. qp'.posted \in qp.posted + 1 .. Len(WqeEnd)
    BY <1>0, <1>4, <2>1 DEF AppendPersistentWqe
  <2> QED
    BY <2>1, <2>2 DEF RT!Next, RT!Post
<1>5. CASE SealPersistentQueuePair
  <2> DEFINE q == [qp EXCEPT !.sealed = TRUE]
  <2>1. qp' = (IF IsPersistentIdle(q) THEN QpComplete(q) ELSE q) /\ qp.state = "active"
        /\ arrived' = arrived
    BY <1>5 DEF SealPersistentQueuePair, Install
  <2>2. q \in QpType /\ q.persistent = qp.persistent /\ q.posted = qp.posted
        /\ q.completed = qp.completed
    BY <1>0 DEF QpType
  <2> HIDE DEF q
  <2>3. QpComplete(q).persistent = q.persistent /\ QpComplete(q).posted = q.posted
        /\ QpComplete(q).completed = q.completed
    BY <2>2 DEF QpComplete, QpType
  <2>4. qp'.persistent = qp.persistent /\ qp'.posted = qp.posted
        /\ qp'.completed = qp.completed
    BY <2>1, <2>2, <2>3
  <2>5. qp.completed \in Nat
    BY <1>0, WqeEnds DEF QpType
  <2> QED
    BY <1>0, <2>1, <2>4, <2>5, FinishStep DEF RT!Next
<1>6. CASE DequeueAndTransmit
  <2> DEFINE q == SkipFront(qp)
  <2>1. /\ Good(q, arrived) /\ Follows(qp, q) /\ q.state = qp.state
        /\ q.completed = qp.completed
    BY SkipFrontStep DEF IInv
  <2> HIDE DEF q
  <2>2. \E m : qp' = [q EXCEPT !.nxt = q.nxt + 1, !.timer = TRUE, !.maxSeq = m]
    BY <1>6 DEF DequeueAndTransmit, q
  <2>3. arrived' = arrived
    BY <1>6 DEF DequeueAndTransmit
  <2>4. q \in QpType
    BY <2>1 DEF Good, Sound
  <2> QED
    BY <1>1, <2>1, <2>2, <2>3, <2>4 DEF Follows, QpType
<1>7. CASE SkippedByScan
  <2> DEFINE q == SkipFront(qp)
  <2>1. /\ Good(q, arrived) /\ Follows(qp, q) /\ q.state = qp.state
        /\ q.completed = qp.completed
    BY SkipFrontStep DEF IInv
  <2> HIDE DEF q
  <2>2. \E b : qp' = [q EXCEPT !.finishedBit = b]
    BY <1>7 DEF SkippedByScan, q
  <2>3. arrived' = arrived
    BY <1>7 DEF SkippedByScan
  <2>4. q \in QpType
    BY <2>1 DEF Good, Sound
  <2> QED
    BY <1>1, <2>1, <2>2, <2>3, <2>4 DEF Follows, QpType
<1>8. CASE HandleTimeout
  <2> DEFINE p == SkipFront(qp)
             q == [p EXCEPT !.timer = FALSE]
             r == [q EXCEPT !.nxt = q.una]
  <2>1. /\ Good(p, arrived) /\ Follows(qp, p) /\ p.state = qp.state
        /\ p.completed = qp.completed
    BY SkipFrontStep DEF IInv
  <2>2. qp' = q \/ \E b : qp' = [r EXCEPT !.recovery = b]
    BY <1>8 DEF HandleTimeout, RecoverQueue
  <2>3. arrived' = arrived
    BY <1>8 DEF HandleTimeout
  <2> HIDE DEF p
  <2>4. p \in QpType
    BY <2>1 DEF Good, Sound
  <2>5. /\ q \in QpType /\ q.posted = p.posted /\ q.completed = p.completed
        /\ q.persistent = p.persistent /\ q.state = p.state
    BY <2>4 DEF QpType
  <2> HIDE DEF q
  <2>6. /\ r \in QpType /\ r.posted = q.posted /\ r.completed = q.completed
        /\ r.persistent = q.persistent /\ r.state = q.state
    BY <2>5 DEF QpType
  <2> HIDE DEF r
  <2>7. /\ qp'.posted = q.posted /\ qp'.completed = q.completed
        /\ qp'.persistent = q.persistent /\ qp'.state = q.state
    BY <2>2, <2>6 DEF QpType
  <2> QED
    BY <1>1, <2>1, <2>3, <2>5, <2>7 DEF Follows
<1>9. CASE NackTimerExpires
  BY <1>2, <1>9 DEF NackTimerExpires
<1>10. ASSUME NEW s \in SeqNo, NEW ecn \in Ecn, ReceiveUdp(s, ecn) PROVE RT!Next
  <2>1. qp' = qp /\ arrived' = arrived \union {s} /\ data[s] > 0
    BY <1>10 DEF ReceiveUdp
  <2>2. s < Size(qp) /\ s \in Nat
    BY <2>1 DEF IInv, SeqNo
  <2>3. qp.posted > 0 /\ s \in 0 .. WqeEnd[qp.posted] - 1
    BY <1>0, <2>2, WqeEnds DEF Size
  <2> QED
    BY <2>1, <2>3 DEF RT!Next, RT!Arrive
<1>11. ASSUME NEW a \in Ack, ReceiveAck(a) PROVE RT!Next \/ UNCHANGED RT!vars
  <2>1. /\ Install(IF qp.state = "active" THEN AfterAck(qp, a) ELSE qp)
        /\ acks[a] > 0 /\ arrived' = arrived
    BY <1>11 DEF ReceiveAck
  <2>2. CASE qp.state = "active"
    <3>1. qp' = AfterAck(qp, a)
      BY <2>1, <2>2 DEF Install
    <3>2. /\ qp'.persistent = qp.persistent /\ qp'.posted = qp.posted
          /\ qp.completed <= qp'.completed
      BY <2>1, <2>2, <3>1, AfterAckStep DEF IInv, AckSound
    <3> QED
      BY <1>0, <2>1, <2>2, <3>2, FinishStep DEF RT!Next
  <2>3. CASE qp.state # "active"
    BY <1>2, <2>1, <2>3 DEF Install
  <2> QED
    BY <2>2, <2>3
<1>12. ASSUME NEW s \in SeqNo, LoseData(s) PROVE UNCHANGED RT!vars
  BY <1>2, <1>12 DEF LoseData
<1>13. ASSUME NEW a \in Ack, LoseAck(a) PROVE UNCHANGED RT!vars
  BY <1>2, <1>13 DEF LoseAck
<1>14. CASE UNCHANGED vars
  BY <1>2, <1>14 DEF vars
<1> QED
  BY <1>3, <1>4, <1>5, <1>6, <1>7, <1>8, <1>9, <1>10, <1>11, <1>12, <1>13, <1>14 DEF Next

\* The queue pair, go-back-N or selective repeat, persistent or not, implements
\* ReliableTransfer: WQEs complete in order, none before its data has arrived, and
\* the teardown comes once, after the last.
THEOREM DeliveryRefined == Spec => ReliableDelivery
<1>1. Init => RT!Init
  <2> SUFFICES ASSUME Init PROVE RT!Init
    OBVIOUS
  <2>1. qp.posted = 0 /\ qp.completed = 0 /\ qp.state = "none" /\ arrived = {}
    BY DEF Init
  <2> QED
    BY <2>1 DEF RT!Init
<1> QED
  BY <1>1, Invariance, DeliveryStep, PTL DEF Spec, ReliableDelivery, RT!Spec

-----------------------------------------------------------------------------
(* SACK blocks and acknowledgement numbers never meet: the receiver marks  *)
(* a packet only when it lies beyond the hole, and from then on it is      *)
(* never the one that the receiver expects.                                *)

Marks(a, m) == a.sel = m /\ m # NoSel /\ m > a.seq

\* Packet m may be in the sender's SACK list.
MarkSound(m) ==
  /\ m < rx.expected \/ m \in rx.sack
  /\ m # qp.una
  /\ \A a \in Ack : acks[a] > 0 => a.seq # m

MarkInv ==
  /\ ~qp.irn => qp.sack = {}
  /\ qp.irn /\ qp.state # "complete" =>
       /\ qp.una <= rx.expected
       /\ \A a \in Ack : acks[a] > 0 =>
            /\ a.seq <= rx.expected
            /\ a.sel # NoSel => a.sel # a.seq
            /\ \A m \in SeqNo : Marks(a, m) => MarkSound(m)
       /\ \A m \in qp.sack : MarkSound(m)

\* Nothing is marked initially.
LEMMA MarkInit == Init => MarkInv
<1> SUFFICES ASSUME Init PROVE MarkInv
  OBVIOUS
<1>1. qp.sack = {} /\ qp.una = 0 /\ rx.expected = 0 /\ \A a \in Ack : acks[a] = 0
  BY DEF Init
<1> QED
  BY <1>1 DEF MarkInv

\* Steps that send, lose or only read acknowledgements.
LEMMA MarkLess ==
  ASSUME MarkInv, IInv, Shrinks(qp, qp'), qp'.irn = qp.irn,
         qp.state = "complete" => qp'.state = "complete",
         qp'.state # "complete" => rx'.expected = rx.expected /\ rx'.sack = rx.sack,
         \A a \in Ack : acks'[a] > 0 => acks[a] > 0
  PROVE  MarkInv'
<1>1. ~qp.irn => qp'.sack = {}
  BY DEF MarkInv, Shrinks
<1>2. ASSUME qp.irn, qp'.state # "complete"
      PROVE  /\ qp'.una <= rx'.expected
             /\ \A m : MarkSound(m) => MarkSound(m)'
             /\ \A a \in Ack : acks'[a] > 0 => a.seq <= rx'.expected
  BY <1>2 DEF MarkInv, MarkSound, Shrinks
<1>3. ASSUME qp.irn, qp'.state # "complete", NEW a \in Ack, acks'[a] > 0
      PROVE  /\ a.sel # NoSel => a.sel # a.seq
             /\ \A m \in SeqNo : Marks(a, m) => MarkSound(m)'
  BY <1>2, <1>3 DEF MarkInv
<1>4. ASSUME qp.irn, qp'.state # "complete", NEW m \in qp'.sack PROVE MarkSound(m)'
  BY <1>2, <1>4 DEF MarkInv, Shrinks
<1> QED
  BY <1>1, <1>2, <1>3, <1>4 DEF MarkInv

\* An acknowledgement marks only packets beyond una.
LEMMA AckedMarks ==
  ASSUME NEW q \in QpType, NEW a \in Ack,
         LET u == MaxOf(q.una, a.seq)
         IN  q.irn => u \notin q.sack /\ (a.sel # NoSel => a.sel # u)
  PROVE  LET r == IF q.irn THEN CatchUp(Sack(Acknowledge(q, a), a))
                  ELSE CatchUp(Acknowledge(q, a))
         IN  /\ r.una = MaxOf(q.una, a.seq)
             /\ ~q.irn => r.sack = q.sack
             /\ q.irn => \A m \in r.sack :
                  m \in q.sack \/ (m = a.sel /\ m # NoSel /\ m >= r.una)
<1> DEFINE u == MaxOf(q.una, a.seq)
           p == [q EXCEPT !.una = u]
           S == p.sack \union {x \in {a.sel} : x # NoSel}
           D == DiscardUpTo(S, u)
           h == MaxOf(p.highestAck, a.seq)
           b == p.recovery /\ u < p.recoverySeq
           s == [p EXCEPT !.una = u, !.sack = D, !.highestAck = h, !.recovery = b]
           c == [p EXCEPT !.nxt = MaxOf(p.nxt, p.una)]
           t == [s EXCEPT !.nxt = MaxOf(s.nxt, s.una)]
<1>1. Acknowledge(q, a) = p /\ p.una = u /\ p.sack = q.sack
  BY DEF Acknowledge, QpType
<1>2. c.una = u /\ c.sack = q.sack /\ CatchUp(p) = c
  BY <1>1 DEF CatchUp, QpType
<1>3. CASE ~q.irn
  BY <1>1, <1>2, <1>3
<1>4. CASE q.irn
  <2>1. u \notin S
    BY <1>1, <1>4
  <2>2. ~IsFront(S, p.una)
    BY <1>1, <2>1 DEF IsFront
  <2>3. Sack(p, a) = s
    BY <1>1, <2>2 DEF Sack
  <2>4. s.una = u /\ s.sack = D
    BY DEF QpType
  <2>5. t.una = u /\ t.sack = D /\ CatchUp(s) = t
    BY <2>4 DEF CatchUp, QpType
  <2>6. \A m \in D : m \in q.sack \/ (m = a.sel /\ m # NoSel /\ m >= u)
    BY <1>1 DEF DiscardUpTo
  <2> HIDE DEF u, p, D, s, t
  <2> QED
    BY <1>1, <1>4, <2>3, <2>5, <2>6 DEF u
<1> QED
  BY <1>3, <1>4

\* An acknowledgement arrives.
LEMMA MarkAck ==
  ASSUME IInv, MarkInv, NEW a \in Ack, ReceiveAck(a)
  PROVE  MarkInv'
<1>1. /\ acks[a] > 0 /\ acks' = [acks EXCEPT ![a] = @ - 1]
      /\ Install(IF qp.state = "active" THEN AfterAck(qp, a) ELSE qp)
  BY DEF ReceiveAck
<1>2. \A c \in Ack : acks'[c] > 0 => acks[c] > 0
  BY <1>1 DEF IInv, TypeOK
<1>3. CASE qp.state # "active"
  <2>1. qp' = qp /\ rx' = rx
    BY <1>1, <1>3 DEF Install
  <2> QED
    BY <1>2, <2>1, MarkLess DEF Shrinks
<1>4. CASE qp.state = "active"
  <2> DEFINE u == MaxOf(qp.una, a.seq)
             p == IF qp.irn THEN CatchUp(Sack(Acknowledge(qp, a), a))
                  ELSE CatchUp(Acknowledge(qp, a))
             r == AfterAck(qp, a)
  <2>1. qp' = r /\ (r.state # "complete" => rx' = rx)
    BY <1>1, <1>4 DEF Install
  <2>2. /\ qp \in QpType /\ qp.una \in Nat /\ a.seq \in Nat /\ a.sel \in 0 .. Total
        /\ qp.sack \subseteq SeqNo /\ rx.expected \in Nat /\ Total \in Nat
    BY WqeEnds DEF IInv, TypeOK, QpType, RxType, Ack
  <2>3. u \in {qp.una, a.seq} /\ u >= qp.una /\ u >= a.seq
    BY <2>2 DEF MaxOf
  <2>4. r.irn = qp.irn /\ Shrinks(p, r)
    BY <1>1, <1>4, AfterAckStep DEF IInv, AckSound
  <2> HIDE DEF u
  <2>5. ASSUME qp.irn
        PROVE  /\ u <= rx.expected /\ \A m \in qp.sack : m # u
               /\ a.sel # NoSel => a.sel # u
               /\ \A m \in SeqNo : MarkSound(m) => m # u
               /\ a.sel # NoSel /\ a.sel >= u => a.sel \in SeqNo /\ Marks(a, a.sel)
    <3>1. \A m \in SeqNo : MarkSound(m) => m # u
      BY <1>1, <2>3 DEF MarkSound
    <3>2. a.sel # NoSel => a.sel \in SeqNo /\ a.sel # a.seq
      BY <1>1, <1>4, <2>2, <2>5 DEF MarkInv, NoSel, SeqNo
    <3>3. a.sel # NoSel /\ a.sel >= u => Marks(a, a.sel)
      BY <2>2, <2>3, <3>2 DEF Marks
    <3>4. a.sel # NoSel => a.sel # u
      BY <1>1, <1>4, <2>2, <2>3, <2>5, <3>1, <3>2, <3>3 DEF MarkInv
    <3> QED
      BY <1>1, <1>4, <2>2, <2>3, <2>5, <3>1, <3>2, <3>3, <3>4 DEF MarkInv
  <2>6. /\ p.una = u
        /\ ~qp.irn => p.sack = qp.sack
        /\ qp.irn => \A m \in p.sack :
             m \in qp.sack \/ (m = a.sel /\ m # NoSel /\ m >= p.una)
    <3>1. qp.irn => u \notin qp.sack /\ (a.sel # NoSel => a.sel # u)
      BY <2>5
    <3> QED
      BY <2>2, <3>1, AckedMarks DEF u
  <2> HIDE DEF p, r
  <2>7. /\ r.una = u
        /\ ~qp.irn => r.sack = {}
        /\ qp.irn => \A m \in r.sack : m \in qp.sack \/ (m = a.sel /\ m # NoSel /\ m >= u)
    BY <2>4, <2>6 DEF Shrinks, MarkInv
  <2>8. ASSUME qp.irn, r.state # "complete", NEW m \in SeqNo, MarkSound(m)
        PROVE  MarkSound(m)'
    BY <1>2, <2>1, <2>5, <2>7, <2>8 DEF MarkSound
  <2>9. ASSUME qp.irn, r.state # "complete", NEW m \in r.sack
        PROVE  MarkSound(m)'
    <3>1. m \in SeqNo /\ MarkSound(m)
      BY <1>1, <1>4, <2>2, <2>5, <2>7, <2>9 DEF MarkInv
    <3> QED
      BY <2>8, <2>9, <3>1
  <2>10. ASSUME qp.irn, r.state # "complete", NEW c \in Ack, acks'[c] > 0
         PROVE  /\ c.seq <= rx'.expected
                /\ c.sel # NoSel => c.sel # c.seq
                /\ \A m \in SeqNo : Marks(c, m) => MarkSound(m)'
    BY <1>2, <1>4, <2>1, <2>8, <2>10 DEF MarkInv
  <2> QED
    BY <2>1, <2>4, <2>5, <2>7, <2>9, <2>10 DEF MarkInv
<1> QED
  BY <1>3, <1>4

\* The receiver never comes back to a number that it has passed or that it keeps:
\* c is the result of ReceiverCheckSeq, y the acknowledgement.
MarksKept(r, c, y) ==
  /\ c.rx.expected >= r.expected
  /\ \A m \in r.sack : m < c.rx.expected \/ m \in c.rx.sack
  /\ \A m \in SeqNo : m < r.expected \/ m \in r.sack => m # c.rx.expected
  /\ y.seq = c.rx.expected
  /\ y.sel # NoSel => y.sel # y.seq
  /\ \A m \in SeqNo : Marks(y, m) =>
       m > r.expected /\ m \in c.rx.sack /\ m # c.rx.expected

\* The receiver's answer marks only a packet that it keeps.
LEMMA CheckSeqMarks ==
  ASSUME NEW A, NEW r \in RxType, RxSound(r, A, qp.irn), qp.irn, qp.irn \in BOOLEAN,
         NEW s \in SeqNo, NEW ecn \in BOOLEAN
  PROVE  MarksKept(r, ReceiverCheckSeq(r, s), Reply(r, s, ecn))
<1> DEFINE c == ReceiverCheckSeq(r, s)
           y == Reply(r, s, ecn)
<1> SUFFICES MarksKept(r, c, y)
  OBVIOUS
<1>1. /\ Total \in Nat /\ s \in 0 .. Total - 1 /\ s \in Nat
      /\ r.sack \in SUBSET SeqNo /\ r.expected \in 0 .. Total /\ r.expected \in Nat
      /\ \A m \in r.sack : m > r.expected
  BY WqeEnds DEF RxType, SeqNo, RxSound
<1>2. c.rx \in RxType /\ RxSound(c.rx, A \union {s}, qp.irn)
  BY CheckSeqStep
<1>3. /\ y.seq = c.rx.expected
      /\ y.sel = IF c.reply = "ACK" THEN NoSel ELSE s
  BY DEF Reply
<1> HIDE DEF c, y
<1>4. c.rx.expected \in Nat /\ \A m \in c.rx.sack : m > c.rx.expected
  BY <1>2, WqeEnds DEF RxType, RxSound
<1>5. CASE IsInOrder(r, s)
  <2> DEFINE n == s + 1
             e == IF IsFront(r.sack, n) THEN BlockEnd(r.sack, n) ELSE n
  <2>1. c.rx = Advance(r, s)
    <3>1. ~(s > r.expected)
      BY <1>1, <1>5 DEF IsInOrder
    <3>2. c = [rx |-> Advance(r, s),
               reply |-> IF Advance(r, s).sack = {} THEN "ACK" ELSE "NACK"]
      BY <1>5, <3>1 DEF c, ReceiverCheckSeq
    <3> QED
      BY <3>2
  <2>2. e \in n .. Total /\ e >= n /\ e \in Nat
    <3>1. n \in 0 .. Total
      BY <1>1
    <3>2. BlockEnd(r.sack, n) \in n .. Total
      BY <1>1, <3>1, BlockEndIs
    <3> QED
      BY <1>1, <3>1, <3>2
  <2>3. Advance(r, s) = [r EXCEPT !.expected = e, !.sack = DiscardUpTo(r.sack, e)]
    BY DEF Advance
  <2> HIDE DEF e
  <2>4. c.rx.expected = e /\ c.rx.sack = DiscardUpTo(r.sack, e)
    BY <2>1, <2>3 DEF RxType
  <2>5. \A m \in r.sack : m < e \/ m \in c.rx.sack
    BY <1>1, <2>2, <2>4 DEF DiscardUpTo, SeqNo
  <2>6. e >= r.expected /\ s < e
    BY <1>1, <1>5, <2>2 DEF IsInOrder
  <2>7. \A m \in SeqNo : m < r.expected \/ m \in r.sack => m # e
    BY <1>1, <1>4, <2>4, <2>5, <2>6, <2>2 DEF SeqNo
  <2>8. \A m \in SeqNo : ~Marks(y, m)
    BY <1>1, <1>3, <2>2, <2>4, <2>6 DEF Marks, SeqNo
  <2>9. y.sel # NoSel => y.sel # y.seq
    BY <1>1, <1>3, <2>2, <2>4, <2>6
  <2> QED
    BY <1>3, <2>4, <2>5, <2>6, <2>7, <2>8, <2>9 DEF MarksKept
<1>6. CASE ~IsInOrder(r, s) /\ s > r.expected /\ ~SkipNack(r, s)
  <2>1. c = [rx |-> Beyond(r, s), reply |-> "NACK"]
    BY <1>6 DEF c, ReceiverCheckSeq
  <2>2. Beyond(r, s) = [r EXCEPT !.nackTimer = TRUE, !.sack = r.sack \union {s}]
    BY DEF Beyond
  <2>3. /\ c.rx.expected = r.expected /\ c.rx.sack = r.sack \union {s}
        /\ c.reply = "NACK"
    BY <2>1, <2>2 DEF RxType
  <2>4. y.sel = s /\ y.seq = r.expected
    BY <1>3, <2>3
  <2>5. \A m \in SeqNo : Marks(y, m) => m = s
    BY <2>4 DEF Marks
  <2>6. \A m \in SeqNo : m < r.expected \/ m \in r.sack => m # r.expected
    BY <1>1 DEF SeqNo
  <2> QED
    BY <1>1, <1>6, <2>3, <2>4, <2>5, <2>6 DEF MarksKept
<1>7. CASE ~IsInOrder(r, s) /\ s > r.expected /\ SkipNack(r, s)
  <2>1. c = [rx |-> r, reply |-> "nothing"]
    BY <1>7 DEF c, ReceiverCheckSeq
  <2>2. s \in r.sack
    BY <1>7 DEF SkipNack
  <2>3. c.rx.expected = r.expected /\ c.rx.sack = r.sack /\ c.reply = "nothing"
    BY <2>1
  <2>4. y.sel = s /\ y.seq = r.expected
    BY <1>3, <2>3
  <2>5. \A m \in SeqNo : Marks(y, m) => m = s
    BY <2>4 DEF Marks
  <2>6. \A m \in SeqNo : m < r.expected \/ m \in r.sack => m # r.expected
    BY <1>1 DEF SeqNo
  <2> QED
    BY <1>1, <1>7, <2>2, <2>3, <2>4, <2>5, <2>6 DEF MarksKept
<1>8. CASE ~IsInOrder(r, s) /\ ~(s > r.expected)
  <2>1. c.rx = r
    BY <1>8 DEF c, ReceiverCheckSeq
  <2>2. s < r.expected
    BY <1>1, <1>8 DEF IsInOrder
  <2>3. \A m \in SeqNo : ~Marks(y, m)
    BY <1>1, <1>3, <2>1, <2>2 DEF Marks, SeqNo
  <2>4. \A m \in SeqNo : m < r.expected \/ m \in r.sack => m # r.expected
    BY <1>1 DEF SeqNo
  <2>5. y.sel # NoSel => y.sel # y.seq
    BY <1>1, <1>3, <2>1, <2>2
  <2> QED
    BY <1>1, <1>3, <2>1, <2>3, <2>4, <2>5 DEF MarksKept
<1> QED
  BY <1>5, <1>6, <1>7, <1>8

\* A data packet arrives.
LEMMA MarkUdp ==
  ASSUME IInv, MarkInv, NEW s \in SeqNo, NEW ecn \in Ecn, ReceiveUdp(s, ecn)
  PROVE  MarkInv'
<1> DEFINE c == ReceiverCheckSeq(RxQp, s)
           y == Reply(RxQp, s, ecn)
<1>1. /\ qp.irn \in BOOLEAN /\ ecn \in BOOLEAN /\ rx \in RxType
      /\ RxSound(rx, arrived, qp.irn) /\ acks \in [Ack -> Nat]
      /\ qp.una \in Nat /\ qp.sack \subseteq SeqNo
  <2>1. qp \in QpType /\ Total \in Nat
    BY WqeEnds DEF IInv, TypeOK
  <2>2. qp.irn \in BOOLEAN /\ qp.una \in Nat /\ qp.sack \subseteq SeqNo
    BY <2>1 DEF QpType
  <2>3. rx \in RxType /\ RxSound(rx, arrived, qp.irn) /\ acks \in [Ack -> Nat]
    BY DEF IInv, TypeOK
  <2>4. ecn \in BOOLEAN
    BY QpAssumption
  <2> QED
    BY <2>2, <2>3, <2>4
<1>2. /\ RxQp \in RxType /\ RxSound(RxQp, arrived, qp.irn)
      /\ RxQp.expected = rx.expected /\ RxQp.sack = rx.sack
  BY <1>1 DEF RxQp, RxType, RxSound
<1>3. /\ rx' = c.rx /\ UNCHANGED qp
      /\ acks' = acks \/ acks' = [acks EXCEPT ![y] = @ + 1]
  BY DEF ReceiveUdp
<1>4. CASE ~qp.irn \/ qp.state = "complete"
  BY <1>3, <1>4 DEF MarkInv
<1>5. CASE qp.irn /\ qp.state # "complete"
  <2>1. /\ c.rx.expected >= rx.expected
        /\ \A m \in rx.sack : m < c.rx.expected \/ m \in c.rx.sack
        /\ \A m \in SeqNo : m < rx.expected \/ m \in rx.sack => m # c.rx.expected
        /\ y.seq = c.rx.expected
        /\ y.sel # NoSel => y.sel # y.seq
        /\ \A m \in SeqNo : Marks(y, m) =>
             m > rx.expected /\ m \in c.rx.sack /\ m # c.rx.expected
    <3>1. MarksKept(RxQp, c, y)
      BY <1>1, <1>2, <1>5, CheckSeqMarks
    <3> HIDE DEF c, y
    <3> QED
      BY <1>2, <3>1 DEF MarksKept
  <2>2. y \in Ack /\ c.rx \in RxType
    BY <1>1, <1>2, ReplyStep, CheckSeqStep
  <2>3. c.rx.expected \in Nat /\ rx.expected \in Nat
    BY <1>1, <2>2, WqeEnds DEF RxType
  <2> HIDE DEF c, y
  <2>4. \A a \in Ack : acks'[a] > 0 => acks[a] > 0 \/ a = y
    BY <1>1, <1>3, <2>2
  <2>5. \A a \in Ack : a.seq \in Nat
    BY WqeEnds DEF Ack
  <2>6. ASSUME NEW m \in SeqNo, MarkSound(m) PROVE MarkSound(m)'
    <3>1. m \in Nat /\ m # qp'.una /\ (m < rx.expected \/ m \in rx.sack)
      BY <1>3, <2>6 DEF MarkSound, SeqNo
    <3>2. m < c.rx.expected \/ m \in c.rx.sack
      BY <2>1, <2>3, <3>1
    <3>3. m # y.seq
      BY <2>1, <3>1
    <3> QED
      BY <1>3, <2>4, <2>6, <3>1, <3>2, <3>3 DEF MarkSound
  <2>7. /\ qp.una <= rx.expected
        /\ \A a \in Ack : acks[a] > 0 => a.seq <= rx.expected
    BY <1>5 DEF MarkInv
  <2>8. ASSUME NEW m \in SeqNo, Marks(y, m) PROVE MarkSound(m)'
    <3>1. m \in Nat /\ m > rx.expected /\ m \in c.rx.sack /\ m # c.rx.expected
      BY <2>1, <2>8 DEF SeqNo
    <3>2. \A a \in Ack : acks[a] > 0 => a.seq # m
      BY <2>3, <2>5, <2>7, <3>1
    <3>3. m # qp.una
      BY <1>1, <2>3, <2>7, <3>1
    <3> QED
      BY <1>3, <2>1, <2>4, <3>1, <3>2, <3>3 DEF MarkSound
  <2>9. ASSUME NEW a \in Ack, acks'[a] > 0
        PROVE  /\ a.seq <= rx'.expected
               /\ a.sel # NoSel => a.sel # a.seq
               /\ \A m \in SeqNo : Marks(a, m) => MarkSound(m)'
    <3>1. CASE a = y
      BY <1>3, <2>1, <2>3, <2>8, <3>1
    <3>2. CASE acks[a] > 0
      BY <1>3, <1>5, <2>1, <2>3, <2>5, <2>6, <3>2 DEF MarkInv
    <3> QED
      BY <2>4, <2>9, <3>1, <3>2
  <2>10. qp'.una <= rx'.expected
    BY <1>1, <1>3, <2>1, <2>3, <2>7
  <2>11. \A m \in qp'.sack : MarkSound(m)'
    BY <1>1, <1>3, <1>5, <2>6 DEF MarkInv
  <2> QED
    BY <1>3, <1>5, <2>9, <2>10, <2>11 DEF MarkInv
<1> QED
  BY <1>4, <1>5

\* Every step keeps the marks beyond the hole.
LEMMA MarkInductive == IInv /\ MarkInv /\ [Next]_vars => MarkInv'
<1> SUFFICES ASSUME IInv, MarkInv, [Next]_vars PROVE MarkInv'
  OBVIOUS
<1> DEFINE p == SkipFront(qp)
<1>0. qp \in QpType /\ acks \in [Ack -> Nat]
  BY DEF IInv, TypeOK
\* Steps of the sender that start with its front block.
<1>1. /\ p \in QpType /\ Shrinks(qp, p) /\ p.irn = qp.irn /\ p.state = qp.state
  <2>1. Good(p, arrived) /\ Follows(qp, p) /\ Shrinks(qp, p) /\ p.state = qp.state
    BY SkipFrontStep DEF IInv
  <2> QED
    BY <2>1 DEF Good, Sound, Follows
<1>2. ASSUME qp'.una = p.una, qp'.sack = p.sack, qp'.irn = p.irn, qp'.state = p.state,
             UNCHANGED <<rx, acks>>
      PROVE  MarkInv'
  BY <1>1, <1>2, MarkLess DEF Shrinks
<1>3. ASSUME qp'.una = qp.una, qp'.sack = qp.sack, qp'.irn = qp.irn,
             qp.state = "complete" => qp'.state = "complete",
             qp'.state # "complete" => rx' = rx, UNCHANGED acks
      PROVE  MarkInv'
  BY <1>3, MarkLess DEF Shrinks
<1>4. CASE AddQueuePair
  <2>1. /\ qp'.una = qp.una /\ qp'.sack = qp.sack /\ qp'.irn = qp.irn
        /\ qp.state # "complete" /\ UNCHANGED <<rx, acks>>
    BY <1>0, <1>4 DEF AddQueuePair, QpType
  <2> QED
    BY <1>3, <2>1
<1>5. CASE AppendPersistentWqe
  <2>1. /\ qp'.una = qp.una /\ qp'.sack = qp.sack /\ qp'.irn = qp.irn
        /\ qp.state # "complete" /\ UNCHANGED <<rx, acks>>
    BY <1>0, <1>5 DEF AppendPersistentWqe, QpType
  <2> QED
    BY <1>3, <2>1
<1>6. CASE SealPersistentQueuePair
  <2> DEFINE q == [qp EXCEPT !.sealed = TRUE]
             r == QpComplete(q)
  <2>1. /\ qp' = r \/ qp' = q
        /\ qp.state # "complete" /\ UNCHANGED acks
        /\ qp'.state # "complete" => rx' = rx
    BY <1>6 DEF SealPersistentQueuePair, Install
  <2>2. /\ q \in QpType /\ q.una = qp.una /\ q.sack = qp.sack /\ q.irn = qp.irn
    BY <1>0 DEF QpType
  <2> HIDE DEF q
  <2>3. r.una = q.una /\ r.sack = q.sack /\ r.irn = q.irn
    BY <2>2 DEF QpComplete, QpType
  <2> HIDE DEF r
  <2> QED
    BY <1>3, <2>1, <2>2, <2>3
<1>7. CASE DequeueAndTransmit
  <2>1. /\ \E m : qp' = [p EXCEPT !.nxt = p.nxt + 1, !.timer = TRUE, !.maxSeq = m]
        /\ UNCHANGED <<rx, acks>>
    BY <1>7 DEF DequeueAndTransmit
  <2> HIDE DEF p
  <2>2. /\ qp'.una = p.una /\ qp'.sack = p.sack /\ qp'.irn = p.irn
        /\ qp'.state = p.state
    BY <1>1, <2>1 DEF QpType
  <2> QED
    BY <1>2, <2>1, <2>2 DEF p
<1>8. CASE SkippedByScan
  <2>1. /\ \E b : qp' = [p EXCEPT !.finishedBit = b]
        /\ UNCHANGED <<rx, acks>>
    BY <1>8 DEF SkippedByScan
  <2> HIDE DEF p
  <2>2. /\ qp'.una = p.una /\ qp'.sack = p.sack /\ qp'.irn = p.irn
        /\ qp'.state = p.state
    BY <1>1, <2>1 DEF QpType
  <2> QED
    BY <1>2, <2>1, <2>2 DEF p
<1>9. CASE HandleTimeout
  <2> DEFINE q == [p EXCEPT !.timer = FALSE]
             r == [q EXCEPT !.nxt = q.una]
  <2>1. /\ qp' = q \/ \E b : qp' = [r EXCEPT !.recovery = b]
        /\ UNCHANGED <<rx, acks>>
    BY <1>9 DEF HandleTimeout, RecoverQueue
  <2> HIDE DEF p
  <2>2. /\ q \in QpType /\ q.una = p.una /\ q.sack = p.sack /\ q.irn = p.irn
        /\ q.state = p.state
    BY <1>1 DEF QpType
  <2> HIDE DEF q
  <2>3. /\ r \in QpType /\ r.una = p.una /\ r.sack = p.sack /\ r.irn = p.irn
        /\ r.state = p.state
    BY <2>2 DEF QpType
  <2> HIDE DEF r
  <2>4. /\ qp'.una = p.una /\ qp'.sack = p.sack /\ qp'.irn = p.irn
        /\ qp'.state = p.state
    BY <2>1, <2>2, <2>3 DEF QpType
  <2> QED
    BY <1>2, <2>1, <2>4 DEF p
<1>10. CASE NackTimerExpires
  <2>1. /\ UNCHANGED <<qp, acks>>
        /\ rx'.expected = rx.expected /\ rx'.sack = rx.sack
    BY <1>10 DEF NackTimerExpires, IInv, TypeOK, RxType
  <2> QED
    BY <2>1, MarkLess DEF Shrinks
<1>11. ASSUME NEW s \in SeqNo, NEW ecn \in Ecn, ReceiveUdp(s, ecn) PROVE MarkInv'
  BY <1>11, MarkUdp
<1>12. ASSUME NEW a \in Ack, ReceiveAck(a) PROVE MarkInv'
  BY <1>12, MarkAck
<1>13. ASSUME NEW s \in SeqNo, LoseData(s) PROVE MarkInv'
  BY <1>3, <1>13 DEF LoseData
<1>14. ASSUME NEW a \in Ack, LoseAck(a) PROVE MarkInv'
  <2>1. /\ UNCHANGED <<qp, rx>> /\ acks' = [acks EXCEPT ![a] = @ - 1] /\ acks[a] > 0
    BY <1>14 DEF LoseAck
  <2>2. \A c \in Ack : acks'[c] > 0 => acks[c] > 0
    BY <1>0, <2>1
  <2> QED
    BY <2>1, <2>2, MarkLess DEF Shrinks
<1>15. CASE UNCHANGED vars
  BY <1>3, <1>15 DEF vars
<1> QED
  BY <1>4, <1>5, <1>6, <1>7, <1>8, <1>9, <1>10, <1>11, <1>12, <1>13, <1>14, <1>15
     DEF Next

\* No block is where the sender goes back to.
LEMMA UnaUnsacked == IInv /\ MarkInv => UnaNeverSacked
<1> SUFFICES ASSUME IInv, MarkInv, qp.una \in qp.sack PROVE FALSE
  BY DEF UnaNeverSacked
<1>1. qp \in QpType /\ qp.una \in SeqNo /\ Size(qp) \in Nat /\ qp.una \in Nat
  BY SizeType, WqeEnds DEF IInv, TypeOK, QpType
<1>2. qp.irn /\ qp.state = "complete"
  BY <1>1 DEF MarkInv, MarkSound
<1>3. qp.una < Size(qp)
  BY <1>1 DEF IInv, Good, Sound
<1> QED
  BY <1>1, <1>2, <1>3 DEF IInv, Good, Ended, IsFinished

\* The sender goes back to snd_una, and never finds there a packet that it would
\* skip as received: whatever SACK blocks and acknowledgements cross on the way.
THEOREM UnaStaysUnsacked == Spec => []UnaNeverSacked
<1> QED
  BY UnaUnsacked, MarkInit, MarkInductive, Invariance, PTL DEF Spec

=============================================================================

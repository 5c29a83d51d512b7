---------------------------- MODULE PfcLinkProofs ----------------------------
(***************************************************************************)
(* What TLAPS proves of PfcLink.tla, for any number of ports, links, delay *)
(* and pause time: it implements SwitchMmu, so that all that is proved of  *)
(* the buffer holds with time and links too, its types are right, the peer *)
(* of a paused class is paused or has a PAUSE as its next to come, and the *)
(* headroom is enough for a peer that has the switch to itself.            *)
(***************************************************************************)
EXTENDS PfcLink, SwitchMmuSumProofs

-----------------------------------------------------------------------------
(* Links as sequences.                                                     *)

Data  == [class : Class, left : 0 .. Delay + 1]
Frame == [class : Class, pause : BOOLEAN, left : 0 .. Delay + 1]

\* A link delivers in the order of sending.
InOrder(s) == \A m, n \in 1 .. Len(s) : m <= n => s[m].left <= s[n].left

\* What a function on the first n numbers is as a sequence.
LEMMA IsSeq ==
  ASSUME NEW T, NEW n \in Nat, NEW f \in [1 .. n -> T]
  PROVE  f \in Seq(T) /\ Len(f) = n /\ DOMAIN f = 1 .. n
OBVIOUS

\* What is left of the way of a packet or a frame is bounded.
LEMMA LeftType ==
  ASSUME NEW T \in {Data, Frame}, NEW x \in T
  PROVE  x.left \in 0 .. Delay + 1 /\ x.left \in Nat
<1>0. Delay \in Nat
  BY LinkAssumption
<1>1. CASE T = Data
  BY <1>0, <1>1 DEF Data
<1>2. CASE T = Frame
  BY <1>0, <1>2 DEF Frame
<1> QED
  BY <1>1, <1>2

\* A unit of time on a link on which nothing is due.
LEMMA ElapseOf ==
  ASSUME NEW T \in {Data, Frame}, NEW s \in Seq(T), InOrder(s),
         s # <<>> => Head(s).left > 0
  PROVE  /\ Elapse(s) \in Seq(T) /\ InOrder(Elapse(s)) /\ Len(Elapse(s)) = Len(s)
         /\ \A n \in 1 .. Len(s) :
              /\ s[n] \in T /\ s[n].left > 0
              /\ Elapse(s)[n] = [s[n] EXCEPT !.left = @ - 1]
<1> DEFINE e == Elapse(s)
<1>0. Delay \in Nat /\ Len(s) \in Nat
  BY LinkAssumption
<1>1. e = [n \in 1 .. Len(s) |-> [s[n] EXCEPT !.left = @ - 1]]
  BY DEF Elapse
<1>2. \A n \in 1 .. Len(s) : s[n] \in T /\ s[n].left \in 0 .. Delay + 1
  BY LeftType
<1>3. \A n \in 1 .. Len(s) : s[n].left > 0
  <2> SUFFICES ASSUME NEW n \in 1 .. Len(s) PROVE s[n].left > 0
    OBVIOUS
  <2>1. s # <<>> /\ Head(s) = s[1] /\ 1 \in 1 .. Len(s) /\ 1 <= n
    BY <1>0
  <2>2. s[1].left <= s[n].left
    BY <2>1 DEF InOrder
  <2> QED
    BY <1>0, <1>2, <2>1, <2>2
<1>4. \A n \in 1 .. Len(s) : e[n] = [s[n] EXCEPT !.left = @ - 1]
  BY <1>1
<1>5. ASSUME NEW n \in 1 .. Len(s) PROVE e[n] \in T /\ e[n].left = s[n].left - 1
  <2>1. s[n].left - 1 \in 0 .. Delay + 1
    BY <1>0, <1>2, <1>3
  <2>2. CASE T = Data
    BY <1>2, <1>4, <2>1, <2>2 DEF Data
  <2>3. CASE T = Frame
    BY <1>2, <1>4, <2>1, <2>3 DEF Frame
  <2> QED
    BY <2>2, <2>3
<1>6. e \in Seq(T) /\ Len(e) = Len(s)
  <2>1. e \in [1 .. Len(s) -> T]
    BY <1>1, <1>5
  <2> QED
    BY <1>0, <2>1, IsSeq
<1> HIDE DEF e
<1>7. InOrder(e)
  BY <1>0, <1>2, <1>5, <1>6 DEF InOrder
<1> QED
  BY <1>2, <1>3, <1>4, <1>6, <1>7 DEF e

\* Delivery of the first of a link.
LEMMA TailOf ==
  ASSUME NEW T, NEW s \in Seq(T), s # <<>>, InOrder(s)
  PROVE  /\ Tail(s) \in Seq(T) /\ InOrder(Tail(s)) /\ Len(Tail(s)) = Len(s) - 1
         /\ \A n \in 1 .. Len(s) - 1 : Tail(s)[n] = s[n + 1]
         /\ Head(s) = s[1] /\ Head(s) \in T
<1>1. /\ Tail(s) \in Seq(T) /\ Len(Tail(s)) = Len(s) - 1 /\ Len(s) \in Nat \ {0}
      /\ \A n \in 1 .. Len(s) - 1 : Tail(s)[n] = s[n + 1]
      /\ Head(s) = s[1] /\ Head(s) \in T
  OBVIOUS
<1>2. InOrder(Tail(s))
  BY <1>1 DEF InOrder
<1> QED
  BY <1>1, <1>2

\* What is sent at once goes to the end of the link.
LEMMA ConcatOf ==
  ASSUME NEW T \in {Data, Frame}, NEW s \in Seq(T), InOrder(s), NEW t \in Seq(T),
         NEW d \in Nat, \A n \in 1 .. Len(t) : t[n].left = d,
         s # <<>> => s[Len(s)].left <= d
  PROVE  /\ s \o t \in Seq(T) /\ InOrder(s \o t) /\ Len(s \o t) = Len(s) + Len(t)
         /\ \A n \in 1 .. Len(s) : (s \o t)[n] = s[n]
         /\ \A n \in 1 .. Len(t) : (s \o t)[Len(s) + n] = t[n]
<1> DEFINE u == s \o t
<1>1. /\ u \in Seq(T) /\ Len(u) = Len(s) + Len(t) /\ Len(s) \in Nat /\ Len(t) \in Nat
      /\ \A n \in 1 .. Len(u) : u[n] = IF n <= Len(s) THEN s[n] ELSE t[n - Len(s)]
  OBVIOUS
<1> HIDE DEF u
<1>2. \A n \in 1 .. Len(s) : u[n] = s[n] /\ s[n].left \in Nat /\ s[n].left <= d
  <2> SUFFICES ASSUME NEW n \in 1 .. Len(s)
               PROVE  u[n] = s[n] /\ s[n].left \in Nat /\ s[n].left <= d
    OBVIOUS
  <2>1. u[n] = s[n]
    BY <1>1
  <2>2. s # <<>> /\ Len(s) \in 1 .. Len(s) /\ n <= Len(s)
    BY <1>1
  <2>3. Delay \in Nat /\ s[n] \in T /\ s[Len(s)] \in T
    BY <2>2, LinkAssumption
  <2>4. s[n].left \in Nat /\ s[Len(s)].left \in Nat
    BY <2>3, LeftType
  <2>5. s[n].left <= s[Len(s)].left
    BY <2>2 DEF InOrder
  <2> QED
    BY <2>1, <2>2, <2>4, <2>5
<1>3. ASSUME NEW n \in 1 .. Len(t) PROVE u[Len(s) + n] = t[n]
  <2>1. Len(s) + n \in 1 .. Len(u) /\ ~(Len(s) + n <= Len(s)) /\ (Len(s) + n) - Len(s) = n
    BY <1>1
  <2>2. u[Len(s) + n] = t[(Len(s) + n) - Len(s)]
    BY <1>1, <2>1
  <2> QED
    BY <2>1, <2>2
<1>4. ASSUME NEW m \in 1 .. Len(u), NEW n \in 1 .. Len(u), m <= n
      PROVE  u[m].left <= u[n].left
  <2>1. CASE n <= Len(s)
    <3>1. m \in 1 .. Len(s) /\ n \in 1 .. Len(s)
      BY <1>1, <1>4, <2>1
    <3> QED
      BY <1>2, <1>4, <3>1 DEF InOrder
  <2>2. CASE n > Len(s)
    <3>1. u[n] = t[n - Len(s)] /\ n - Len(s) \in 1 .. Len(t)
      BY <1>1, <2>2
    <3>2. u[n].left = d
      BY <3>1
    <3>3. CASE m <= Len(s)
      <4>1. m \in 1 .. Len(s)
        BY <3>3
      <4> QED
        BY <1>2, <3>2, <4>1
    <3>4. CASE m > Len(s)
      <4>1. u[m] = t[m - Len(s)] /\ m - Len(s) \in 1 .. Len(t)
        BY <1>1, <3>4
      <4> QED
        BY <3>2, <4>1
    <3> QED
      BY <1>1, <3>3, <3>4
  <2> QED
    BY <1>1, <2>1, <2>2
<1> QED
  BY <1>1, <1>2, <1>3, <1>4 DEF u, InOrder

-----------------------------------------------------------------------------
(* PFC frames.                                                             *)

\* The rank of a class among finitely many tells them apart and leaves no gap.
LEMMA NthClassIs ==
  ASSUME NEW S \in SUBSET Nat, IsFiniteSet(S)
  PROVE  /\ \A n \in 1 .. Cardinality(S) : NthClass(S, n) \in S
         /\ \A c \in S : \E n \in 1 .. Cardinality(S) : NthClass(S, n) = c
         /\ \A m, n \in 1 .. Cardinality(S) : NthClass(S, m) = NthClass(S, n) => m = n
<1> DEFINE B(c) == {d \in S : d < c}
           f == [c \in S |-> Cardinality(B(c)) + 1]
           N == Cardinality(S)
<1>1. ASSUME NEW c \in S
      PROVE  /\ IsFiniteSet(B(c)) /\ Cardinality(B(c)) \in Nat /\ N \in Nat
             /\ Cardinality(B(c)) + 1 <= N
  <2>1. B(c) \in SUBSET S /\ c \notin B(c)
    OBVIOUS
  <2> HIDE DEF B
  <2>2. /\ IsFiniteSet(B(c)) /\ Cardinality(B(c)) <= N
        /\ N = Cardinality(B(c)) => S = B(c)
    BY <2>1, FS_Subset
  <2>3. Cardinality(B(c)) \in Nat /\ N \in Nat
    BY <2>2, FS_CardinalityType
  <2> QED
    BY <2>1, <2>2, <2>3
<1>2. ASSUME NEW c \in S, NEW d \in S, c < d PROVE Cardinality(B(c)) < Cardinality(B(d))
  <2>1. B(c) \in SUBSET B(d) /\ c \in B(d) /\ c \notin B(c)
    <3>1. c \in Nat /\ \A x \in S : x \in Nat /\ (x < c => x < d)
      BY <1>2
    <3>2. \A x \in B(c) : x \in B(d)
      BY <3>1
    <3>3. c \in B(d) /\ ~(c < c)
      BY <1>2, <3>1
    <3> QED
      BY <3>2, <3>3
  <2>2. IsFiniteSet(B(d)) /\ Cardinality(B(d)) \in Nat /\ Cardinality(B(c)) \in Nat
    BY <1>1
  <2> HIDE DEF B
  <2>3. /\ Cardinality(B(c)) <= Cardinality(B(d))
        /\ Cardinality(B(d)) = Cardinality(B(c)) => B(d) = B(c)
    BY <2>1, <2>2, FS_Subset
  <2> QED
    BY <2>1, <2>2, <2>3
<1>3. \A c, d \in S : Cardinality(B(c)) = Cardinality(B(d)) => c = d
  <2> SUFFICES ASSUME NEW c \in S, NEW d \in S, Cardinality(B(c)) = Cardinality(B(d))
               PROVE  c = d
    OBVIOUS
  <2>1. Cardinality(B(c)) \in Nat
    BY <1>1
  <2>2. ~(c < d) /\ ~(d < c)
    <3> HIDE DEF B
    <3> QED
      BY <1>2, <2>1
  <2> QED
    BY <2>2
<1>4. N \in Nat /\ IsFiniteSet(1 .. N) /\ Cardinality(1 .. N) = N
  <2>1. N \in Nat
    BY FS_CardinalityType
  <2> QED
    BY <2>1, FS_Interval
<1> HIDE DEF B, N
<1>5. f \in Injection(S, 1 .. N)
  <2>1. f \in [S -> 1 .. N]
    BY <1>1, <1>4
  <2>2. \A c, d \in S : f[c] = f[d] => c = d
    BY <1>1, <1>3
  <2> QED
    BY <2>1, <2>2 DEF Injection, IsInjective
<1>6. f \in Surjection(S, 1 .. N)
  BY <1>4, <1>5, FS_Injection DEF N
<1>7. \A c \in S : NthClass(S, f[c]) = c
  <2> SUFFICES ASSUME NEW c \in S PROVE NthClass(S, f[c]) = c
    OBVIOUS
  <2>1. Cardinality(B(c)) \in Nat /\ f[c] - 1 = Cardinality(B(c))
    BY <1>1
  <2>2. NthClass(S, f[c]) = CHOOSE x \in S : Cardinality(B(x)) = Cardinality(B(c))
    BY <2>1 DEF NthClass, B
  <2> QED
    BY <1>3, <2>2
<1>8. \A n \in 1 .. N : \E c \in S : f[c] = n
  BY <1>6 DEF Surjection
<1>9. \A c \in S : f[c] \in 1 .. N
  BY <1>5 DEF Injection
<1> HIDE DEF f
<1>10. \A n \in 1 .. N : NthClass(S, n) \in S
  BY <1>7, <1>8
<1>11. \A m, n \in 1 .. N : NthClass(S, m) = NthClass(S, n) => m = n
  BY <1>7, <1>8
<1> QED
  BY <1>7, <1>9, <1>10, <1>11 DEF N

\* One frame for each class, and no other: t is PfcFrames(S, b, d).
FramesFor(t, S, b, d) ==
  /\ t \in Seq(Frame)
  /\ \A n \in 1 .. Len(t) : t[n].left = d /\ t[n].pause = b /\ t[n].class \in S
  /\ \A c \in S : \E n \in 1 .. Len(t) : t[n].class = c
  /\ \A m, n \in 1 .. Len(t) : t[m].class = t[n].class => m = n

\* PfcFrames has exactly one frame for each class of the set.
LEMMA PfcFramesAre ==
  ASSUME NEW S \in SUBSET Class, NEW d \in 0 .. Delay + 1
  PROVE  /\ FramesFor(PfcFrames(S, TRUE, d), S, TRUE, d)
         /\ FramesFor(PfcFrames(S, FALSE, d), S, FALSE, d)
<1> DEFINE N == Cardinality(S)
<1>1. S \in SUBSET Nat /\ IsFiniteSet(S)
  <2>1. Class \subseteq Nat /\ IsFiniteSet(Class)
    BY SizeAssumption
  <2> QED
    BY <2>1, FS_Subset
<1>2. /\ \A n \in 1 .. N : NthClass(S, n) \in S
      /\ \A c \in S : \E n \in 1 .. N : NthClass(S, n) = c
      /\ \A m, n \in 1 .. N : NthClass(S, m) = NthClass(S, n) => m = n
  BY <1>1, NthClassIs
<1>3. N \in Nat
  BY <1>1, FS_CardinalityType
<1>4. FramesFor(PfcFrames(S, TRUE, d), S, TRUE, d)
  <2> DEFINE t == [n \in 1 .. N |-> [class |-> NthClass(S, n), pause |-> TRUE, left |-> d]]
  <2>1. PfcFrames(S, TRUE, d) = t
    BY DEF PfcFrames
  <2> HIDE DEF N
  <2>2. t \in [1 .. N -> Frame]
    BY <1>2 DEF Frame
  <2>3. t \in Seq(Frame) /\ Len(t) = N
    BY <1>3, <2>2, IsSeq
  <2>4. \A n \in 1 .. N : t[n].left = d /\ t[n].pause = TRUE /\ t[n].class = NthClass(S, n)
    OBVIOUS
  <2> HIDE DEF t
  <2>5. FramesFor(t, S, TRUE, d)
    BY <1>2, <2>3, <2>4 DEF FramesFor
  <2> QED
    BY <2>1, <2>5
<1>5. FramesFor(PfcFrames(S, FALSE, d), S, FALSE, d)
  <2> DEFINE t == [n \in 1 .. N |-> [class |-> NthClass(S, n), pause |-> FALSE, left |-> d]]
  <2>1. PfcFrames(S, FALSE, d) = t
    BY DEF PfcFrames
  <2> HIDE DEF N
  <2>2. t \in [1 .. N -> Frame]
    BY <1>2 DEF Frame
  <2>3. t \in Seq(Frame) /\ Len(t) = N
    BY <1>3, <2>2, IsSeq
  <2>4. \A n \in 1 .. N : t[n].left = d /\ t[n].pause = FALSE /\ t[n].class = NthClass(S, n)
    OBVIOUS
  <2> HIDE DEF t
  <2>5. FramesFor(t, S, FALSE, d)
    BY <1>2, <2>3, <2>4 DEF FramesFor
  <2> QED
    BY <2>1, <2>5
<1> QED
  BY <1>4, <1>5

-----------------------------------------------------------------------------
(* Types.                                                                  *)

LinkTypes ==
  /\ wire \in [Feeder -> Seq(Data)] /\ rev \in [Feeder -> Seq(Frame)]
  /\ \A i \in Feeder : InOrder(wire[i]) /\ InOrder(rev[i])
  /\ peer.paused = [x \in PG |-> peer.evt[x] # Never]
  /\ peer \in [paused : [PG -> BOOLEAN], evt : [PG -> Never .. PauseTime]]
  /\ resumeIn \in [PG -> 0 .. PauseTime]
  /\ busy \subseteq Feeder
  /\ expired \subseteq PG

\* The ports that a modelled peer feeds are ports.
LEMMA FeederIsPort == Feeder \subseteq Port
BY SizeAssumption DEF Feeder

\* The links and timers start with their types.
LEMMA LinkTypesInit == LinkInit => LinkTypes
<1> SUFFICES ASSUME LinkInit PROVE LinkTypes
  OBVIOUS
<1>1. PauseTime \in Nat
  BY LinkAssumption
<1>2. \A T : <<>> \in Seq(T) /\ Len(<<>>) = 0
  OBVIOUS
<1>3. wire \in [Feeder -> Seq(Data)] /\ rev \in [Feeder -> Seq(Frame)]
  BY <1>2 DEF LinkInit
<1>4. \A i \in Feeder : InOrder(wire[i]) /\ InOrder(rev[i])
  BY <1>2 DEF LinkInit, InOrder
<1>5. peer = [paused |-> [x \in PG |-> FALSE], evt |-> [x \in PG |-> Never]]
  BY DEF LinkInit
<1>6. peer.paused = [x \in PG |-> peer.evt[x] # Never]
  BY <1>5
<1>7. peer \in [paused : [PG -> BOOLEAN], evt : [PG -> Never .. PauseTime]]
  BY <1>1, <1>5 DEF Never
<1>8. resumeIn \in [PG -> 0 .. PauseTime] /\ busy \subseteq Feeder /\ expired \subseteq PG
  BY <1>1 DEF LinkInit
<1> QED
  BY <1>3, <1>4, <1>6, <1>7, <1>8 DEF LinkTypes

\* SendPfc in the middle of a step of the switch.
LEMMA SendTypes ==
  ASSUME LinkTypes, NEW i, NEW P \in SUBSET ({i} \X Class), NEW R \in SUBSET ({i} \X Class),
         SendPfc(i, P, R)
  PROVE  /\ rev' \in [Feeder -> Seq(Frame)]
         /\ \A j \in Feeder : InOrder(rev'[j])
<1>1. rev \in [Feeder -> Seq(Frame)] /\ \A j \in Feeder : InOrder(rev[j])
  BY DEF LinkTypes
<1>2. CASE (P = {} /\ R = {}) \/ i \notin Feeder
  <2>1. rev' = rev
    BY <1>1, <1>2 DEF SendPfc
  <2> QED
    BY <1>1, <2>1
<1>3. CASE ~(P = {} /\ R = {}) /\ i \in Feeder
  <2>1. PICK d \in {Delay, Delay + 1} :
          /\ rev[i] # <<>> => rev[i][Len(rev[i])].left <= d
          /\ rev' = [rev EXCEPT ![i] = @ \o PfcFrames({x[2] : x \in P}, TRUE, d)
                                         \o PfcFrames({x[2] : x \in R}, FALSE, d)]
    BY <1>3 DEF SendPfc
  <2> DEFINE P2 == {x[2] : x \in P}
             R2 == {x[2] : x \in R}
             p == PfcFrames(P2, TRUE, d)
             r == PfcFrames(R2, FALSE, d)
  <2>2. d \in 0 .. Delay + 1 /\ d \in Nat
    BY <2>1, LinkAssumption
  <2>3. P2 \in SUBSET Class /\ R2 \in SUBSET Class
    OBVIOUS
  <2>9. rev' = [rev EXCEPT ![i] = (rev[i] \o p) \o r]
    BY <2>1
  <2>10. rev[i] \in Seq(Frame) /\ InOrder(rev[i]) /\ Frame \in {Data, Frame}
    BY <1>1, <1>3
  <2> HIDE DEF P2, R2
  <2>4. /\ p \in Seq(Frame) /\ \A n \in 1 .. Len(p) : p[n].left = d
        /\ r \in Seq(Frame) /\ \A n \in 1 .. Len(r) : r[n].left = d
    <3>1. FramesFor(p, P2, TRUE, d) /\ FramesFor(r, R2, FALSE, d)
      BY <2>2, <2>3, PfcFramesAre
    <3> QED
      BY <3>1 DEF FramesFor
  <2> HIDE DEF p, r
  <2>5. (rev[i] \o p) \in Seq(Frame) /\ InOrder(rev[i] \o p)
        /\ Len(rev[i] \o p) = Len(rev[i]) + Len(p)
        /\ (\A n \in 1 .. Len(rev[i]) : (rev[i] \o p)[n] = rev[i][n])
        /\ (\A n \in 1 .. Len(p) : (rev[i] \o p)[Len(rev[i]) + n] = p[n])
    BY <2>1, <2>2, <2>4, <2>10, ConcatOf
  <2>6. (rev[i] \o p) # <<>> => (rev[i] \o p)[Len(rev[i] \o p)].left <= d
    <3>0. rev[i] \in Seq(Frame) /\ Len(rev[i]) \in Nat /\ Len(p) \in Nat
      BY <1>1, <1>3, <2>4
    <3>1. CASE Len(p) = 0
      <4>1. p = <<>>
        BY <2>4, <3>1
      <4>2. rev[i] \o p = rev[i]
        BY <3>0, <4>1
      <4> QED
        BY <2>1, <4>2
    <3>2. CASE Len(p) > 0
      <4>1. Len(p) \in 1 .. Len(p)
        BY <3>0, <3>2
      <4>2. (rev[i] \o p)[Len(rev[i]) + Len(p)] = p[Len(p)]
        BY <2>5, <4>1
      <4>3. p[Len(p)].left = d
        BY <2>4, <4>1
      <4> QED
        BY <2>2, <2>5, <4>2, <4>3
    <3> QED
      BY <3>0, <3>1, <3>2
  <2>7. (rev[i] \o p) \o r \in Seq(Frame) /\ InOrder((rev[i] \o p) \o r)
    BY <2>2, <2>4, <2>5, <2>6, <2>10, ConcatOf
  <2> QED
    BY <1>1, <1>3, <2>7, <2>9
<1> QED
  BY <1>2, <1>3

\* SetPauses starts the switch's timers with the pause time.
LEMMA SetPausesTypes ==
  ASSUME NEW P, NEW R, SetPauses(P, R), resumeIn \in [PG -> 0 .. PauseTime]
  PROVE  resumeIn' \in [PG -> 0 .. PauseTime]
<1>1. PauseTime \in Nat
  BY LinkAssumption
<1> QED
  BY <1>1 DEF SetPauses

\* What CheckAndSendPfc pauses and resumes are classes of the packet's input port.
LEMMA PausesType ==
  ASSUME NEW c, NEW i, NEW q
  PROVE  /\ Pauses(c, i, q) \in SUBSET ({i} \X Class)
         /\ Resumes(c, i, q) \in SUBSET ({i} \X Class)
<1>1. Pauses(c, i, q) \in SUBSET ({i} \X Class)
  BY DEF Pauses, GetPauseClasses
<1>2. Resumes(c, i, q) \in SUBSET ({i} \X Class)
  BY DEF Resumes
<1> QED
  BY <1>1, <1>2

\* Delivery leaves a link that is in order.
LEMMA Delivered ==
  ASSUME NEW T, NEW w \in [Feeder -> Seq(T)], \A j \in Feeder : InOrder(w[j]),
         NEW i \in Feeder, w[i] # <<>>
  PROVE  LET v == [w EXCEPT ![i] = Tail(@)]
         IN  /\ v \in [Feeder -> Seq(T)] /\ \A j \in Feeder : InOrder(v[j])
             /\ Head(w[i]) \in T
<1>1. w[i] \in Seq(T) /\ InOrder(w[i])
  OBVIOUS
<1>2. Tail(w[i]) \in Seq(T) /\ InOrder(Tail(w[i])) /\ Head(w[i]) \in T
  BY <1>1, TailOf
<1> QED
  BY <1>2

\* A peer that is paused has a timer, whether a PAUSE or a RESUME came.
LEMMA PeerTypes ==
  ASSUME NEW x \in PG, LinkTypes, peer' = PeerResume(x) \/ peer' = ReceivePause(x)
  PROVE  /\ peer'.paused = [y \in PG |-> peer'.evt[y] # Never]
         /\ peer' \in [paused : [PG -> BOOLEAN], evt : [PG -> Never .. PauseTime]]
         /\ \A y \in PG \ {x} : peer'.evt[y] = peer.evt[y]
         /\ peer'.evt[x] = IF peer' = PeerResume(x) THEN Never ELSE PauseTime
<1> DEFINE T == [paused : [PG -> BOOLEAN], evt : [PG -> Never .. PauseTime]]
           b == peer' # PeerResume(x)
           e == IF b THEN PauseTime ELSE Never
<1>1. peer \in T /\ peer.paused = [y \in PG |-> peer.evt[y] # Never]
  BY DEF LinkTypes
<1>2. PauseTime \in Nat /\ Never \notin Nat /\ Never \in Never .. PauseTime
      /\ PauseTime \in Never .. PauseTime
  BY LinkAssumption DEF Never
<1>3. /\ peer' = [peer EXCEPT !.paused = [@ EXCEPT ![x] = b], !.evt = [@ EXCEPT ![x] = e]]
  BY DEF PeerResume, ReceivePause
<1>4. b \in BOOLEAN /\ e \in Never .. PauseTime /\ (b <=> e # Never)
  BY <1>2
<1>5. e = IF peer' = PeerResume(x) THEN Never ELSE PauseTime
  OBVIOUS
<1> HIDE DEF b, e
<1>6. /\ peer'.paused = [peer.paused EXCEPT ![x] = b]
      /\ peer'.evt = [peer.evt EXCEPT ![x] = e]
      /\ peer' \in T
  BY <1>1, <1>3, <1>4
<1>7. peer'.paused = [y \in PG |-> peer'.evt[y] # Never]
  BY <1>1, <1>4, <1>6
<1> QED
  BY <1>1, <1>5, <1>6, <1>7

\* Every step on the links keeps their types.
LEMMA LinkTypesStep == LinkTypes /\ [LinkNext]_<<vars, linkVars>> => LinkTypes'
<1> SUFFICES ASSUME LinkTypes, [LinkNext]_<<vars, linkVars>> PROVE LinkTypes'
  OBVIOUS
<1>0. /\ wire \in [Feeder -> Seq(Data)] /\ rev \in [Feeder -> Seq(Frame)]
      /\ \A i \in Feeder : InOrder(wire[i]) /\ InOrder(rev[i])
      /\ resumeIn \in [PG -> 0 .. PauseTime]
      /\ busy \subseteq Feeder /\ expired \subseteq PG
      /\ Delay \in Nat /\ PauseTime \in Nat
      /\ Feeder \subseteq Port
  BY FeederIsPort, LinkAssumption DEF LinkTypes
<1>1. ASSUME NEW i \in Feeder, SwitchReceive(i) PROVE LinkTypes'
  <2> DEFINE q == Head(wire[i]).class
             c == UpdateIngressAdmission(i, q, MTU)
  <2>1. /\ wire' \in [Feeder -> Seq(Data)] /\ \A j \in Feeder : InOrder(wire'[j])
    BY <1>0, <1>1, Delivered DEF SwitchReceive
  <2>2. UNCHANGED <<peer, busy, expired>>
    BY <1>1 DEF SwitchReceive
  <2>3. \/ UNCHANGED <<rev, resumeIn>>
        \/ /\ SendPfc(i, Pauses(c, i, q), Resumes(c, i, q))
           /\ SetPauses(Pauses(c, i, q), Resumes(c, i, q))
    BY <1>1 DEF SwitchReceive
  <2> HIDE DEF c, q
  <2>4. /\ rev' \in [Feeder -> Seq(Frame)] /\ \A j \in Feeder : InOrder(rev'[j])
        /\ resumeIn' \in [PG -> 0 .. PauseTime]
    BY <1>0, <2>3, PausesType, SendTypes, SetPausesTypes
  <2> QED
    BY <2>1, <2>2, <2>4 DEF LinkTypes
<1>2. ASSUME NEW o \in Port, NEW q \in Class, SwitchTransmit(o, q) PROVE LinkTypes'
  <2> DEFINE p == Head(queue[<<o, q>>])
             c == RemoveFromIngressAdmission(p.in, q, p.size)
             R == {x \in {<<p.in, q>>} : GetResumeClasses(c, pfc.paused[x], p.in, q)}
  <2>1. SendPfc(p.in, {}, R) /\ SetPauses({}, R) /\ UNCHANGED <<wire, peer, busy, expired>>
    BY <1>2 DEF SwitchTransmit
  <2>2. R \in SUBSET ({p.in} \X Class) /\ {} \in SUBSET ({p.in} \X Class)
    OBVIOUS
  <2> HIDE DEF R, c, p
  <2>3. /\ rev' \in [Feeder -> Seq(Frame)] /\ \A j \in Feeder : InOrder(rev'[j])
        /\ resumeIn' \in [PG -> 0 .. PauseTime]
    BY <1>0, <2>1, <2>2, SendTypes, SetPausesTypes
  <2> QED
    BY <2>1, <2>3 DEF LinkTypes
<1>3. ASSUME NEW i \in Port, NEW q \in Class, ResumeTimer(i, q) PROVE LinkTypes'
  BY <1>3 DEF ResumeTimer, linkVars, LinkTypes
<1>4. ASSUME NEW i \in Port, NEW q \in Class, PeerTimer(i, q) PROVE LinkTypes'
  <2>1. <<i, q>> \in PG
    BY DEF PG
  <2>2. /\ peer' = PeerResume(<<i, q>>) /\ expired' = expired \union {<<i, q>>}
        /\ UNCHANGED <<wire, rev, resumeIn, busy>>
    BY <1>4 DEF PeerTimer
  <2>3. /\ peer'.paused = [y \in PG |-> peer'.evt[y] # Never]
        /\ peer' \in [paused : [PG -> BOOLEAN], evt : [PG -> Never .. PauseTime]]
    BY <2>1, <2>2, PeerTypes
  <2> QED
    BY <2>1, <2>2, <2>3 DEF LinkTypes
<1>5. ASSUME NEW i \in Feeder, PeerReceive(i) PROVE LinkTypes'
  <2> DEFINE x == <<i, Head(rev[i]).class>>
  <2>1. /\ peer' = ReceivePause(x) \/ peer' = PeerResume(x)
        /\ rev[i] # <<>> /\ rev' = [rev EXCEPT ![i] = Tail(@)]
        /\ UNCHANGED <<wire, resumeIn, busy, expired>>
    BY <1>5 DEF PeerReceive
  <2>2. /\ rev' \in [Feeder -> Seq(Frame)] /\ \A j \in Feeder : InOrder(rev'[j])
        /\ Head(rev[i]) \in Frame
    BY <1>0, <2>1, Delivered
  <2>3. x \in PG
    BY <1>0, <2>2 DEF PG, Frame
  <2> HIDE DEF x
  <2>4. /\ peer'.paused = [y \in PG |-> peer'.evt[y] # Never]
        /\ peer' \in [paused : [PG -> BOOLEAN], evt : [PG -> Never .. PauseTime]]
    BY <2>1, <2>3, PeerTypes
  <2> QED
    BY <2>1, <2>2, <2>4 DEF LinkTypes
<1>6. ASSUME NEW i \in Feeder, NEW q \in Class, PeerTransmit(i, q) PROVE LinkTypes'
  <2> DEFINE a == [class |-> q, left |-> Delay + 1]
  <2>1. /\ busy' = busy \union {i} /\ UNCHANGED <<rev, peer, resumeIn, expired>>
        /\ wire' = [wire EXCEPT ![i] = Append(@, a)]
    BY <1>6 DEF PeerTransmit
  <2>2. a \in Data /\ a.left = Delay + 1
    BY <1>0 DEF Data
  <2> HIDE DEF a
  <2>3. wire[i] \in Seq(Data) /\ InOrder(wire[i])
    BY <1>0
  <2>4. Append(wire[i], a) \in Seq(Data) /\ InOrder(Append(wire[i], a))
    <3> DEFINE w == Append(wire[i], a)
    <3>1. /\ w \in Seq(Data) /\ Len(w) = Len(wire[i]) + 1 /\ Len(wire[i]) \in Nat
          /\ \A n \in 1 .. Len(w) : w[n] = IF n = Len(w) THEN a ELSE wire[i][n]
      BY <2>2, <2>3
    <3> HIDE DEF w
    <3>2. \A n \in 1 .. Len(w) : w[n].left \in 0 .. Delay + 1
      BY <3>1, LeftType
    <3>3. ASSUME NEW m \in 1 .. Len(w), NEW n \in 1 .. Len(w), m <= n
          PROVE  w[m].left <= w[n].left
      <4>1. CASE n = Len(w)
        BY <1>0, <2>2, <3>1, <3>2, <4>1
      <4>2. CASE n # Len(w)
        <5>1. /\ m \in 1 .. Len(wire[i]) /\ n \in 1 .. Len(wire[i])
              /\ w[m] = wire[i][m] /\ w[n] = wire[i][n]
          BY <3>1, <3>3, <4>2
        <5> QED
          BY <2>3, <3>3, <5>1 DEF InOrder
      <4> QED
        BY <4>1, <4>2
    <3>4. InOrder(w)
      BY <3>3 DEF InOrder
    <3> QED
      BY <3>1, <3>4 DEF w
  <2>5. /\ wire' \in [Feeder -> Seq(Data)] /\ \A j \in Feeder : InOrder(wire'[j])
    BY <1>0, <2>1, <2>4
  <2> QED
    BY <1>0, <2>1, <2>5 DEF LinkTypes
<1>7. CASE Tick
  <2>1. \A i \in Feeder : \A s \in {wire[i], rev[i]} : s # <<>> => Head(s).left > 0
    BY <1>7 DEF Tick
  <2>2. /\ wire' = [i \in Feeder |-> Elapse(wire[i])]
        /\ rev' = [i \in Feeder |-> Elapse(rev[i])]
        /\ busy' = {} /\ UNCHANGED expired
        /\ resumeIn' = [x \in PG |-> IF resumeIn[x] = 0 THEN 0 ELSE resumeIn[x] - 1]
    BY <1>7 DEF Tick
  <2>3. \A i \in Feeder : /\ Elapse(wire[i]) \in Seq(Data) /\ InOrder(Elapse(wire[i]))
                          /\ Elapse(rev[i]) \in Seq(Frame) /\ InOrder(Elapse(rev[i]))
    BY <1>0, <2>1, ElapseOf
  <2>4. resumeIn' \in [PG -> 0 .. PauseTime]
    BY <1>0, <2>2
  <2> DEFINE e == [x \in PG |-> IF peer.evt[x] = Never THEN Never ELSE peer.evt[x] - 1]
  <2>5. peer' = [peer EXCEPT !.evt = e] /\ \A x \in PG : peer.evt[x] # 0
    BY <1>7 DEF Tick, TimersDone
  <2>6. /\ peer \in [paused : [PG -> BOOLEAN], evt : [PG -> Never .. PauseTime]]
        /\ peer.paused = [x \in PG |-> peer.evt[x] # Never]
    BY DEF LinkTypes
  <2>7. e \in [PG -> Never .. PauseTime] /\ \A x \in PG : e[x] = Never <=> peer.evt[x] = Never
    BY <1>0, <2>5, <2>6 DEF Never
  <2> HIDE DEF e
  <2>8. /\ peer'.evt = e /\ peer'.paused = peer.paused
        /\ peer' \in [paused : [PG -> BOOLEAN], evt : [PG -> Never .. PauseTime]]
    BY <2>5, <2>6, <2>7
  <2>9. peer'.paused = [x \in PG |-> peer'.evt[x] # Never]
    BY <2>6, <2>7, <2>8
  <2> QED
    BY <1>0, <2>2, <2>3, <2>4, <2>8, <2>9 DEF LinkTypes
<1>8. CASE UNCHANGED linkVars
  BY <1>8 DEF linkVars, LinkTypes
<1> QED
  BY <1>1, <1>2, <1>3, <1>4, <1>5, <1>6, <1>7, <1>8 DEF LinkNext

-----------------------------------------------------------------------------
(* The switch with links and time is a switch.                             *)

\* Every step of the links is a step of SwitchMmu, or none of its state.
LEMMA LinkStep == LinkTypes /\ [LinkNext]_<<vars, linkVars>> => [Next]_vars
<1> SUFFICES ASSUME LinkTypes, [LinkNext]_<<vars, linkVars>> PROVE [Next]_vars
  OBVIOUS
<1>1. ASSUME NEW i \in Feeder, SwitchReceive(i) PROVE Next
  <2> DEFINE q == Head(wire[i]).class
  <2>1. i \in Port /\ MTU \in Size
    BY FeederIsPort, LinkAssumption
  <2>2. wire[i] # <<>>
    BY <1>1 DEF SwitchReceive
  <2>3. Head(wire[i]) \in Data
    BY <2>2, Delivered DEF LinkTypes
  <2>4. q \in Class
    BY <2>3 DEF Data
  <2>5. \E o \in Port : \/ SwitchSend(i, o, q, MTU)
                        \/ DropAtIngress(i, o, q, MTU) \/ DropAtEgress(i, o, q, MTU)
    BY <1>1 DEF SwitchReceive
  <2> HIDE DEF q
  <2> QED
    BY <2>1, <2>4, <2>5 DEF Next
<1>2. ASSUME NEW o \in Port, NEW q \in Class, SwitchTransmit(o, q) PROVE Next
  BY <1>2 DEF SwitchTransmit, Next
<1>3. ASSUME NEW i \in Port, NEW q \in Class, ResumeTimer(i, q) PROVE Next
  BY <1>3 DEF ResumeTimer, Next
<1>4. ASSUME NEW i \in Port, NEW q \in Class, PeerTimer(i, q) PROVE UNCHANGED vars
  BY <1>4 DEF PeerTimer
<1>5. ASSUME NEW i \in Feeder, PeerReceive(i) PROVE UNCHANGED vars
  BY <1>5 DEF PeerReceive
<1>6. ASSUME NEW i \in Feeder, NEW q \in Class, PeerTransmit(i, q) PROVE UNCHANGED vars
  BY <1>6 DEF PeerTransmit
<1>7. CASE Tick
  BY <1>7 DEF Tick
<1> QED
  BY <1>1, <1>2, <1>3, <1>4, <1>5, <1>6, <1>7 DEF LinkNext

\* The counters, queues and PFC flags of a switch whose packets and frames take time
\* behave as SwitchMmu allows: every theorem about the buffer holds of it as well.
THEOREM LinkImplementsSwitch == LinkSpec => Spec
<1>1. LinkInit => Init /\ LinkTypes
  BY LinkTypesInit DEF LinkInit
<1> QED
  BY <1>1, LinkTypesStep, LinkStep, PTL DEF LinkSpec, Spec

\* LinkTypeOK in every state: a timer never runs below zero, a peer is paused exactly
\* as long as its own timer runs, nothing is on a link longer than its delay and the
\* end of a packet.
THEOREM LinkTypeOKAlways == LinkSpec => []LinkTypeOK
<1>1. LinkTypes /\ TypeOK => LinkTypeOK
  BY DEF LinkTypes, LinkTypeOK, Data, Frame
<1>2. LinkSpec => []LinkTypes
  BY LinkTypesInit, LinkTypesStep, PTL DEF LinkSpec
<1>3. LinkSpec => []TypeOK
  BY LinkImplementsSwitch, TypeCorrect
<1> QED
  BY <1>1, <1>2, <1>3, PTL

-----------------------------------------------------------------------------
(* The two timers of a pause.                                              *)

LastOf(s, q, n) ==
  /\ n \in 1 .. Len(s) /\ s[n].class = q
  /\ \A m \in n + 1 .. Len(s) : s[m].class # q

\* The switch's timer of a pause of class q has v units to run, the peer's e, s is on
\* its way: the peer's outlasts the switch's, or will when the last frame is there.
Covered(s, q, v, e) ==
  \/ e > v /\ \A n \in 1 .. Len(s) : s[n].class # q
  \/ \E n \in 1 .. Len(s) :
       LastOf(s, q, n) /\ s[n].pause /\ v + Delay <= PauseTime + s[n].left

TimeInv ==
  /\ \A x \in PG : pfc.paused[x] => pfc.timer[x]
  /\ \A i \in Feeder, q \in Class :
       pfc.timer[<<i, q>>] => Covered(rev[i], q, resumeIn[<<i, q>>], peer.evt[<<i, q>>])

\* Frames of other classes change nothing for a class.
LEMMA CoveredAppend ==
  ASSUME NEW s \in Seq(Frame), NEW t \in Seq(Frame), NEW q, NEW v, NEW e,
         \A n \in 1 .. Len(t) : t[n].class # q,
         Covered(s, q, v, e)
  PROVE  Covered(s \o t, q, v, e)
<1> DEFINE u == s \o t
<1>1. /\ Len(u) = Len(s) + Len(t) /\ Len(s) \in Nat /\ Len(t) \in Nat
      /\ \A n \in 1 .. Len(u) : u[n] = IF n <= Len(s) THEN s[n] ELSE t[n - Len(s)]
  OBVIOUS
<1> HIDE DEF u
<1>2. \A n \in 1 .. Len(s) : n \in 1 .. Len(u) /\ u[n] = s[n]
  BY <1>1
<1>3. ASSUME NEW n \in 1 .. Len(u), n > Len(s) PROVE u[n].class # q
  <2>1. u[n] = t[n - Len(s)] /\ n - Len(s) \in 1 .. Len(t)
    BY <1>1, <1>3
  <2> QED
    BY <2>1
<1>4. CASE e > v /\ \A n \in 1 .. Len(s) : s[n].class # q
  <2>1. \A n \in 1 .. Len(u) : u[n].class # q
    <3> TAKE n \in 1 .. Len(u)
    <3>1. CASE n <= Len(s)
      BY <1>1, <1>2, <1>4, <3>1
    <3>2. CASE n > Len(s)
      BY <1>3, <3>2
    <3> QED
      BY <1>1, <3>1, <3>2
  <2> QED
    BY <1>4, <2>1 DEF Covered, u
<1>5. ASSUME NEW n \in 1 .. Len(s), LastOf(s, q, n), s[n].pause,
             v + Delay <= PauseTime + s[n].left
      PROVE  Covered(u, q, v, e)
  <2>1. n \in 1 .. Len(u) /\ u[n] = s[n]
    BY <1>2
  <2>2. ASSUME NEW m \in n + 1 .. Len(u) PROVE u[m].class # q
    <3>1. m \in 1 .. Len(u) /\ m \in Nat
      BY <1>1
    <3>2. CASE m <= Len(s)
      <4>1. m \in n + 1 .. Len(s) /\ m \in 1 .. Len(s)
        BY <1>1, <3>1, <3>2
      <4> QED
        BY <1>2, <1>5, <4>1 DEF LastOf
    <3>3. CASE m > Len(s)
      BY <1>3, <3>1, <3>3
    <3> QED
      BY <1>1, <3>1, <3>2, <3>3
  <2>3. LastOf(u, q, n)
    BY <1>5, <2>1, <2>2 DEF LastOf
  <2> QED
    BY <1>5, <2>1, <2>3 DEF Covered
<1> QED
  BY <1>4, <1>5 DEF Covered, u

\* A new PAUSE covers the timer that starts with it.
LEMMA CoveredPause ==
  ASSUME NEW s \in Seq(Frame), NEW t \in Seq(Frame), NEW q \in Class, NEW e,
         NEW S \in SUBSET Class, q \in S, NEW d \in {Delay, Delay + 1},
         FramesFor(t, S, TRUE, d)
  PROVE  Covered(s \o t, q, PauseTime, e)
<1> DEFINE u == s \o t
<1>0. Delay \in Nat /\ PauseTime \in Nat
  BY LinkAssumption
<1>1. /\ Len(u) = Len(s) + Len(t) /\ Len(s) \in Nat /\ Len(t) \in Nat
      /\ \A n \in 1 .. Len(u) : u[n] = IF n <= Len(s) THEN s[n] ELSE t[n - Len(s)]
  OBVIOUS
<1> HIDE DEF u
<1>2. PICK k \in 1 .. Len(t) : t[k].class = q
  BY DEF FramesFor
<1>3. t[k].left = d /\ t[k].pause = TRUE
  BY <1>2 DEF FramesFor
<1>4. \A m \in 1 .. Len(t) : t[m].class = q => m = k
  BY <1>2 DEF FramesFor
<1> DEFINE n == Len(s) + k
<1>5. n \in 1 .. Len(u) /\ u[n] = t[k]
  <2>1. n \in 1 .. Len(u) /\ ~(n <= Len(s)) /\ n - Len(s) = k
    BY <1>1
  <2>2. u[n] = t[n - Len(s)]
    BY <1>1, <2>1
  <2> QED
    BY <2>1, <2>2
<1>6. ASSUME NEW m \in n + 1 .. Len(u) PROVE u[m].class # q
  <2>1. m \in 1 .. Len(u) /\ ~(m <= Len(s)) /\ m - Len(s) \in 1 .. Len(t) /\ m - Len(s) # k
    BY <1>1
  <2>2. u[m] = t[m - Len(s)]
    BY <1>1, <2>1
  <2> QED
    BY <1>4, <2>1, <2>2
<1>7. LastOf(u, q, n)
  BY <1>2, <1>5, <1>6 DEF LastOf
<1>8. PauseTime + Delay <= PauseTime + u[n].left
  BY <1>0, <1>3, <1>5
<1> HIDE DEF n
<1>9. u[n].pause
  BY <1>3, <1>5
<1> QED
  BY <1>5, <1>7, <1>8, <1>9 DEF Covered, u

\* SendPfc and SetPauses together: a class that is not sent RESUME is covered, by the
\* PAUSE it is sent or by what covered it.
LEMMA CoveredSend ==
  ASSUME LinkTypes, NEW i, NEW P \in SUBSET ({i} \X Class), NEW R \in SUBSET ({i} \X Class),
         SendPfc(i, P, R), SetPauses(P, R), UNCHANGED peer,
         NEW j \in Feeder, NEW q \in Class, <<j, q>> \notin R,
         \/ <<j, q>> \in P
         \/ Covered(rev[j], q, resumeIn[<<j, q>>], peer.evt[<<j, q>>])
  PROVE  Covered(rev'[j], q, resumeIn'[<<j, q>>], peer'.evt[<<j, q>>])
<1> DEFINE x == <<j, q>>
           P2 == {y[2] : y \in P}
           R2 == {y[2] : y \in R}
<1>1. rev \in [Feeder -> Seq(Frame)] /\ x \in PG
  BY FeederIsPort DEF LinkTypes, PG
<1>2. resumeIn'[x] = IF x \in P THEN PauseTime ELSE resumeIn[x]
  BY <1>1 DEF SetPauses
<1>3. CASE i # j \/ (P = {} /\ R = {})
  <2>1. x \notin P
    BY <1>3
  <2>2. rev'[j] = rev[j]
    BY <1>1, <1>3 DEF SendPfc
  <2> QED
    BY <1>2, <2>1, <2>2
<1>4. CASE i = j /\ ~(P = {} /\ R = {})
  <2>1. PICK d \in {Delay, Delay + 1} :
          rev' = [rev EXCEPT ![i] = @ \o PfcFrames(P2, TRUE, d) \o PfcFrames(R2, FALSE, d)]
    BY <1>4 DEF SendPfc
  <2> DEFINE p == PfcFrames(P2, TRUE, d)
             r == PfcFrames(R2, FALSE, d)
             s == rev[j]
  <2>2. rev'[j] = (s \o p) \o r
    BY <1>1, <1>4, <2>1
  <2>3. P2 \in SUBSET Class /\ R2 \in SUBSET Class /\ d \in 0 .. Delay + 1
    BY LinkAssumption
  <2>4. q \notin R2 /\ (q \in P2 <=> x \in P)
    BY <1>4
  <2> HIDE DEF P2, R2
  <2>5. FramesFor(p, P2, TRUE, d) /\ FramesFor(r, R2, FALSE, d)
    BY <2>3, PfcFramesAre
  <2>6. p \in Seq(Frame) /\ r \in Seq(Frame) /\ s \in Seq(Frame)
    BY <1>1, <2>5 DEF FramesFor
  <2> HIDE DEF p, r, s
  <2>7. s \o p \in Seq(Frame)
    BY <2>6
  <2>8. \A n \in 1 .. Len(r) : r[n].class # q
    BY <2>4, <2>5 DEF FramesFor
  <2>9. Covered(s \o p, q, resumeIn'[x], peer'.evt[x])
    <3>1. CASE x \in P
      <4>1. Covered(s \o p, q, PauseTime, peer'.evt[x])
        BY <2>3, <2>4, <2>5, <2>6, <3>1, CoveredPause
      <4> QED
        BY <1>2, <3>1, <4>1
    <3>2. CASE x \notin P
      <4>1. \A n \in 1 .. Len(p) : p[n].class # q
        BY <2>4, <2>5, <3>2 DEF FramesFor
      <4>2. Covered(s, q, resumeIn[x], peer.evt[x])
        BY <3>2 DEF s
      <4>3. Covered(s \o p, q, resumeIn[x], peer.evt[x])
        BY <2>6, <4>1, <4>2, CoveredAppend
      <4> QED
        BY <1>2, <3>2, <4>3
    <3> QED
      BY <3>1, <3>2
  <2> QED
    BY <2>2, <2>6, <2>7, <2>8, <2>9, CoveredAppend
<1> QED
  BY <1>3, <1>4

\* A frame is delivered.
LEMMA CoveredReceive ==
  ASSUME NEW s \in Seq(Frame), s # <<>>, Head(s).left = 0, NEW q,
         NEW v \in 0 .. PauseTime, NEW e, NEW f, Covered(s, q, v, e),
         Head(s).class = q /\ Head(s).pause => f = PauseTime,
         Head(s).class # q => f = e
  PROVE  Covered(Tail(s), q, v, f)
<1> DEFINE t == Tail(s)
<1>0. Delay \in Nat /\ Delay > 0 /\ PauseTime \in Nat /\ v \in Nat
  BY LinkAssumption
<1>1. /\ Len(t) = Len(s) - 1 /\ Len(s) \in Nat /\ Len(s) > 0 /\ Head(s) = s[1]
      /\ \A n \in 1 .. Len(t) : t[n] = s[n + 1]
  OBVIOUS
<1> HIDE DEF t
<1>2. CASE e > v /\ \A n \in 1 .. Len(s) : s[n].class # q
  <2>1. \A n \in 1 .. Len(t) : t[n].class # q
    BY <1>1, <1>2
  <2>2. f = e
    BY <1>1, <1>2
  <2> QED
    BY <1>2, <2>1, <2>2 DEF Covered, t
<1>3. ASSUME NEW n \in 1 .. Len(s), LastOf(s, q, n), s[n].pause,
             v + Delay <= PauseTime + s[n].left
      PROVE  Covered(t, q, v, f)
  <2>1. CASE n = 1
    <3>1. f = PauseTime /\ s[n].left = 0
      BY <1>1, <1>3, <2>1 DEF LastOf
    <3>2. f > v
      BY <1>0, <1>3, <3>1
    <3>3. \A m \in 1 .. Len(t) : t[m].class # q
      BY <1>1, <1>3, <2>1 DEF LastOf
    <3> QED
      BY <3>2, <3>3 DEF Covered
  <2>2. CASE n # 1
    <3> DEFINE k == n - 1
    <3>1. k \in 1 .. Len(t) /\ t[k] = s[n]
      BY <1>1, <2>2
    <3>2. \A m \in k + 1 .. Len(t) : t[m].class # q
      <4> TAKE m \in k + 1 .. Len(t)
      <4>1. m \in 1 .. Len(t) /\ m + 1 \in n + 1 .. Len(s)
        BY <1>1, <3>1
      <4> QED
        BY <1>1, <1>3, <4>1 DEF LastOf
    <3>3. LastOf(t, q, k)
      BY <1>3, <3>1, <3>2 DEF LastOf
    <3> HIDE DEF k
    <3> QED
      BY <1>3, <3>1, <3>3 DEF Covered
  <2> QED
    BY <2>1, <2>2
<1> QED
  BY <1>2, <1>3 DEF Covered, t

\* A unit of time passes for both timers and for the frames.
LEMMA CoveredElapse ==
  ASSUME NEW s \in Seq(Frame), InOrder(s), s # <<>> => Head(s).left > 0, NEW q,
         NEW v \in Nat \ {0}, NEW e \in Int, Covered(s, q, v, e)
  PROVE  Covered(Elapse(s), q, v - 1, e - 1)
<1>0. Delay \in Nat /\ PauseTime \in Nat /\ Frame \in {Data, Frame}
  BY LinkAssumption
<1>1. /\ Len(Elapse(s)) = Len(s)
      /\ \A n \in 1 .. Len(s) :
           /\ s[n] \in Frame
           /\ Elapse(s)[n] = [s[n] EXCEPT !.left = @ - 1]
  BY <1>0, ElapseOf
<1> DEFINE t == Elapse(s)
<1> HIDE DEF t
<1>2. Len(t) = Len(s) /\ Len(s) \in Nat
  BY <1>1 DEF t
<1>3. \A n \in 1 .. Len(s) : /\ t[n].class = s[n].class /\ t[n].pause = s[n].pause
                             /\ t[n].left = s[n].left - 1
                             /\ s[n].left \in Nat
  <2> TAKE n \in 1 .. Len(s)
  <2>1. s[n] \in Frame /\ t[n] = [s[n] EXCEPT !.left = @ - 1]
    BY <1>1 DEF t
  <2>2. s[n].left \in Nat
    BY <1>0, <2>1, LeftType
  <2> QED
    BY <2>1, <2>2 DEF Frame
<1>4. CASE e > v /\ \A n \in 1 .. Len(s) : s[n].class # q
  BY <1>2, <1>3, <1>4 DEF Covered, t
<1>5. ASSUME NEW n \in 1 .. Len(s), LastOf(s, q, n), s[n].pause,
             v + Delay <= PauseTime + s[n].left
      PROVE  Covered(t, q, v - 1, e - 1)
  <2>1. LastOf(t, q, n)
    BY <1>2, <1>3, <1>5 DEF LastOf
  <2>2. t[n].pause /\ (v - 1) + Delay <= PauseTime + t[n].left
    BY <1>0, <1>3, <1>5
  <2> QED
    BY <1>2, <2>1, <2>2 DEF Covered
<1> QED
  BY <1>4, <1>5 DEF Covered, t

\* Nobody is paused at the start if the flags are clear.
LEMMA TimeInvInit == Uninit = {FALSE} /\ LinkInit => TimeInv
BY FeederIsPort DEF LinkInit, Init, TimeInv, PG

\* A pause ends: what is left of the flags.
LEMMA EndOfPause ==
  ASSUME PfcTypes, NEW y,
         pfc' = [pfc EXCEPT !.paused[y] = FALSE, !.timer[y] = FALSE]
  PROVE  \A x \in PG : /\ pfc'.paused[x] => pfc.paused[x] /\ x # y
                       /\ pfc'.timer[x] => pfc.timer[x] /\ x # y
                       /\ pfc.timer[x] => pfc'.timer[x] \/ x = y
<1> DEFINE a == [pfc.paused EXCEPT ![y] = FALSE]
           b == [pfc.timer EXCEPT ![y] = FALSE]
<1>1. pfc'.paused = a /\ pfc'.timer = b
  BY DEF PfcTypes
<1>2. \A x \in PG : /\ a[x] = IF x = y THEN FALSE ELSE pfc.paused[x]
                    /\ b[x] = IF x = y THEN FALSE ELSE pfc.timer[x]
  BY DEF PfcTypes
<1> HIDE DEF a, b
<1> QED
  BY <1>1, <1>2

\* No step leaves a running timer of the switch uncovered.
LEMMA TimeInvStep ==
  LinkTypes /\ PfcTypes /\ TimeInv /\ [LinkNext]_<<vars, linkVars>> => TimeInv'
<1> SUFFICES ASSUME LinkTypes, PfcTypes, TimeInv, [LinkNext]_<<vars, linkVars>> PROVE TimeInv'
  OBVIOUS
<1> DEFINE Cov(i, q)  == Covered(rev[i], q, resumeIn[<<i, q>>], peer.evt[<<i, q>>])
           CovP(i, q) == Covered(rev'[i], q, resumeIn'[<<i, q>>], peer'.evt[<<i, q>>])
<1>0. /\ rev \in [Feeder -> Seq(Frame)] /\ \A i \in Feeder : InOrder(rev[i])
      /\ resumeIn \in [PG -> 0 .. PauseTime]
      /\ peer \in [paused : [PG -> BOOLEAN], evt : [PG -> Never .. PauseTime]]
      /\ PauseTime \in Nat /\ Never = -1
      /\ \A i \in Feeder, q \in Class : <<i, q>> \in PG
      /\ \A i \in Port, q \in Class : <<i, q>> \in PG
  BY FeederIsPort, LinkAssumption DEF LinkTypes, PG, Never
<1>i. /\ \A x \in PG : pfc.paused[x] => pfc.timer[x]
      /\ \A i \in Feeder, q \in Class : pfc.timer[<<i, q>>] => Cov(i, q)
  BY DEF TimeInv
<1>g. ASSUME \A x \in PG : pfc'.paused[x] => pfc'.timer[x],
             \A i \in Feeder, q \in Class : pfc'.timer[<<i, q>>] => CovP(i, q)
      PROVE  TimeInv'
  BY <1>g DEF TimeInv
<1>1. ASSUME NEW i \in Feeder, SwitchReceive(i) PROVE TimeInv'
  <2> DEFINE k == Head(wire[i]).class
             c == UpdateIngressAdmission(i, k, MTU)
             P == Pauses(c, i, k)
             R == Resumes(c, i, k)
  <2>1. UNCHANGED peer
    BY <1>1 DEF SwitchReceive
  <2>2. \/ CheckAndSendPfc(c, i, k) /\ SendPfc(i, P, R) /\ SetPauses(P, R)
        \/ UNCHANGED <<pfc, rev, resumeIn>>
    BY <1>1 DEF SwitchReceive, SwitchSend, DropAtIngress, DropAtEgress
  <2> HIDE DEF c, k
  <2>3. CASE UNCHANGED <<pfc, rev, resumeIn>>
    BY <1>i, <1>g, <2>1, <2>3
  <2>4. CASE CheckAndSendPfc(c, i, k) /\ SendPfc(i, P, R) /\ SetPauses(P, R)
    <3>1. P \in SUBSET ({i} \X Class) /\ R \in SUBSET ({i} \X Class)
      BY PausesType
    <3>2. /\ pfc'.paused = [x \in PG |-> (pfc.paused[x] \/ x \in P) /\ x \notin R]
          /\ pfc'.timer = [x \in PG |-> (pfc.timer[x] \/ x \in P) /\ x \notin R]
      BY <2>4 DEF CheckAndSendPfc
    <3> HIDE DEF P, R
    <3>3. \A x \in PG : pfc'.paused[x] => pfc'.timer[x]
      BY <1>i, <3>2
    <3>4. ASSUME NEW j \in Feeder, NEW q \in Class, pfc'.timer[<<j, q>>] PROVE CovP(j, q)
      <4>1. <<j, q>> \notin R /\ (pfc.timer[<<j, q>>] \/ <<j, q>> \in P)
        BY <1>0, <3>2, <3>4
      <4>2. <<j, q>> \in P \/ Cov(j, q)
        BY <1>i, <4>1
      <4> QED
        BY <2>1, <2>4, <3>1, <4>1, <4>2, CoveredSend
    <3> QED
      BY <1>g, <3>3, <3>4
  <2> QED
    BY <2>2, <2>3, <2>4
<1>2. ASSUME NEW o \in Port, NEW k \in Class, SwitchTransmit(o, k) PROVE TimeInv'
  <2> DEFINE p == Head(queue[<<o, k>>])
             c == RemoveFromIngressAdmission(p.in, k, p.size)
             R == {x \in {<<p.in, k>>} : GetResumeClasses(c, pfc.paused[x], p.in, k)}
  <2>1. SendPfc(p.in, {}, R) /\ SetPauses({}, R) /\ UNCHANGED peer
    BY <1>2 DEF SwitchTransmit
  <2>2. CheckAndSendResume(c, p.in, k)
    BY <1>2 DEF SwitchTransmit, SwitchNotifyDequeue
  <2>3. R \in SUBSET ({p.in} \X Class) /\ {} \in SUBSET ({p.in} \X Class)
    OBVIOUS
  <2>4. \A x \in PG : /\ pfc'.paused[x] => pfc.paused[x]
                      /\ pfc'.timer[x] => pfc.timer[x] /\ x \notin R
                      /\ pfc.timer[x] => pfc'.timer[x] \/ x \in R
                      /\ pfc'.paused[x] => x \notin R
    <3>1. CASE GetResumeClasses(c, pfc.paused[<<p.in, k>>], p.in, k)
      <4>1. R = {<<p.in, k>>}
        BY <3>1
      <4>2. pfc' = [pfc EXCEPT !.paused[<<p.in, k>>] = FALSE, !.timer[<<p.in, k>>] = FALSE]
        BY <2>2, <3>1 DEF CheckAndSendResume
      <4>3. \A x \in PG : /\ pfc'.paused[x] => pfc.paused[x] /\ x # <<p.in, k>>
                          /\ pfc'.timer[x] => pfc.timer[x] /\ x # <<p.in, k>>
                          /\ pfc.timer[x] => pfc'.timer[x] \/ x = <<p.in, k>>
        BY <4>2, EndOfPause
      <4> QED
        BY <4>1, <4>3
    <3>2. CASE ~GetResumeClasses(c, pfc.paused[<<p.in, k>>], p.in, k)
      <4>1. R = {}
        BY <3>2
      <4>2. pfc' = pfc
        BY <2>2, <3>2 DEF CheckAndSendResume
      <4> QED
        BY <4>1, <4>2
    <3> QED
      BY <3>1, <3>2
  <2> HIDE DEF R, c, p
  <2>5. \A x \in PG : pfc'.paused[x] => pfc'.timer[x]
    BY <1>i, <2>4
  <2>6. ASSUME NEW j \in Feeder, NEW q \in Class, pfc'.timer[<<j, q>>] PROVE CovP(j, q)
    <3>1. <<j, q>> \notin R /\ pfc.timer[<<j, q>>]
      BY <1>0, <2>4, <2>6
    <3>2. Cov(j, q)
      BY <1>i, <3>1
    <3> QED
      BY <2>1, <2>3, <3>1, <3>2, CoveredSend
  <2> QED
    BY <1>g, <2>5, <2>6
<1>3. ASSUME NEW i \in Port, NEW k \in Class, ResumeTimer(i, k) PROVE TimeInv'
  <2>1. /\ pfc' = [pfc EXCEPT !.paused[<<i, k>>] = FALSE, !.timer[<<i, k>>] = FALSE]
        /\ UNCHANGED <<rev, resumeIn, peer>>
    BY <1>3 DEF ResumeTimer, SetResume, linkVars
  <2>2. \A x \in PG : /\ pfc'.paused[x] => pfc.paused[x] /\ x # <<i, k>>
                      /\ pfc'.timer[x] => pfc.timer[x] /\ x # <<i, k>>
                      /\ pfc.timer[x] => pfc'.timer[x] \/ x = <<i, k>>
    BY <2>1, EndOfPause
  <2>3. \A x \in PG : pfc'.paused[x] => pfc'.timer[x]
    BY <1>i, <2>2
  <2>4. \A j \in Feeder, q \in Class : pfc'.timer[<<j, q>>] => CovP(j, q)
    BY <1>0, <1>i, <2>1, <2>2
  <2> QED
    BY <1>g, <2>3, <2>4
<1>4. ASSUME NEW i \in Port, NEW k \in Class, PeerTimer(i, k) PROVE TimeInv'
  <2>1. /\ peer.evt[<<i, k>>] = 0 /\ peer' = PeerResume(<<i, k>>)
        /\ UNCHANGED <<pfc, rev, resumeIn>>
    BY <1>4 DEF PeerTimer, vars
  <2>2. \A y \in PG \ {<<i, k>>} : peer'.evt[y] = peer.evt[y]
    BY <1>0, <2>1, PeerTypes
  <2>3. ASSUME NEW j \in Feeder, NEW q \in Class, pfc'.timer[<<j, q>>] PROVE CovP(j, q)
    <3>1. Cov(j, q)
      BY <1>i, <2>1, <2>3
    <3>2. CASE <<j, q>> # <<i, k>>
      BY <1>0, <2>1, <2>2, <3>1, <3>2
    <3>3. CASE <<j, q>> = <<i, k>>
      <4>1. ~(peer.evt[<<j, q>>] > resumeIn[<<j, q>>])
        <5>1. resumeIn[<<j, q>>] \in Nat
          BY <1>0
        <5> QED
          BY <2>1, <3>3, <5>1
      <4> QED
        BY <2>1, <3>1, <4>1 DEF Covered
    <3> QED
      BY <3>2, <3>3
  <2> QED
    BY <1>i, <1>g, <2>1, <2>3
<1>5. ASSUME NEW i \in Feeder, PeerReceive(i) PROVE TimeInv'
  <2> DEFINE k == Head(rev[i]).class
             x == <<i, k>>
  <2>1. /\ rev[i] # <<>> /\ Head(rev[i]).left = 0
        /\ peer' = IF Head(rev[i]).pause THEN ReceivePause(x) ELSE PeerResume(x)
        /\ rev' = [rev EXCEPT ![i] = Tail(@)]
        /\ UNCHANGED <<pfc, resumeIn>>
    BY <1>5 DEF PeerReceive, vars
  <2>2. rev[i] \in Seq(Frame)
    BY <1>0
  <2>3. Head(rev[i]) \in Frame
    BY <2>1, <2>2, TailOf, <1>0
  <2>4. k \in Class /\ x \in PG
    BY <1>0, <2>3 DEF Frame
  <2> HIDE DEF k, x
  <2>5. \A y \in PG \ {x} : peer'.evt[y] = peer.evt[y]
    BY <2>1, <2>4, PeerTypes
  <2>6. Head(rev[i]).pause => peer'.evt[x] = PauseTime
    BY <1>0, <2>1, <2>4 DEF ReceivePause
  <2>7. ASSUME NEW j \in Feeder, NEW q \in Class, pfc'.timer[<<j, q>>] PROVE CovP(j, q)
    <3>1. Cov(j, q) /\ resumeIn'[<<j, q>>] = resumeIn[<<j, q>>]
      BY <1>i, <2>1, <2>7
    <3>2. CASE j # i
      <4>1. rev'[j] = rev[j] /\ <<j, q>> # x
        BY <1>0, <2>1, <3>2 DEF x
      <4> QED
        BY <1>0, <2>5, <3>1, <4>1
    <3>3. CASE j = i
      <4>1. rev'[j] = Tail(rev[j])
        BY <1>0, <2>1, <3>3
      <4>2. resumeIn[<<j, q>>] \in 0 .. PauseTime
        BY <1>0
      <4>3. Head(rev[j]).class = q /\ Head(rev[j]).pause => peer'.evt[<<j, q>>] = PauseTime
        BY <2>6, <3>3 DEF x, k
      <4>4. Head(rev[j]).class # q => peer'.evt[<<j, q>>] = peer.evt[<<j, q>>]
        BY <1>0, <2>5, <3>3 DEF x, k
      <4>5. Covered(Tail(rev[j]), q, resumeIn[<<j, q>>], peer'.evt[<<j, q>>])
        BY <2>1, <2>2, <3>1, <3>3, <4>2, <4>3, <4>4, CoveredReceive
      <4> QED
        BY <3>1, <4>1, <4>5
    <3> QED
      BY <3>2, <3>3
  <2> QED
    BY <1>i, <1>g, <2>1, <2>7
<1>6. ASSUME NEW i \in Feeder, NEW q \in Class, PeerTransmit(i, q) PROVE TimeInv'
  <2>1. UNCHANGED <<pfc, rev, peer, resumeIn>>
    BY <1>6 DEF PeerTransmit, vars
  <2> QED
    BY <1>i, <1>g, <2>1
<1>7. CASE Tick
  <2>1. /\ \A i \in Feeder : rev[i] # <<>> => Head(rev[i]).left > 0
        /\ \A x \in PG : peer.evt[x] # 0 /\ (pfc.timer[x] => resumeIn[x] > 0)
        /\ rev' = [i \in Feeder |-> Elapse(rev[i])]
        /\ peer' = [peer EXCEPT !.evt = [x \in PG |->
                      IF peer.evt[x] = Never THEN Never ELSE peer.evt[x] - 1]]
        /\ resumeIn' = [x \in PG |-> IF resumeIn[x] = 0 THEN 0 ELSE resumeIn[x] - 1]
        /\ UNCHANGED pfc
    BY <1>7 DEF Tick, TimersDone, vars
  <2>2. ASSUME NEW j \in Feeder, NEW q \in Class, pfc'.timer[<<j, q>>] PROVE CovP(j, q)
    <3> DEFINE v == resumeIn[<<j, q>>]
               e == peer.evt[<<j, q>>]
    <3>1. Cov(j, q)
      BY <1>i, <2>1, <2>2
    <3>2. /\ <<j, q>> \in PG /\ v \in Nat \ {0} /\ e \in Int /\ e # 0
          /\ resumeIn'[<<j, q>>] = v - 1
      BY <1>0, <2>1, <2>2
    <3>3. rev'[j] = Elapse(rev[j]) /\ InOrder(rev[j]) /\ rev[j] \in Seq(Frame)
      BY <1>0, <2>1
    <3>4. Covered(Elapse(rev[j]), q, v - 1, e - 1)
      BY <2>1, <3>1, <3>2, <3>3, CoveredElapse
    <3>5. peer'.evt[<<j, q>>] = IF e = Never THEN Never ELSE e - 1
      BY <1>0, <2>1, <3>2
    <3> HIDE DEF v, e
    <3>6. Covered(Elapse(rev[j]), q, v - 1, peer'.evt[<<j, q>>])
      <4>1. CASE e = Never
        <5>1. ~(e - 1 > v - 1)
          BY <1>0, <3>2, <4>1
        <5> QED
          BY <3>4, <5>1 DEF Covered
      <4>2. CASE e # Never
        BY <3>4, <3>5, <4>2
      <4> QED
        BY <4>1, <4>2
    <3> QED
      BY <3>2, <3>3, <3>6
  <2> QED
    BY <1>i, <1>g, <2>1, <2>2
<1>8. CASE UNCHANGED <<vars, linkVars>>
  BY <1>8, <1>i, <1>g DEF vars, linkVars
<1> QED
  BY <1>1, <1>2, <1>3, <1>4, <1>5, <1>6, <1>7, <1>8 DEF LinkNext

\* Where a running timer is covered, the peer of a paused class is paused or will be.
LEMMA CoveredIsPaused == LinkTypes /\ TimeInv => PeerPaused
<1> SUFFICES ASSUME LinkTypes, TimeInv, NEW i \in Feeder, NEW q \in Class,
                    pfc.paused[<<i, q>>]
             PROVE  \/ NoFrame(i, q) /\ peer.paused[<<i, q>>]
                    \/ \E n \in DOMAIN rev[i] : IsLastFrame(i, q, n) /\ rev[i][n].pause
  BY DEF PeerPaused
<1> DEFINE x == <<i, q>>
<1>1. /\ x \in PG /\ rev[i] \in Seq(Frame) /\ DOMAIN rev[i] = 1 .. Len(rev[i])
      /\ peer.paused[x] = (peer.evt[x] # Never) /\ resumeIn[x] \in Nat
  BY FeederIsPort DEF LinkTypes, PG
<1>2. Covered(rev[i], q, resumeIn[x], peer.evt[x])
  BY <1>1 DEF TimeInv
<1>3. CASE peer.evt[x] > resumeIn[x] /\ \A n \in 1 .. Len(rev[i]) : rev[i][n].class # q
  <2>1. peer.evt[x] # Never
    BY <1>1, <1>3 DEF Never
  <2> QED
    BY <1>1, <1>3, <2>1 DEF NoFrame
<1>4. ASSUME NEW n \in 1 .. Len(rev[i]), LastOf(rev[i], q, n), rev[i][n].pause
      PROVE  \E k \in DOMAIN rev[i] : IsLastFrame(i, q, k) /\ rev[i][k].pause
  BY <1>1, <1>4 DEF LastOf, IsLastFrame
<1> QED
  BY <1>2, <1>3, <1>4 DEF Covered

\* While the switch takes a class for paused its peer is paused, or the last frame on
\* the way to it is a PAUSE: the peer starts its timer of the same pause later, every
\* PAUSE sent restarts both, and links keep the order.  For any delay, any pause time
\* and any number of ports, if the flags that InitSwitch leaves alone start as FALSE.
THEOREM PeerPausedAlways == Uninit = {FALSE} /\ LinkSpec => []PeerPaused
<1>1. Uninit = {FALSE} /\ LinkInit => TimeInv /\ LinkTypes
  BY TimeInvInit, LinkTypesInit
<1>2. LinkSpec => []PfcTypes
  <2>1. TypeOK => PfcTypes
    BY DEF TypeOK, PfcTypes
  <2> QED
    BY <2>1, LinkImplementsSwitch, TypeCorrect, PTL
<1> QED
  BY <1>1, <1>2, LinkTypesStep, TimeInvStep, CoveredIsPaused, PTL DEF LinkSpec

-----------------------------------------------------------------------------
(* Headroom, for a peer that has the switch to itself.                     *)

\* The switch has one input, port i, and one class.
Alone(i, q) == Feeder = {i} /\ Class = {q}

\* Q is enough for the class to be paused as soon as it holds more.
Threshold(Q) ==
  /\ Q \in Nat /\ PgMin + PortMin <= Q
  /\ BufferLimitSp - (Q + 1) < IngressAlphaInv * (Q + 1 - PgMin - PortMin)

\* What the class holds when all that was on its way has arrived.
Most(Q) == Q + (2 * Delay + 3) * MTU

\* The pool has room for what precedes the PAUSE, the egress for all.
Roomy(Q) ==
  /\ Q + 2 * MTU <= BufferLimitSp
  /\ Most(Q) <= EgressLimitSp
  /\ Most(Q) <= EgressAlpha * (EgressLimitSp - Most(Q))

\* The peer could start a packet in this unit of time.
Idle(i) == IF i \in busy THEN 0 ELSE 1

\* Packets follow each other by a unit of time at least, to the end of the link.
Spaced(i) ==
  \A n \in 1 .. Len(wire[i]) :
    wire[i][n].left + (Len(wire[i]) - n) + Idle(i) <= Delay + 1

\* Port i and class q account for all that the switch contains.
SoleUser(i, q) ==
  LET x == <<i, q>>
  IN  /\ \A y \in PG : \A n \in 1 .. Len(queue[y]) : queue[y][n].in = i
      /\ ing.sp[GetIngressSP(q)] = ing.pg[x] /\ ing.total = ing.pg[x]
      /\ ing.hdrm[x] = 0 \/ ing.hdrm[x] + BufferLimitSp < ing.pg[x] + MTU
      /\ egr.sp[1] + SumFunctionOnSet(egr.qmin, PG) = ing.total
      /\ SumFunctionOnSet(egr.port, Port) = ing.total

\* The frames s from the k-th on are PAUSEs.
AllPause(s, k) == \A m \in k .. Len(s) : s[m].pause

\* The peer will send n packets at most before it is paused.
Stops(i, q, n) ==
  \/ peer.paused[<<i, q>>] /\ AllPause(rev[i], 1)
  \/ \E k \in 1 .. Len(rev[i]) : AllPause(rev[i], k) /\ rev[i][k].left + Idle(i) <= n

\* A class that has not been told to stop holds little, one that has been will.
StopInv(i, q, Q) ==
  LET x == <<i, q>>
  IN  /\ told[x] # "PAUSE" => ing.pg[x] <= Q
      /\ told[x] = "PAUSE" =>
           \E n \in Nat : /\ Stops(i, q, n)
                          /\ ing.pg[x] + (Len(wire[i]) + n) * MTU <= Most(Q)

RoomInv(i, q, Q) ==
  /\ Spaced(i)
  /\ SoleUser(i, q)
  /\ expired = {} => dropped = {} /\ StopInv(i, q, Q)

\* What has been proved of the buffer.
BufferInv ==
  /\ EgressInv /\ HeadroomInv /\ EgressSums /\ IngressCharged
  /\ PfcTypes /\ DroppedType

\* With one input and one class there is one of each counter of the ingress.
LEMMA AloneFacts ==
  ASSUME NEW i, NEW q, Alone(i, q)
  PROVE  /\ i \in Feeder /\ i \in Port /\ q \in Class /\ q \in Nat \ {0}
         /\ <<i, q>> \in PG /\ PG = Port \X {q}
         /\ GetEgressSP(q) = 1 /\ PoolOut(1) = PG /\ GetIngressSP(q) \in Pool
         /\ Size = {MTU} /\ MTU \in Nat \ {0} /\ Delay \in Nat
         /\ HdrmLimit[i] = (2 * Delay + 2) * MTU
<1>1. /\ i \in Feeder /\ i \in Port /\ q \in Class /\ q \in Nat \ {0}
      /\ Size = {MTU} /\ MTU \in Nat \ {0} /\ Delay \in Nat
      /\ HdrmLimit[i] = (2 * Delay + 2) * MTU
  BY FeederIsPort, SizeAssumption, LinkAssumption DEF Alone
<1>2. <<i, q>> \in PG /\ PG = Port \X {q}
  BY <1>1 DEF Alone, PG
<1>3. GetEgressSP(q) = 1 /\ GetIngressSP(q) \in Pool
  BY <1>1 DEF GetEgressSP, GetIngressSP, Pool
<1>4. PoolOut(1) = PG
  BY <1>2, <1>3 DEF PoolOut
<1> QED
  BY <1>1, <1>2, <1>3, <1>4

\* Multiplication by a natural number keeps the order.
LEMMA TimesMonotone ==
  ASSUME NEW a \in Nat, NEW b \in Int, NEW c \in Int, b <= c
  PROVE  a * b <= a * c
<1>1. a * c = a * b + a * (c - b)
  OBVIOUS
<1>2. a * (c - b) >= 0
  OBVIOUS
<1> QED
  BY <1>1, <1>2

\* A packet more, in bytes.
LEMMA TimesOneMore ==
  ASSUME NEW m \in Nat, NEW n \in Nat, NEW b \in Nat
  PROVE  /\ (m + n) * b \in Nat
         /\ (m + 1 + n) * b = (m + n) * b + b
<1>1. m + n \in Nat /\ m + 1 + n = (m + n) + 1
  OBVIOUS
<1>2. ASSUME NEW k \in Nat  PROVE k * b \in Nat /\ (k + 1) * b = k * b + b
  OBVIOUS
<1> QED
  BY <1>1, <1>2

\* Beyond the threshold the class is paused, whatever it holds.
LEMMA ThresholdHolds ==
  ASSUME NEW Q, Threshold(Q), NEW g \in Nat, g > Q
  PROVE  /\ g > PgMin + PortMin
         /\ IngressAlphaInv * (g - PgMin - PortMin) > BufferLimitSp - g
<1> DEFINE p == PgMin + PortMin
<1>1. /\ IngressAlphaInv \in Nat /\ BufferLimitSp \in Nat /\ PgMin \in Nat
      /\ PortMin \in Nat /\ Q \in Nat
  BY SizeNat DEF Threshold
<1>2. IngressAlphaInv * (Q + 1 - PgMin - PortMin) <= IngressAlphaInv * (g - PgMin - PortMin)
  BY <1>1, TimesMonotone
<1> QED
  BY <1>1, <1>2 DEF Threshold

\* A packet adds its size to what the queues of the egress are charged, or takes it away.
LEMMA EgressTotals ==
  ASSUME NEW i, NEW q, Alone(i, q), EgrTypes, NEW o \in Port, NEW d \in Int,
         NEW s \in Int, NEW e, ChargedMore(e, o, q, d, s)
  PROVE  /\ e.sp[1] + SumFunctionOnSet(e.qmin, PG)
              = egr.sp[1] + SumFunctionOnSet(egr.qmin, PG) + d
         /\ SumFunctionOnSet(e.port, Port) = SumFunctionOnSet(egr.port, Port) + d
<1> DEFINE y == <<o, q>>
<1>1. /\ q \in Class /\ GetEgressSP(q) = 1 /\ y \in PG /\ 1 \in Pool
      /\ IsFiniteSet(PG) /\ IsFiniteSet(Port)
  <2>1. q \in Class /\ GetEgressSP(q) = 1
    BY AloneFacts
  <2> QED
    BY <2>1, FiniteIndices DEF PG, Pool
<1>2. /\ egr.qmin \in [PG -> Nat] /\ egr.shared \in [PG -> Nat]
      /\ egr.port \in [Port -> Int] /\ egr.sp \in [Pool -> Int]
  BY DEF EgrTypes
<1>3. /\ e.qmin \in [PG -> Nat] /\ e.shared \in [PG -> Nat]
      /\ \A x \in PG : e.qmin[x] + e.shared[x] =
                         egr.qmin[x] + egr.shared[x] + (IF x = y THEN d ELSE 0)
      /\ e.shared = [egr.shared EXCEPT ![y] = egr.shared[y] + s]
      /\ e.port = [egr.port EXCEPT ![o] = egr.port[o] + d]
      /\ e.sp = [egr.sp EXCEPT ![1] = egr.sp[1] + s]
  BY <1>1 DEF ChargedMore
<1> HIDE DEF y
<1>4. /\ \A x \in PG : x # y => e.qmin[x] = egr.qmin[x]
      /\ e.qmin[y] = egr.qmin[y] + d - s
  <2>1. ASSUME NEW x \in PG
        PROVE  e.qmin[x] = egr.qmin[x] + (IF x = y THEN d - s ELSE 0)
    <3>1. /\ e.qmin[x] \in Nat /\ e.shared[x] \in Nat
          /\ egr.qmin[x] \in Nat /\ egr.shared[x] \in Nat
      BY <1>2, <1>3
    <3>2. e.shared[x] = egr.shared[x] + (IF x = y THEN s ELSE 0)
      BY <1>1, <1>2, <1>3, <3>1
    <3>3. e.qmin[x] + e.shared[x] =
            egr.qmin[x] + egr.shared[x] + (IF x = y THEN d ELSE 0)
      BY <1>3
    <3> QED
      BY <3>1, <3>2, <3>3
  <2>2. \A x \in PG : egr.qmin[x] \in Nat
    BY <1>2
  <2> QED
    BY <1>1, <2>1, <2>2
<1>5. SumFunctionOnSet(e.qmin, PG) = SumFunctionOnSet(egr.qmin, PG) + (d - s)
  <2>1. \A x \in PG : e.qmin[x] \in Int /\ egr.qmin[x] \in Int
    BY <1>2, <1>3
  <2>2. e.qmin[y] - egr.qmin[y] = d - s
    BY <1>1, <1>4, <2>1
  <2>3. SumFunctionOnSet(e.qmin, PG)
          = SumFunctionOnSet(egr.qmin, PG)
              + (IF y \in PG THEN e.qmin[y] - egr.qmin[y] ELSE 0)
    BY <1>1, <1>4, <2>1, SumUpdate
  <2> QED
    BY <1>1, <2>2, <2>3
<1>6. SumFunctionOnSet(e.port, Port) = SumFunctionOnSet(egr.port, Port) + d
  <2>1. /\ \A p \in Port : e.port[p] \in Int /\ egr.port[p] \in Int
        /\ \A p \in Port : p # o => e.port[p] = egr.port[p]
        /\ e.port[o] = egr.port[o] + d
    BY <1>2, <1>3
  <2>2. e.port[o] - egr.port[o] = d
    BY <2>1
  <2>3. SumFunctionOnSet(e.port, Port)
          = SumFunctionOnSet(egr.port, Port)
              + (IF o \in Port THEN e.port[o] - egr.port[o] ELSE 0)
    BY <1>1, <2>1, SumUpdate
  <2> QED
    BY <2>2, <2>3
<1>7. e.sp[1] = egr.sp[1] + s /\ egr.sp[1] \in Int
  BY <1>1, <1>2, <1>3
<1>8. SumFunctionOnSet(egr.qmin, PG) \in Int
  <2>1. \A x \in PG : egr.qmin[x] \in Nat
    BY <1>2
  <2> QED
    BY <1>1, <2>1, SumNat
<1> QED
  BY <1>5, <1>6, <1>7, <1>8

\* No queue, port or pool of the egress is charged more than the switch contains.
LEMMA EgressWithinTotal ==
  ASSUME NEW i, NEW q, Alone(i, q), EgressInv, EgressSums, IngTypes, SoleUser(i, q),
         NEW o \in Port
  PROVE  /\ egr.sp[1] <= ing.total /\ egr.sp[1] \in Nat
         /\ egr.port[o] <= ing.total /\ egr.port[o] \in Nat
         /\ egr.shared[<<o, q>>] <= egr.sp[1] /\ egr.shared[<<o, q>>] \in Nat
<1> DEFINE y == <<o, q>>
<1>1. /\ IsFiniteSet(PG) /\ IsFiniteSet(Port) /\ y \in PG /\ 1 \in Pool /\ PoolOut(1) = PG
  <2>1. q \in Class /\ PoolOut(1) = PG
    BY AloneFacts
  <2> QED
    BY <2>1, FiniteIndices DEF PG, Pool
<1>2. egr \in [qmin : [PG -> Nat], shared : [PG -> Nat], port : [Port -> Nat],
               sp : [Pool -> Nat]]
  BY EgressNat DEF EgressInv
<1>3. /\ \A x \in PG : egr.qmin[x] \in Nat /\ egr.shared[x] \in Nat
      /\ \A p \in Port : egr.port[p] \in Nat
      /\ egr.sp[1] \in Nat
  BY <1>1, <1>2
<1>4. egr.sp[1] = SumFunctionOnSet(egr.shared, PG)
  BY <1>1 DEF EgressSums, PoolOut
<1>5. egr.shared[y] <= egr.sp[1]
  BY <1>1, <1>3, <1>4, SumNat
<1>6. egr.port[o] <= SumFunctionOnSet(egr.port, Port)
  BY <1>1, <1>3, SumNat
<1>7. SumFunctionOnSet(egr.qmin, PG) \in Nat
  BY <1>1, <1>3, SumNat
<1>8. /\ egr.sp[1] + SumFunctionOnSet(egr.qmin, PG) = ing.total
      /\ SumFunctionOnSet(egr.port, Port) = ing.total
  BY DEF SoleUser
<1>9. egr.sp[1] <= ing.total
  BY <1>3, <1>7, <1>8
<1> QED
  BY <1>1, <1>3, <1>5, <1>6, <1>8, <1>9

\* An empty switch.
LEMMA SoleUserInit ==
  ASSUME NEW i, NEW q, Alone(i, q), Init
  PROVE  SoleUser(i, q)
<1> DEFINE x == <<i, q>>
<1>1. /\ x \in PG /\ GetIngressSP(q) \in Pool /\ 1 \in Pool
      /\ IsFiniteSet(PG) /\ IsFiniteSet(Port)
  <2>1. x \in PG /\ GetIngressSP(q) \in Pool
    BY AloneFacts
  <2> QED
    BY <2>1, FiniteIndices DEF Pool
<1> HIDE DEF x
<1>2. /\ ing.pg[x] = 0 /\ ing.sp[GetIngressSP(q)] = 0 /\ ing.total = 0 /\ ing.hdrm[x] = 0
      /\ egr.sp[1] = 0 /\ \A y \in PG : egr.qmin[y] = 0
      /\ \A p \in Port : egr.port[p] = 0
      /\ \A y \in PG : queue[y] = <<>>
  BY <1>1 DEF Init
<1>3. SumFunctionOnSet(egr.qmin, PG) = 0 /\ SumFunctionOnSet(egr.port, Port) = 0
  BY <1>1, <1>2, SumZero
<1> QED
  BY <1>2, <1>3 DEF SoleUser, x

\* A packet joins the switch.
LEMMA SoleUserJoin ==
  ASSUME NEW i, NEW q, Alone(i, q), BufferInv, SoleUser(i, q), NEW o \in Port,
         SwitchSend(i, o, q, MTU)
  PROVE  SoleUser(i, q)' /\ ing'.pg[<<i, q>>] = ing.pg[<<i, q>>] + MTU
<1> DEFINE x == <<i, q>>
           s == GetIngressSP(q)
<1>1. /\ i \in Port /\ q \in Class /\ x \in PG /\ s \in Pool /\ MTU \in Size /\ MTU \in Nat
      /\ BufferLimitSp \in Nat
  BY AloneFacts, SizeNat
<1>2. EgressInv /\ EgrTypes /\ IngTypes /\ QueueInv
  BY DEF BufferInv, EgressInv, HeadroomInv
<1>3. /\ ing.pg \in [PG -> Nat] /\ ing.sp \in [Pool -> Nat] /\ ing.hdrm \in [PG -> Nat]
      /\ ing.total \in Nat
  BY <1>2 DEF IngTypes
<1>4. ing' = UpdateIngressAdmission(i, q, MTU)
  BY DEF SwitchSend
<1>5. /\ ing'.pg = [ing.pg EXCEPT ![x] = ing.pg[x] + MTU]
      /\ ing'.sp = [ing.sp EXCEPT ![s] = ing.sp[s] + MTU]
      /\ ing'.total = ing.total + MTU
      /\ ing'.hdrm = [ing.hdrm EXCEPT ![x] = IF ing.sp[s] + MTU > BufferLimitSp
                                             THEN ing.hdrm[x] + MTU ELSE ing.hdrm[x]]
  BY <1>4 DEF UpdateIngressAdmission
<1>6. \A y \in PG : \A n \in 1 .. Len(queue'[y]) : queue'[y][n].in = i
  <2> DEFINE z == <<o, q>>
             p == [in |-> i, size |-> MTU, ahead |-> Bytes(queue[z])]
  <2>1. z \in PG /\ queue' = [queue EXCEPT ![z] = Append(queue[z], p)]
    BY <1>1 DEF SwitchSend, PG
  <2>2. queue \in [PG -> Seq(Packet)] /\ p.in = i
    BY <1>2 DEF QueueInv
  <2> HIDE DEF z, p
  <2>3. ASSUME NEW y \in PG, NEW n \in 1 .. Len(queue'[y])  PROVE queue'[y][n].in = i
    <3>1. queue[y] \in Seq(Packet) /\ \A m \in 1 .. Len(queue[y]) : queue[y][m].in = i
      BY <2>2 DEF SoleUser
    <3>2. CASE y = z
      <4>1. queue'[y] = Append(queue[y], p)
        BY <2>1, <2>2, <3>2
      <4>2. n \in 1 .. Len(queue[y]) + 1 /\ Len(queue[y]) \in Nat
        BY <3>1, <4>1
      <4>3. queue'[y][n] = IF n = Len(queue[y]) + 1 THEN p ELSE queue[y][n]
        BY <3>1, <4>1, <4>2
      <4> QED
        BY <2>2, <3>1, <4>2, <4>3
    <3>3. CASE y # z
      <4>1. queue'[y] = queue[y]
        BY <2>1, <2>2, <3>3
      <4> QED
        BY <3>1, <4>1
    <3> QED
      BY <3>2, <3>3
  <2> QED
    BY <2>3
<1>7. PICK t \in Int : ChargedMore(egr', o, q, MTU, t)
  BY <1>1, <1>2, JoiningCharges
<1>8. /\ egr'.sp[1] + SumFunctionOnSet(egr'.qmin, PG)
           = egr.sp[1] + SumFunctionOnSet(egr.qmin, PG) + MTU
      /\ SumFunctionOnSet(egr'.port, Port) = SumFunctionOnSet(egr.port, Port) + MTU
  BY <1>1, <1>2, <1>7, EgressTotals
<1> HIDE DEF x, s
<1>9. /\ ing.sp[s] = ing.pg[x] /\ ing.total = ing.pg[x]
      /\ ing.hdrm[x] = 0 \/ ing.hdrm[x] + BufferLimitSp < ing.pg[x] + MTU
      /\ egr.sp[1] + SumFunctionOnSet(egr.qmin, PG) = ing.total
      /\ SumFunctionOnSet(egr.port, Port) = ing.total
  BY DEF SoleUser, x, s
<1>10. /\ ing'.pg[x] = ing.pg[x] + MTU /\ ing'.sp[s] = ing.sp[s] + MTU
       /\ ing'.hdrm[x] = IF ing.sp[s] + MTU > BufferLimitSp
                         THEN ing.hdrm[x] + MTU ELSE ing.hdrm[x]
       /\ ing.pg[x] \in Nat /\ ing.hdrm[x] \in Nat
  BY <1>1, <1>3, <1>5
<1>11. ing'.hdrm[x] = 0 \/ ing'.hdrm[x] + BufferLimitSp < ing'.pg[x] + MTU
  BY <1>1, <1>9, <1>10
<1>12. /\ ing'.sp[s] = ing'.pg[x] /\ ing'.total = ing'.pg[x]
       /\ egr'.sp[1] + SumFunctionOnSet(egr'.qmin, PG) = ing'.total
       /\ SumFunctionOnSet(egr'.port, Port) = ing'.total
  BY <1>5, <1>8, <1>9, <1>10
<1> QED
  BY <1>6, <1>10, <1>11, <1>12 DEF SoleUser, x, s

\* A packet leaves the switch.
LEMMA SoleUserLeave ==
  ASSUME NEW i, NEW q, Alone(i, q), BufferInv, IngTypes', SoleUser(i, q), NEW o \in Port,
         SwitchNotifyDequeue(o, q)
  PROVE  /\ SoleUser(i, q)' /\ ing'.pg[<<i, q>>] = ing.pg[<<i, q>>] - MTU
         /\ Head(queue[<<o, q>>]).in = i /\ Head(queue[<<o, q>>]).size = MTU
<1> DEFINE x == <<i, q>>
           s == GetIngressSP(q)
           z == <<o, q>>
           h == Head(queue[z])
<1>1. /\ i \in Port /\ q \in Class /\ x \in PG /\ s \in Pool /\ Size = {MTU} /\ MTU \in Nat
      /\ BufferLimitSp \in Nat /\ z \in PG
  <2>1. /\ i \in Port /\ q \in Class /\ x \in PG /\ s \in Pool /\ Size = {MTU}
        /\ MTU \in Nat
    BY AloneFacts
  <2> QED
    BY <2>1, SizeNat DEF PG
<1>2. EgressInv /\ EgrTypes /\ IngTypes /\ QueueInv /\ IngressOf(ing, queue)
  BY IngressChargedIsOf DEF BufferInv, EgressInv, HeadroomInv
<1>3. /\ ing.pg \in [PG -> Nat] /\ ing.sp \in [Pool -> Nat] /\ ing.hdrm \in [PG -> Nat]
      /\ ing.total \in Nat /\ ing'.pg \in [PG -> Nat]
  BY <1>2 DEF IngTypes
<1>4. queue[z] \in Seq(Packet) /\ queue[z] # <<>>
  BY <1>1, <1>2 DEF SwitchNotifyDequeue, QueueInv
<1>5. h.in = i /\ h.size = MTU
  <2>1. h = queue[z][1] /\ h \in Packet /\ 1 \in 1 .. Len(queue[z])
    BY <1>4
  <2>2. queue[z][1].in = i
    BY <1>1, <2>1 DEF SoleUser
  <2> HIDE DEF h
  <2> QED
    BY <1>1, <2>1, <2>2 DEF Packet
<1>6. /\ ing' = RemoveFromIngressAdmission(i, q, MTU)
      /\ queue' = [queue EXCEPT ![z] = Rest(queue[z])]
  BY <1>5 DEF SwitchNotifyDequeue
<1>7. MoreCharged(ing', i, q, -MTU)
  BY <1>1, <1>2, <1>5, LeavingDischarges
<1>8. PICK t \in Int : ChargedMore(egr', o, q, -MTU, t)
  BY <1>1, <1>2, <1>5, LeavingCharges
<1>9. /\ egr'.sp[1] + SumFunctionOnSet(egr'.qmin, PG)
           = egr.sp[1] + SumFunctionOnSet(egr.qmin, PG) + (-MTU)
      /\ SumFunctionOnSet(egr'.port, Port) = SumFunctionOnSet(egr.port, Port) + (-MTU)
  BY <1>1, <1>2, <1>8, EgressTotals
<1>10. \A y \in PG : \A n \in 1 .. Len(queue'[y]) : queue'[y][n].in = i
  <2>1. ASSUME NEW y \in PG, NEW n \in 1 .. Len(queue'[y])  PROVE queue'[y][n].in = i
    <3>1. /\ queue[y] \in Seq(Packet) /\ \A m \in 1 .. Len(queue[y]) : queue[y][m].in = i
          /\ queue \in [PG -> Seq(Packet)]
      BY <1>2 DEF SoleUser, QueueInv
    <3>2. CASE y = z
      <4> DEFINE r == [m \in 1 .. Len(queue[y]) - 1 |->
                         [queue[y][m + 1] EXCEPT !.ahead = @ - h.size]]
      <4>1. queue'[y] = r
        BY <1>1, <1>6, <3>1, <3>2 DEF Rest
      <4>2. Len(queue[y]) \in Nat /\ Len(queue[y]) - 1 \in Nat
        BY <1>4, <3>1, <3>2
      <4>3. Len(r) = Len(queue[y]) - 1
        BY <4>2
      <4>4. n \in 1 .. Len(queue[y]) - 1 /\ n + 1 \in 1 .. Len(queue[y])
        BY <4>1, <4>2, <4>3
      <4>5. r[n].in = queue[y][n + 1].in
        <5>1. queue[y][n + 1] \in Packet
          BY <3>1, <4>4
        <5>2. r[n] = [queue[y][n + 1] EXCEPT !.ahead = @ - h.size]
          BY <4>4
        <5> HIDE DEF r, h
        <5> QED
          BY <5>1, <5>2 DEF Packet
      <4> HIDE DEF r
      <4> QED
        BY <3>1, <4>1, <4>4, <4>5
    <3>3. CASE y # z
      <4>1. queue'[y] = queue[y]
        BY <1>6, <3>1, <3>3
      <4> QED
        BY <3>1, <4>1
    <3> QED
      BY <3>2, <3>3
  <2> QED
    BY <2>1
<1>11. ing'.hdrm = [ing.hdrm EXCEPT ![x] = Less(ing.hdrm[x], MTU)]
  BY <1>6 DEF RemoveFromIngressAdmission, HdrmAfterRemove
<1>12. /\ ing'.pg = [ing.pg EXCEPT ![x] = ing.pg[x] + (-MTU)]
       /\ ing'.sp = [ing.sp EXCEPT ![s] = ing.sp[s] + (-MTU)]
       /\ ing'.total = ing.total + (-MTU)
  BY <1>7 DEF MoreCharged
<1>13. h.in = i /\ h.size = MTU
  BY <1>5
<1> HIDE DEF x, s
<1>14. /\ ing.sp[s] = ing.pg[x] /\ ing.total = ing.pg[x]
       /\ ing.hdrm[x] = 0 \/ ing.hdrm[x] + BufferLimitSp < ing.pg[x] + MTU
       /\ egr.sp[1] + SumFunctionOnSet(egr.qmin, PG) = ing.total
       /\ SumFunctionOnSet(egr.port, Port) = ing.total
  BY DEF SoleUser, x, s
<1>15. /\ ing'.pg[x] = ing.pg[x] + (-MTU) /\ ing'.sp[s] = ing.sp[s] + (-MTU)
       /\ ing'.hdrm[x] = Less(ing.hdrm[x], MTU)
       /\ ing.pg[x] \in Nat /\ ing.hdrm[x] \in Nat /\ ing'.pg[x] \in Nat
  BY <1>1, <1>3, <1>11, <1>12
<1>16. ing'.hdrm[x] = 0 \/ ing'.hdrm[x] + BufferLimitSp < ing'.pg[x] + MTU
  BY <1>1, <1>14, <1>15 DEF Less
<1>17. /\ ing'.sp[s] = ing'.pg[x] /\ ing'.total = ing'.pg[x]
       /\ egr'.sp[1] + SumFunctionOnSet(egr'.qmin, PG) = ing'.total
       /\ SumFunctionOnSet(egr'.port, Port) = ing'.total
       /\ ing'.pg[x] = ing.pg[x] - MTU
  BY <1>1, <1>9, <1>12, <1>14, <1>15
<1> QED
  BY <1>10, <1>13, <1>16, <1>17 DEF SoleUser, x, s

\* Packets on a link are spaced still when the first has been delivered, ...
LEMMA SpacedDeliver ==
  ASSUME NEW i, i \in Feeder, LinkTypes, Spaced(i), wire[i] # <<>>,
         Head(wire[i]).left = 0, wire' = [wire EXCEPT ![i] = Tail(@)], UNCHANGED busy
  PROVE  /\ Spaced(i)' /\ Len(wire'[i]) = Len(wire[i]) - 1
         /\ Len(wire'[i]) + Idle(i) <= Delay + 1
<1> DEFINE s == wire[i]
           t == wire'[i]
<1>1. /\ s \in Seq(Data) /\ InOrder(s) /\ s # <<>> /\ t = Tail(s) /\ Delay \in Nat
      /\ Idle(i) \in {0, 1} /\ Idle(i)' = Idle(i)
  BY LinkAssumption DEF LinkTypes, Idle
<1>2. \A n \in 1 .. Len(s) : s[n].left + (Len(s) - n) + Idle(i) <= Delay + 1
  BY DEF Spaced
<1> HIDE DEF s, t
<1>3. /\ Len(t) = Len(s) - 1 /\ \A n \in 1 .. Len(s) - 1 : t[n] = s[n + 1]
      /\ Head(s) = s[1] /\ Len(s) \in Nat /\ Len(s) >= 1
      /\ \A n \in 1 .. Len(s) : s[n] \in Data
  BY <1>1, TailOf
<1>4. \A n \in 1 .. Len(s) : s[n].left \in Nat
  BY <1>1, <1>3 DEF Data
<1>5. \A n \in 1 .. Len(t) : t[n].left + (Len(t) - n) + Idle(i)' <= Delay + 1
  <2> TAKE n \in 1 .. Len(t)
  <2>1. /\ n + 1 \in 1 .. Len(s) /\ n \in 1 .. Len(s) - 1
        /\ Len(t) - n = Len(s) - (n + 1)
    BY <1>3
  <2>2. t[n] = s[n + 1]
    BY <1>3, <2>1
  <2> QED
    BY <1>1, <1>2, <2>1, <2>2
<1>6. Len(t) + Idle(i) <= Delay + 1
  <2>1. s[1].left = 0 /\ 1 \in 1 .. Len(s)
    BY <1>3 DEF s
  <2>2. s[1].left + (Len(s) - 1) + Idle(i) <= Delay + 1
    BY <1>2, <2>1
  <2> QED
    BY <1>1, <1>3, <2>1, <2>2
<1> QED
  BY <1>3, <1>5, <1>6 DEF Spaced, s, t

\* ... when the peer has started another one, ...
LEMMA SpacedTransmit ==
  ASSUME NEW i, NEW q, i \in Feeder, LinkTypes, Spaced(i), PeerTransmit(i, q)
  PROVE  /\ Spaced(i)' /\ Len(wire'[i]) = Len(wire[i]) + 1
         /\ Idle(i) = 1 /\ Idle(i)' = 0
<1> DEFINE s == wire[i]
           t == wire'[i]
           p == [class |-> q, left |-> Delay + 1]
<1>1. /\ s \in Seq(Data) /\ t = Append(s, p) /\ Delay \in Nat
      /\ Idle(i) = 1 /\ Idle(i)' = 0
  BY LinkAssumption DEF LinkTypes, PeerTransmit, Idle
<1>2. \A n \in 1 .. Len(s) : s[n].left + (Len(s) - n) + 1 <= Delay + 1
  BY <1>1 DEF Spaced
<1>3. p.left = Delay + 1
  OBVIOUS
<1> HIDE DEF s, t, p
<1>4. /\ Len(t) = Len(s) + 1 /\ Len(s) \in Nat
      /\ \A n \in 1 .. Len(t) : t[n] = IF n = Len(s) + 1 THEN p ELSE s[n]
      /\ \A n \in 1 .. Len(s) : s[n] \in Data
  BY <1>1
<1>5. \A n \in 1 .. Len(t) : t[n].left + (Len(t) - n) + Idle(i)' <= Delay + 1
  <2> TAKE n \in 1 .. Len(t)
  <2>1. CASE n = Len(s) + 1
    <3>1. t[n].left = Delay + 1 /\ Len(t) - n = 0
      BY <1>3, <1>4, <2>1
    <3> QED
      BY <1>1, <3>1
  <2>2. CASE n # Len(s) + 1
    <3>1. n \in 1 .. Len(s)
      BY <1>4, <2>2
    <3>2. t[n] = s[n] /\ s[n].left \in Nat
      BY <1>1, <1>4, <2>2, <3>1 DEF Data
    <3> QED
      BY <1>1, <1>2, <1>4, <3>1, <3>2
  <2> QED
    BY <2>1, <2>2
<1> QED
  BY <1>1, <1>4, <1>5 DEF Spaced, s, t

\* ... and when a unit of time has passed.
LEMMA SpacedTick ==
  ASSUME NEW i, i \in Feeder, LinkTypes, Spaced(i), Tick
  PROVE  Spaced(i)' /\ Len(wire'[i]) = Len(wire[i])
<1> DEFINE s == wire[i]
           t == wire'[i]
<1>1. /\ s \in Seq(Data) /\ InOrder(s) /\ t = Elapse(s) /\ Delay \in Nat
      /\ s # <<>> => Head(s).left > 0
      /\ Idle(i) \in {0, 1} /\ Idle(i)' = 1
  BY LinkAssumption DEF LinkTypes, Tick, Idle
<1>2. \A n \in 1 .. Len(s) : s[n].left + (Len(s) - n) + Idle(i) <= Delay + 1
  BY DEF Spaced
<1> HIDE DEF s, t
<1>3. /\ Len(t) = Len(s)
      /\ \A n \in 1 .. Len(s) : s[n] \in Data /\ t[n] = [s[n] EXCEPT !.left = @ - 1]
  BY <1>1, ElapseOf
<1>4. \A n \in 1 .. Len(t) : t[n].left + (Len(t) - n) + Idle(i)' <= Delay + 1
  <2> TAKE n \in 1 .. Len(t)
  <2>1. /\ t[n].left = s[n].left - 1 /\ s[n].left \in Nat /\ n \in 1 .. Len(s)
        /\ Len(s) \in Nat
    <3>1. n \in 1 .. Len(s) /\ Len(s) \in Nat
      BY <1>1, <1>3
    <3>2. s[n] \in Data /\ t[n] = [s[n] EXCEPT !.left = @ - 1]
      BY <1>3, <3>1
    <3>3. s[n].left \in Nat
      BY <1>1, <3>2 DEF Data
    <3>4. t[n].left = s[n].left - 1
      BY <3>2 DEF Data
    <3> QED
      BY <3>1, <3>3, <3>4
  <2> QED
    BY <1>1, <1>2, <1>3, <2>1
<1> QED
  BY <1>3, <1>4 DEF Spaced, s, t

\* Whatever arrives is admitted: the pool is within its limit before the PAUSE and the
\* headroom takes the rest.
LEMMA Admitted ==
  ASSUME NEW i, NEW q, Alone(i, q), BufferInv, SoleUser(i, q), NEW Q, Threshold(Q),
         Roomy(Q), ing.pg[<<i, q>>] + MTU <= Most(Q), NEW o \in Port
  PROVE  CheckEgressAdmission(o, q, MTU) /\ CheckIngressAdmission(i, q, MTU)
<1> DEFINE x == <<i, q>>
           s == GetIngressSP(q)
           most == Most(Q)
<1>1. /\ i \in Port /\ q \in Class /\ x \in PG /\ s \in Pool /\ GetEgressSP(q) = 1
      /\ MTU \in Nat \ {0} /\ Delay \in Nat /\ HdrmLimit[i] = (2 * Delay + 2) * MTU
  BY AloneFacts
<1>2. EgressInv /\ IngTypes /\ EgressSums
  BY DEF BufferInv, HeadroomInv
<1>3. /\ egr.sp[1] <= ing.total /\ egr.sp[1] \in Nat
      /\ egr.port[o] <= ing.total /\ egr.port[o] \in Nat
      /\ egr.shared[<<o, q>>] <= egr.sp[1] /\ egr.shared[<<o, q>>] \in Nat
  BY <1>2, EgressWithinTotal
<1>4. ing.pg[x] \in Nat /\ ing.hdrm[x] \in Nat
  BY <1>1, <1>2 DEF IngTypes
<1>5. /\ ing.sp[s] = ing.pg[x] /\ ing.total = ing.pg[x]
      /\ ing.hdrm[x] = 0 \/ ing.hdrm[x] + BufferLimitSp < ing.pg[x] + MTU
  BY DEF SoleUser
<1>6. /\ Q \in Nat /\ most \in Nat /\ most = Q + (2 * Delay + 3) * MTU
      /\ (2 * Delay + 3) * MTU = (2 * Delay + 2) * MTU + MTU
      /\ (2 * Delay + 2) * MTU \in Nat
  BY <1>1 DEF Threshold, Most
<1>7. /\ EgressLimitSp \in Int /\ EgressLimitSp <= MaxBufferBytes /\ MaxBufferBytes \in Nat
      /\ EgressAlpha \in Nat /\ BufferLimitSp \in Nat
  <2>1. /\ PortCnt \in Nat /\ QCnt \in Nat /\ PgMin \in Nat /\ PortMin \in Nat
    BY SizeNat, SizeAssumption
  <2>2. QCnt * PgMin \in Nat
    BY <2>1
  <2>3. Reserved \in Nat
    BY <2>1, <2>2 DEF Reserved
  <2> QED
    BY <2>3, SizeNat DEF EgressLimitSp
<1>8. /\ Q + 2 * MTU <= BufferLimitSp /\ most <= EgressLimitSp
      /\ most <= EgressAlpha * (EgressLimitSp - most) /\ ing.pg[x] + MTU <= most
  BY DEF Roomy
<1> HIDE DEF x, s, most
<1>9. EgressAlpha * (EgressLimitSp - most) <= EgressAlpha * (EgressLimitSp - egr.sp[1])
  <2>1. EgressLimitSp - most <= EgressLimitSp - egr.sp[1]
    BY <1>1, <1>3, <1>4, <1>5, <1>6, <1>7, <1>8
  <2> QED
    BY <1>3, <1>6, <1>7, <2>1, TimesMonotone
<1>10. CheckEgressAdmission(o, q, MTU)
  <2>1. /\ egr.sp[1] + MTU <= EgressLimitSp /\ egr.port[o] + MTU <= MaxBufferBytes
        /\ egr.shared[<<o, q>>] + MTU <= most /\ egr.shared[<<o, q>>] + MTU <= MaxBufferBytes
    BY <1>1, <1>3, <1>4, <1>5, <1>6, <1>7, <1>8
  <2> DEFINE a == EgressAlpha * (EgressLimitSp - egr.sp[1])
             b == EgressAlpha * (EgressLimitSp - most)
  <2>2. a \in Int /\ b \in Int /\ b <= a /\ most <= b
    BY <1>3, <1>6, <1>7, <1>8, <1>9
  <2> HIDE DEF a, b
  <2>3. egr.shared[<<o, q>>] + MTU <= a
    BY <1>1, <1>3, <1>6, <2>1, <2>2
  <2> QED
    BY <1>1, <2>1, <2>3 DEF CheckEgressAdmission, a
<1>11. CheckIngressAdmission(i, q, MTU)
  <2>1. ing.total + MTU <= MaxBufferBytes
    BY <1>1, <1>4, <1>5, <1>6, <1>7, <1>8
  <2>2. ing.sp[s] <= BufferLimitSp \/ ing.hdrm[x] + MTU <= HdrmLimit[i]
    <3> DEFINE room == (2 * Delay + 2) * MTU
    <3>1. /\ most = Q + room + MTU /\ room \in Nat /\ HdrmLimit[i] = room
      BY <1>1, <1>6
    <3> HIDE DEF room
    <3>2. CASE ing.hdrm[x] = 0
      <4>1. ing.sp[s] <= BufferLimitSp \/ MTU <= room
        BY <1>1, <1>4, <1>5, <1>6, <1>7, <1>8, <3>1
      <4> QED
        BY <1>1, <3>1, <3>2, <4>1
    <3>3. CASE ing.hdrm[x] + BufferLimitSp < ing.pg[x] + MTU
      BY <1>1, <1>4, <1>5, <1>6, <1>7, <1>8, <3>1, <3>3
    <3> QED
      BY <1>5, <3>2, <3>3
  <2> QED
    BY <2>1, <2>2 DEF CheckIngressAdmission, x, s
<1> QED
  BY <1>10, <1>11

\* PAUSE for the one class, sent: it arrives after what is on its way already.
LEMMA PauseSent ==
  ASSUME NEW i, NEW q, Alone(i, q), LinkTypes, SendPfc(i, {<<i, q>>}, {})
  PROVE  /\ Len(rev'[i]) > Len(rev[i]) /\ Len(rev[i]) \in Nat /\ Len(rev'[i]) \in Nat
         /\ \A m \in 1 .. Len(rev[i]) : rev'[i][m] = rev[i][m]
         /\ \A m \in Len(rev[i]) + 1 .. Len(rev'[i]) :
              rev'[i][m].pause /\ rev'[i][m].left \in 0 .. Delay + 1
<1> DEFINE P == {x[2] : x \in {<<i, q>>}}
           R == {x[2] : x \in {}}
<1>1. i \in Feeder /\ q \in Class /\ Delay \in Nat /\ P = {q} /\ R = {}
  <2>1. i \in Feeder /\ q \in Class /\ Delay \in Nat
    BY AloneFacts
  <2> QED
    BY <2>1
<1>2. PICK d \in {Delay, Delay + 1} :
        rev' = [rev EXCEPT ![i] = @ \o PfcFrames(P, TRUE, d) \o PfcFrames(R, FALSE, d)]
  BY DEF SendPfc
<1> HIDE DEF P, R
<1>3. d \in 0 .. Delay + 1
  BY <1>1
<1>4. /\ FramesFor(PfcFrames({q}, TRUE, d), {q}, TRUE, d)
      /\ FramesFor(PfcFrames({}, FALSE, d), {}, FALSE, d)
  BY <1>1, <1>3, PfcFramesAre
<1> DEFINE s == rev[i]
           t == PfcFrames({q}, TRUE, d)
           r == PfcFrames({}, FALSE, d)
<1>5. s \in Seq(Frame) /\ rev'[i] = (s \o t) \o r
  BY <1>1, <1>2 DEF LinkTypes
<1> HIDE DEF s, t, r
<1>6. /\ t \in Seq(Frame) /\ \A n \in 1 .. Len(t) : t[n].left = d /\ t[n].pause = TRUE
      /\ Len(t) \in Nat /\ Len(t) >= 1
  <2>1. /\ t \in Seq(Frame) /\ \A n \in 1 .. Len(t) : t[n].left = d /\ t[n].pause = TRUE
        /\ \E n \in 1 .. Len(t) : t[n].class = q
    BY <1>4 DEF FramesFor, t
  <2> QED
    BY <2>1
<1>7. r = <<>>
  <2>1. r \in Seq(Frame) /\ \A n \in 1 .. Len(r) : r[n].class \in {}
    BY <1>4 DEF FramesFor, r
  <2> QED
    BY <2>1
<1>8. rev'[i] = s \o t
  BY <1>5, <1>6, <1>7
<1>9. /\ Len(rev'[i]) = Len(s) + Len(t) /\ Len(s) \in Nat
      /\ \A m \in 1 .. Len(s) : rev'[i][m] = s[m]
      /\ \A m \in Len(s) + 1 .. Len(s) + Len(t) : rev'[i][m] = t[m - Len(s)]
  BY <1>5, <1>6, <1>8
<1>10. ASSUME NEW m \in Len(s) + 1 .. Len(s) + Len(t)
       PROVE  rev'[i][m].pause /\ rev'[i][m].left \in 0 .. Delay + 1
  <2>1. m - Len(s) \in 1 .. Len(t) /\ rev'[i][m] = t[m - Len(s)]
    BY <1>6, <1>9
  <2> QED
    BY <1>3, <1>6, <2>1
<1> QED
  BY <1>6, <1>9, <1>10 DEF s

\* It stops the peer after a link's delay at the latest, and no other frame is undone.
LEMMA StopsWhenPaused ==
  ASSUME NEW i, NEW q, Alone(i, q), LinkTypes, LinkTypes', SendPfc(i, {<<i, q>>}, {}),
         UNCHANGED <<peer, busy>>
  PROVE  \A n \in Nat : n = Delay + 1 + Idle(i) \/ Stops(i, q, n) => Stops(i, q, n)'
<1> DEFINE s == rev[i]
           t == rev'[i]
<1>0. Delay \in Nat /\ Idle(i) \in {0, 1} /\ Idle(i)' = Idle(i)
  BY LinkAssumption DEF Idle
<1>1. /\ Len(t) > Len(s) /\ Len(s) \in Nat /\ Len(t) \in Nat
      /\ \A m \in 1 .. Len(s) : t[m] = s[m]
      /\ \A m \in Len(s) + 1 .. Len(t) : t[m].pause /\ t[m].left \in 0 .. Delay + 1
  BY PauseSent
<1> HIDE DEF s, t
<1>2. AllPause(t, Len(t)) /\ Len(t) \in 1 .. Len(t) /\ t[Len(t)].left <= Delay + 1
      /\ t[Len(t)].left \in Nat
  BY <1>0, <1>1 DEF AllPause
<1>3. ASSUME NEW n \in Nat, n = Delay + 1 + Idle(i)  PROVE Stops(i, q, n)'
  <2>1. t[Len(t)].left + Idle(i)' <= n
    BY <1>0, <1>2, <1>3
  <2> QED
    BY <1>0, <1>2, <2>1 DEF Stops, t
<1>4. ASSUME NEW k \in Nat, k >= 1, AllPause(s, k)  PROVE AllPause(t, k)
  <2> SUFFICES ASSUME NEW m \in k .. Len(t)  PROVE t[m].pause
    BY DEF AllPause
  <2>1. m \in k .. Len(s) \/ m \in Len(s) + 1 .. Len(t)
    BY <1>1, <1>4
  <2>2. CASE m \in k .. Len(s)
    <3>1. s[m].pause /\ m \in 1 .. Len(s)
      BY <1>1, <1>4, <2>2 DEF AllPause
    <3> QED
      BY <1>1, <3>1
  <2>3. CASE m \in Len(s) + 1 .. Len(t)
    BY <1>1, <2>3
  <2> QED
    BY <2>1, <2>2, <2>3
<1>5. ASSUME NEW n \in Nat, Stops(i, q, n)  PROVE Stops(i, q, n)'
  <2>1. CASE peer.paused[<<i, q>>] /\ AllPause(s, 1)
    <3>1. AllPause(t, 1)
      BY <1>4, <2>1
    <3> QED
      BY <2>1, <3>1 DEF Stops, t
  <2>2. ASSUME NEW k \in 1 .. Len(s), AllPause(s, k), s[k].left + Idle(i) <= n
        PROVE  Stops(i, q, n)'
    <3>1. AllPause(t, k) /\ k \in 1 .. Len(t) /\ t[k] = s[k]
      BY <1>1, <1>4, <2>2
    <3> QED
      BY <1>0, <2>2, <3>1 DEF Stops, t
  <2> QED
    BY <1>5, <2>1, <2>2 DEF Stops, s
<1> QED
  BY <1>3, <1>5

\* A packet that the peer starts is one of those, ...
LEMMA StopsTransmit ==
  ASSUME NEW i, NEW q, Alone(i, q), LinkTypes, PeerTransmit(i, q), NEW n \in Nat,
         Stops(i, q, n)
  PROVE  n >= 1 /\ Stops(i, q, n - 1)'
<1>1. /\ ~peer.paused[<<i, q>>] /\ Idle(i) = 1 /\ Idle(i)' = 0 /\ UNCHANGED <<rev, peer>>
      /\ i \in Feeder /\ Delay \in Nat
  BY LinkAssumption, AloneFacts DEF PeerTransmit, Idle
<1>2. PICK k \in 1 .. Len(rev[i]) : AllPause(rev[i], k) /\ rev[i][k].left + Idle(i) <= n
  BY <1>1 DEF Stops
<1>3. rev[i][k].left \in Nat
  <2>1. rev[i][k] \in Frame
    BY <1>1 DEF LinkTypes
  <2> QED
    BY <1>1, <2>1 DEF Frame
<1>4. n >= 1 /\ rev[i][k].left + 0 <= n - 1
  BY <1>1, <1>2, <1>3
<1>5. Stops(i, q, n - 1)'
  BY <1>1, <1>2, <1>4 DEF Stops
<1> QED
  BY <1>4, <1>5

\* ... a frame that arrives is not the one that stops it, or stops it, ...
LEMMA StopsReceive ==
  ASSUME NEW i, NEW q, Alone(i, q), LinkTypes, PeerReceive(i), NEW n \in Nat,
         Stops(i, q, n)
  PROVE  Stops(i, q, n)'
<1> DEFINE s == rev[i]
           t == rev'[i]
           x == <<i, q>>
<1>1. /\ i \in Feeder /\ x \in PG /\ Class = {q}
  BY AloneFacts DEF Alone
<1>2. /\ s \in Seq(Frame) /\ InOrder(s) /\ s # <<>> /\ t = Tail(s) /\ Idle(i)' = Idle(i)
      /\ peer \in [paused : [PG -> BOOLEAN], evt : [PG -> Never .. PauseTime]]
  BY <1>1 DEF LinkTypes, PeerReceive, Idle
<1>3. /\ Len(t) = Len(s) - 1 /\ \A m \in 1 .. Len(s) - 1 : t[m] = s[m + 1]
      /\ Head(s) = s[1] /\ Head(s) \in Frame /\ Len(s) \in Nat /\ Len(s) >= 1
  BY <1>2, TailOf
<1>4. Head(s).class = q
  BY <1>1, <1>3 DEF Frame
<1>5. peer' = IF Head(s).pause THEN ReceivePause(x) ELSE PeerResume(x)
  BY <1>4 DEF PeerReceive
<1>6. Head(s).pause => peer'.paused[x]
  <2>1. Head(s).pause => peer' = [peer EXCEPT !.paused[x] = TRUE, !.evt[x] = PauseTime]
    BY <1>5 DEF ReceivePause
  <2> HIDE DEF s, x
  <2> QED
    BY <1>1, <1>2, <2>1 DEF x
<1> HIDE DEF s, t, x
<1>7. ASSUME NEW k \in 1 .. Len(s), AllPause(s, k), k >= 2  PROVE AllPause(t, k - 1)
  <2> SUFFICES ASSUME NEW m \in k - 1 .. Len(t)  PROVE t[m].pause
    BY DEF AllPause
  <2>1. m + 1 \in k .. Len(s) /\ m \in 1 .. Len(s) - 1
    BY <1>3, <1>7
  <2> QED
    BY <1>3, <1>7, <2>1 DEF AllPause
<1>8. ASSUME AllPause(s, 1)  PROVE Stops(i, q, n)'
  <2>1. Head(s).pause
    BY <1>3, <1>8 DEF AllPause
  <2>2. AllPause(t, 1)
    <3> SUFFICES ASSUME NEW m \in 1 .. Len(t)  PROVE t[m].pause
      BY DEF AllPause
    <3>1. m + 1 \in 1 .. Len(s) /\ m \in 1 .. Len(s) - 1
      BY <1>3
    <3> QED
      BY <1>3, <1>8, <3>1 DEF AllPause
  <2> QED
    BY <1>6, <2>1, <2>2 DEF Stops, t, x
<1>9. ASSUME NEW k \in 1 .. Len(s), AllPause(s, k), s[k].left + Idle(i) <= n, k >= 2
      PROVE  Stops(i, q, n)'
  <2>1. k - 1 \in 1 .. Len(t) /\ t[k - 1] = s[k] /\ AllPause(t, k - 1)
    <3>1. k - 1 \in 1 .. Len(t) /\ k - 1 \in 1 .. Len(s) - 1 /\ (k - 1) + 1 = k
      BY <1>3, <1>9
    <3>2. t[k - 1] = s[(k - 1) + 1]
      BY <1>3, <3>1
    <3> QED
      BY <1>7, <1>9, <3>1, <3>2
  <2> QED
    BY <1>2, <1>9, <2>1 DEF Stops, t
<1>10. \/ AllPause(s, 1)
       \/ \E k \in 1 .. Len(s) :
            AllPause(s, k) /\ s[k].left + Idle(i) <= n /\ k >= 2
  <2>1. \A k \in 1 .. Len(s) : k = 1 \/ k >= 2
    BY <1>3
  <2> QED
    BY <2>1 DEF Stops, s
<1> QED
  BY <1>8, <1>9, <1>10

\* ... and a unit of time brings a frame closer by what the peer may send in it.
LEMMA StopsTick ==
  ASSUME NEW i, NEW q, Alone(i, q), LinkTypes, Tick, NEW n \in Nat, Stops(i, q, n)
  PROVE  Stops(i, q, n)'
<1> DEFINE s == rev[i]
           t == rev'[i]
<1>1. /\ i \in Feeder
      /\ s \in Seq(Frame) /\ InOrder(s) /\ t = Elapse(s) /\ Delay \in Nat
      /\ s # <<>> => Head(s).left > 0
      /\ Idle(i) \in {0, 1} /\ Idle(i)' = 1 /\ peer'.paused = peer.paused
  BY LinkAssumption, AloneFacts DEF LinkTypes, Tick, Idle
<1> HIDE DEF s, t
<1>2. /\ Len(t) = Len(s)
      /\ \A m \in 1 .. Len(s) : s[m] \in Frame /\ t[m] = [s[m] EXCEPT !.left = @ - 1]
  BY <1>1, ElapseOf
<1>3. ASSUME NEW m \in 1 .. Len(s)
      PROVE  t[m].pause = s[m].pause /\ t[m].left = s[m].left - 1 /\ s[m].left \in Nat
  <2>1. s[m] \in Frame /\ t[m] = [s[m] EXCEPT !.left = @ - 1]
    BY <1>2
  <2>2. s[m].left \in Nat
    BY <1>1, <2>1 DEF Frame
  <2>3. t[m].pause = s[m].pause /\ t[m].left = s[m].left - 1
    BY <2>1 DEF Frame
  <2> QED
    BY <2>2, <2>3
<1>4. ASSUME NEW k \in 1 .. Len(s) \union {1}, AllPause(s, k)  PROVE AllPause(t, k)
  <2> SUFFICES ASSUME NEW m \in k .. Len(t)  PROVE t[m].pause
    BY DEF AllPause
  <2>1. m \in 1 .. Len(s) /\ m \in k .. Len(s)
    BY <1>1, <1>2
  <2> QED
    BY <1>3, <1>4, <2>1 DEF AllPause
<1>5. CASE peer.paused[<<i, q>>] /\ AllPause(s, 1)
  BY <1>1, <1>4, <1>5 DEF Stops, t
<1>6. ASSUME NEW k \in 1 .. Len(s), AllPause(s, k), s[k].left + Idle(i) <= n
      PROVE  Stops(i, q, n)'
  <2>1. AllPause(t, k) /\ k \in 1 .. Len(t)
    BY <1>2, <1>4, <1>6
  <2>2. t[k].left + Idle(i)' <= n
    BY <1>1, <1>3, <1>6
  <2> QED
    BY <2>1, <2>2 DEF Stops, t
<1> QED
  BY <1>5, <1>6 DEF Stops, s

\* Within the threshold and with no PAUSE out, or with a PAUSE out, the next packet of the
\* link is no more than can be held.
LEMMA NextFits ==
  ASSUME NEW i, NEW q, Alone(i, q), LinkTypes, IngTypes, NEW Q, Threshold(Q),
         StopInv(i, q, Q), wire[i] # <<>>
  PROVE  ing.pg[<<i, q>>] + MTU <= Most(Q)
<1> DEFINE x == <<i, q>>
           g == ing.pg[x]
           l == Len(wire[i])
<1>1. /\ x \in PG /\ MTU \in Nat \ {0} /\ Delay \in Nat /\ i \in Feeder
  BY AloneFacts
<1>2. g \in Nat /\ l \in Nat /\ l >= 1 /\ Q \in Nat
  <2>1. wire[i] \in Seq(Data) /\ ing.pg \in [PG -> Nat]
    BY <1>1 DEF LinkTypes, IngTypes
  <2> QED
    BY <1>1, <2>1 DEF Threshold
<1>3. CASE told[x] # "PAUSE"
  <2>1. g <= Q
    BY <1>3 DEF StopInv
  <2>2. MTU <= (2 * Delay + 3) * MTU
    BY <1>1
  <2> HIDE DEF g, x
  <2>3. g + MTU <= Q + (2 * Delay + 3) * MTU
    BY <1>1, <1>2, <2>1, <2>2
  <2> QED
    BY <2>3 DEF Most, g, x
<1>4. CASE told[x] = "PAUSE"
  <2>1. PICK n \in Nat : g + (l + n) * MTU <= Most(Q)
    BY <1>4 DEF StopInv
  <2> HIDE DEF g, l
  <2>2. MTU <= (l + n) * MTU
    BY <1>1, <1>2
  <2>3. Most(Q) \in Nat /\ (l + n) * MTU \in Nat
    BY <1>1, <1>2 DEF Most
  <2> QED
    BY <1>1, <1>2, <2>1, <2>2, <2>3 DEF g
<1> QED
  BY <1>3, <1>4

\* RESUME is sent only when the class is within the threshold.
LEMMA ResumeWithin ==
  ASSUME NEW i, NEW q, NEW Q, Threshold(Q), NEW c, c.pg[<<i, q>>] \in Nat,
         c.sp[GetIngressSP(q)] = c.pg[<<i, q>>], NEW b, GetResumeClasses(c, b, i, q)
  PROVE  c.pg[<<i, q>>] <= Q
<1> DEFINE g == c.pg[<<i, q>>]
           a == IngressAlphaInv * (g - PgMin - PortMin)
<1>1. /\ IngressAlphaInv \in Nat /\ BufferLimitSp \in Nat /\ PgMin \in Nat
      /\ PortMin \in Nat /\ Q \in Nat /\ AlphaOffDiff \in Nat
  BY SizeNat DEF Threshold
<1>2. a < BufferLimitSp - g - AlphaOffDiff
  BY DEF GetResumeClasses
<1>3. g > Q => a > BufferLimitSp - g
  BY ThresholdHolds
<1>4. a \in Int
  BY <1>1
<1> HIDE DEF a, g
<1>5. g \in Nat
  BY DEF g
<1> QED
  BY <1>1, <1>2, <1>3, <1>4, <1>5 DEF g

\* A class that is not sent PAUSE is within the threshold, ...
LEMMA PauseBeyond ==
  ASSUME NEW i, NEW q, NEW Q, Threshold(Q), Class = {q}, NEW c, c.pg[<<i, q>>] \in Nat,
         c.sp[GetIngressSP(q)] = c.pg[<<i, q>>], <<i, q>> \notin Pauses(c, i, q)
  PROVE  c.pg[<<i, q>>] <= Q
<1> DEFINE g == c.pg[<<i, q>>]
<1>1. q \notin GetPauseClasses(c, i, q) /\ q \in Class
  BY DEF Pauses
<1>2. ~(/\ g > PgMin + PortMin
        /\ IngressAlphaInv * (g - PgMin - PortMin) > BufferLimitSp - g)
  BY <1>1 DEF GetPauseClasses
<1>3. ~(g > Q)
  BY <1>2, ThresholdHolds
<1>4. g \in Nat /\ Q \in Nat
  BY DEF Threshold
<1> HIDE DEF g
<1> QED
  BY <1>3, <1>4 DEF g

\* ... and one that is sent PAUSE is not sent RESUME in the same call.
LEMMA PauseOrResume ==
  ASSUME NEW i \in Port, NEW q \in Class, NEW c, c.pg[<<i, q>>] \in Nat,
         c.sp[GetIngressSP(q)] \in Nat, <<i, q>> \in Pauses(c, i, q)
  PROVE  <<i, q>> \notin Resumes(c, i, q)
<1> DEFINE g == c.pg[<<i, q>>]
           a == IngressAlphaInv * (g - PgMin - PortMin)
           f == BufferLimitSp - c.sp[GetIngressSP(q)]
<1>1. q \in GetPauseClasses(c, i, q)
  BY DEF Pauses
<1>2. a > f \/ c.hdrm[<<i, q>>] # 0
  BY <1>1 DEF GetPauseClasses
<1>3. ASSUME NEW b, GetResumeClasses(c, b, i, q)
      PROVE  a < f - AlphaOffDiff /\ c.hdrm[<<i, q>>] = 0
  BY <1>3 DEF GetResumeClasses
<1>4. a \in Int /\ f \in Int /\ AlphaOffDiff \in Nat
  BY SizeNat
<1> HIDE DEF a, f
<1>5. ~(a > f /\ a < f - AlphaOffDiff)
  BY <1>4
<1> QED
  BY <1>2, <1>3, <1>5 DEF Resumes

\* What the class holds when a packet has been admitted and PAUSE has been sent or not.
LEMMA StopAfterReceive ==
  ASSUME NEW i, NEW q, Alone(i, q), NEW Q, Threshold(Q), LinkTypes, LinkTypes',
         IngTypes, IngTypes', PfcTypes, SoleUser(i, q)', StopInv(i, q, Q),
         Len(wire'[i]) = Len(wire[i]) - 1, Len(wire'[i]) + Idle(i) <= Delay + 1,
         Len(wire[i]) \in Nat \ {0}, UNCHANGED <<peer, busy>>,
         NEW c, ing' = c, ing'.pg[<<i, q>>] = ing.pg[<<i, q>>] + MTU,
         CheckAndSendPfc(c, i, q), SendPfc(i, Pauses(c, i, q), Resumes(c, i, q))
  PROVE  StopInv(i, q, Q)'
<1> DEFINE x == <<i, q>>
           P == Pauses(c, i, q)
           R == Resumes(c, i, q)
           g == ing.pg[x]
           l == Len(wire[i])
           h == ing'.pg[x]
           m == Len(wire'[i])
<1>1. /\ i \in Port /\ q \in Class /\ Class = {q} /\ x \in PG /\ MTU \in Nat \ {0}
      /\ Delay \in Nat /\ i \in Feeder /\ GetIngressSP(q) \in Pool /\ Q \in Nat
      /\ Idle(i) \in {0, 1} /\ Idle(i)' = Idle(i)
  BY AloneFacts DEF Alone, Threshold, Idle
<1>2. P \subseteq {x} /\ R \subseteq {x}
  BY <1>1, PausesType
<1>3. /\ c.pg[x] \in Nat /\ c.sp[GetIngressSP(q)] = c.pg[x]
      /\ c.sp[GetIngressSP(q)] \in Nat /\ g \in Nat /\ c.pg[x] = h /\ h = g + MTU
  BY <1>1 DEF IngTypes, SoleUser
<1>4. told'[x] = LET last == IF x \in P THEN "PAUSE" ELSE told[x]
                 IN  IF x \in R THEN Resume(last) ELSE last
  BY <1>1 DEF CheckAndSendPfc
<1>5. ASSUME told'[x] # "PAUSE" => h <= Q,
             told'[x] = "PAUSE" =>
               \E n \in Nat : Stops(i, q, n)' /\ h + (m + n) * MTU <= Most(Q)
      PROVE  StopInv(i, q, Q)'
  BY <1>5 DEF StopInv, Most
<1>6. CASE x \in P
  <2>1. x \notin R
    BY <1>1, <1>3, <1>6, PauseOrResume
  <2>2. told'[x] = "PAUSE" /\ SendPfc(i, {x}, {})
    <3>1. P = {x} /\ R = {}
      BY <1>2, <1>6, <2>1
    <3> QED
      BY <1>4, <1>6, <2>1, <3>1
  <2>3. \A n \in Nat : n = Delay + 1 + Idle(i) \/ Stops(i, q, n) => Stops(i, q, n)'
    BY <2>2, StopsWhenPaused
  <2>4. CASE told[x] # "PAUSE"
    <3>1. g <= Q
      BY <2>4 DEF StopInv
    <3>2. PICK n \in Nat : n = Delay + 1 + Idle(i) /\ m + n <= 2 * Delay + 2 /\ m + n \in Nat
      <4>1. /\ Delay + 1 + Idle(i) \in Nat /\ m + (Delay + 1 + Idle(i)) <= 2 * Delay + 2
            /\ m + (Delay + 1 + Idle(i)) \in Nat
        BY <1>1
      <4> HIDE DEF m
      <4> QED
        BY <4>1
    <3>3. (m + n) * MTU <= (2 * Delay + 2) * MTU
      <4>1. MTU * (m + n) <= MTU * (2 * Delay + 2)
        BY <1>1, <3>2, TimesMonotone
      <4> HIDE DEF m
      <4> QED
        BY <1>1, <3>2, <4>1
    <3>4. Most(Q) = Q + MTU + (2 * Delay + 2) * MTU
      BY <1>1 DEF Most
    <3>5. h + (m + n) * MTU <= Most(Q)
      <4> DEFINE a == (m + n) * MTU
                 b == (2 * Delay + 2) * MTU
      <4>1. a \in Nat /\ b \in Nat /\ a <= b /\ Most(Q) = Q + MTU + b
        BY <1>1, <3>2, <3>3, <3>4
      <4> HIDE DEF a, b, g, h
      <4>2. h + a <= Most(Q)
        BY <1>1, <1>3, <3>1, <4>1
      <4> QED
        BY <4>2 DEF a
    <3> HIDE DEF m, h
    <3> QED
      BY <1>5, <2>2, <2>3, <3>2, <3>5
  <2>5. CASE told[x] = "PAUSE"
    <3>1. PICK n \in Nat : Stops(i, q, n) /\ g + (l + n) * MTU <= Most(Q)
      BY <2>5 DEF StopInv
    <3>2. m = l - 1 /\ l \in Nat \ {0}
      OBVIOUS
    <3> HIDE DEF g, l, m, h
    <3>3. (l + n) * MTU = (m + n) * MTU + MTU /\ (m + n) * MTU \in Nat
      <4>1. m \in Nat /\ l = m + 1 /\ MTU \in Nat
        BY <1>1, <3>2
      <4> QED
        BY <4>1, TimesOneMore
    <3>4. h + (m + n) * MTU <= Most(Q)
      <4> DEFINE a == (m + n) * MTU
                 b == (l + n) * MTU
                 most == Most(Q)
      <4>1. a \in Nat /\ b = a + MTU /\ g + b <= most /\ most \in Nat
        BY <1>1, <3>1, <3>3 DEF Most
      <4> HIDE DEF a, b, most
      <4>2. h + a <= most
        BY <1>1, <1>3, <4>1
      <4> QED
        BY <4>2 DEF a, most
    <3> QED
      BY <1>5, <2>2, <2>3, <3>1, <3>4
  <2> QED
    BY <2>4, <2>5
<1>7. CASE x \notin P /\ x \in R
  <2>1. told'[x] # "PAUSE"
    BY <1>4, <1>7 DEF Resume
  <2>2. \E b : GetResumeClasses(c, b, i, q)
    BY <1>7 DEF Resumes
  <2>3. h <= Q
    BY <1>3, <2>2, ResumeWithin
  <2> QED
    BY <1>5, <2>1, <2>3
<1>8. CASE x \notin P /\ x \notin R
  <2>1. told'[x] = told[x] /\ rev' = rev
    <3>1. P = {} /\ R = {}
      BY <1>2, <1>8
    <3> QED
      BY <1>4, <1>8, <3>1 DEF SendPfc
  <2>2. h <= Q
    BY <1>1, <1>3, <1>8, PauseBeyond
  <2>3. ASSUME told[x] = "PAUSE"
        PROVE  \E n \in Nat : Stops(i, q, n)' /\ h + (m + n) * MTU <= Most(Q)
    <3>1. PICK n \in Nat : Stops(i, q, n) /\ g + (l + n) * MTU <= Most(Q)
      BY <2>3 DEF StopInv
    <3>2. m = l - 1 /\ l \in Nat \ {0}
      OBVIOUS
    <3>3. Stops(i, q, n)'
      BY <1>1, <2>1, <3>1 DEF Stops
    <3> HIDE DEF g, l, m, h
    <3>4. (l + n) * MTU = (m + n) * MTU + MTU /\ (m + n) * MTU \in Nat
      <4>1. m \in Nat /\ l = m + 1 /\ MTU \in Nat
        BY <1>1, <3>2
      <4> QED
        BY <4>1, TimesOneMore
    <3>5. h + (m + n) * MTU <= Most(Q)
      <4> DEFINE a == (m + n) * MTU
                 b == (l + n) * MTU
                 most == Most(Q)
      <4>1. a \in Nat /\ b = a + MTU /\ g + b <= most /\ most \in Nat
        BY <1>1, <3>1, <3>4 DEF Most
      <4> HIDE DEF a, b, most
      <4>2. h + a <= most
        BY <1>1, <1>3, <4>1
      <4> QED
        BY <4>2 DEF a, most
    <3> QED
      BY <3>3, <3>5
  <2> HIDE DEF h, m
  <2> QED
    BY <1>5, <2>1, <2>2, <2>3
<1> QED
  BY <1>6, <1>7, <1>8

\* What the class holds when a packet has left and RESUME has been sent or not.
LEMMA StopAfterTransmit ==
  ASSUME NEW i, NEW q, Alone(i, q), NEW Q, Threshold(Q), IngTypes, IngTypes', PfcTypes,
         SoleUser(i, q)', StopInv(i, q, Q), LinkTypes, UNCHANGED <<wire, peer, busy>>,
         NEW c, ing' = c, ing'.pg[<<i, q>>] = ing.pg[<<i, q>>] - MTU,
         CheckAndSendResume(c, i, q),
         SendPfc(i, {}, {x \in {<<i, q>>} : GetResumeClasses(c, pfc.paused[x], i, q)})
  PROVE  StopInv(i, q, Q)'
<1> DEFINE x == <<i, q>>
           g == ing.pg[x]
           h == ing'.pg[x]
           l == Len(wire[i])
<1>1. /\ x \in PG /\ MTU \in Nat \ {0} /\ i \in Feeder /\ Q \in Nat /\ Delay \in Nat
      /\ GetIngressSP(q) \in Pool
  BY AloneFacts DEF Threshold
<1>2. /\ c.pg[x] \in Nat /\ c.sp[GetIngressSP(q)] = c.pg[x] /\ c.pg[x] = h
      /\ g \in Nat /\ h = g - MTU /\ h \in Nat /\ l \in Nat
  <2>1. c.pg[x] \in Nat /\ c.sp[GetIngressSP(q)] = c.pg[x] /\ g \in Nat
    BY <1>1 DEF IngTypes, SoleUser
  <2>2. l \in Nat
    BY <1>1 DEF LinkTypes
  <2> QED
    BY <2>1, <2>2
<1>3. CASE GetResumeClasses(c, pfc.paused[x], i, q)
  <2>1. told' = [told EXCEPT ![x] = Resume(told[x])]
    BY <1>3 DEF CheckAndSendResume
  <2>2. told'[x] # "PAUSE"
    BY <1>1, <2>1 DEF Resume, PfcTypes
  <2>3. h <= Q
    BY <1>2, <1>3, ResumeWithin
  <2> QED
    BY <2>2, <2>3 DEF StopInv
<1>4. CASE ~GetResumeClasses(c, pfc.paused[x], i, q)
  <2>1. UNCHANGED <<told, rev>>
    <3>1. {y \in {x} : GetResumeClasses(c, pfc.paused[y], i, q)} = {}
      BY <1>4
    <3> QED
      BY <1>4, <3>1 DEF CheckAndSendResume, SendPfc
  <2>2. told[x] # "PAUSE" => h <= Q
    <3>1. told[x] # "PAUSE" => g <= Q
      BY DEF StopInv
    <3> HIDE DEF g, h
    <3> QED
      BY <1>1, <1>2, <3>1
  <2>3. ASSUME told[x] = "PAUSE"
        PROVE  \E n \in Nat : Stops(i, q, n)' /\ h + (l + n) * MTU <= Most(Q)
    <3>1. PICK n \in Nat : Stops(i, q, n) /\ g + (l + n) * MTU <= Most(Q)
      BY <2>3 DEF StopInv
    <3>2. Stops(i, q, n)'
      BY <2>1, <3>1 DEF Stops, Idle
    <3> HIDE DEF g, h, l
    <3>3. h + (l + n) * MTU <= Most(Q)
      <4> DEFINE a == (l + n) * MTU
                 most == Most(Q)
      <4>1. a \in Nat /\ g + a <= most /\ most \in Nat
        BY <1>1, <1>2, <3>1 DEF Most
      <4> HIDE DEF a, most
      <4>2. h + a <= most
        BY <1>1, <1>2, <4>1
      <4> QED
        BY <4>2 DEF a, most
    <3> QED
      BY <3>2, <3>3
  <2> QED
    BY <2>1, <2>2, <2>3 DEF StopInv, Most
<1> QED
  BY <1>3, <1>4

\* Other steps leave what the class holds and was told alone.
LEMMA StopSame ==
  ASSUME NEW i, NEW q, NEW Q, StopInv(i, q, Q), UNCHANGED <<ing, told>>,
         Len(wire'[i]) = Len(wire[i]),
         \A n \in Nat : Stops(i, q, n) => Stops(i, q, n)'
  PROVE  StopInv(i, q, Q)'
BY DEF StopInv, Most

\* A packet that the peer starts was reckoned with.
LEMMA StopTransmit ==
  ASSUME NEW i, NEW q, Alone(i, q), NEW Q, LinkTypes, StopInv(i, q, Q),
         PeerTransmit(i, q), Len(wire'[i]) = Len(wire[i]) + 1
  PROVE  StopInv(i, q, Q)'
<1> DEFINE x == <<i, q>>
           l == Len(wire[i])
           m == Len(wire'[i])
<1>1. UNCHANGED <<ing, told>> /\ i \in Feeder
  BY AloneFacts DEF PeerTransmit, vars
<1>2. l \in Nat
  BY <1>1 DEF LinkTypes
<1>3. ASSUME told[x] = "PAUSE"
      PROVE  \E n \in Nat : Stops(i, q, n)' /\ ing.pg[x] + (m + n) * MTU <= Most(Q)
  <2>1. PICK n \in Nat : Stops(i, q, n) /\ ing.pg[x] + (l + n) * MTU <= Most(Q)
    BY <1>3 DEF StopInv
  <2>2. n >= 1 /\ Stops(i, q, n - 1)'
    BY <2>1, StopsTransmit
  <2>3. n - 1 \in Nat /\ m + (n - 1) = l + n
    <3>1. m = l + 1
      OBVIOUS
    <3> HIDE DEF m, l
    <3> QED
      BY <1>2, <2>2, <3>1
  <2> HIDE DEF m, l
  <2> QED
    BY <2>1, <2>2, <2>3
<1> QED
  BY <1>1, <1>3 DEF StopInv, Most

\* Spacing and the counters depend on nothing else.
LEMMA SameInv ==
  ASSUME NEW i, NEW q
  PROVE  /\ SoleUser(i, q) /\ UNCHANGED <<ing, egr, queue>> => SoleUser(i, q)'
         /\ Spaced(i) /\ UNCHANGED <<wire, busy>> => Spaced(i)'
BY DEF SoleUser, Spaced, Idle

\* A packet reaches the switch: it is admitted as long as no pause has been ended by a
\* timer.
LEMMA RoomReceive ==
  ASSUME NEW i, NEW q, Alone(i, q), NEW Q, Threshold(Q), Roomy(Q), BufferInv, BufferInv',
         LinkTypes, LinkTypes', RoomInv(i, q, Q), SwitchReceive(i)
  PROVE  RoomInv(i, q, Q)'
<1> DEFINE c == UpdateIngressAdmission(i, q, MTU)
<1>1. i \in Feeder /\ i \in Port /\ Class = {q} /\ wire[i] \in Seq(Data)
  BY AloneFacts DEF Alone, LinkTypes
<1>2. /\ wire[i] # <<>> /\ Head(wire[i]).left = 0 /\ wire' = [wire EXCEPT ![i] = Tail(@)]
      /\ UNCHANGED <<peer, busy, expired>>
  BY DEF SwitchReceive
<1>3. Head(wire[i]).class = q
  <2>1. Head(wire[i]) \in Data
    BY <1>1, <1>2
  <2> QED
    BY <1>1, <2>1 DEF Data
<1>4. PICK o \in Port :
        \/ /\ SwitchSend(i, o, q, MTU)
           /\ SendPfc(i, Pauses(c, i, q), Resumes(c, i, q))
        \/ DropAtIngress(i, o, q, MTU) \/ DropAtEgress(i, o, q, MTU)
  BY <1>3 DEF SwitchReceive
<1>5. /\ Spaced(i)' /\ Len(wire'[i]) = Len(wire[i]) - 1
      /\ Len(wire'[i]) + Idle(i) <= Delay + 1 /\ Len(wire[i]) \in Nat \ {0}
  <2>1. Spaced(i)
    BY DEF RoomInv
  <2>2. /\ Spaced(i)' /\ Len(wire'[i]) = Len(wire[i]) - 1
        /\ Len(wire'[i]) + Idle(i) <= Delay + 1
    BY <1>1, <1>2, <2>1, SpacedDeliver
  <2>3. Len(wire[i]) \in Nat \ {0}
    BY <1>1, <1>2
  <2> QED
    BY <2>2, <2>3
<1>6. IngTypes /\ IngTypes' /\ PfcTypes
  BY DEF BufferInv, HeadroomInv
<1>7. ASSUME expired = {}
      PROVE  CheckEgressAdmission(o, q, MTU) /\ CheckIngressAdmission(i, q, MTU)
  <2>1. ing.pg[<<i, q>>] + MTU <= Most(Q)
    BY <1>2, <1>6, <1>7, NextFits DEF RoomInv
  <2> QED
    BY <2>1, Admitted DEF RoomInv
<1>8. CASE DropAtIngress(i, o, q, MTU) \/ DropAtEgress(i, o, q, MTU)
  <2>1. expired' # {}
    BY <1>2, <1>7, <1>8 DEF DropAtIngress, DropAtEgress
  <2>2. SoleUser(i, q)'
    BY <1>8, SameInv DEF DropAtIngress, DropAtEgress, RoomInv
  <2> QED
    BY <1>5, <2>1, <2>2 DEF RoomInv
<1>9. CASE SwitchSend(i, o, q, MTU) /\ SendPfc(i, Pauses(c, i, q), Resumes(c, i, q))
  <2>1. SoleUser(i, q)' /\ ing'.pg[<<i, q>>] = ing.pg[<<i, q>>] + MTU
    BY <1>9, SoleUserJoin DEF RoomInv
  <2>2. ing' = c /\ CheckAndSendPfc(c, i, q) /\ UNCHANGED dropped
    BY <1>9 DEF SwitchSend
  <2> HIDE DEF c
  <2>3. StopInv(i, q, Q) => StopInv(i, q, Q)'
    BY <1>2, <1>5, <1>6, <1>9, <2>1, <2>2, StopAfterReceive
  <2> QED
    BY <1>2, <1>5, <2>1, <2>2, <2>3 DEF RoomInv
<1> QED
  BY <1>4, <1>8, <1>9

\* A packet leaves the switch.
LEMMA RoomTransmit ==
  ASSUME NEW i, NEW q, Alone(i, q), NEW Q, Threshold(Q), BufferInv, BufferInv',
         LinkTypes, RoomInv(i, q, Q), NEW o \in Port, SwitchTransmit(o, q)
  PROVE  RoomInv(i, q, Q)'
<1> DEFINE p == Head(queue[<<o, q>>])
           c == RemoveFromIngressAdmission(p.in, q, p.size)
<1>1. IngTypes /\ IngTypes' /\ PfcTypes
  BY DEF BufferInv, HeadroomInv
<1>2. SwitchNotifyDequeue(o, q) /\ UNCHANGED <<wire, peer, busy, expired, dropped>>
  BY DEF SwitchTransmit, SwitchNotifyDequeue
<1>3. /\ SoleUser(i, q)' /\ ing'.pg[<<i, q>>] = ing.pg[<<i, q>>] - MTU
      /\ p.in = i
  BY <1>1, <1>2, SoleUserLeave DEF RoomInv
<1>4. /\ ing' = c /\ CheckAndSendResume(c, i, q)
      /\ SendPfc(i, {}, {x \in {<<i, q>>} : GetResumeClasses(c, pfc.paused[x], i, q)})
  BY <1>3 DEF SwitchTransmit, SwitchNotifyDequeue
<1> HIDE DEF c
<1>5. StopInv(i, q, Q) => StopInv(i, q, Q)'
  BY <1>1, <1>2, <1>3, <1>4, StopAfterTransmit
<1>6. Spaced(i)'
  BY <1>2, SameInv DEF RoomInv
<1> QED
  BY <1>2, <1>3, <1>5, <1>6 DEF RoomInv

\* The links start empty, ...
LEMMA RoomInit ==
  ASSUME NEW i, NEW q, Alone(i, q), NEW Q, Threshold(Q), LinkInit
  PROVE  RoomInv(i, q, Q)
<1>1. i \in Feeder /\ <<i, q>> \in PG /\ Init
  BY AloneFacts DEF LinkInit
<1>2. SoleUser(i, q)
  BY <1>1, SoleUserInit
<1>3. Spaced(i)
  <2>1. wire[i] = <<>>
    BY <1>1 DEF LinkInit
  <2> QED
    BY <2>1 DEF Spaced
<1>4. dropped = {} /\ StopInv(i, q, Q)
  <2>1. /\ dropped = {} /\ told = [x \in PG |-> "nothing"]
        /\ ing.pg = [x \in PG |-> 0]
    BY <1>1 DEF Init
  <2>2. told[<<i, q>>] = "nothing" /\ ing.pg[<<i, q>>] = 0
    BY <1>1, <2>1
  <2> QED
    BY <2>1, <2>2 DEF StopInv, Threshold
<1> QED
  BY <1>2, <1>3, <1>4 DEF RoomInv

\* ... and every step keeps what they carry within the room there is for it.
LEMMA RoomStep ==
  ASSUME NEW i, NEW q, Alone(i, q), NEW Q, Threshold(Q), Roomy(Q), BufferInv, BufferInv',
         LinkTypes, LinkTypes', RoomInv(i, q, Q), [LinkNext]_<<vars, linkVars>>
  PROVE  RoomInv(i, q, Q)'
<1>0. /\ i \in Feeder /\ Feeder = {i} /\ Class = {q}
      /\ Spaced(i) /\ SoleUser(i, q)
      /\ expired = {} => dropped = {} /\ StopInv(i, q, Q)
  BY DEF RoomInv, Alone
<1>1. ASSUME NEW j \in Feeder, SwitchReceive(j)  PROVE RoomInv(i, q, Q)'
  <2>1. SwitchReceive(i)
    BY <1>0, <1>1
  <2> QED
    BY <2>1, RoomReceive
<1>2. ASSUME NEW j \in Feeder, PeerReceive(j)  PROVE RoomInv(i, q, Q)'
  <2>1. PeerReceive(i)
    BY <1>0, <1>2
  <2>2. UNCHANGED <<ing, egr, queue, told, dropped, wire, busy, expired>>
    BY <2>1 DEF PeerReceive, vars
  <2>3. \A n \in Nat : Stops(i, q, n) => Stops(i, q, n)'
    BY <2>1, StopsReceive
  <2>4. StopInv(i, q, Q) => StopInv(i, q, Q)'
    BY <2>2, <2>3, StopSame
  <2>5. SoleUser(i, q)' /\ Spaced(i)'
    BY <1>0, <2>2, SameInv
  <2> QED
    BY <1>0, <2>2, <2>4, <2>5 DEF RoomInv
<1>3. ASSUME NEW o \in Port, NEW k \in Class, SwitchTransmit(o, k)
      PROVE  RoomInv(i, q, Q)'
  <2>1. SwitchTransmit(o, q)
    BY <1>0, <1>3
  <2> QED
    BY <2>1, RoomTransmit
<1>4. ASSUME UNCHANGED <<ing, egr, queue, told, dropped, linkVars>>
      PROVE  RoomInv(i, q, Q)'
  <2>1. UNCHANGED <<wire, rev, peer, busy, expired>>
    BY <1>4 DEF linkVars
  <2>2. \A n \in Nat : Stops(i, q, n) => Stops(i, q, n)'
    BY <2>1 DEF Stops, Idle
  <2>3. StopInv(i, q, Q) => StopInv(i, q, Q)'
    BY <1>4, <2>1, <2>2, StopSame
  <2>4. SoleUser(i, q)' /\ Spaced(i)'
    BY <1>0, <1>4, <2>1, SameInv
  <2> QED
    BY <1>0, <1>4, <2>1, <2>3, <2>4 DEF RoomInv
<1>5. ASSUME NEW j \in Port, NEW k \in Class, ResumeTimer(j, k)
      PROVE  RoomInv(i, q, Q)'
  <2>1. UNCHANGED <<ing, egr, queue, told, dropped, linkVars>>
    BY <1>5 DEF ResumeTimer, SetResume
  <2> QED
    BY <1>4, <2>1
<1>6. ASSUME NEW j \in Port, NEW k \in Class, PeerTimer(j, k)
      PROVE  RoomInv(i, q, Q)'
  <2>1. /\ expired' # {} /\ UNCHANGED <<ing, egr, queue, wire, busy>>
    BY <1>6 DEF PeerTimer, vars
  <2>2. SoleUser(i, q)' /\ Spaced(i)'
    BY <1>0, <2>1, SameInv
  <2> QED
    BY <2>1, <2>2 DEF RoomInv
<1>7. ASSUME NEW j \in Feeder, NEW k \in Class, PeerTransmit(j, k)
      PROVE  RoomInv(i, q, Q)'
  <2>1. PeerTransmit(i, q)
    BY <1>0, <1>7
  <2>2. Spaced(i)' /\ Len(wire'[i]) = Len(wire[i]) + 1
    BY <1>0, <2>1, SpacedTransmit
  <2>3. UNCHANGED <<ing, egr, queue, dropped, expired>>
    BY <2>1 DEF PeerTransmit, vars
  <2>4. StopInv(i, q, Q) => StopInv(i, q, Q)'
    BY <2>1, <2>2, StopTransmit
  <2>5. SoleUser(i, q)'
    BY <1>0, <2>3, SameInv
  <2> QED
    BY <1>0, <2>2, <2>3, <2>4, <2>5 DEF RoomInv
<1>8. CASE Tick
  <2>1. Spaced(i)' /\ Len(wire'[i]) = Len(wire[i])
    BY <1>0, <1>8, SpacedTick
  <2>2. UNCHANGED <<ing, egr, queue, told, dropped, expired>>
    BY <1>8 DEF Tick, vars
  <2>3. \A n \in Nat : Stops(i, q, n) => Stops(i, q, n)'
    BY <1>8, StopsTick
  <2>4. StopInv(i, q, Q) => StopInv(i, q, Q)'
    BY <2>1, <2>2, <2>3, StopSame
  <2>5. SoleUser(i, q)'
    BY <1>0, <2>2, SameInv
  <2> QED
    BY <1>0, <2>1, <2>2, <2>4, <2>5 DEF RoomInv
<1>9. CASE UNCHANGED <<vars, linkVars>>
  <2>1. UNCHANGED <<ing, egr, queue, told, dropped, linkVars>>
    BY <1>9 DEF vars
  <2> QED
    BY <1>4, <2>1
<1> QED
  BY <1>1, <1>2, <1>3, <1>5, <1>6, <1>7, <1>8, <1>9 DEF LinkNext

\* The headroom that topology.cc configures, a round trip and two packets, is enough for a
\* peer that has the switch to itself: while no peer's own timer ends a pause, admission
\* (CheckIngressAdmission, CheckEgressAdmission) drops nothing.  The pool has to have room
\* for two packets beyond the threshold of GetPauseClasses, because the PAUSE may come
\* that late, and the egress for all that the headroom takes.
THEOREM HeadroomSufficesAlone ==
  ASSUME NEW i, NEW q, Alone(i, q), NEW Q, Threshold(Q), Roomy(Q)
  PROVE  LinkSpec => []HeadroomSuffices
<1>1. LinkSpec => []BufferInv
  <2>1. EgressInv => QueueInv
    BY DEF EgressInv
  <2>2. Spec => []BufferInv
    BY <2>1, EgressInvInit, EgressInvStep, HeadroomInvInit, HeadroomInvStep,
       EgressSumsInit, EgressSumsIsOf, EgressSumsStep, IngressChargedInit,
       IngressChargedIsOf, IngressChargedStep, PfcTypesInit, PfcTypesStep, PTL
       DEF Spec, BufferInv
  <2> QED
    BY <2>2, LinkImplementsSwitch, PTL
<1>2. LinkSpec => []LinkTypes
  BY LinkTypesInit, LinkTypesStep, PTL DEF LinkSpec
<1>3. LinkInit => RoomInv(i, q, Q)
  BY RoomInit
<1>4. /\ BufferInv /\ BufferInv' /\ LinkTypes /\ LinkTypes' /\ RoomInv(i, q, Q)
      /\ [LinkNext]_<<vars, linkVars>>
      => RoomInv(i, q, Q)'
  BY RoomStep
<1>5. RoomInv(i, q, Q) => HeadroomSuffices
  BY DEF RoomInv, HeadroomSuffices
<1> QED
  BY <1>1, <1>2, <1>3, <1>4, <1>5, PTL DEF LinkSpec
=============================================================================

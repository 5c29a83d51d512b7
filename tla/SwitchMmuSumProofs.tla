------------------------- MODULE SwitchMmuSumProofs -------------------------
(***************************************************************************)
(* What TLAPS proves of SwitchMmu.tla about sums, for all ports, classes,  *)
(* sizes and limits: the counters of a port, a pool and the whole switch   *)
(* are the sums of what its queues contain, so that none of them drifts or *)
(* wraps, and what a pool holds beyond its limit is charged to headroom.   *)
(*                                                                         *)
(* The module starts with how sums over finite sets change with their      *)
(* terms.  SumFunctionOnSet of the community modules is a fold, that is a  *)
(* recursive function; what it computes is proved by induction over the    *)
(* subsets of its set of indices: the well-founded induction of the        *)
(* library in its form for sets (WFMin), where a set that contains whatever*)
(* all smaller sets that it contains lead to contains them all.            *)
(***************************************************************************)
EXTENDS SwitchMmuProofs, Functions, FiniteSetTheorems

-----------------------------------------------------------------------------
(* The fold behind a sum: partial sums over the subsets of its indices.    *)

\* g is the recursive function that the fold iterates.
IsPartialSum(g, f, S) ==
  g = [s \in SUBSET S |->
         IF s = {} THEN 0
         ELSE f[CHOOSE x \in s : TRUE] + g[s \ {CHOOSE x \in s : TRUE}]]

\* A sum is the value of that function for the whole set.
LEMMA SumDef ==
  ASSUME NEW f, NEW S
  PROVE  SumFunctionOnSet(f, S) = (CHOOSE g : IsPartialSum(g, f, S))[S]
BY DEF SumFunctionOnSet, FoldFunctionOnSet, MapThenFoldSet, IsPartialSum

-----------------------------------------------------------------------------
(* Induction over numbers and over finite sets.                            *)

\* A set of natural numbers has a least one.
LEMMA NatLeast ==
  ASSUME NEW T, T \subseteq Nat, T # {}
  PROVE  \E x \in T : \A y \in T : x <= y
<1> DEFINE R == {ss \in Nat \X Nat : ss[1] < ss[2]}
<1>1. IsWellFoundedOn(R, Nat)
  BY NatLessThanWellFounded DEF OpToRel
<1>2. \A x, y \in Nat : <<x, y>> \in R <=> x < y
  OBVIOUS
<1> HIDE DEF R
<1>3. PICK x \in T : \A y \in T : ~ (<<y, x>> \in R)
  BY <1>1, WFMin
<1>4. \A y \in T : x <= y
  <2> TAKE y \in T
  <2>1. x \in Nat /\ y \in Nat
    OBVIOUS
  <2>2. ~(y < x)
    BY <1>2, <1>3, <2>1
  <2> QED BY <2>1, <2>2
<1> QED BY <1>4

\* G contains every subset of S if it contains any whose smaller subsets it contains.
LEMMA SetInduction ==
  ASSUME NEW S, IsFiniteSet(S), NEW G,
         \A T \in SUBSET S : (\A U \in SUBSET T : U # T => U \in G) => T \in G
  PROVE  \A T \in SUBSET S : T \in G
<1> DEFINE B == (SUBSET S) \ G
<1>1. SUFFICES ASSUME B # {} PROVE FALSE OBVIOUS
<1>2. B \subseteq FiniteSubsetsOf(S)
  BY FS_FiniteSubsetsOfFinite
<1> HIDE DEF B
<1> DEFINE R == StrictSubsetOrdering(S)
           F == FiniteSubsetsOf(S)
<1>3. IsWellFoundedOn(R, F)
  BY FS_StrictSubsetOrderingWellFounded
<1> HIDE DEF R, F
<1>4. \E T \in B : \A y \in B : ~ (<<y, T>> \in R)
  BY <1>1, <1>2, <1>3, WFMin DEF F
<1>5. PICK T \in B : \A y \in B : ~ (<<y, T>> \in StrictSubsetOrdering(S))
  BY <1>4 DEF R
<1> USE DEF B
<1>6. ASSUME NEW U \in SUBSET T, U # T PROVE U \in G
  <2>1. <<U, T>> \in (SUBSET S) \X (SUBSET S)
    OBVIOUS
  <2>2. <<U, T>> \in StrictSubsetOrdering(S)
    BY <1>6, <2>1 DEF StrictSubsetOrdering
  <2> QED BY <1>5, <2>1, <2>2
<1> QED BY <1>6

\* G contains every number if it contains 0 and the successors of what it contains.
LEMMA CountInduction ==
  ASSUME NEW G, 0 \in G, \A n \in Nat : n \in G => n + 1 \in G
  PROVE  \A n \in Nat : n \in G
<1>1. SUFFICES ASSUME Nat \ G # {} PROVE FALSE
  OBVIOUS
<1>2. PICK x \in Nat \ G : \A y \in Nat \ G : x <= y
  BY <1>1, NatLeast
<1>3. x # 0 /\ x - 1 \in Nat
  BY <1>2
<1>4. x - 1 \in G
  BY <1>2, <1>3
<1> QED BY <1>2, <1>3, <1>4

\* Partial sums over the subsets of S with at most n elements.
Small(S, n) == {s \in SUBSET S : Cardinality(s) <= n}
IsSmallSum(g, f, S, n) ==
  g = [s \in Small(S, n) |->
         IF s = {} THEN 0
         ELSE f[CHOOSE x \in s : TRUE] + g[s \ {CHOOSE x \in s : TRUE}]]

\* The recursive definition of the partial sums defines something.
LEMMA PartialSumExists ==
  ASSUME NEW f, NEW S, IsFiniteSet(S)
  PROVE  \E g : IsPartialSum(g, f, S)
<1> DEFINE G == {n \in Nat : \E g : IsSmallSum(g, f, S, n)}
<1>1. 0 \in G
  <2>1. \A s \in Small(S, 0) : s = {}
    <3> TAKE s \in Small(S, 0)
    <3>1. IsFiniteSet(s) /\ Cardinality(s) \in Nat /\ Cardinality(s) <= 0
      BY FS_Subset, FS_CardinalityType DEF Small
    <3> QED BY <3>1, FS_EmptySet
  <2>2. IsSmallSum([s \in Small(S, 0) |-> 0], f, S, 0)
    BY <2>1 DEF IsSmallSum
  <2> QED BY <2>2
<1>2. ASSUME NEW n \in Nat, n \in G PROVE n + 1 \in G
  <2>1. PICK g : IsSmallSum(g, f, S, n)
    BY <1>2
  <2> DEFINE h == [s \in Small(S, n + 1) |->
                     IF s = {} THEN 0
                     ELSE f[CHOOSE x \in s : TRUE] + g[s \ {CHOOSE x \in s : TRUE}]]
  <2>2. ASSUME NEW s \in Small(S, n + 1), s # {}
        PROVE  s \ {CHOOSE x \in s : TRUE} \in Small(S, n)
    <3> DEFINE c == CHOOSE x \in s : TRUE
    <3>1. c \in s
      BY <2>2
    <3>2. IsFiniteSet(s) /\ Cardinality(s) \in Nat /\ Cardinality(s) <= n + 1
      BY FS_Subset, FS_CardinalityType DEF Small
    <3>3. Cardinality(s \ {c}) = Cardinality(s) - 1
      BY <3>1, <3>2, FS_RemoveElement
    <3> QED BY <3>2, <3>3 DEF Small
  <2>3. ASSUME NEW t \in Small(S, n) PROVE h[t] = g[t]
    <3>1. t \in Small(S, n + 1)
      <4>1. Cardinality(t) \in Nat
        BY FS_Subset, FS_CardinalityType DEF Small
      <4> QED BY <4>1 DEF Small
    <3> QED BY <2>1, <3>1 DEF IsSmallSum
  <2>4. IsSmallSum(h, f, S, n + 1)
    <3>1. ASSUME NEW s \in Small(S, n + 1)
          PROVE  h[s] = IF s = {} THEN 0
                        ELSE f[CHOOSE x \in s : TRUE] + h[s \ {CHOOSE x \in s : TRUE}]
      <4>1. CASE s = {}
        BY <4>1
      <4>2. CASE s # {}
        <5>1. h[s] = f[CHOOSE x \in s : TRUE] + g[s \ {CHOOSE x \in s : TRUE}]
          BY <4>2
        <5>2. h[s \ {CHOOSE x \in s : TRUE}] = g[s \ {CHOOSE x \in s : TRUE}]
          BY <2>2, <2>3, <4>2
        <5> HIDE DEF h
        <5> QED BY <4>2, <5>1, <5>2
      <4> QED BY <4>1, <4>2
    <3>2. h = [s \in Small(S, n + 1) |-> h[s]]
      OBVIOUS
    <3> HIDE DEF h
    <3>3. h = [s \in Small(S, n + 1) |->
                 IF s = {} THEN 0
                 ELSE f[CHOOSE x \in s : TRUE] + h[s \ {CHOOSE x \in s : TRUE}]]
      BY <3>1, <3>2
    <3> QED BY <3>3 DEF IsSmallSum
  <2> QED BY <2>4
<1> HIDE DEF G
<1>3. Cardinality(S) \in Nat /\ Cardinality(S) \in G
  BY <1>1, <1>2, CountInduction, FS_CardinalityType
<1>4. PICK g : IsSmallSum(g, f, S, Cardinality(S))
  BY <1>3 DEF G
<1>5. Small(S, Cardinality(S)) = SUBSET S
  BY FS_Subset DEF Small
<1>6. IsPartialSum(g, f, S)
  BY <1>4, <1>5 DEF IsSmallSum, IsPartialSum
<1> QED BY <1>6

\* Partial sums do not depend on the order in which the fold takes the terms.
LEMMA PartialSumStep ==
  ASSUME NEW f, NEW S, IsFiniteSet(S), \A x \in S : f[x] \in Int,
         NEW g, IsPartialSum(g, f, S)
  PROVE  \A T \in SUBSET S : /\ g[T] \in Int
                             /\ T = {} => g[T] = 0
                             /\ \A x \in T : g[T] = f[x] + g[T \ {x}]
<1> DEFINE G == {T \in SUBSET S : /\ g[T] \in Int
                                  /\ T = {} => g[T] = 0
                                  /\ \A x \in T : g[T] = f[x] + g[T \ {x}]}
<1>1. ASSUME NEW T \in SUBSET S, \A U \in SUBSET T : U # T => U \in G
      PROVE  T \in G
  <2>1. CASE T = {}
    BY <2>1 DEF IsPartialSum
  <2>2. CASE T # {}
    <3> DEFINE c == CHOOSE x \in T : TRUE
    <3>1. c \in T /\ c \in S
      BY <2>2
    <3>2. g[T] = f[c] + g[T \ {c}]
      BY <2>2 DEF IsPartialSum
    <3> HIDE DEF c
    <3>3. f[c] \in Int /\ g[T \ {c}] \in Int
      BY <1>1, <3>1
    <3>4. ASSUME NEW x \in T, x # c PROVE g[T] = f[x] + g[T \ {x}]
      <4> DEFINE U == (T \ {x}) \ {c}
      <4>1. g[T \ {c}] = f[x] + g[U]
        <5>1. (T \ {c}) \ {x} = U /\ x \in T \ {c} /\ T \ {c} # T
          BY <3>1, <3>4
        <5>2. T \ {c} \in G
          BY <1>1, <5>1
        <5> QED BY <5>1, <5>2
      <4>2. g[T \ {x}] = f[c] + g[U]
        <5>1. c \in T \ {x} /\ T \ {x} # T
          BY <3>1, <3>4
        <5>2. T \ {x} \in G
          BY <1>1, <5>1
        <5> QED BY <5>1, <5>2
      <4>3. g[U] \in Int
        <5>1. U # T /\ U \in SUBSET T
          BY <3>4
        <5> QED BY <1>1, <5>1
      <4>4. f[x] \in Int /\ f[c] \in Int
        BY <3>1
      <4> HIDE DEF U
      <4> QED BY <3>2, <4>1, <4>2, <4>3, <4>4
    <3>6. g[T] \in Int
      BY <3>2, <3>3
    <3>5. g[T] \in Int /\ \A x \in T : g[T] = f[x] + g[T \ {x}]
      <4> HIDE DEF G
      <4> QED BY <3>2, <3>4, <3>6
    <3> QED BY <2>2, <3>5
  <2> QED BY <2>1, <2>2
<1> HIDE DEF G
<1>2. \A T \in SUBSET S : T \in G
  BY <1>1, SetInduction
<1> QED BY <1>2 DEF G

\* A sum is that of any part of a larger set of indices.
LEMMA SumIsPartialSum ==
  ASSUME NEW f, NEW S, IsFiniteSet(S), \A x \in S : f[x] \in Int,
         NEW g, IsPartialSum(g, f, S), NEW T \in SUBSET S
  PROVE  SumFunctionOnSet(f, T) = g[T]
<1> DEFINE h == CHOOSE e : IsPartialSum(e, f, T)
<1>1. IsFiniteSet(T) /\ \A x \in T : f[x] \in Int
  BY FS_Subset
<1>2. IsPartialSum(h, f, T) /\ SumFunctionOnSet(f, T) = h[T]
  BY <1>1, PartialSumExists, SumDef
<1> HIDE DEF h
<1> DEFINE G == {U \in SUBSET T : h[U] = g[U]}
<1>3. ASSUME NEW U \in SUBSET T, \A V \in SUBSET U : V # U => V \in G
      PROVE  U \in G
  <2>1. /\ U = {} => h[U] = 0 /\ g[U] = 0
        /\ \A x \in U : h[U] = f[x] + h[U \ {x}] /\ g[U] = f[x] + g[U \ {x}]
    BY <1>1, <1>2, PartialSumStep
  <2>2. CASE U = {}
    BY <2>1, <2>2
  <2>3. ASSUME NEW x \in U PROVE h[U] = g[U]
    <3>1. U \ {x} \in G
      BY <1>3
    <3> QED BY <2>1, <3>1
  <2> QED BY <2>2, <2>3
<1> HIDE DEF G
<1>4. T \in G
  BY <1>1, <1>3, SetInduction
<1> QED BY <1>2, <1>4 DEF G

-----------------------------------------------------------------------------
(* Sums.                                                                   *)

\* A sum is any of its terms and the sum of the rest.
LEMMA SumStep ==
  ASSUME NEW S, IsFiniteSet(S), NEW f, \A x \in S : f[x] \in Int
  PROVE  /\ SumFunctionOnSet(f, S) \in Int
         /\ S = {} => SumFunctionOnSet(f, S) = 0
         /\ \A x \in S : SumFunctionOnSet(f, S) = f[x] + SumFunctionOnSet(f, S \ {x})
<1>1. PICK g : IsPartialSum(g, f, S)
  BY PartialSumExists
<1>2. \A T \in SUBSET S : SumFunctionOnSet(f, T) = g[T]
  BY <1>1, SumIsPartialSum
<1>3. \A T \in SUBSET S : /\ g[T] \in Int
                          /\ T = {} => g[T] = 0
                          /\ \A x \in T : g[T] = f[x] + g[T \ {x}]
  BY <1>1, PartialSumStep
<1>4. S \in SUBSET S /\ \A x \in S : S \ {x} \in SUBSET S
  OBVIOUS
<1>5. g[S] \in Int /\ (S = {} => g[S] = 0) /\ \A x \in S : g[S] = f[x] + g[S \ {x}]
  BY <1>3
<1>6. /\ SumFunctionOnSet(f, S) = g[S]
      /\ \A x \in S : SumFunctionOnSet(f, S \ {x}) = g[S \ {x}]
  BY <1>2, <1>4
<1> QED BY <1>5, <1>6

\* Equal terms, equal sums.
LEMMA SumSame ==
  ASSUME NEW S, IsFiniteSet(S), NEW f, NEW e,
         \A x \in S : f[x] \in Int /\ e[x] = f[x]
  PROVE  SumFunctionOnSet(e, S) = SumFunctionOnSet(f, S)
<1> DEFINE G == {T \in SUBSET S : SumFunctionOnSet(e, T) = SumFunctionOnSet(f, T)}
<1>1. ASSUME NEW T \in SUBSET S, \A U \in SUBSET T : U # T => U \in G
      PROVE  T \in G
  <2>1. IsFiniteSet(T)
    BY FS_Subset
  <2>2. /\ T = {} => SumFunctionOnSet(f, T) = 0
        /\ \A x \in T : SumFunctionOnSet(f, T) = f[x] + SumFunctionOnSet(f, T \ {x})
    BY <2>1, SumStep
  <2>3. /\ T = {} => SumFunctionOnSet(e, T) = 0
        /\ \A x \in T : SumFunctionOnSet(e, T) = e[x] + SumFunctionOnSet(e, T \ {x})
    BY <2>1, SumStep
  <2>4. CASE T = {}
    BY <2>2, <2>3, <2>4
  <2>5. ASSUME NEW x \in T
        PROVE  SumFunctionOnSet(e, T) = SumFunctionOnSet(f, T)
    <3>1. T \ {x} \in G
      BY <1>1
    <3> QED BY <2>2, <2>3, <3>1
  <2> QED BY <2>4, <2>5
<1> HIDE DEF G
<1>2. S \in G
  BY <1>1, SetInduction
<1> QED BY <1>2 DEF G

\* A sum changes with the one term that changes, if it is one of its terms.
LEMMA SumUpdate ==
  ASSUME NEW S, IsFiniteSet(S), NEW f, NEW e, NEW x,
         \A y \in S : f[y] \in Int /\ e[y] \in Int,
         \A y \in S : y # x => e[y] = f[y]
  PROVE  SumFunctionOnSet(e, S)
           = SumFunctionOnSet(f, S) + (IF x \in S THEN e[x] - f[x] ELSE 0)
<1>1. CASE x \notin S
  <2>1. SumFunctionOnSet(e, S) = SumFunctionOnSet(f, S)
    BY <1>1, SumSame
  <2>2. SumFunctionOnSet(f, S) \in Int
    BY SumStep
  <2> QED BY <1>1, <2>1, <2>2
<1>2. CASE x \in S
  <2>1. IsFiniteSet(S \ {x})
    BY FS_Subset
  <2>2. SumFunctionOnSet(f, S) = f[x] + SumFunctionOnSet(f, S \ {x})
    BY <1>2, SumStep
  <2>3. SumFunctionOnSet(e, S) = e[x] + SumFunctionOnSet(e, S \ {x})
    BY <1>2, SumStep
  <2>4. SumFunctionOnSet(e, S \ {x}) = SumFunctionOnSet(f, S \ {x})
    BY <2>1, SumSame
  <2>5. SumFunctionOnSet(f, S \ {x}) \in Int
    BY <2>1, SumStep
  <2> QED BY <1>2, <2>2, <2>3, <2>4, <2>5
<1> QED BY <1>1, <1>2

\* A sum of natural numbers is one, and no less than any of its terms.
LEMMA SumNat ==
  ASSUME NEW S, IsFiniteSet(S), NEW f, \A x \in S : f[x] \in Nat
  PROVE  /\ SumFunctionOnSet(f, S) \in Nat
         /\ \A x \in S : f[x] <= SumFunctionOnSet(f, S)
<1> DEFINE G == {T \in SUBSET S : SumFunctionOnSet(f, T) \in Nat}
<1>1. ASSUME NEW T \in SUBSET S, \A U \in SUBSET T : U # T => U \in G
      PROVE  T \in G
  <2>1. IsFiniteSet(T)
    BY FS_Subset
  <2>2. /\ T = {} => SumFunctionOnSet(f, T) = 0
        /\ \A x \in T : SumFunctionOnSet(f, T) = f[x] + SumFunctionOnSet(f, T \ {x})
    BY <2>1, SumStep
  <2>3. ASSUME NEW x \in T PROVE SumFunctionOnSet(f, T) \in Nat
    <3>1. T \ {x} \in G
      BY <1>1
    <3> QED BY <2>2, <3>1
  <2> QED BY <2>2, <2>3
<1> HIDE DEF G
<1>2. \A T \in SUBSET S : T \in G
  BY <1>1, SetInduction
<1>3. \A T \in SUBSET S : SumFunctionOnSet(f, T) \in Nat
  BY <1>2 DEF G
<1>4. ASSUME NEW x \in S PROVE f[x] <= SumFunctionOnSet(f, S)
  <2>1. SumFunctionOnSet(f, S) = f[x] + SumFunctionOnSet(f, S \ {x})
    BY SumStep
  <2>2. SumFunctionOnSet(f, S \ {x}) \in Nat
    BY <1>3
  <2> QED BY <2>1, <2>2
<1> QED BY <1>3, <1>4

\* Zeros add up to zero.
LEMMA SumZero ==
  ASSUME NEW S, IsFiniteSet(S), NEW f, \A x \in S : f[x] = 0
  PROVE  SumFunctionOnSet(f, S) = 0
<1> DEFINE G == {T \in SUBSET S : SumFunctionOnSet(f, T) = 0}
<1>1. ASSUME NEW T \in SUBSET S, \A U \in SUBSET T : U # T => U \in G
      PROVE  T \in G
  <2>1. IsFiniteSet(T)
    BY FS_Subset
  <2>2. /\ T = {} => SumFunctionOnSet(f, T) = 0
        /\ \A x \in T : SumFunctionOnSet(f, T) = f[x] + SumFunctionOnSet(f, T \ {x})
    BY <2>1, SumStep
  <2>3. ASSUME NEW x \in T PROVE SumFunctionOnSet(f, T) = 0
    <3>1. T \ {x} \in G
      BY <1>1
    <3> QED BY <2>2, <3>1
  <2> QED BY <2>2, <2>3
<1> HIDE DEF G
<1>2. S \in G
  BY <1>1, SetInduction
<1> QED BY <1>2 DEF G

\* The sum of a sequence after an element has been appended to it.
LEMMA SumAppend ==
  ASSUME NEW n \in Nat, NEW f, NEW e, \A k \in 1 .. n + 1 : e[k] \in Int,
         \A k \in 1 .. n : e[k] = f[k]
  PROVE  SumFunctionOnSet(e, 1 .. n + 1) = SumFunctionOnSet(f, 1 .. n) + e[n + 1]
<1>1. IsFiniteSet(1 .. n + 1) /\ IsFiniteSet(1 .. n)
  BY FS_Interval
<1>2. n + 1 \in 1 .. n + 1 /\ (1 .. n + 1) \ {n + 1} = 1 .. n
  OBVIOUS
<1> DEFINE S == 1 .. n + 1
<1>3. SumFunctionOnSet(e, S) = e[n + 1] + SumFunctionOnSet(e, 1 .. n)
  <2>1. IsFiniteSet(S) /\ n + 1 \in S /\ S \ {n + 1} = 1 .. n /\ \A x \in S : e[x] \in Int
    BY <1>1, <1>2
  <2> HIDE DEF S
  <2>2. \A x \in S : SumFunctionOnSet(e, S) = e[x] + SumFunctionOnSet(e, S \ {x})
    BY <2>1, SumStep
  <2> QED BY <2>1, <2>2
<1>4. SumFunctionOnSet(e, 1 .. n) = SumFunctionOnSet(f, 1 .. n)
  <2>1. \A k \in 1 .. n : f[k] \in Int /\ e[k] = f[k]
    OBVIOUS
  <2> QED BY <1>1, <2>1, SumSame
<1>5. SumFunctionOnSet(e, 1 .. n) \in Int
  <2>1. \A k \in 1 .. n : e[k] \in Int
    OBVIOUS
  <2> QED BY <1>1, <2>1, SumStep
<1> QED BY <1>2, <1>3, <1>4, <1>5

\* The sum of a sequence after its first element has been removed.
LEMMA SumTail ==
  ASSUME NEW n \in Nat, NEW f, NEW e, \A k \in 1 .. n + 1 : f[k] \in Int,
         \A k \in 1 .. n : e[k] = f[k + 1]
  PROVE  SumFunctionOnSet(e, 1 .. n) = SumFunctionOnSet(f, 1 .. n + 1) - f[1]
<1> DEFINE G == {m \in Nat : m <= n =>
                   /\ SumFunctionOnSet(e, 1 .. m) \in Int
                   /\ SumFunctionOnSet(f, 1 .. m + 1)
                        = f[1] + SumFunctionOnSet(e, 1 .. m)}
<1>1. 0 \in G
  <2>1. IsFiniteSet(1 .. 0) /\ 1 .. 0 = {}
    <3>1. 1 .. 0 = {}
      OBVIOUS
    <3> QED BY <3>1, FS_EmptySet
  <2>2. SumFunctionOnSet(e, 1 .. 0) = 0 /\ SumFunctionOnSet(f, 1 .. 0) = 0
    BY <2>1, SumStep
  <2>3. SumFunctionOnSet(f, 1 .. 0 + 1) = SumFunctionOnSet(f, 1 .. 0) + f[0 + 1]
    <3>1. /\ \A k \in 1 .. 0 + 1 : f[k] \in Int
          /\ \A k \in 1 .. 0 : f[k] = f[k]
      OBVIOUS
    <3> QED BY <3>1, SumAppend
  <2> QED BY <2>2, <2>3
<1>2. ASSUME NEW m \in Nat, m \in G PROVE m + 1 \in G
  <2>1. SUFFICES ASSUME m + 1 <= n
                 PROVE  /\ SumFunctionOnSet(e, 1 .. m + 1) \in Int
                        /\ SumFunctionOnSet(f, 1 .. (m + 1) + 1)
                             = f[1] + SumFunctionOnSet(e, 1 .. m + 1)
    OBVIOUS
  <2>2. /\ SumFunctionOnSet(e, 1 .. m) \in Int
        /\ SumFunctionOnSet(f, 1 .. m + 1) = f[1] + SumFunctionOnSet(e, 1 .. m)
    BY <1>2, <2>1
  <2>3. e[m + 1] = f[(m + 1) + 1] /\ e[m + 1] \in Int /\ f[1] \in Int
    BY <2>1
  <2>4. SumFunctionOnSet(e, 1 .. m + 1) = SumFunctionOnSet(e, 1 .. m) + e[m + 1]
    <3>1. /\ \A k \in 1 .. m + 1 : e[k] \in Int
          /\ \A k \in 1 .. m : e[k] = e[k]
      BY <2>1
    <3> QED BY <3>1, SumAppend
  <2>5. SumFunctionOnSet(f, 1 .. (m + 1) + 1)
          = SumFunctionOnSet(f, 1 .. m + 1) + f[(m + 1) + 1]
    <3>1. /\ \A k \in 1 .. (m + 1) + 1 : f[k] \in Int
          /\ \A k \in 1 .. m + 1 : f[k] = f[k]
      BY <2>1
    <3>2. m + 1 \in Nat
      OBVIOUS
    <3> QED BY <3>1, <3>2, SumAppend
  <2> HIDE DEF G
  <2> QED BY <2>2, <2>3, <2>4, <2>5
<1> HIDE DEF G
<1>3. n \in G
  BY <1>1, <1>2, CountInduction
<1>4. f[1] \in Int
  OBVIOUS
<1> QED BY <1>3, <1>4 DEF G

-----------------------------------------------------------------------------
(* The sets that the sums range over.                                      *)

PoolIn(s)  == {x \in PG : GetIngressSP(x[2]) = s}
PoolOut(s) == {x \in PG : GetEgressSP(x[2]) = s}

\* Sums are over finite sets: a switch has finitely many ports and classes.
LEMMA FiniteIndices ==
  /\ IsFiniteSet(Port) /\ IsFiniteSet(Class) /\ IsFiniteSet(PG)
  /\ \A s : IsFiniteSet(PoolIn(s)) /\ PoolIn(s) \subseteq PG
  /\ \A s : IsFiniteSet(PoolOut(s)) /\ PoolOut(s) \subseteq PG
<1>1. IsFiniteSet(Port)
  BY SizeNat, FS_Interval DEF Port
<1>2. IsFiniteSet(Class)
  BY SizeAssumption
<1>3. IsFiniteSet(PG)
  BY <1>1, <1>2, FS_Product DEF PG
<1> QED
  BY <1>1, <1>2, <1>3, FS_Subset DEF PoolIn, PoolOut

-----------------------------------------------------------------------------
(* Egress.                                                                 *)

\* Counters e of ports and pools are the sums over their queues.
EgressSumsOf(e) ==
  /\ \A p \in Port :
       e.port[p] = SumFunction([q \in Class |-> e.qmin[<<p, q>>] + e.shared[<<p, q>>]])
  /\ \A s \in Pool : e.sp[s] = SumFunctionOnSet(e.shared, PoolOut(s))

\* e charges queue <<o, q>> d bytes more than egr does, s of them in the shared part.
ChargedMore(e, o, q, d, s) ==
  /\ e.qmin \in [PG -> Nat] /\ e.shared \in [PG -> Nat]
  /\ \A x \in PG : e.qmin[x] + e.shared[x] =
                     egr.qmin[x] + egr.shared[x] + (IF x = <<o, q>> THEN d ELSE 0)
  /\ e.shared = [egr.shared EXCEPT ![<<o, q>>] = egr.shared[<<o, q>>] + s]
  /\ e.port = [egr.port EXCEPT ![o] = egr.port[o] + d]
  /\ e.sp = [egr.sp EXCEPT ![GetEgressSP(q)] = egr.sp[GetEgressSP(q)] + s]

\* It keeps the sums.
LEMMA EgressSumsKept ==
  ASSUME EgrTypes, EgressSumsOf(egr),
         NEW o \in Port, NEW q \in Class, NEW d \in Int, NEW s \in Int, NEW e,
         ChargedMore(e, o, q, d, s)
  PROVE  EgressSumsOf(e)
<1> DEFINE y == <<o, q>>
<1> USE DEF ChargedMore
<1>1. /\ y \in PG /\ egr.qmin \in [PG -> Nat] /\ egr.shared \in [PG -> Nat]
      /\ egr.port \in [Port -> Int] /\ egr.sp \in [Pool -> Int]
      /\ GetEgressSP(q) \in Pool
  BY DEF EgrTypes, PG, GetEgressSP, Pool
<1>2. ASSUME NEW p \in Port
      PROVE  e.port[p] =
               SumFunction([r \in Class |-> e.qmin[<<p, r>>] + e.shared[<<p, r>>]])
  <2> DEFINE f == [r \in Class |-> egr.qmin[<<p, r>>] + egr.shared[<<p, r>>]]
             g == [r \in Class |-> e.qmin[<<p, r>>] + e.shared[<<p, r>>]]
  <2>1. \A r \in Class : <<p, r>> \in PG /\ (<<p, r>> = y <=> p = o /\ r = q)
    BY DEF PG
  <2>2. /\ \A r \in Class : f[r] \in Int /\ g[r] \in Int
        /\ \A r \in Class : g[r] = f[r] + (IF p = o /\ r = q THEN d ELSE 0)
    BY <1>1, <2>1
  <2>3. DOMAIN f = Class /\ DOMAIN g = Class
    OBVIOUS
  <2>4. egr.port[p] = SumFunctionOnSet(f, Class)
    BY <2>3 DEF EgressSumsOf, SumFunction
  <2> HIDE DEF f, g
  <2>5. egr.port[p] \in Int /\ e.port[p] = egr.port[p] + (IF p = o THEN d ELSE 0)
    BY <1>1
  <2>6. CASE p = o
    <3>1. SumFunctionOnSet(g, Class) = SumFunctionOnSet(f, Class) + (g[q] - f[q])
      <4>1. \A r \in Class : r # q => g[r] = f[r]
        BY <2>2
      <4> QED
        BY <4>1, <2>2, FiniteIndices, SumUpdate
    <3>2. g[q] = f[q] + d /\ f[q] \in Int
      BY <2>2, <2>6
    <3> QED
      BY <3>1, <3>2, <2>3, <2>4, <2>5, <2>6 DEF SumFunction, g
  <2>7. CASE p # o
    <3>1. \A r \in Class : g[r] = f[r]
      BY <2>2, <2>7
    <3>2. SumFunctionOnSet(g, Class) = SumFunctionOnSet(f, Class)
      BY <3>1, <2>2, FiniteIndices, SumSame
    <3> QED
      BY <3>2, <2>3, <2>4, <2>5, <2>7 DEF SumFunction, g
  <2> QED
    BY <2>6, <2>7
<1>3. ASSUME NEW p \in Pool
      PROVE  e.sp[p] = SumFunctionOnSet(e.shared, PoolOut(p))
  <2>1. /\ egr.sp[p] = SumFunctionOnSet(egr.shared, PoolOut(p)) /\ egr.sp[p] \in Int
        /\ e.sp[p] = egr.sp[p] + (IF p = GetEgressSP(q) THEN s ELSE 0)
    BY <1>1 DEF EgressSumsOf
  <2>2. y \in PoolOut(p) <=> p = GetEgressSP(q)
    BY <1>1 DEF PoolOut
  <2>3. /\ e.shared[y] = egr.shared[y] + s /\ egr.shared[y] \in Int
        /\ \A x \in PoolOut(p) : x # y => e.shared[x] = egr.shared[x]
        /\ \A x \in PoolOut(p) : e.shared[x] \in Int /\ egr.shared[x] \in Int
    BY <1>1, FiniteIndices
  <2> HIDE DEF y
  <2>4. SumFunctionOnSet(e.shared, PoolOut(p))
          = SumFunctionOnSet(egr.shared, PoolOut(p))
              + (IF y \in PoolOut(p) THEN e.shared[y] - egr.shared[y] ELSE 0)
    BY <2>3, FiniteIndices, SumUpdate
  <2> QED
    BY <2>1, <2>2, <2>3, <2>4
<1> QED
  BY <1>2, <1>3 DEF EgressSumsOf

\* The property says it of the switch's own counters.
LEMMA EgressSumsIsOf == EgressSums <=> EgressSumsOf(egr)
  BY DEF EgressSums, EgressSumsOf, PoolOut

\* An empty switch has charged nothing, ...
LEMMA EgressSumsInit == Init => EgressSumsOf(egr)
<1> SUFFICES ASSUME Init  PROVE EgressSumsOf(egr)
  OBVIOUS
<1>1. \A x \in PG : egr.qmin[x] = 0 /\ egr.shared[x] = 0
  BY DEF Init
<1>2. (\A p \in Port : egr.port[p] = 0) /\ (\A s \in Pool : egr.sp[s] = 0)
  BY DEF Init
<1>3. ASSUME NEW p \in Port
      PROVE  SumFunction([q \in Class |-> egr.qmin[<<p, q>>] + egr.shared[<<p, q>>]]) = 0
  <2> DEFINE f == [q \in Class |-> egr.qmin[<<p, q>>] + egr.shared[<<p, q>>]]
  <2>1. DOMAIN f = Class /\ \A q \in Class : f[q] = 0
    BY <1>1 DEF PG
  <2> HIDE DEF f
  <2>2. SumFunctionOnSet(f, Class) = 0
    BY <2>1, FiniteIndices, SumZero
  <2> QED
    BY <2>1, <2>2 DEF SumFunction, f
<1>4. ASSUME NEW s \in Pool
      PROVE  SumFunctionOnSet(egr.shared, PoolOut(s)) = 0
  BY <1>1, FiniteIndices, SumZero
<1> QED
  BY <1>2, <1>3, <1>4 DEF EgressSumsOf

\* What an admitted packet is charged at egress, ...
LEMMA JoiningCharges ==
  ASSUME EgressInv, NEW i \in Port, NEW o \in Port, NEW q \in Class, NEW size \in Size,
         SwitchSend(i, o, q, size)
  PROVE  \E s \in Int : ChargedMore(egr', o, q, size, s)
<1> DEFINE e == UpdateEgressAdmission(o, q, size)
           y == <<o, q>>
           s == EgressSpill(o, q, size)
<1>0. EgrTypes
  BY DEF EgressInv
<1>1. /\ e.qmin \in [PG -> Nat] /\ e.shared \in [PG -> Nat]
      /\ \A x \in PG : e.qmin[x] + e.shared[x] =
                         egr.qmin[x] + egr.shared[x] + (IF x = y THEN size ELSE 0)
  BY ChargeQueue
<1>2. /\ e.shared = [egr.shared EXCEPT ![y] = egr.shared[y] + s]
      /\ e.port = [egr.port EXCEPT ![o] = egr.port[o] + size]
      /\ e.sp = [egr.sp EXCEPT ![GetEgressSP(q)] = egr.sp[GetEgressSP(q)] + s]
  BY <1>0 DEF UpdateEgressAdmission, EgrTypes, PG
<1>3. size \in Int /\ s \in Int
  BY <1>0, SizeNat DEF EgressSpill, EgrTypes, PG
<1>4. egr' = e
  BY DEF SwitchSend
<1> HIDE DEF e, s
<1>5. ChargedMore(e, o, q, size, s)
  BY <1>1, <1>2 DEF ChargedMore
<1> QED
  BY <1>3, <1>4, <1>5

\* ... and what a leaving one is given back.
LEMMA LeavingCharges ==
  ASSUME EgressInv, NEW o \in Port, NEW q \in Class, SwitchNotifyDequeue(o, q)
  PROVE  LET h == Head(queue[<<o, q>>])
         IN  h.size \in Nat /\ \E s \in Int : ChargedMore(egr', o, q, -h.size, s)
<1> DEFINE y == <<o, q>>
           h == Head(queue[y])
           e == RemoveFromEgressAdmission(o, q, h.size)
           s == EgressFromShared(o, q, h.size)
<1>0. EgrTypes /\ QueueInv
  BY DEF EgressInv
<1>1. y \in PG /\ queue[y] # <<>> /\ egr' = e
  BY DEF SwitchNotifyDequeue, PG
<1>2. h \in Packet /\ h.size <= Bytes(queue[y])
  BY <1>0, <1>1, LeaveQueue DEF QueueInv
<1>3. h.size \in Nat
  BY <1>2, SizeNat DEF Packet
<1> HIDE DEF h
<1>4. /\ e.qmin \in [PG -> Nat] /\ e.shared \in [PG -> Nat]
      /\ \A x \in PG : e.qmin[x] + e.shared[x] =
                         egr.qmin[x] + egr.shared[x] - (IF x = y THEN h.size ELSE 0)
  <2>1. /\ e \in [qmin : [PG -> Nat], shared : [PG -> Nat],
                  port : [Port -> Int], sp : [Pool -> Int]]
        /\ \A x \in PG :
             /\ e.qmin[x] + e.shared[x] =
                  egr.qmin[x] + egr.shared[x] - (IF x = y THEN h.size ELSE 0)
             /\ e.shared[x] > 0 => e.qmin[x] = QMin
             /\ e.qmin[x] <= QMin
    BY <1>2, <1>3, DischargeQueue, ZenonT(40)
  <2> HIDE DEF e, y
  <2> QED
    BY <2>1
<1>5. /\ e.shared = [egr.shared EXCEPT ![y] = egr.shared[y] - s]
      /\ e.port = [egr.port EXCEPT ![o] = egr.port[o] - h.size]
      /\ e.sp = [egr.sp EXCEPT ![GetEgressSP(q)] = egr.sp[GetEgressSP(q)] - s]
  BY <1>0 DEF RemoveFromEgressAdmission, EgrTypes, PG
<1>6. s \in Int
  BY <1>0, <1>1, <1>3 DEF EgressFromShared, EgrTypes
<1>7. /\ egr.shared[y] \in Int /\ egr.port[o] \in Int /\ egr.sp[GetEgressSP(q)] \in Int
      /\ \A x \in PG : egr.qmin[x] \in Int /\ egr.shared[x] \in Int
  BY <1>0, <1>1 DEF EgrTypes, GetEgressSP, Pool
<1> HIDE DEF e, s
<1> DEFINE d == -h.size
           t == -s
<1>8. /\ e.shared = [egr.shared EXCEPT ![y] = egr.shared[y] + t]
      /\ e.port = [egr.port EXCEPT ![o] = egr.port[o] + d]
      /\ e.sp = [egr.sp EXCEPT ![GetEgressSP(q)] = egr.sp[GetEgressSP(q)] + t]
      /\ d \in Int /\ t \in Int
  <2>1. /\ egr.shared[y] - s = egr.shared[y] + t
        /\ egr.port[o] - h.size = egr.port[o] + d
        /\ egr.sp[GetEgressSP(q)] - s = egr.sp[GetEgressSP(q)] + t
        /\ d \in Int /\ t \in Int
    BY <1>3, <1>6, <1>7
  <2> HIDE DEF d, t
  <2> QED
    BY <1>5, <2>1
<1>9. \A x \in PG : e.qmin[x] + e.shared[x] =
                      egr.qmin[x] + egr.shared[x] + (IF x = y THEN d ELSE 0)
  BY <1>3, <1>4, <1>7
<1> HIDE DEF d, t
<1>10. ChargedMore(e, o, q, d, t)
  BY <1>4, <1>8, <1>9 DEF ChargedMore
<1> QED
  BY <1>1, <1>3, <1>8, <1>10 DEF d, h, y

\* ... and every step adds to a queue, its port and its pool alike.
LEMMA EgressSumsStep == EgressInv /\ EgressSums /\ [Next]_vars => EgressSums'
<1> SUFFICES ASSUME EgressInv, EgressSums, [Next]_vars  PROVE EgressSumsOf(egr')
  BY DEF EgressSums, EgressSumsOf, PoolOut
<1>0. EgrTypes /\ QueueInv /\ EgressSumsOf(egr)
  BY EgressSumsIsOf DEF EgressInv
<1>1. ASSUME NEW i \in Port, NEW o \in Port, NEW q \in Class, NEW size \in Size,
             SwitchSend(i, o, q, size)
      PROVE  EgressSumsOf(egr')
  <2>1. PICK s \in Int : ChargedMore(egr', o, q, size, s)
    BY <1>1, JoiningCharges
  <2>2. size \in Int
    BY SizeNat
  <2> QED
    BY <1>0, <2>1, <2>2, EgressSumsKept
<1>2. ASSUME NEW o \in Port, NEW q \in Class, SwitchNotifyDequeue(o, q)
      PROVE  EgressSumsOf(egr')
  <2> DEFINE d == -Head(queue[<<o, q>>]).size
  <2>1. PICK s \in Int : ChargedMore(egr', o, q, d, s)
    BY <1>2, LeavingCharges
  <2>2. d \in Int
    BY <1>2, LeavingCharges
  <2> HIDE DEF d
  <2> QED
    BY <1>0, <2>1, <2>2, EgressSumsKept
<1>3. CASE UNCHANGED egr
  BY <1>0, <1>3
<1>4. ASSUME NEW i \in Port, NEW o \in Port, NEW q \in Class, NEW size \in Size,
             DropAtIngress(i, o, q, size) \/ DropAtEgress(i, o, q, size)
      PROVE  UNCHANGED egr
  BY <1>4 DEF DropAtIngress, DropAtEgress
<1>5. ASSUME NEW i \in Port, NEW q \in Class, SetResume(i, q)
      PROVE  UNCHANGED egr
  BY <1>5 DEF SetResume
<1>6. CASE UNCHANGED vars
  BY <1>3, <1>6 DEF vars
<1> QED
  BY <1>1, <1>2, <1>3, <1>4, <1>5, <1>6 DEF Next

\* UpdateEgressAdmission and RemoveFromEgressAdmission keep three counters of the
\* same bytes in step: those of ports and pools are the sums of those of queues, so
\* the pool never gives out space twice and never loses any.
THEOREM EgressSumsAlways == Spec => []EgressSums
<1> QED
  BY EgressInvInit, EgressInvStep, EgressSumsInit, EgressSumsIsOf, EgressSumsStep, PTL
     DEF Spec

-----------------------------------------------------------------------------
(* Ingress.                                                                *)

\* The bytes that a queue s holds of port i.
SizeFrom(s, i) == [n \in DOMAIN s |-> IF s[n].in = i THEN s[n].size ELSE 0]
From(s, i) == SumFunction(SizeFrom(s, i))

\* It is a sum of sizes.
LEMMA FromType ==
  ASSUME NEW s \in Seq(Packet), NEW i \in Port
  PROVE  /\ DOMAIN SizeFrom(s, i) = 1 .. Len(s) /\ Len(s) \in Nat
         /\ \A n \in 1 .. Len(s) : /\ s[n] \in Packet
                                   /\ SizeFrom(s, i)[n] \in Nat
                                   /\ SizeFrom(s, i)[n] =
                                        IF s[n].in = i THEN s[n].size ELSE 0
         /\ From(s, i) = SumFunctionOnSet(SizeFrom(s, i), 1 .. Len(s))
         /\ From(s, i) \in Nat
         /\ \A n \in 1 .. Len(s) : SizeFrom(s, i)[n] <= From(s, i)
<1>1. DOMAIN s = 1 .. Len(s) /\ Len(s) \in Nat /\ \A n \in 1 .. Len(s) : s[n] \in Packet
  OBVIOUS
<1>2. /\ DOMAIN SizeFrom(s, i) = 1 .. Len(s)
      /\ \A n \in 1 .. Len(s) : SizeFrom(s, i)[n] = IF s[n].in = i THEN s[n].size ELSE 0
  BY <1>1 DEF SizeFrom
<1>3. ASSUME NEW n \in 1 .. Len(s)  PROVE SizeFrom(s, i)[n] \in Nat
  <2>1. s[n].size \in Nat
    BY <1>1, SizeNat DEF Packet
  <2> QED
    BY <1>2, <2>1
<1>4. From(s, i) = SumFunctionOnSet(SizeFrom(s, i), 1 .. Len(s))
  BY <1>2 DEF From, SumFunction
<1>5. IsFiniteSet(1 .. Len(s))
  BY <1>1, FS_Interval
<1>6. /\ From(s, i) \in Nat
      /\ \A n \in 1 .. Len(s) : SizeFrom(s, i)[n] <= From(s, i)
  BY <1>3, <1>4, <1>5, SumNat
<1> QED
  BY <1>1, <1>2, <1>3, <1>4, <1>6

\* A packet adds its size to what its queue holds of its port.
LEMMA FromJoin ==
  ASSUME NEW s \in Seq(Packet), NEW p \in Packet, NEW i \in Port
  PROVE  From(Append(s, p), i) = From(s, i) + (IF p.in = i THEN p.size ELSE 0)
<1> DEFINE t == Append(s, p)
           m == Len(s)
           e == SizeFrom(t, i)
           f == SizeFrom(s, i)
<1>1. /\ t \in Seq(Packet) /\ Len(t) = m + 1 /\ m \in Nat
      /\ t[m + 1] = p /\ \A n \in 1 .. m : t[n] = s[n]
  OBVIOUS
<1> HIDE DEF t
<1>2. /\ From(t, i) = SumFunctionOnSet(e, 1 .. m + 1)
      /\ \A n \in 1 .. m + 1 : e[n] \in Nat /\ e[n] = IF t[n].in = i THEN t[n].size ELSE 0
  BY <1>1, FromType
<1>3. /\ From(s, i) = SumFunctionOnSet(f, 1 .. m)
      /\ \A n \in 1 .. m : f[n] = IF s[n].in = i THEN s[n].size ELSE 0
  BY FromType
<1> HIDE DEF e, f, m
<1>4. /\ \A n \in 1 .. m + 1 : e[n] \in Int
      /\ \A n \in 1 .. m : e[n] = f[n]
  BY <1>1, <1>2, <1>3
<1>5. SumFunctionOnSet(e, 1 .. m + 1) = SumFunctionOnSet(f, 1 .. m) + e[m + 1]
  BY <1>1, <1>4, SumAppend
<1>6. e[m + 1] = IF p.in = i THEN p.size ELSE 0
  BY <1>1, <1>2
<1> QED
  BY <1>2, <1>3, <1>5, <1>6 DEF t

\* The first packet takes it away again.
LEMMA FromLeave ==
  ASSUME NEW s \in Seq(Packet), s # <<>>, Rest(s) \in Seq(Packet), NEW i \in Port
  PROVE  /\ From(Rest(s), i) =
              From(s, i) - (IF Head(s).in = i THEN Head(s).size ELSE 0)
         /\ Head(s).in = i => Head(s).size <= From(s, i)
<1> DEFINE t == Rest(s)
           m == Len(s) - 1
           e == SizeFrom(t, i)
           f == SizeFrom(s, i)
<1>1. /\ Len(s) \in Nat \ {0} /\ m \in Nat /\ Len(s) = m + 1 /\ Head(s) = s[1]
      /\ 1 \in 1 .. m + 1 /\ \A n \in 1 .. m : n + 1 \in 1 .. Len(s)
      /\ \A n \in 1 .. Len(s) : s[n] \in Packet
  OBVIOUS
<1>2. Len(t) = m /\ \A n \in 1 .. m : t[n].in = s[n + 1].in /\ t[n].size = s[n + 1].size
  <2>1. DOMAIN t = 1 .. m
    BY <1>1 DEF Rest
  <2>2. Len(t) = m
    <3> HIDE DEF t, m
    <3>1. t \in Seq(Packet) => DOMAIN t = 1 .. Len(t) /\ Len(t) \in Nat
      OBVIOUS
    <3>2. t \in Seq(Packet)
      BY DEF t
    <3>3. 1 .. m = 1 .. Len(t) /\ m \in Nat /\ Len(t) \in Nat
      BY <1>1, <2>1, <3>1, <3>2
    <3> HIDE <3>1, <3>2, <2>1
    <3> QED
      BY <3>3
  <2>3. ASSUME NEW n \in 1 .. m
        PROVE  t[n].in = s[n + 1].in /\ t[n].size = s[n + 1].size
    <3>1. t[n] = [s[n + 1] EXCEPT !.ahead = @ - Head(s).size]
      BY <1>1 DEF Rest
    <3>2. s[n + 1] \in Packet
      BY <1>1
    <3> QED
      BY <3>1, <3>2 DEF Packet
  <2> QED
    BY <2>2, <2>3
<1>3. /\ From(t, i) = SumFunctionOnSet(e, 1 .. m)
      /\ \A n \in 1 .. m : e[n] = IF t[n].in = i THEN t[n].size ELSE 0
  BY <1>2, FromType
<1>4. /\ From(s, i) = SumFunctionOnSet(f, 1 .. m + 1)
      /\ \A n \in 1 .. m + 1 : /\ f[n] \in Nat /\ f[n] <= From(s, i)
                               /\ f[n] = IF s[n].in = i THEN s[n].size ELSE 0
  BY <1>1, FromType
<1> HIDE DEF e, f, m, t
<1>5. /\ \A n \in 1 .. m + 1 : f[n] \in Int
      /\ \A n \in 1 .. m : e[n] = f[n + 1]
  <2>1. ASSUME NEW n \in 1 .. m  PROVE e[n] = f[n + 1]
    <3>1. e[n] = IF s[n + 1].in = i THEN s[n + 1].size ELSE 0
      BY <1>2, <1>3
    <3>2. n + 1 \in 1 .. m + 1
      BY <1>1
    <3>3. f[n + 1] = IF s[n + 1].in = i THEN s[n + 1].size ELSE 0
      BY <1>4, <3>2
    <3> QED
      BY <3>1, <3>3
  <2> QED
    BY <1>4, <2>1
<1>6. SumFunctionOnSet(e, 1 .. m) = SumFunctionOnSet(f, 1 .. m + 1) - f[1]
  BY <1>1, <1>5, SumTail
<1>7. f[1] <= From(s, i) /\ f[1] = IF Head(s).in = i THEN Head(s).size ELSE 0
  BY <1>1, <1>4
<1> QED
  BY <1>3, <1>4, <1>6, <1>7 DEF t

\* Counters c are the sums of what queues Q hold of each port and class.
IngressOf(c, Q) ==
  /\ \A i \in Port, q \in Class :
       c.pg[<<i, q>>] = SumFunction([o \in Port |-> From(Q[<<o, q>>], i)])
  /\ \A i \in Port : c.port[i] = SumFunction([q \in Class |-> c.pg[<<i, q>>]])
  /\ \A s \in Pool : c.sp[s] = SumFunctionOnSet(c.pg, PoolIn(s))
  /\ c.total = c.sp[0] + c.sp[1]

\* c charges port i and class q d bytes more than ing does, ...
MoreCharged(c, i, q, d) ==
  /\ c.pg = [ing.pg EXCEPT ![<<i, q>>] = ing.pg[<<i, q>>] + d]
  /\ c.port = [ing.port EXCEPT ![i] = ing.port[i] + d]
  /\ c.sp = [ing.sp EXCEPT ![GetIngressSP(q)] = ing.sp[GetIngressSP(q)] + d]
  /\ c.total = ing.total + d

\* ... and queue <<o, q>> of Q holds d bytes more of port i.
MoreQueued(Q, o, q, i, d) ==
  \A x \in PG, j \in Port :
    From(Q[x], j) = From(queue[x], j) + (IF x = <<o, q>> /\ j = i THEN d ELSE 0)

\* Then the counters are still the sums.
LEMMA IngressKept ==
  ASSUME IngTypes, queue \in [PG -> Seq(Packet)], IngressOf(ing, queue),
         NEW i \in Port, NEW o \in Port, NEW q \in Class, NEW d \in Int, NEW c, NEW Q,
         MoreCharged(c, i, q, d), MoreQueued(Q, o, q, i, d)
  PROVE  IngressOf(c, Q)
<1>1. /\ <<i, q>> \in PG /\ GetIngressSP(q) \in Pool
      /\ ing.pg \in [PG -> Nat] /\ ing.port \in [Port -> Nat]
      /\ ing.sp \in [Pool -> Nat] /\ ing.total \in Nat
  BY DEF IngTypes, PG, GetIngressSP, Pool
<1>2. /\ \A j \in Port, r \in Class :
           ing.pg[<<j, r>>] = SumFunction([p \in Port |-> From(queue[<<p, r>>], j)])
      /\ \A j \in Port : ing.port[j] = SumFunction([r \in Class |-> ing.pg[<<j, r>>]])
      /\ \A s \in Pool : ing.sp[s] = SumFunctionOnSet(ing.pg, PoolIn(s))
      /\ ing.total = ing.sp[0] + ing.sp[1]
  BY DEF IngressOf
<1>3. ASSUME NEW x \in PG
      PROVE  c.pg[x] = ing.pg[x] + (IF x = <<i, q>> THEN d ELSE 0) /\ ing.pg[x] \in Int
  <2> DEFINE y == <<i, q>>
  <2>1. c.pg = [ing.pg EXCEPT ![y] = ing.pg[y] + d] /\ y \in PG
    BY <1>1 DEF MoreCharged
  <2> HIDE DEF y
  <2>2. c.pg[x] = ing.pg[x] + (IF x = y THEN d ELSE 0) /\ ing.pg[x] \in Int
    BY <1>1, <2>1
  <2> QED
    BY <2>2 DEF y
<1>4. ASSUME NEW j \in Port, NEW r \in Class
      PROVE  c.pg[<<j, r>>] = SumFunction([p \in Port |-> From(Q[<<p, r>>], j)])
  <2> DEFINE f == [p \in Port |-> From(queue[<<p, r>>], j)]
             g == [p \in Port |-> From(Q[<<p, r>>], j)]
  <2>1. \A p \in Port : <<p, r>> \in PG /\ (<<p, r>> = <<o, q>> <=> p = o /\ r = q)
    BY DEF PG
  <2>2. DOMAIN f = Port /\ DOMAIN g = Port
    OBVIOUS
  <2>3. ASSUME NEW p \in Port
        PROVE  /\ f[p] \in Int
               /\ g[p] = f[p] + (IF p = o /\ r = q /\ j = i THEN d ELSE 0)
    <3>1. queue[<<p, r>>] \in Seq(Packet)
      BY <2>1
    <3>2. From(queue[<<p, r>>], j) \in Nat
      BY <3>1, FromType
    <3>3. From(Q[<<p, r>>], j) = From(queue[<<p, r>>], j)
                                   + (IF p = o /\ r = q /\ j = i THEN d ELSE 0)
      BY <2>1 DEF MoreQueued
    <3> QED
      BY <3>2, <3>3
  <2>4. ing.pg[<<j, r>>] = SumFunctionOnSet(f, Port)
    BY <1>2, <2>2 DEF SumFunction
  <2>5. /\ c.pg[<<j, r>>] = ing.pg[<<j, r>>] + (IF j = i /\ r = q THEN d ELSE 0)
        /\ ing.pg[<<j, r>>] \in Int
    BY <1>3 DEF PG
  <2> HIDE DEF f, g
  <2>6. SumFunctionOnSet(g, Port) =
          SumFunctionOnSet(f, Port) + (IF o \in Port THEN g[o] - f[o] ELSE 0)
    <3>1. \A p \in Port : f[p] \in Int /\ g[p] \in Int
      BY <2>3
    <3>2. \A p \in Port : p # o => g[p] = f[p]
      BY <2>3
    <3> QED
      BY <3>1, <3>2, FiniteIndices, SumUpdate
  <2>7. g[o] - f[o] = IF j = i /\ r = q THEN d ELSE 0
    BY <2>3
  <2>8. c.pg[<<j, r>>] = SumFunctionOnSet(g, Port)
    BY <2>4, <2>5, <2>6, <2>7
  <2> QED
    BY <2>2, <2>8 DEF SumFunction, g
<1>5. ASSUME NEW j \in Port
      PROVE  c.port[j] = SumFunction([r \in Class |-> c.pg[<<j, r>>]])
  <2> DEFINE f == [r \in Class |-> ing.pg[<<j, r>>]]
             g == [r \in Class |-> c.pg[<<j, r>>]]
  <2>1. DOMAIN f = Class /\ DOMAIN g = Class
    OBVIOUS
  <2>2. ASSUME NEW r \in Class
        PROVE  f[r] \in Int /\ g[r] = f[r] + (IF j = i /\ r = q THEN d ELSE 0)
    <3>1. <<j, r>> \in PG /\ (<<j, r>> = <<i, q>> <=> j = i /\ r = q)
      BY DEF PG
    <3>2. f[r] = ing.pg[<<j, r>>] /\ g[r] = c.pg[<<j, r>>]
      OBVIOUS
    <3> HIDE DEF f, g
    <3> QED
      BY <1>3, <3>1, <3>2
  <2>3. ing.port[j] = SumFunctionOnSet(f, Class)
    BY <1>2, <2>1 DEF SumFunction
  <2>4. c.port[j] = ing.port[j] + (IF j = i THEN d ELSE 0) /\ ing.port[j] \in Int
    BY <1>1 DEF MoreCharged
  <2> HIDE DEF f, g
  <2>5. SumFunctionOnSet(g, Class) =
          SumFunctionOnSet(f, Class) + (IF q \in Class THEN g[q] - f[q] ELSE 0)
    <3>1. \A r \in Class : f[r] \in Int /\ g[r] \in Int
      BY <2>2
    <3>2. \A r \in Class : r # q => g[r] = f[r]
      BY <2>2
    <3> QED
      BY <3>1, <3>2, FiniteIndices, SumUpdate
  <2>6. g[q] - f[q] = IF j = i THEN d ELSE 0
    BY <2>2
  <2>7. c.port[j] = SumFunctionOnSet(g, Class)
    BY <2>3, <2>4, <2>5, <2>6
  <2> QED
    BY <2>1, <2>7 DEF SumFunction, g
<1>6. ASSUME NEW s \in Pool
      PROVE  /\ c.sp[s] = SumFunctionOnSet(c.pg, PoolIn(s))
             /\ c.sp[s] = ing.sp[s] + (IF s = GetIngressSP(q) THEN d ELSE 0)
             /\ ing.sp[s] \in Int
  <2> DEFINE y == <<i, q>>
  <2>1. /\ c.sp[s] = ing.sp[s] + (IF s = GetIngressSP(q) THEN d ELSE 0)
        /\ ing.sp[s] \in Int
    BY <1>1 DEF MoreCharged
  <2>2. y \in PoolIn(s) <=> s = GetIngressSP(q)
    BY <1>1 DEF PoolIn
  <2>3. y \in PG
    BY <1>1
  <2>4. \A x \in PG : c.pg[x] = ing.pg[x] + (IF x = y THEN d ELSE 0) /\ ing.pg[x] \in Int
    BY <1>3
  <2> HIDE DEF y
  <2>5. SumFunctionOnSet(c.pg, PoolIn(s))
          = SumFunctionOnSet(ing.pg, PoolIn(s))
              + (IF y \in PoolIn(s) THEN c.pg[y] - ing.pg[y] ELSE 0)
    <3>1. \A x \in PoolIn(s) : ing.pg[x] \in Int /\ c.pg[x] \in Int
      BY <2>4, FiniteIndices
    <3>2. \A x \in PoolIn(s) : x # y => c.pg[x] = ing.pg[x]
      BY <2>4, FiniteIndices
    <3> QED
      BY <3>1, <3>2, FiniteIndices, SumUpdate
  <2>6. c.pg[y] - ing.pg[y] = d
    BY <2>3, <2>4
  <2> QED
    BY <1>2, <2>1, <2>2, <2>5, <2>6
<1>7. c.total = c.sp[0] + c.sp[1]
  <2>1. 0 \in Pool /\ 1 \in Pool /\ (GetIngressSP(q) = 0 \/ GetIngressSP(q) = 1)
    BY DEF Pool, GetIngressSP
  <2>2. c.total = ing.total + d
    BY DEF MoreCharged
  <2> QED
    BY <1>2, <1>6, <2>1, <2>2
<1> QED
  BY <1>4, <1>5, <1>6, <1>7 DEF IngressOf

\* The property says it of the switch's own counters and queues.
LEMMA IngressChargedIsOf == IngressCharged <=> IngressOf(ing, queue)
  BY DEF IngressCharged, IngressOf, From, SizeFrom, PoolIn

\* An empty switch has charged nothing.
LEMMA IngressChargedInit == Init => IngressOf(ing, queue)
<1> SUFFICES ASSUME Init  PROVE IngressOf(ing, queue)
  OBVIOUS
<1>1. /\ \A x \in PG : ing.pg[x] = 0 /\ queue[x] = <<>>
      /\ \A p \in Port : ing.port[p] = 0
      /\ \A s \in Pool : ing.sp[s] = 0
      /\ ing.total = 0
  BY DEF Init
<1>2. ASSUME NEW i \in Port  PROVE From(<<>>, i) = 0
  <2> DEFINE f == SizeFrom(<<>>, i)
  <2>1. <<>> \in Seq(Packet) /\ Len(<<>>) = 0 /\ 1 .. 0 = {}
    OBVIOUS
  <2>2. From(<<>>, i) = SumFunctionOnSet(f, {})
    BY <2>1, FromType
  <2> HIDE DEF f
  <2>3. SumFunctionOnSet(f, {}) = 0
    BY SumZero, FS_EmptySet
  <2> QED
    BY <2>2, <2>3
<1>3. ASSUME NEW i \in Port, NEW q \in Class
      PROVE  SumFunction([o \in Port |-> From(queue[<<o, q>>], i)]) = 0
  <2> DEFINE f == [o \in Port |-> From(queue[<<o, q>>], i)]
  <2>1. DOMAIN f = Port /\ \A o \in Port : f[o] = 0
    <3>1. \A o \in Port : queue[<<o, q>>] = <<>>
      BY <1>1 DEF PG
    <3> QED
      BY <1>2, <3>1
  <2> HIDE DEF f
  <2>2. SumFunctionOnSet(f, Port) = 0
    BY <2>1, FiniteIndices, SumZero
  <2> QED
    BY <2>1, <2>2 DEF SumFunction, f
<1>4. ASSUME NEW i \in Port  PROVE SumFunction([q \in Class |-> ing.pg[<<i, q>>]]) = 0
  <2> DEFINE f == [q \in Class |-> ing.pg[<<i, q>>]]
  <2>1. DOMAIN f = Class /\ \A q \in Class : f[q] = 0
    BY <1>1 DEF PG
  <2> HIDE DEF f
  <2>2. SumFunctionOnSet(f, Class) = 0
    BY <2>1, FiniteIndices, SumZero
  <2> QED
    BY <2>1, <2>2 DEF SumFunction, f
<1>5. ASSUME NEW s \in Pool  PROVE SumFunctionOnSet(ing.pg, PoolIn(s)) = 0
  BY <1>1, FiniteIndices, SumZero
<1>6. \A i \in Port, q \in Class : ing.pg[<<i, q>>] = 0
  BY <1>1 DEF PG
<1>7. ing.total = ing.sp[0] + ing.sp[1]
  BY <1>1 DEF Pool
<1> QED
  BY <1>1, <1>3, <1>4, <1>5, <1>6, <1>7 DEF IngressOf

\* A counter is at least each of the counters it sums up, and at least what a queue
\* holds of the port and class.
LEMMA IngressBounds ==
  ASSUME IngTypes, queue \in [PG -> Seq(Packet)], IngressOf(ing, queue),
         NEW i \in Port, NEW o \in Port, NEW q \in Class
  PROVE  /\ From(queue[<<o, q>>], i) <= ing.pg[<<i, q>>]
         /\ From(queue[<<o, q>>], i) \in Nat
         /\ ing.pg[<<i, q>>] <= ing.port[i]
         /\ ing.pg[<<i, q>>] <= ing.sp[GetIngressSP(q)]
         /\ ing.sp[GetIngressSP(q)] <= ing.total
<1>1. /\ <<i, q>> \in PG /\ GetIngressSP(q) \in Pool
      /\ ing.pg \in [PG -> Nat] /\ ing.port \in [Port -> Nat]
      /\ ing.sp \in [Pool -> Nat] /\ ing.total \in Nat
  BY DEF IngTypes, PG, GetIngressSP, Pool
<1>2. From(queue[<<o, q>>], i) <= ing.pg[<<i, q>>] /\ From(queue[<<o, q>>], i) \in Nat
  <2> DEFINE f == [p \in Port |-> From(queue[<<p, q>>], i)]
  <2>1. DOMAIN f = Port /\ f[o] = From(queue[<<o, q>>], i)
    OBVIOUS
  <2>2. ASSUME NEW p \in Port  PROVE f[p] \in Nat
    <3>1. queue[<<p, q>>] \in Seq(Packet)
      BY DEF PG
    <3>2. From(queue[<<p, q>>], i) \in Nat
      BY <3>1, FromType
    <3> QED
      BY <3>2
  <2>3. ing.pg[<<i, q>>] = SumFunctionOnSet(f, Port)
    BY <2>1 DEF IngressOf, SumFunction
  <2> HIDE DEF f
  <2>4. f[o] <= SumFunctionOnSet(f, Port)
    BY <2>2, FiniteIndices, SumNat
  <2> QED
    BY <2>1, <2>2, <2>3, <2>4
<1>3. ing.pg[<<i, q>>] <= ing.port[i]
  <2> DEFINE f == [r \in Class |-> ing.pg[<<i, r>>]]
  <2>1. DOMAIN f = Class /\ f[q] = ing.pg[<<i, q>>]
    OBVIOUS
  <2>2. \A r \in Class : f[r] \in Nat
    BY <1>1 DEF PG
  <2>3. ing.port[i] = SumFunctionOnSet(f, Class)
    BY <2>1 DEF IngressOf, SumFunction
  <2> HIDE DEF f
  <2>4. f[q] <= SumFunctionOnSet(f, Class)
    BY <2>2, FiniteIndices, SumNat
  <2> QED
    BY <2>1, <2>3, <2>4
<1>4. ing.pg[<<i, q>>] <= ing.sp[GetIngressSP(q)]
  <2> DEFINE y == <<i, q>>
             S == PoolIn(GetIngressSP(q))
  <2>1. y \in S
    BY <1>1 DEF PoolIn
  <2>2. IsFiniteSet(S) /\ \A x \in S : ing.pg[x] \in Nat
    BY <1>1, FiniteIndices
  <2>3. ing.sp[GetIngressSP(q)] = SumFunctionOnSet(ing.pg, S)
    BY <1>1 DEF IngressOf
  <2> HIDE DEF y, S
  <2>4. ing.pg[y] <= SumFunctionOnSet(ing.pg, S)
    BY <2>1, <2>2, SumNat
  <2> QED
    BY <2>3, <2>4 DEF y
<1>5. ing.sp[GetIngressSP(q)] <= ing.total
  <2>1. ing.total = ing.sp[0] + ing.sp[1] /\ ing.sp[0] \in Nat /\ ing.sp[1] \in Nat
    BY <1>1 DEF IngressOf, Pool
  <2> QED
    BY <2>1 DEF GetIngressSP
<1> QED
  BY <1>2, <1>3, <1>4, <1>5

\* The counters after a packet has been admitted, and after one has left: the
\* "Illegal Remove" branches are not taken.
LEMMA AdmissionCharges ==
  ASSUME IngTypes, NEW i \in Port, NEW q \in Class, NEW size \in Size
  PROVE  MoreCharged(UpdateIngressAdmission(i, q, size), i, q, size)
  BY DEF UpdateIngressAdmission, MoreCharged, IngTypes

\* A removal that finds the packet charged takes its size from every counter.
LEMMA RemovalDischarges ==
  ASSUME IngTypes, NEW i \in Port, NEW q \in Class, NEW size \in Nat,
         size <= ing.pg[<<i, q>>], size <= ing.port[i],
         size <= ing.sp[GetIngressSP(q)], size <= ing.total
  PROVE  MoreCharged(RemoveFromIngressAdmission(i, q, size), i, q, -size)
<1> DEFINE y == <<i, q>>
           s == GetIngressSP(q)
           c == RemoveFromIngressAdmission(i, q, size)
           d == -size
<1>1. /\ y \in PG /\ s \in Pool
      /\ ing.pg \in [PG -> Nat] /\ ing.port \in [Port -> Nat]
      /\ ing.sp \in [Pool -> Nat] /\ ing.total \in Nat
  BY DEF IngTypes, PG, GetIngressSP, Pool
<1>2. ASSUME NEW a \in Nat, size <= a  PROVE Less(a, size) = a + d
  BY <1>2 DEF Less
<1>3. /\ Less(ing.pg[y], size) = ing.pg[y] + d
      /\ Less(ing.port[i], size) = ing.port[i] + d
      /\ Less(ing.sp[s], size) = ing.sp[s] + d
      /\ Less(ing.total, size) = ing.total + d
  <2> HIDE DEF d
  <2> QED
    BY <1>1, <1>2
<1>4. /\ c.pg = [ing.pg EXCEPT ![y] = Less(ing.pg[y], size)]
      /\ c.port = [ing.port EXCEPT ![i] = Less(ing.port[i], size)]
      /\ c.sp = [ing.sp EXCEPT ![s] = Less(ing.sp[s], size)]
      /\ c.total = Less(ing.total, size)
  BY DEF RemoveFromIngressAdmission
<1> HIDE DEF c, d, y, s
<1>5. /\ c.pg = [ing.pg EXCEPT ![y] = ing.pg[y] + d]
      /\ c.port = [ing.port EXCEPT ![i] = ing.port[i] + d]
      /\ c.sp = [ing.sp EXCEPT ![s] = ing.sp[s] + d]
      /\ c.total = ing.total + d
  BY <1>3, <1>4
<1> QED
  BY <1>5 DEF MoreCharged, c, d, y, s

\* What the queues hold after a packet has joined one, and after it has left.
LEMMA JoiningQueues ==
  ASSUME QueueInv, NEW i \in Port, NEW o \in Port, NEW q \in Class, NEW size \in Size,
         SwitchSend(i, o, q, size)
  PROVE  MoreQueued(queue', o, q, i, size)
<1> DEFINE y == <<o, q>>
           p == [in |-> i, size |-> size, ahead |-> Bytes(queue[y])]
<1>1. /\ y \in PG /\ queue \in [PG -> Seq(Packet)]
      /\ queue' = [queue EXCEPT ![y] = Append(queue[y], p)]
  BY DEF QueueInv, PG, SwitchSend
<1>2. Bytes(queue[y]) \in Nat
  <2> DEFINE t == queue[y]
             z == t[Len(t)]
  <2>1. t # <<>> => z \in Packet
    BY <1>1
  <2> HIDE DEF z
  <2>2. t # <<>> => z.ahead \in Nat /\ z.size \in Nat
    BY <2>1, SizeNat DEF Packet
  <2>3. t # <<>> => z.ahead + z.size \in Nat
    BY <2>2
  <2> HIDE DEF t
  <2>4. Bytes(t) \in Nat
    BY <2>3 DEF Bytes, z
  <2> QED
    BY <2>4 DEF t
<1>3. p \in Packet /\ p.in = i /\ p.size = size /\ size \in Nat
  BY <1>2, SizeNat DEF Packet
<1> HIDE DEF y, p
<1>4. ASSUME NEW x \in PG, NEW j \in Port
      PROVE  From(queue'[x], j) =
               From(queue[x], j) + (IF x = y /\ j = i THEN size ELSE 0)
  <2>0. queue[x] \in Seq(Packet) /\ From(queue[x], j) \in Nat
    BY <1>1, FromType
  <2>1. CASE x = y
    <3>1. queue'[x] = Append(queue[x], p)
      BY <1>1, <2>1
    <3>2. From(queue'[x], j) = From(queue[x], j) + (IF p.in = j THEN p.size ELSE 0)
      BY <1>3, <2>0, <3>1, FromJoin
    <3> QED
      BY <1>3, <2>1, <3>2
  <2>2. CASE x # y
    BY <1>1, <2>0, <2>2
  <2> QED
    BY <2>1, <2>2
<1> QED
  BY <1>4 DEF MoreQueued, y

\* The head that leaves takes its size from what the queues hold of its input.
LEMMA LeavingQueues ==
  ASSUME QueueInv, NEW o \in Port, NEW q \in Class, SwitchNotifyDequeue(o, q)
  PROVE  LET h == Head(queue[<<o, q>>])
         IN  /\ h.in \in Port /\ h.size \in Nat
             /\ h.size <= From(queue[<<o, q>>], h.in)
             /\ MoreQueued(queue', o, q, h.in, -h.size)
<1> DEFINE y == <<o, q>>
           h == Head(queue[y])
           d == -h.size
<1>1. /\ y \in PG /\ queue \in [PG -> Seq(Packet)] /\ queue[y] # <<>>
      /\ queue' = [queue EXCEPT ![y] = Rest(queue[y])]
      /\ Contiguous(queue[y])
  BY DEF QueueInv, PG, SwitchNotifyDequeue
<1>2. h \in Packet /\ Rest(queue[y]) \in Seq(Packet)
  BY <1>1, LeaveQueue
<1>3. h.in \in Port /\ h.size \in Nat /\ d \in Int
  <2> HIDE DEF h, d
  <2>1. h.in \in Port /\ h.size \in Size
    BY <1>2 DEF Packet
  <2>2. h.size \in Nat
    BY <2>1, SizeNat
  <2>3. d \in Int
    BY <2>2 DEF d
  <2> QED
    BY <2>1, <2>2, <2>3
<1>4. h.size <= From(queue[y], h.in)
  BY <1>1, <1>2, <1>3, FromLeave
<1>5. ASSUME NEW x \in PG, NEW j \in Port
      PROVE  From(queue'[x], j) =
               From(queue[x], j) + (IF x = y /\ j = h.in THEN d ELSE 0)
  <2>0. queue[x] \in Seq(Packet) /\ From(queue[x], j) \in Nat
    BY <1>1, FromType
  <2>1. CASE x = y
    <3>1. queue'[x] = Rest(queue[x])
      BY <1>1, <2>1
    <3>2. From(Rest(queue[y]), j) =
            From(queue[y], j) - (IF h.in = j THEN h.size ELSE 0)
      BY <1>1, <1>2, FromLeave
    <3> QED
      BY <1>3, <2>0, <2>1, <3>1, <3>2
  <2>2. CASE x # y
    BY <1>1, <2>0, <2>2
  <2> QED
    BY <2>1, <2>2
<1>6. MoreQueued(queue', o, q, h.in, d)
  BY <1>5 DEF MoreQueued
<1> QED
  BY <1>3, <1>4, <1>6

\* The head that leaves takes its size from the counters.
LEMMA LeavingDischarges ==
  ASSUME QueueInv, IngTypes, IngressOf(ing, queue), NEW o \in Port, NEW q \in Class,
         SwitchNotifyDequeue(o, q)
  PROVE  LET h == Head(queue[<<o, q>>])
         IN  MoreCharged(ing', h.in, q, -h.size)
<1> DEFINE h == Head(queue[<<o, q>>])
           d == -h.size
<1>0. queue \in [PG -> Seq(Packet)]
  BY DEF QueueInv
<1>1. /\ h.in \in Port /\ h.size \in Nat /\ d \in Int
      /\ h.size <= From(queue[<<o, q>>], h.in)
      /\ MoreQueued(queue', o, q, h.in, d)
  BY LeavingQueues
<1>2. ing' = RemoveFromIngressAdmission(h.in, q, h.size)
  BY DEF SwitchNotifyDequeue
<1> HIDE DEF h
<1>3. MoreCharged(ing', h.in, q, d)
  <2> DEFINE n == From(queue[<<o, q>>], h.in)
  <2>1. /\ n <= ing.pg[<<h.in, q>>] /\ n \in Nat
        /\ ing.pg[<<h.in, q>>] <= ing.port[h.in]
        /\ ing.pg[<<h.in, q>>] <= ing.sp[GetIngressSP(q)]
        /\ ing.sp[GetIngressSP(q)] <= ing.total
    BY <1>0, <1>1, IngressBounds
  <2>2. /\ ing.pg[<<h.in, q>>] \in Nat /\ ing.port[h.in] \in Nat
        /\ ing.sp[GetIngressSP(q)] \in Nat /\ ing.total \in Nat
    BY <1>1 DEF IngTypes, PG, GetIngressSP, Pool
  <2>3. h.size <= n
    BY <1>1
  <2> HIDE DEF n
  <2>4. /\ h.size <= ing.pg[<<h.in, q>>] /\ h.size <= ing.port[h.in]
        /\ h.size <= ing.sp[GetIngressSP(q)] /\ h.size <= ing.total
    BY <1>1, <2>1, <2>2, <2>3
  <2> QED
    BY <1>1, <1>2, <2>4, RemovalDischarges
<1> QED
  BY <1>1, <1>3 DEF h

\* A packet changes what its queue holds of its port by its size, and the counters
\* of its port, class and pool, and the total, by as much.
LEMMA IngressChargedStep ==
  QueueInv /\ HeadroomInv /\ IngressCharged /\ [Next]_vars => IngressCharged'
<1> SUFFICES ASSUME QueueInv, HeadroomInv, IngressCharged, [Next]_vars
             PROVE  IngressOf(ing', queue')
  BY DEF IngressCharged, IngressOf, From, SizeFrom, PoolIn
<1>0. IngTypes /\ queue \in [PG -> Seq(Packet)] /\ IngressOf(ing, queue)
  BY IngressChargedIsOf DEF HeadroomInv, QueueInv
<1>1. ASSUME NEW i \in Port, NEW o \in Port, NEW q \in Class, NEW size \in Size,
             SwitchSend(i, o, q, size)
      PROVE  IngressOf(ing', queue')
  <2>1. MoreCharged(ing', i, q, size)
    BY <1>0, <1>1, AdmissionCharges DEF SwitchSend
  <2>2. MoreQueued(queue', o, q, i, size) /\ size \in Int
    BY <1>1, JoiningQueues, SizeNat
  <2> QED
    BY <1>0, <2>1, <2>2, IngressKept
<1>2. ASSUME NEW o \in Port, NEW q \in Class, SwitchNotifyDequeue(o, q)
      PROVE  IngressOf(ing', queue')
  <2> DEFINE n == Head(queue[<<o, q>>])
             d == -n.size
  <2>1. /\ n.in \in Port /\ d \in Int /\ MoreQueued(queue', o, q, n.in, d)
        /\ MoreCharged(ing', n.in, q, d)
    BY <1>0, <1>2, LeavingQueues, LeavingDischarges
  <2> HIDE DEF n, d
  <2> QED
    BY <1>0, <2>1, IngressKept
<1>3. CASE UNCHANGED <<ing, queue>>
  BY <1>0, <1>3
<1>4. ASSUME NEW i \in Port, NEW o \in Port, NEW q \in Class, NEW size \in Size,
             DropAtIngress(i, o, q, size) \/ DropAtEgress(i, o, q, size)
      PROVE  UNCHANGED <<ing, queue>>
  BY <1>4 DEF DropAtIngress, DropAtEgress
<1>5. ASSUME NEW i \in Port, NEW q \in Class, SetResume(i, q)
      PROVE  UNCHANGED <<ing, queue>>
  BY <1>5 DEF SetResume
<1>6. CASE UNCHANGED vars
  BY <1>3, <1>6 DEF vars
<1> QED
  BY <1>1, <1>2, <1>3, <1>4, <1>5, <1>6 DEF Next

\* In whatever order packets leave, the ingress counters are what the switch
\* contains of each port and class: RemoveFromIngressAdmission never finds less
\* than it has to remove, so "Illegal Remove" is never printed and no byte stays
\* charged to a port whose packets have left.
THEOREM IngressChargedAlways == Spec => []IngressCharged
<1>1. EgressInv => QueueInv
  BY DEF EgressInv
<1> QED
  BY <1>1, EgressInvInit, EgressInvStep, HeadroomInvInit, HeadroomInvStep,
     IngressChargedInit, IngressChargedIsOf, IngressChargedStep, PTL DEF Spec

-----------------------------------------------------------------------------
(* Headroom.                                                               *)

\* What an arrival does to a pool and to headroom ...
LEMMA ArrivalAtPool ==
  ASSUME IngTypes, NEW i \in Port, NEW q \in Class, NEW size \in Size,
         NEW c, c = UpdateIngressAdmission(i, q, size)
  PROVE  /\ c.hdrm \in [PG -> Nat]
         /\ \A x \in PG \ {<<i, q>>} : c.hdrm[x] = ing.hdrm[x]
         /\ c.hdrm[<<i, q>>] = IF ing.sp[GetIngressSP(q)] + size > BufferLimitSp
                               THEN ing.hdrm[<<i, q>>] + size ELSE ing.hdrm[<<i, q>>]
         /\ c.sp = [ing.sp EXCEPT ![GetIngressSP(q)] = ing.sp[GetIngressSP(q)] + size]
<1> DEFINE y == <<i, q>>
           p == GetIngressSP(q)
           e == UpdateIngressAdmission(i, q, size)
<1>1. /\ e \in [total : Nat, sp : [Pool -> Nat], port : [Port -> Nat],
                pg : [PG -> Nat], hdrm : [PG -> Nat]]
      /\ \A x \in PG \ {<<i, q>>} :
            e.pg[x] = ing.pg[x] /\ e.hdrm[x] = ing.hdrm[x]
  BY ChargeIngress, ZenonT(40)
<1>2. MoreCharged(e, i, q, size)
  BY AdmissionCharges
<1>3. y \in PG /\ ing.hdrm \in [PG -> Nat]
  BY DEF IngTypes, PG
<1>4. e.hdrm = [ing.hdrm EXCEPT ![y] = IF ing.sp[p] + size > BufferLimitSp
                                       THEN ing.hdrm[y] + size ELSE ing.hdrm[y]]
  BY DEF UpdateIngressAdmission
<1>5. c = e
  OBVIOUS
<1> HIDE DEF y, p, e
<1>6. e.hdrm[y] = IF ing.sp[p] + size > BufferLimitSp
                  THEN ing.hdrm[y] + size ELSE ing.hdrm[y]
  BY <1>3, <1>4
<1> QED
  BY <1>1, <1>2, <1>5, <1>6 DEF MoreCharged, y, p

\* ... and a departure, of n bytes that a queue holds of the port.
LEMMA DepartureFromPool ==
  ASSUME IngTypes, queue \in [PG -> Seq(Packet)], IngressOf(ing, queue),
         NEW i \in Port, NEW o \in Port, NEW q \in Class,
         NEW size \in Nat, size <= From(queue[<<o, q>>], i),
         NEW c, c = RemoveFromIngressAdmission(i, q, size)
  PROVE  /\ size <= ing.sp[GetIngressSP(q)]
         /\ c.hdrm \in [PG -> Nat]
         /\ \A x \in PG \ {<<i, q>>} : c.hdrm[x] = ing.hdrm[x]
         /\ c.hdrm[<<i, q>>] = Less(ing.hdrm[<<i, q>>], size)
         /\ c.sp = [ing.sp EXCEPT ![GetIngressSP(q)] =
                      ing.sp[GetIngressSP(q)] + (-size)]
<1> DEFINE e == RemoveFromIngressAdmission(i, q, size)
           p == GetIngressSP(q)
<1>1. size <= ing.sp[p] /\ ing.sp[p] \in Nat
  <2>1. /\ From(queue[<<o, q>>], i) <= ing.pg[<<i, q>>]
        /\ From(queue[<<o, q>>], i) \in Nat
        /\ ing.pg[<<i, q>>] <= ing.sp[p]
    BY IngressBounds
  <2>2. ing.pg[<<i, q>>] \in Nat /\ ing.sp[p] \in Nat
    BY DEF IngTypes, PG, GetIngressSP, Pool
  <2> QED
    BY <2>1, <2>2
<1>2. /\ e \in [total : Nat, sp : [Pool -> Nat], port : [Port -> Nat],
                pg : [PG -> Nat], hdrm : [PG -> Nat]]
      /\ \A x \in PG \ {<<i, q>>} :
            e.pg[x] = ing.pg[x] /\ e.hdrm[x] = ing.hdrm[x]
      /\ e.pg[<<i, q>>] = Less(ing.pg[<<i, q>>], size)
      /\ e.hdrm[<<i, q>>] = Less(ing.hdrm[<<i, q>>], size)
  BY DischargeIngress, ZenonT(40)
<1>3. e.sp = [ing.sp EXCEPT ![p] = ing.sp[p] + (-size)]
  <2>1. e.sp = [ing.sp EXCEPT ![p] = Less(ing.sp[p], size)]
    BY DEF RemoveFromIngressAdmission
  <2>2. Less(ing.sp[p], size) = ing.sp[p] + (-size)
    BY <1>1 DEF Less
  <2> HIDE DEF e, p
  <2> QED
    BY <2>1, <2>2
<1>4. c = e
  OBVIOUS
<1> HIDE DEF e
<1> QED
  BY <1>1, <1>2, <1>3, <1>4

\* If a pool and the headroom of its classes change together, or the pool ends up
\* within its limit, what it holds beyond its limit is still headroom.
LEMMA ExcessKept ==
  ASSUME IngTypes, ExcessIsHeadroom, NEW i \in Port, NEW q \in Class,
         NEW d \in Int, NEW c,
         c.hdrm \in [PG -> Nat], \A x \in PG \ {<<i, q>>} : c.hdrm[x] = ing.hdrm[x],
         c.sp = [ing.sp EXCEPT ![GetIngressSP(q)] = ing.sp[GetIngressSP(q)] + d],
         \/ c.hdrm[<<i, q>>] >= ing.hdrm[<<i, q>>] + d
         \/ c.sp[GetIngressSP(q)] <= BufferLimitSp
  PROVE  \A s \in Pool : c.sp[s] <= BufferLimitSp + SumFunctionOnSet(c.hdrm, PoolIn(s))
<1> DEFINE y == <<i, q>>
           p == GetIngressSP(q)
<1>1. /\ y \in PG /\ p \in Pool /\ BufferLimitSp \in Nat
      /\ ing.hdrm \in [PG -> Nat] /\ ing.sp \in [Pool -> Nat]
  BY SizeNat DEF IngTypes, PG, GetIngressSP, Pool
<1> SUFFICES ASSUME NEW s \in Pool
             PROVE  c.sp[s] <= BufferLimitSp + SumFunctionOnSet(c.hdrm, PoolIn(s))
  OBVIOUS
<1> DEFINE m == SumFunctionOnSet(ing.hdrm, PoolIn(s))
           n == SumFunctionOnSet(c.hdrm, PoolIn(s))
<1>2. y \in PoolIn(s) <=> s = p
  BY <1>1 DEF PoolIn
<1>3. c.hdrm[y] \in Nat /\ ing.hdrm[y] \in Nat /\ ing.sp[s] \in Nat
  BY <1>1
<1>4. c.sp[s] = ing.sp[s] + (IF s = p THEN d ELSE 0)
  BY <1>1
<1>5. ing.sp[s] <= BufferLimitSp + m
  BY DEF ExcessIsHeadroom, PoolIn
<1>6. \A x \in PoolIn(s) : x # y => c.hdrm[x] = ing.hdrm[x]
  BY FiniteIndices
<1>7. \A x \in PoolIn(s) : ing.hdrm[x] \in Nat /\ c.hdrm[x] \in Nat
  BY <1>1, FiniteIndices
<1>8. \/ c.hdrm[y] >= ing.hdrm[y] + d
      \/ c.sp[p] <= BufferLimitSp
  OBVIOUS
<1> HIDE DEF y, p
<1>9. n = m + (IF y \in PoolIn(s) THEN c.hdrm[y] - ing.hdrm[y] ELSE 0)
  <2>1. \A x \in PoolIn(s) : ing.hdrm[x] \in Int /\ c.hdrm[x] \in Int
    BY <1>7
  <2> QED
    BY <1>6, <2>1, FiniteIndices, SumUpdate
<1>10. m \in Nat /\ n \in Nat
  BY <1>7, FiniteIndices, SumNat
<1> HIDE DEF m, n
<1> QED
  BY <1>1, <1>2, <1>3, <1>4, <1>5, <1>8, <1>9, <1>10 DEF n

\* An empty pool is within its limit.
LEMMA ExcessInit == Init => ExcessIsHeadroom
<1> SUFFICES ASSUME Init, NEW s \in Pool
             PROVE  ing.sp[s] <= BufferLimitSp + SumFunctionOnSet(ing.hdrm, PoolIn(s))
  BY DEF ExcessIsHeadroom, PoolIn
<1>1. ing.sp[s] = 0 /\ \A x \in PG : ing.hdrm[x] = 0
  BY DEF Init
<1>2. SumFunctionOnSet(ing.hdrm, PoolIn(s)) = 0
  BY <1>1, FiniteIndices, SumZero
<1> QED
  BY <1>1, <1>2, SizeNat

\* Admission charges headroom whenever it takes the pool over its limit; removal
\* takes no more from headroom than from the pool.
LEMMA ExcessStep ==
  QueueInv /\ HeadroomInv /\ IngressCharged /\ ExcessIsHeadroom /\ [Next]_vars
    => ExcessIsHeadroom'
<1> SUFFICES ASSUME QueueInv, HeadroomInv, IngressCharged, ExcessIsHeadroom, [Next]_vars
             PROVE  \A s \in Pool :
                      ing'.sp[s] <= BufferLimitSp + SumFunctionOnSet(ing'.hdrm, PoolIn(s))
  BY DEF ExcessIsHeadroom, PoolIn
<1>0. IngTypes /\ queue \in [PG -> Seq(Packet)] /\ IngressOf(ing, queue)
  BY IngressChargedIsOf DEF HeadroomInv, QueueInv
<1>1. ASSUME NEW i \in Port, NEW o \in Port, NEW q \in Class, NEW size \in Size,
             SwitchSend(i, o, q, size)
      PROVE  \A s \in Pool :
               ing'.sp[s] <= BufferLimitSp + SumFunctionOnSet(ing'.hdrm, PoolIn(s))
  <2> DEFINE y == <<i, q>>
             p == GetIngressSP(q)
  <2>1. ing' = UpdateIngressAdmission(i, q, size)
    BY <1>1 DEF SwitchSend
  <2>2. /\ ing'.hdrm \in [PG -> Nat]
        /\ \A x \in PG \ {y} : ing'.hdrm[x] = ing.hdrm[x]
        /\ ing'.hdrm[y] = IF ing.sp[p] + size > BufferLimitSp
                          THEN ing.hdrm[y] + size ELSE ing.hdrm[y]
        /\ ing'.sp = [ing.sp EXCEPT ![p] = ing.sp[p] + size]
    BY <1>0, <2>1, ArrivalAtPool
  <2>3. /\ y \in PG /\ p \in Pool /\ ing.hdrm[y] \in Nat /\ ing.sp[p] \in Nat
        /\ BufferLimitSp \in Nat /\ size \in Int /\ ing.sp \in [Pool -> Nat]
    BY <1>0, SizeNat DEF IngTypes, PG, GetIngressSP, Pool
  <2>4. ing'.hdrm[y] >= ing.hdrm[y] + size \/ ing'.sp[p] <= BufferLimitSp
    <3> HIDE DEF y, p
    <3>1. ing'.sp[p] = ing.sp[p] + size
      BY <2>2, <2>3
    <3> QED
      BY <2>2, <2>3, <3>1
  <2> QED
    BY <1>0, <2>2, <2>3, <2>4, ExcessKept
<1>2. ASSUME NEW o \in Port, NEW q \in Class, SwitchNotifyDequeue(o, q)
      PROVE  \A s \in Pool :
               ing'.sp[s] <= BufferLimitSp + SumFunctionOnSet(ing'.hdrm, PoolIn(s))
  <2>1. PICK i \in Port, size \in Nat :
          /\ ing' = RemoveFromIngressAdmission(i, q, size)
          /\ size <= From(queue[<<o, q>>], i)
    BY <1>2, LeavingQueues DEF SwitchNotifyDequeue
  <2> DEFINE y == <<i, q>>
             d == -size
  <2>2. /\ ing'.hdrm \in [PG -> Nat]
        /\ \A x \in PG \ {y} : ing'.hdrm[x] = ing.hdrm[x]
        /\ ing'.hdrm[y] = Less(ing.hdrm[y], size)
        /\ ing'.sp = [ing.sp EXCEPT ![GetIngressSP(q)] = ing.sp[GetIngressSP(q)] + d]
    BY <1>0, <2>1, DepartureFromPool
  <2>3. ing.hdrm[y] \in Nat /\ d \in Int
    BY <1>0 DEF IngTypes, PG
  <2>4. ing'.hdrm[y] >= ing.hdrm[y] + d
    BY <2>2, <2>3 DEF Less
  <2> HIDE DEF d
  <2> QED
    BY <1>0, <2>2, <2>3, <2>4, ExcessKept
<1>3. CASE UNCHANGED ing
  BY <1>3 DEF ExcessIsHeadroom, PoolIn
<1>4. ASSUME NEW i \in Port, NEW o \in Port, NEW q \in Class, NEW size \in Size,
             DropAtIngress(i, o, q, size) \/ DropAtEgress(i, o, q, size)
      PROVE  UNCHANGED ing
  BY <1>4 DEF DropAtIngress, DropAtEgress
<1>5. ASSUME NEW i \in Port, NEW q \in Class, SetResume(i, q)
      PROVE  UNCHANGED ing
  BY <1>5 DEF SetResume
<1>6. CASE UNCHANGED vars
  BY <1>3, <1>6 DEF vars
<1> QED
  BY <1>1, <1>2, <1>3, <1>4, <1>5, <1>6 DEF Next

\* What a class may be charged is a number, and so is what it is charged of that.
LEMMA AllowedType ==
  /\ \A x \in PG : Allowance(x) \in Nat /\ Allowance(x) >= PgMin /\ Allowance(x) >= PortMin
                  /\ Allowance(x) >= HdrmLimit[x[1]] /\ HdrmLimit[x[1]] \in Nat
  /\ \A h \in [PG -> Nat] :
        /\ Allowed(h) \in [PG -> Nat]
        /\ \A x \in PG : Allowed(h)[x] = IF h[x] < Allowance(x) THEN h[x] ELSE Allowance(x)
<1>1. ASSUME NEW x \in PG
      PROVE  /\ Allowance(x) \in Nat /\ Allowance(x) >= PgMin /\ Allowance(x) >= PortMin
             /\ Allowance(x) >= HdrmLimit[x[1]] /\ HdrmLimit[x[1]] \in Nat
  <2>1. x[1] \in 0 .. PortCnt
    BY SizeNat DEF PG, Port
  <2>2. HdrmLimit[x[1]] \in Nat
    BY <2>1, SizeAssumption
  <2> QED
    BY <2>2, SizeNat DEF Allowance
<1> QED
  BY <1>1 DEF Allowed

\* If a pool and the headroom in use change together, or the pool ends up within a
\* packet of its limit, it still is within the headroom that is configured.
LEMMA AllowedKept ==
  ASSUME IngTypes, PoolWithinHeadroom, NEW i \in Port, NEW q \in Class,
         NEW d \in Int, NEW c,
         c.hdrm \in [PG -> Nat], \A x \in PG \ {<<i, q>>} : c.hdrm[x] = ing.hdrm[x],
         c.sp = [ing.sp EXCEPT ![GetIngressSP(q)] = ing.sp[GetIngressSP(q)] + d],
         \/ Allowed(c.hdrm)[<<i, q>>] >= Allowed(ing.hdrm)[<<i, q>>] + d
         \/ \E size \in Size \union {0} : c.sp[GetIngressSP(q)] <= BufferLimitSp + size
  PROVE  \A s \in Pool : \E size \in Size \union {0} :
           c.sp[s] <= BufferLimitSp + size + SumFunctionOnSet(Allowed(c.hdrm), PoolIn(s))
<1> DEFINE y == <<i, q>>
           p == GetIngressSP(q)
           f == Allowed(ing.hdrm)
           e == Allowed(c.hdrm)
<1>1. /\ y \in PG /\ p \in Pool /\ BufferLimitSp \in Nat
      /\ ing.hdrm \in [PG -> Nat] /\ ing.sp \in [Pool -> Nat]
      /\ Size \union {0} \subseteq Nat
  BY SizeNat DEF IngTypes, PG, GetIngressSP, Pool
<1>2. /\ f \in [PG -> Nat] /\ e \in [PG -> Nat]
      /\ \A x \in PG : x # y => e[x] = f[x]
  BY <1>1, AllowedType
<1> SUFFICES ASSUME NEW s \in Pool
             PROVE  \E size \in Size \union {0} :
                      c.sp[s] <= BufferLimitSp + size + SumFunctionOnSet(e, PoolIn(s))
  OBVIOUS
<1> DEFINE m == SumFunctionOnSet(f, PoolIn(s))
           n == SumFunctionOnSet(e, PoolIn(s))
<1>3. PICK z \in Size \union {0} : ing.sp[s] <= BufferLimitSp + z + m
  BY DEF PoolWithinHeadroom, PoolIn
<1>4. y \in PoolIn(s) <=> s = p
  BY <1>1 DEF PoolIn
<1>5. c.sp[s] = ing.sp[s] + (IF s = p THEN d ELSE 0) /\ ing.sp[s] \in Nat
  BY <1>1
<1>6. \/ e[y] >= f[y] + d
      \/ \E size \in Size \union {0} : c.sp[p] <= BufferLimitSp + size
  OBVIOUS
<1> HIDE DEF y, p, f, e
<1>7. \A x \in PoolIn(s) : /\ f[x] \in Nat /\ e[x] \in Nat
                           /\ x # y => e[x] = f[x]
  BY <1>2, FiniteIndices
<1>8. n = m + (IF y \in PoolIn(s) THEN e[y] - f[y] ELSE 0)
  <2>1. \A x \in PoolIn(s) : f[x] \in Int /\ e[x] \in Int
    BY <1>7
  <2> QED
    BY <1>7, <2>1, FiniteIndices, SumUpdate
<1>9. m \in Nat /\ n \in Nat /\ e[y] \in Nat /\ f[y] \in Nat
  BY <1>1, <1>2, <1>7, FiniteIndices, SumNat
<1> HIDE DEF m, n
<1>10. CASE s # p
  BY <1>1, <1>3, <1>4, <1>5, <1>8, <1>9, <1>10 DEF n
<1>11. CASE s = p /\ e[y] >= f[y] + d
  BY <1>1, <1>3, <1>4, <1>5, <1>8, <1>9, <1>11 DEF n
<1>12. ASSUME s = p, NEW size \in Size \union {0}, c.sp[p] <= BufferLimitSp + size
       PROVE  c.sp[s] <= BufferLimitSp + size + n
  BY <1>1, <1>5, <1>9, <1>12
<1> QED
  BY <1>6, <1>10, <1>11, <1>12 DEF n

\* An empty pool is within its limit.
LEMMA WithinHeadroomInit == Init => PoolWithinHeadroom
<1> SUFFICES ASSUME Init, NEW s \in Pool
             PROVE  ing.sp[s] <= BufferLimitSp + 0
                                   + SumFunctionOnSet(Allowed(ing.hdrm), PoolIn(s))
  BY DEF PoolWithinHeadroom, PoolIn
<1>1. ing.sp[s] = 0 /\ ing.hdrm \in [PG -> Nat]
  BY DEF Init
<1>2. \A x \in PoolIn(s) : Allowed(ing.hdrm)[x] \in Nat
  BY <1>1, AllowedType, FiniteIndices
<1>3. SumFunctionOnSet(Allowed(ing.hdrm), PoolIn(s)) \in Nat
  BY <1>2, FiniteIndices, SumNat
<1> QED
  BY <1>1, <1>3, SizeNat

\* A packet is admitted to a pool that is over its limit only if its class stays within
\* what it is allowed; the first one over the limit is the one packet more.
LEMMA WithinHeadroomStep ==
  QueueInv /\ HeadroomInv /\ IngressCharged /\ PoolWithinHeadroom /\ [Next]_vars
    => PoolWithinHeadroom'
<1> DEFINE Within(c) ==
             \A s \in Pool : \E size \in Size \union {0} :
               c.sp[s] <= BufferLimitSp + size + SumFunctionOnSet(Allowed(c.hdrm), PoolIn(s))
<1> SUFFICES ASSUME QueueInv, HeadroomInv, IngressCharged, PoolWithinHeadroom, [Next]_vars
             PROVE  Within(ing')
  BY DEF PoolWithinHeadroom, PoolIn, Allowed, Allowance
<1>0. IngTypes /\ queue \in [PG -> Seq(Packet)] /\ IngressOf(ing, queue)
  BY IngressChargedIsOf DEF HeadroomInv, QueueInv
<1>1. ASSUME NEW i \in Port, NEW o \in Port, NEW q \in Class, NEW size \in Size,
             SwitchSend(i, o, q, size)
      PROVE  Within(ing')
  <2> DEFINE y == <<i, q>>
             p == GetIngressSP(q)
  <2>1. ing' = UpdateIngressAdmission(i, q, size) /\ CheckIngressAdmission(i, q, size)
    BY <1>1 DEF SwitchSend
  <2>2. /\ ing'.hdrm \in [PG -> Nat]
        /\ \A x \in PG \ {y} : ing'.hdrm[x] = ing.hdrm[x]
        /\ ing'.hdrm[y] = IF ing.sp[p] + size > BufferLimitSp
                          THEN ing.hdrm[y] + size ELSE ing.hdrm[y]
        /\ ing'.sp = [ing.sp EXCEPT ![p] = ing.sp[p] + size]
    BY <1>0, <2>1, ArrivalAtPool
  <2>3. /\ y \in PG /\ p \in Pool /\ ing.hdrm \in [PG -> Nat] /\ ing.hdrm[y] \in Nat
        /\ ing.sp \in [Pool -> Nat] /\ ing.sp[p] \in Nat
        /\ ing.pg[y] \in Nat /\ ing.port[i] \in Nat
        /\ BufferLimitSp \in Nat /\ size \in Nat /\ size \in Int
    BY <1>0, SizeNat DEF IngTypes, PG, GetIngressSP, Pool
  <2>4. ing.hdrm[y] <= ing.pg[y] /\ ing.pg[y] <= ing.port[i]
    BY <1>0, <2>3, IngressBounds DEF HeadroomInv, HeadroomWithinClass
  <2>5. ASSUME ing.sp[p] <= BufferLimitSp
        PROVE  \E z \in Size \union {0} : ing'.sp[p] <= BufferLimitSp + z
    <3> HIDE DEF y, p
    <3>1. ing'.sp[p] <= BufferLimitSp + size
      BY <2>2, <2>3, <2>5
    <3> QED
      BY <3>1
  <2>6. ASSUME ing.sp[p] > BufferLimitSp
        PROVE  Allowed(ing'.hdrm)[y] >= Allowed(ing.hdrm)[y] + size
    <3>1. \/ ing.pg[y] + size <= PgMin
          \/ ing.port[i] + size <= PortMin
          \/ ing.hdrm[y] + size <= HdrmLimit[i]
      BY <2>1, <2>3, <2>6 DEF CheckIngressAdmission
    <3>2. /\ Allowance(y) \in Nat /\ Allowance(y) >= PgMin /\ Allowance(y) >= PortMin
          /\ Allowance(y) >= HdrmLimit[i] /\ HdrmLimit[i] \in Nat
      BY <2>3, AllowedType
    <3>3. ing.hdrm[y] + size <= Allowance(y)
      BY <2>3, <2>4, <3>1, <3>2, SizeNat
    <3>4. /\ Allowed(ing.hdrm)[y] = IF ing.hdrm[y] < Allowance(y) THEN ing.hdrm[y]
                                    ELSE Allowance(y)
          /\ Allowed(ing'.hdrm)[y] = IF ing'.hdrm[y] < Allowance(y) THEN ing'.hdrm[y]
                                     ELSE Allowance(y)
      BY <2>2, <2>3, AllowedType
    <3>5. ing'.hdrm[y] = ing.hdrm[y] + size
      BY <2>2, <2>3, <2>6
    <3> HIDE DEF y, p
    <3> QED
      BY <2>3, <3>2, <3>3, <3>4, <3>5
  <2>7. \/ Allowed(ing'.hdrm)[y] >= Allowed(ing.hdrm)[y] + size
        \/ \E z \in Size \union {0} : ing'.sp[p] <= BufferLimitSp + z
    BY <2>3, <2>5, <2>6
  <2> QED
    BY <1>0, <2>2, <2>3, <2>7, AllowedKept
<1>2. ASSUME NEW o \in Port, NEW q \in Class, SwitchNotifyDequeue(o, q)
      PROVE  Within(ing')
  <2>1. PICK i \in Port, size \in Nat :
          /\ ing' = RemoveFromIngressAdmission(i, q, size)
          /\ size <= From(queue[<<o, q>>], i)
    BY <1>2, LeavingQueues DEF SwitchNotifyDequeue
  <2> DEFINE y == <<i, q>>
             d == -size
  <2>2. /\ ing'.hdrm \in [PG -> Nat]
        /\ \A x \in PG \ {y} : ing'.hdrm[x] = ing.hdrm[x]
        /\ ing'.hdrm[y] = Less(ing.hdrm[y], size)
        /\ ing'.sp = [ing.sp EXCEPT ![GetIngressSP(q)] = ing.sp[GetIngressSP(q)] + d]
    BY <1>0, <2>1, DepartureFromPool
  <2>3. y \in PG /\ ing.hdrm \in [PG -> Nat] /\ ing.hdrm[y] \in Nat /\ d \in Int
    BY <1>0 DEF IngTypes, PG
  <2>4. /\ Allowance(y) \in Nat
        /\ Allowed(ing.hdrm)[y] = IF ing.hdrm[y] < Allowance(y) THEN ing.hdrm[y]
                                  ELSE Allowance(y)
        /\ Allowed(ing'.hdrm)[y] = IF ing'.hdrm[y] < Allowance(y) THEN ing'.hdrm[y]
                                   ELSE Allowance(y)
    BY <2>2, <2>3, AllowedType
  <2>5. Allowed(ing'.hdrm)[y] >= Allowed(ing.hdrm)[y] + d
    BY <2>2, <2>3, <2>4 DEF Less
  <2> HIDE DEF d
  <2> QED
    BY <1>0, <2>2, <2>3, <2>5, AllowedKept
<1>3. CASE UNCHANGED ing
  BY <1>3 DEF PoolWithinHeadroom, PoolIn
<1>4. ASSUME NEW i \in Port, NEW o \in Port, NEW q \in Class, NEW size \in Size,
             DropAtIngress(i, o, q, size) \/ DropAtEgress(i, o, q, size)
      PROVE  UNCHANGED ing
  BY <1>4 DEF DropAtIngress, DropAtEgress
<1>5. ASSUME NEW i \in Port, NEW q \in Class, SetResume(i, q)
      PROVE  UNCHANGED ing
  BY <1>5 DEF SetResume
<1>6. CASE UNCHANGED vars
  BY <1>3, <1>6 DEF vars
<1> HIDE DEF Within
<1> QED
  BY <1>1, <1>2, <1>3, <1>4, <1>5, <1>6 DEF Next

\* Headroom is neither given out twice nor lost: a pool overruns its limit at most by
\* what its classes use of headroom, and at most by one packet and the headroom that
\* is configured for them, and a class uses no more than it has in the switch, so that
\* an empty one uses none.
THEOREM HeadroomAccounted ==
  Spec => [](PoolWithinHeadroom /\ ExcessIsHeadroom /\ HeadroomWithinClass)
<1>1. EgressInv => QueueInv
  BY DEF EgressInv
<1>2. HeadroomInv => HeadroomWithinClass
  BY DEF HeadroomInv
<1> QED
  BY <1>1, <1>2, EgressInvInit, EgressInvStep, HeadroomInvInit, HeadroomInvStep,
     IngressChargedInit, IngressChargedIsOf, IngressChargedStep, ExcessInit,
     ExcessStep, WithinHeadroomInit, WithinHeadroomStep, PTL DEF Spec

-----------------------------------------------------------------------------
(* Types.                                                                  *)

DroppedType == dropped \subseteq {"ingress", "egress"}

\* The pause state and the histories have their types, from the start ...
LEMMA PfcTypesInit == Init => PfcTypes /\ DroppedType
<1> SUFFICES ASSUME Init  PROVE PfcTypes /\ DroppedType
  OBVIOUS
<1>1. pfc \in [paused : [PG -> Uninit], remote : [PG -> Uninit], timer : [PG -> {FALSE}]]
  BY DEF Init
<1>2. Uninit \subseteq BOOLEAN
  BY SizeAssumption
<1>3. pfc \in [paused : [PG -> BOOLEAN], remote : [PG -> BOOLEAN], timer : [PG -> BOOLEAN]]
  BY <1>1, <1>2
<1> QED
  BY <1>3 DEF Init, PfcTypes, DroppedType

\* ... and after every step.
LEMMA PfcTypesStep ==
  QueueInv /\ PfcTypes /\ DroppedType /\ [Next]_vars => (PfcTypes /\ DroppedType)'
<1> SUFFICES ASSUME QueueInv, PfcTypes, DroppedType, [Next]_vars
             PROVE  PfcTypes' /\ DroppedType'
  OBVIOUS
<1>1. ASSUME NEW i \in Port, NEW o \in Port, NEW q \in Class, NEW size \in Size,
             SwitchSend(i, o, q, size)
      PROVE  PfcTypes' /\ DroppedType'
  <2> DEFINE c == UpdateIngressAdmission(i, q, size)
             pauses == Pauses(c, i, q)
             resumes == Resumes(c, i, q)
             Set(f) == [z \in PG |-> (f[z] \/ z \in pauses) /\ z \notin resumes]
  <2>1. /\ pfc' = [paused |-> Set(pfc.paused), remote |-> Set(pfc.remote),
                   timer |-> Set(pfc.timer)]
        /\ told' = [z \in PG |->
                      LET last == IF z \in pauses THEN "PAUSE" ELSE told[z]
                      IN  IF z \in resumes THEN Resume(last) ELSE last]
        /\ dropped' = dropped
    BY <1>1 DEF SwitchSend, CheckAndSendPfc
  <2>2. \A a : Resume(a) \in {"RESUME", "stray RESUME"}
    BY DEF Resume
  <2> HIDE DEF pauses, resumes
  <2> QED
    BY <2>1, <2>2 DEF PfcTypes, DroppedType
<1>2. ASSUME NEW o \in Port, NEW q \in Class, SwitchNotifyDequeue(o, q)
      PROVE  PfcTypes' /\ DroppedType'
  <2> DEFINE h == Head(queue[<<o, q>>])
             y == <<h.in, q>>
             c == RemoveFromIngressAdmission(h.in, q, h.size)
  <2>1. h.in \in Port /\ CheckAndSendResume(c, h.in, q) /\ dropped' = dropped
    BY <1>2, LeavingQueues DEF SwitchNotifyDequeue
  <2> HIDE DEF c, h
  <2>2. y \in PG
    BY <2>1 DEF PG
  <2>3. CASE UNCHANGED <<pfc, told>>
    BY <2>1, <2>3 DEF PfcTypes, DroppedType
  <2>4. CASE /\ pfc' = [pfc EXCEPT !.paused[y] = FALSE, !.timer[y] = FALSE]
             /\ told' = [told EXCEPT ![y] = Resume(told[y])]
    <3>1. Resume(told[y]) \in {"RESUME", "stray RESUME"}
      BY DEF Resume
    <3> HIDE DEF y
    <3> QED
      BY <2>1, <2>2, <2>4, <3>1 DEF PfcTypes, DroppedType
  <2> QED
    BY <2>1, <2>3, <2>4 DEF CheckAndSendResume
<1>3. ASSUME NEW i \in Port, NEW q \in Class, SetResume(i, q)
      PROVE  PfcTypes' /\ DroppedType'
  BY <1>3 DEF SetResume, PfcTypes, DroppedType
<1>4. ASSUME NEW i \in Port, NEW o \in Port, NEW q \in Class, NEW size \in Size,
             DropAtIngress(i, o, q, size) \/ DropAtEgress(i, o, q, size)
      PROVE  PfcTypes' /\ DroppedType'
  BY <1>4 DEF DropAtIngress, DropAtEgress, PfcTypes, DroppedType
<1>5. CASE UNCHANGED vars
  BY <1>5 DEF vars, PfcTypes, DroppedType
<1> QED
  BY <1>1, <1>2, <1>3, <1>4, <1>5 DEF Next

\* Counters that are sums of natural numbers are natural numbers.
LEMMA EgressNat ==
  EgrTypes /\ EgressSums =>
    egr \in [qmin : [PG -> Nat], shared : [PG -> Nat], port : [Port -> Nat],
             sp : [Pool -> Nat]]
<1> SUFFICES ASSUME EgrTypes, EgressSums
             PROVE  egr \in [qmin : [PG -> Nat], shared : [PG -> Nat],
                             port : [Port -> Nat], sp : [Pool -> Nat]]
  OBVIOUS
<1>1. egr \in [qmin : [PG -> Nat], shared : [PG -> Nat], port : [Port -> Int],
               sp : [Pool -> Int]]
  BY DEF EgrTypes
<1>2. ASSUME NEW p \in Port  PROVE egr.port[p] \in Nat
  <2> DEFINE f == [q \in Class |-> egr.qmin[<<p, q>>] + egr.shared[<<p, q>>]]
  <2>1. egr.port[p] = SumFunction(f) /\ DOMAIN f = Class
    BY DEF EgressSums
  <2>2. ASSUME NEW q \in Class  PROVE f[q] \in Nat
    <3>1. <<p, q>> \in PG
      BY DEF PG
    <3>2. egr.qmin[<<p, q>>] \in Nat /\ egr.shared[<<p, q>>] \in Nat
      BY <1>1, <3>1
    <3> QED
      BY <3>2
  <2> HIDE DEF f
  <2> QED
    BY <2>1, <2>2, FiniteIndices, SumNat DEF SumFunction
<1>3. ASSUME NEW s \in Pool  PROVE egr.sp[s] \in Nat
  <2>1. \A x \in PoolOut(s) : egr.shared[x] \in Nat
    BY <1>1, FiniteIndices
  <2>2. egr.sp[s] = SumFunctionOnSet(egr.shared, PoolOut(s))
    BY DEF EgressSums, PoolOut
  <2> QED
    BY <2>1, <2>2, FiniteIndices, SumNat
<1>4. egr.port \in [Port -> Nat] /\ egr.sp \in [Pool -> Nat]
  BY <1>1, <1>2, <1>3
<1> QED
  BY <1>1, <1>4

\* The counters of the MMU, which the code keeps in unsigned variables, never go
\* below zero, where they would wrap: for the egress counters of ports and pools
\* that is because they are sums.
THEOREM TypeCorrect == Spec => []TypeOK
<1>1. EgressInv => QueueInv /\ EgrTypes
  BY DEF EgressInv
<1>2. HeadroomInv => IngTypes
  BY DEF HeadroomInv
<1>3. IngTypes /\ EgrTypes /\ EgressSums /\ QueueInv /\ PfcTypes /\ DroppedType => TypeOK
  BY EgressNat DEF IngTypes, QueueInv, PfcTypes, DroppedType, TypeOK
<1> QED
  BY <1>1, <1>2, <1>3, EgressInvInit, EgressInvStep, EgressSumsInit, EgressSumsIsOf,
     EgressSumsStep, HeadroomInvInit, HeadroomInvStep, PfcTypesInit, PfcTypesStep,
     PTL DEF Spec
=============================================================================

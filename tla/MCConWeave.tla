----------------------------- MODULE MCConWeave -----------------------------
(***************************************************************************)
(* Values for the functions among ConWeave's constants.                    *)
(***************************************************************************)
EXTENDS ConWeave, TLC

CONSTANTS p1, p2, p3

\* Two paths with slots of their own.
OwnSlots    == (p1 :> 1) @@ (p2 :> 2)

\* A fast path and a slow one, with jitter.
FastSlowMin == (p1 :> 1) @@ (p2 :> 2)
FastSlowMax == (p1 :> 2) @@ (p2 :> 4)

\* A slow path on which a packet may take longer than the flowlet gap.
LongMax     == (p1 :> 1) @@ (p2 :> 7)

\* A congested path, where no packet takes less than 9 and some 11, and two fast ones, of
\* which either may go for the other.
OneSlot     == [p \in {p1, p2, p3} |-> 1]
LateMin     == [p \in {p1, p2, p3} |-> IF p = p2 THEN 9 ELSE 1]
LateMax     == [p \in {p1, p2, p3} |-> IF p = p2 THEN 11 ELSE 1]
FastPaths   == Permutations({p1, p3})

\* The aging timers of the two ToRs: at any of two phases, at different ones, too late.
AnyPhase    == [{"tx", "rx"} -> {2, 5}]
OutOfPhase  == {o \in AnyPhase : o["tx"] # o["rx"]}
NoAging     == [{"tx", "rx"} -> {100}]

\* Constant delays.
FixedDelay  == (p1 :> 1) @@ (p2 :> 3)
=============================================================================

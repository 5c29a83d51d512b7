---------------------------- MODULE MCSwitchMmu -----------------------------
(***************************************************************************)
(* Values for the functions among SwitchMmu's constants.                   *)
(***************************************************************************)
EXTENDS SwitchMmu, TLC

\* Headroom of the ports (port 0 is not used, but its headroom is counted).
TwoPorts   == (0 :> 1) @@ (1 :> 2) @@ (2 :> 1)
ThreePorts == (0 :> 1) @@ (1 :> 2) @@ (2 :> 1) @@ (3 :> 1)

OneRoute  == {<<1, 2>>}
TwoRoutes == {<<1, 3>>, <<2, 3>>}
=============================================================================

----------------------------- MODULE MCPfcLink ------------------------------
(***************************************************************************)
(* Values for the functions among PfcLink's constants.                     *)
(***************************************************************************)
EXTENDS PfcLink

OneRoute  == {<<1, 2>>}
TwoRoutes == {<<1, 3>>, <<2, 3>>}

Headroom == [p \in 0 .. PortCnt |-> (2 * Delay + 2) * MTU]
=============================================================================

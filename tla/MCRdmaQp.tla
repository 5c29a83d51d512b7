------------------------------ MODULE MCRdmaQp -------------------------------
(***************************************************************************)
(* Values for RdmaQp's constants; the list of SACK blocks beside the set   *)
(* that RdmaQp takes for it.                                               *)
(***************************************************************************)
EXTENDS RdmaQp, SackList

\* Two WQEs, the second longer than a packet.
OneThenTwo == <<1, 3>>

\* RdmaQp may take a set for the list of blocks: the code's list operations do on
\* every list what the set operations do on the set.  It is the same in all states,
\* so it is evaluated only before the queue pair exists.
SackListExact == qp.state = "none" => ListIsExact

==============================================================================

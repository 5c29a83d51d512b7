-------------------------- MODULE ReliableTransfer ---------------------------
(***************************************************************************)
(* What an RDMA queue pair promises the application that posts work to it: *)
(* work queue elements (WQEs) complete in the order in which they were     *)
(* posted, none before all of its data has reached the other host, and the *)
(* queue pair is torn down once, after the last of them.                   *)
(***************************************************************************)
EXTENDS Integers, Sequences

CONSTANT WqeEnd  \* WQE k ends before sequence number WqeEnd[k]

VARIABLES
  posted,     \* number of WQEs posted
  arrived,    \* sequence numbers that have reached the receiver
  completed,  \* number of WQEs reported complete
  closed      \* has the queue pair been torn down?

vars == <<posted, arrived, completed, closed>>

Init == posted = 0 /\ arrived = {} /\ completed = 0 /\ closed = FALSE

Post ==
  /\ ~closed
  /\ posted' \in posted + 1 .. Len(WqeEnd)
  /\ UNCHANGED <<arrived, completed, closed>>

Arrive ==
  /\ posted > 0
  /\ \E s \in 0 .. WqeEnd[posted] - 1 : arrived' = arrived \union {s}
  /\ UNCHANGED <<posted, completed, closed>>

\* Tearing down may be the same step as the last completion.
Finish ==
  /\ ~closed
  /\ completed' \in completed .. posted
  /\ completed' > completed => 0 .. WqeEnd[completed'] - 1 \subseteq arrived
  /\ closed' \in BOOLEAN
  /\ closed' => completed' = Len(WqeEnd)
  /\ UNCHANGED <<posted, arrived>>

Next == Post \/ Arrive \/ Finish

Spec == Init /\ [][Next]_vars
=============================================================================

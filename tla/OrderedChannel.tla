--------------------------- MODULE OrderedChannel ---------------------------
(***************************************************************************)
(* What ConWeave promises the destination host of a flow, whatever paths   *)
(* the packets take: the host gets the packets in the order in which the   *)
(* source host sent them, each at most once, and misses one only if the    *)
(* network has dropped it.                                                 *)
(***************************************************************************)
EXTENDS Naturals, Sequences

CONSTANTS MaxPkts  \* bound: packets sent

VARIABLES sent, lost, delivered

vars == <<sent, lost, delivered>>

\* Packets the host has got.
Got == {delivered[i] : i \in 1 .. Len(delivered)}

Init == sent = 0 /\ lost = {} /\ delivered = <<>>

Send ==
  /\ sent < MaxPkts
  /\ sent' = sent + 1
  /\ UNCHANGED <<lost, delivered>>

Lose ==
  /\ \E s \in 1 .. sent : s \notin Got /\ lost' = lost \union {s}
  /\ UNCHANGED <<sent, delivered>>

\* The next packets in order, all those before them being settled.  A batch is
\* what a flushed reordering queue releases.
Deliver ==
  /\ \E upTo \in 1 .. sent :
       LET batch == (1 .. upTo) \ (lost \union Got)
       IN /\ batch # {}
          /\ \A s \in batch, g \in Got : g < s
          /\ Len(delivered') > Len(delivered)
          /\ SubSeq(delivered', 1, Len(delivered)) = delivered
          /\ {delivered'[i] : i \in Len(delivered) + 1 .. Len(delivered')} = batch
          /\ \A i \in Len(delivered) + 1 .. Len(delivered') - 1 :
               delivered'[i] < delivered'[i + 1]
  /\ UNCHANGED <<sent, lost>>

Next == Send \/ Lose \/ Deliver

Spec == Init /\ [][Next]_vars
=============================================================================

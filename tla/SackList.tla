------------------------------ MODULE SackList -------------------------------
(***************************************************************************)
(* The list of SACK blocks of an IRN queue pair (IrnSackManager in         *)
(* rdma-queue-pair.cc): m_data is a list of blocks, each a first sequence  *)
(* number and a length, which are put in one by one, adjacent, overlapping *)
(* or repeated, and trimmed by the cumulative acknowledgement.  RdmaQp     *)
(* takes the set of the sequence numbers covered instead; here the list is *)
(* compared with it.                                                       *)
(***************************************************************************)
EXTENDS Integers, Sequences, SequencesExt

\* first up to, but not including, end
Block(first, end) == [first |-> first, len |-> end - first]

End(b) == b.first + b.len

\* What remains to be put in is s .. end - 1, with the blocks from k on still to pass.
Put(d, seq, end) ==
  LET From[k \in 1 .. Len(d) + 1, s \in seq .. end] ==
        IF k > Len(d) THEN IF s < end THEN <<Block(s, end)>> ELSE <<>>
        ELSE LET b == d[k]
                 rest == SubSeq(d, k, Len(d))
             IN CASE b.first <= s /\ end <= End(b) -> rest
                  [] s < b.first /\ End(b) < end ->
                       <<Block(s, b.first), b>> \o From[k + 1, End(b)]
                  [] s < b.first /\ end <= b.first -> <<Block(s, end)>> \o rest
                  [] b.first <= s /\ s <= End(b) /\ End(b) < end ->
                       <<b>> \o From[k + 1, End(b)]
                  [] s < b.first /\ b.first < end /\ end <= End(b) ->
                       <<Block(s, b.first)>> \o rest
                  [] End(b) < s -> <<b>> \o From[k + 1, s]
  IN From[1, seq]

\* Mutant: blocks that touch stay apart.
Merge_Never(d) == d

Merge(d) ==
  FoldLeft(LAMBDA m, b : IF m # <<>> /\ End(Last(m)) = b.first
                         THEN Front(m) \o <<Block(Last(m).first, End(b))>>
                         ELSE Append(m, b),
           <<>>, d)

\* Nothing is merged where a block that is there already covers all of it.
sack(d, seq, sz) == IF sz = 0 THEN d ELSE Merge(Put(d, seq, seq + sz))

\* Blocks below cumAck go, one that it cuts is trimmed.
discardUpTo(d, cumAck) ==
  LET left == SelectSeq(d, LAMBDA b : End(b) > cumAck)
  IN IF left # <<>> /\ Head(left).first < cumAck
     THEN <<Block(cumAck, End(Head(left)))>> \o Tail(left)
     ELSE left

blockExists(d, seq, size) ==
  \E k \in DOMAIN d : d[k].first <= seq /\ seq + size <= End(d[k])

-----------------------------------------------------------------------------
(* Reference.                                                              *)

\* The longest runs of consecutive numbers of a set, in ascending order
Blocks(S) ==
  LET Run(m, n) == m .. n - 1 \subseteq S /\ n \notin S /\ m - 1 \notin S
      runs == {Block(m, n) : <<m, n>> \in
                 {x \in S \X {m + 1 : m \in S} : x[1] < x[2] /\ Run(x[1], x[2])}}
  IN SetToSortSeq(runs, LAMBDA b, c : b.first < c.first)

\* Whatever blocks come in whatever order, the list holds the longest runs of the
\* numbers they cover, so that its front block is all that may be skipped; blocks
\* are found exactly if they are covered, and trimming removes what is below.
ListIsExact ==
  \A S \in SUBSET (0 .. 5) : \A seq \in 0 .. 5 : \A sz \in 0 .. 6 - seq :
    LET d == Blocks(S)
        new == seq .. seq + sz - 1
    IN /\ sack(d, seq, sz) = Blocks(S \union new)
       /\ sz > 0 => (blockExists(d, seq, sz) <=> new \subseteq S)
       /\ discardUpTo(d, seq) = Blocks({m \in S : m >= seq})

=============================================================================

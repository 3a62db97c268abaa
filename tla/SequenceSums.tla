---------------------------- MODULE SequenceSums ----------------------------
(***************************************************************************)
(* Sums over sequences of numbers.                                         *)
(***************************************************************************)
EXTENDS Integers, Sequences

(* PartialSums(d)[k] is the sum of the first k elements of d.              *)
PartialSums(d) ==
  LET sum[k \in 0..Len(d)] == IF k = 0 THEN 0 ELSE sum[k - 1] + d[k]
  IN  sum

Total(d) == PartialSums(d)[Len(d)]
=============================================================================

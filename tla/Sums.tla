------------------------------- MODULE Sums -------------------------------
(***************************************************************************)
(* The sum of a sequence of integers.  The folds of the community modules  *)
(* take their elements in any order; this one goes from the first to the   *)
(* last, which is what the proofs about it need.                           *)
(***************************************************************************)
EXTENDS Integers, Sequences

\* Sums[n] is the sum of the first n elements of d.
Sums(d) ==
  LET sum[n \in 0..Len(d)] == IF n = 0 THEN 0 ELSE sum[n - 1] + d[n]
  IN  sum

SeqSum(d) == Sums(d)[Len(d)]

=============================================================================

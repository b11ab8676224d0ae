--------------------------------- MODULE Totals ---------------------------------
(***************************************************************************)
(* The sum of a sequence of numbers. (SumFunction of the community modules *)
(* is not used: it folds over a set in an arbitrary order, with operators  *)
(* as parameters, and no prover here can reason about it.)                 *)
(***************************************************************************)
EXTENDS Integers, Sequences

\* Partial sums: the sum of the first n numbers is sums[n].
Sums(s) ==
  LET sums[n \in 0 .. Len(s)] == IF n = 0 THEN 0 ELSE sums[n - 1] + s[n] IN sums
Total(s) == Sums(s)[Len(s)]

=============================================================================

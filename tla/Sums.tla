-------------------------------- MODULE Sums --------------------------------
(* The sum of a function's values over a set. *)
EXTENDS Integers, FiniteSetsExt

SumOf(f, S) == MapThenSumSet(LAMBDA x : f[x], S)

=============================================================================

------------------------------ MODULE SetSums ------------------------------
(* Sums over finite sets. *)
EXTENDS FiniteSetsExt

\* The sum of f[x] over the x in S.
SumOver(f, S) == MapThenSumSet(LAMBDA x : f[x], S)
=============================================================================

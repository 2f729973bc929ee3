----------------------------- MODULE Orderings -----------------------------
(* Finite sets put in order. *)
EXTENDS Naturals, FiniteSets

\* The members of S as a sequence in the order R, a strict total order on S.
InOrder(S, R) ==
  [k \in 1 .. Cardinality(S) |-> CHOOSE x \in S : Cardinality({y \in S : <<y, x>> \in R}) = k - 1]

\* The order of numbers, on S.
Ascending(S) == {p \in S \X S : p[1] < p[2]}
=============================================================================

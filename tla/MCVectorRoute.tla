---------------------------- MODULE MCVectorRoute ----------------------------
(***************************************************************************)
(* An instance of VectorRoute: two memories, one plan whose model has      *)
(* another dimension than the configured one.                              *)
(***************************************************************************)
EXTENDS VectorRoute, TLC

CONSTANTS m1, m2, p1, w1, w2

MCShadow == [p \in Plans |-> "shadow1"]
MCTarget == [p \in Plans |-> "model1"]
MCDim == [x \in Models |-> IF x = "base" THEN 1 ELSE 2]
MCSymmetry == Permutations(Workers)
=============================================================================

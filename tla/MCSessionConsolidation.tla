----------------------- MODULE MCSessionConsolidation -----------------------
(***************************************************************************)
(* Instances of SessionConsolidation: a session of two messages and a      *)
(* third to come.                                                          *)
(***************************************************************************)
EXTENDS SessionConsolidation, TLC

CONSTANTS w1, w2, a, b, c

MCLog == <<a, b>>
MCSymmetry == Permutations(Workers)
=============================================================================

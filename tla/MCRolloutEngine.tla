-------------------------- MODULE MCRolloutEngine --------------------------
(***************************************************************************)
(* Instances of RolloutEngine for TLC: two processes, and one adapter each *)
(* of the kinds the engine tells apart.                                    *)
(***************************************************************************)
EXTENDS RolloutEngine, TLC

CONSTANTS w1, w2

Symmetry == Permutations({w1, w2})
=============================================================================

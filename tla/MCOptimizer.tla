---------------------------- MODULE MCOptimizer ----------------------------
(***************************************************************************)
(* Optimizer for TLC.  The runs of an account are interchangeable.         *)
(***************************************************************************)
EXTENDS Optimizer, TLC

Symmetry == Permutations(Run)
=============================================================================

------------------------------ MODULE MCStages ------------------------------
(***************************************************************************)
(* Stages for TLC: runs, and the monitors named after them, are            *)
(* interchangeable.                                                        *)
(***************************************************************************)
EXTENDS Stages, TLC

Symmetry == Permutations(Run)
=============================================================================

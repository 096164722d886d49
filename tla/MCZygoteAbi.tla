---------------------------- MODULE MCZygoteAbi -----------------------------
(***************************************************************************)
(* ZygoteAbi for TLC: zygotes are interchangeable.                         *)
(***************************************************************************)
EXTENDS ZygoteAbi, TLC

Symmetry == Permutations(Zygote)
=============================================================================

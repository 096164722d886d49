------------------------------ MODULE MCZygiskd ------------------------------
(***************************************************************************)
(* Zygiskd for TLC: clients are interchangeable, and so are modules.       *)
(***************************************************************************)
EXTENDS Zygiskd, TLC

Symmetry == Permutations(Client) \cup Permutations(Module)
=============================================================================

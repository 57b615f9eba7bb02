----------------------------- MODULE MCPhysics -----------------------------
(***************************************************************************)
(* Small instances of Physics.                                             *)
(***************************************************************************)
EXTENDS Physics, TLC

Symmetry == Permutations(Objects) \cup Permutations(Bodies)
=============================================================================

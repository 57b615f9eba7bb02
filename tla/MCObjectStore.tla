--------------------------- MODULE MCObjectStore ---------------------------
(***************************************************************************)
(* Small instances of ObjectStore.  Names are not interchangeable with     *)
(* anything, and neither are addresses: each set is symmetric by itself.   *)
(***************************************************************************)
EXTENDS ObjectStore, TLC

Symmetry == Permutations(Names) \cup Permutations(Objects)
                \cup Permutations(Comps) \cup Permutations(Tags)
=============================================================================

--------------------------- MODULE MCScriptBridge ---------------------------
(***************************************************************************)
(* Small instances of ScriptBridge.                                        *)
(***************************************************************************)
EXTENDS ScriptBridge, TLC

Symmetry == Permutations(Names) \cup Permutations(Objects) \cup Permutations(Classes)
=============================================================================

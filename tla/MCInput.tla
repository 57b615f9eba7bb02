------------------------------ MODULE MCInput ------------------------------
(***************************************************************************)
(* Small instances of Input.  Keys are strings with different actions, so  *)
(* none may be exchanged for another.                                      *)
(***************************************************************************)
EXTENDS Input
=============================================================================

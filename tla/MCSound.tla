------------------------------ MODULE MCSound ------------------------------
(***************************************************************************)
(* Small instances of Sound: two components and the music compete for      *)
(* three sounds, so that addresses are used again.                         *)
(***************************************************************************)
EXTENDS Sound
=============================================================================

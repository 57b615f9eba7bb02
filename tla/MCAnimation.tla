---------------------------- MODULE MCAnimation ----------------------------
(***************************************************************************)
(* Small instances of Animation: three animations of different lengths,    *)
(* one of them shorter than a long frame.                                  *)
(***************************************************************************)
EXTENDS Animation, TLC

CONSTANTS walk, jump, wave

MCLength == walk :> 4 @@ jump :> 3 @@ wave :> 1
=============================================================================

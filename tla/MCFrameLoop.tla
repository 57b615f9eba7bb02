---------------------------- MODULE MCFrameLoop ----------------------------
(***************************************************************************)
(* Small instances of FrameLoop: names in the order of their strings, with *)
(* one free name before, and Ninja between, those of the scene.            *)
(***************************************************************************)
EXTENDS FrameLoop
=============================================================================

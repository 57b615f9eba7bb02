---------------------------- MODULE MCLifecycle ----------------------------
(***************************************************************************)
(* Small instances of Lifecycle: a mJoy of two elements and one pad more   *)
(* than that, sticks at rest, in and out of the dead zone and at both ends *)
(* of their range, the mouse still, slow and beyond the largest offset.    *)
(***************************************************************************)
EXTENDS Lifecycle, TLC

MCSticks == {-32768, 0, 6554, 32767}
MCMouseOffsets == {-200000, 0, 65534}
Symmetry == Permutations(Pads)
=============================================================================

-------------------------- MODULE MCBinaryEventRing --------------------------
(***************************************************************************)
(* Frames for TLC: two that fit, one that is cut, one that is too short.   *)
(***************************************************************************)
EXTENDS BinaryEventRing

SomeFrames == {<<3, 4>>, <<5, 6>>, <<7, 8, 9>>, <<7>>}
=============================================================================

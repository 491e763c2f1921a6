---------------------------- MODULE MCInputDevice ----------------------------
(* Frames that divide the cooldown, that do not, and that exceed it.       *)
EXTENDS InputDevice

MCFrameTimes == {1, 2, 5}
=============================================================================

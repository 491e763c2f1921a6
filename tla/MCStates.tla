------------------------------ MODULE MCStates ------------------------------
(* Frames shorter than the fade, longer than it, and longer than the whole *)
(* intro.                                                                  *)
EXTENDS States

MCFrameTimes == {1, 3, 6}
=============================================================================

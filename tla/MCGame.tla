------------------------------- MODULE MCGame -------------------------------
(* Game on a small instance.  A frame is shorter than a physics step or    *)
(* longer than one, so that a frame simulates zero, one or two steps.      *)
EXTENDS Game, TLC

MCFrameTimes == {1, 3}
MCSymmetry == Permutations(Addr)
=============================================================================

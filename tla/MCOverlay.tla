------------------------------ MODULE MCOverlay ------------------------------
(* Two texts of different widths, a frame of up to two debug lines, and    *)
(* raylib's four buffers.                                                  *)
EXTENDS Overlay

MCTexts == {1, 2}
=============================================================================

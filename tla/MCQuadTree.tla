----------------------------- MODULE MCQuadTree -----------------------------
(* Two trees.  The first lies at the origin, where nothing is rounded; the *)
(* second so far out that x can only be a multiple of 32, and its width is *)
(* 56: its right border is rounded up, those of its smallest cells down.   *)
EXTENDS QuadTree

Box(x, y, w, h) == [left |-> x, top |-> y, width |-> w, height |-> h]
Circle(x, y, r) == [x |-> x, y |-> y, r |-> r]

MCRoots     == {Box(0, 0, 16, 16), Box(16384, 0, 56, 16)}
MCPositions == [x : {0, 8, 11, 16, 16384, 16416, 16448}, y : {0, 8, 11}]
MCRanges    == {Box(0, 0, 8, 8), Box(8, 0, 8, 16), Box(7, 7, 5, 5), Box(4, 10, 12, 4),
                Box(16, 16, 4, 4), Box(16320, 0, 104, 16), Box(16416, 8, 31, 4)}
MCCircles   == {Circle(8, 8, 0), Circle(12, 12, 5), Circle(0, 0, 11), Circle(19, 20, 5),
                Circle(16416, 8, 32)}
=============================================================================

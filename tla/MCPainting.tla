------------------------------ MODULE MCPainting ------------------------------
(* An instance of Painting for TLC: a progress bar that grows in two steps  *)
(* and is hidden and shown, a cropped icon that leaves the screen, and a    *)
(* panel over both.                                                         *)
EXTENDS Painting

R(x1, y1, x2, y2) == [x1 |-> x1, y1 |-> y1, x2 |-> x2, y2 |-> y2]
Obj(kind, from, to, switched) == [kind |-> kind, from |-> from, to |-> to, switched |-> switched]

MCTheme ==
  << Obj("solid", R(0, -1, 0, 1), R(0, -1, 2, 1), TRUE),
     Obj("crop",  R(1, 1, 1, 1), R(2, 1, 3, 2), FALSE),
     Obj("fixed", R(1, -1, 2, 0), R(1, -1, 2, 0), FALSE) >>

MCPaintRects == {R(2, 1, 1, 9)}
=============================================================================

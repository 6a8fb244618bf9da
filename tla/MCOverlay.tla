------------------------------ MODULE MCOverlay -----------------------------
(* Overlay with two clients and one image for each area: the one for area  *)
(* 2 registers x as a second component, and y is a name that has no file.  *)
EXTENDS Overlay, TLC

CONSTANTS c1, c2, a, b, x, y

SecondOf == a :> x
=============================================================================

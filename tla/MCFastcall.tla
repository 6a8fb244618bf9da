------------------------------ MODULE MCFastcall ----------------------------
(* Fastcall with two clients and call numbers modulo 2 or 3.               *)
EXTENDS Fastcall, TLC

CONSTANTS c1, c2
=============================================================================

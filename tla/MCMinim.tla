------------------------------- MODULE MCMinim ------------------------------
(* Minim on a pool of 5 blocks of 2 bytes with a 4 bit machine word.       *)
EXTENDS Minim

CONSTANTS c1, c2

MCClients == {c1, c2}

(* 0 blocks; a partial block; 1, 2, 3 and 5 blocks; and 15 bytes, whose    *)
(* rounding wraps around the machine word to 0 blocks.                     *)
MCRequests == {0, 1, 2, 4, 6, 9, 15}
=============================================================================

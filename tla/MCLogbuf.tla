------------------------------- MODULE MCLogbuf -----------------------------
(* Logbuf with a ring of 10 characters and lines of 2, 3 and 5; the DSP    *)
(* writes up to half of the ring before the reader has stopped again.      *)
EXTENDS Logbuf, TLC
=============================================================================

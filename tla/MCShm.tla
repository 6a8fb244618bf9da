-------------------------------- MODULE MCShm -------------------------------
(* Shm with two contiguous types and huge pages of two pages.              *)
EXTENDS Shm, TLC
=============================================================================

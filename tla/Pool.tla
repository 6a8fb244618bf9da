-------------------------------- MODULE Pool --------------------------------
(***************************************************************************)
(* What the fast on-chip memory allocators (L1DSRAM, L2SRAM) promise the   *)
(* clients of /dev/c64: a pool of NumBlocks equal blocks out of which a    *)
(* client holds disjoint runs.  An allocation fails only if no run of free *)
(* blocks is long enough, only the owner may free a run, and a client that *)
(* has been closed holds nothing.  How runs are found, split and joined is *)
(* left to the module Minim, which implements this one.                    *)
(***************************************************************************)
EXTENDS Blocks

VARIABLES
  held,    \* the runs clients hold
  closing, \* the client whose handle is being closed, or NULL
  ret      \* the result of the last request

vars == <<held, closing, ret>>

FreeRun(base, n) ==
  /\ base + n <= NumBlocks
  /\ \A r \in held : r.base + r.len <= base \/ base + n <= r.base
-----------------------------------------------------------------------------
Init ==
  /\ held = {}
  /\ closing = NULL
  /\ ret = Status("none")

Alloc(c, numBytes) ==
  LET n == BlocksFor(numBytes) IN
  /\ closing = NULL
  /\ UNCHANGED closing
  /\ \/ /\ n = 0
        /\ ret' \in Garbage
        /\ UNCHANGED held
     \/ /\ n > 0
        /\ \E b \in Index :
             /\ FreeRun(b, n)
             /\ held' = held \cup {[base |-> b, len |-> n, owner |-> c]}
             /\ ret' = Region(b, n)
     \/ /\ n > 0
        /\ ~ \E b \in Index : FreeRun(b, n)
        /\ ret' = Status("oom")
        /\ UNCHANGED held

Free(c, i) ==
  /\ closing = NULL
  /\ UNCHANGED closing
  /\ \/ \E r \in held :
          /\ r.base = i
          /\ r.owner = c
          /\ held' = held \ {r}
          /\ ret' = Status("freed")
     \/ /\ \E r \in held : r.base = i /\ r.owner # c
        /\ ret' = Status("EACCES")
        /\ UNCHANGED held
     \/ /\ \A r \in held : r.base # i
        /\ ret' = Status("EFAULT")
        /\ UNCHANGED held

BeginClose(c) ==
  /\ closing = NULL
  /\ closing' = c
  /\ UNCHANGED <<held, ret>>

Reclaim ==
  /\ closing # NULL
  /\ \E r \in held : r.owner = closing /\ held' = held \ {r}
  /\ UNCHANGED <<closing, ret>>

EndClose ==
  /\ closing # NULL
  /\ \A r \in held : r.owner # closing
  /\ closing' = NULL
  /\ UNCHANGED <<held, ret>>

Next ==
  \/ \E c \in Clients :
       \/ \E s \in Requests : Alloc(c, s)
       \/ \E i \in 0 .. NumBlocks : Free(c, i)
       \/ BeginClose(c)
  \/ Reclaim
  \/ EndClose

Spec == Init /\ [][Next]_vars
=============================================================================

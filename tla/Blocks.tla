-------------------------------- MODULE Blocks ------------------------------
(***************************************************************************)
(* The parameters and the results that the pool allocator (Minim) and its  *)
(* abstract specification (Pool) share.                                    *)
(***************************************************************************)
EXTENDS Naturals

CONSTANTS
  Clients,    \* the open device handles (dev_client_t)
  NULL,       \* no client
  NumBlocks,  \* blocks in the pool (minim_t.num_blocks)
  BlockSize,  \* bytes per block (minim_t.block_size)
  WordSize,   \* 2^32 on the target: request sizes are sU32
  Requests    \* the sizes in bytes a client may ask for

ASSUME BlocksAssumption ==
  /\ NULL \notin Clients
  /\ NumBlocks \in Nat \ {0}
  /\ BlockSize \in Nat \ {0}
  /\ WordSize \in Nat \ {0}
  /\ Requests \subseteq Nat

Index == 0 .. NumBlocks - 1

(* Blocks needed for a request; the addition is done in a machine word.    *)
BlocksFor(numBytes) ==
  ((numBytes + (BlockSize - 1)) % WordSize) \div BlockSize

Region(base, len) == [st |-> "ok", base |-> base, len |-> len]
Status(st) == [st |-> st, base |-> 0, len |-> 0]

(* What a caller can find in a result nobody wrote: any region at all.     *)
Garbage == {Region(b, n) : b \in Index, n \in 0 .. NumBlocks}

Results == Garbage \cup {Status(s) : s \in {"none", "oom", "freed", "EACCES", "EFAULT"}}
=============================================================================

-------------------------------- MODULE Minim -------------------------------
(***************************************************************************)
(* kmod/minim.c, the block allocator behind the L1DSRAM and L2SRAM ioctls. *)
(* minim_t.blocks is kept as one function per field of minim_block_t.  A   *)
(* "superblock" is the first block of a run: its alloc_count (the run is   *)
(* in use) or its free_count (the run is free) is the length of the run,   *)
(* and both counts of the other blocks of the run are 0.                   *)
(*                                                                         *)
(* dev.c calls every entry point under mtx_clients, so each is one step,   *)
(* except minim_free_by_client whose loop is modelled one iteration at a   *)
(* time in order to be able to ask whether it ends.  While it runs         *)
(* (closing # NULL) the mutex keeps the other operations out.              *)
(***************************************************************************)
EXTENDS Blocks

VARIABLES
  alloc_count, free_count, owner,  \* minim_block_t, by block index
  closing,                         \* _cl of the running minim_free_by_client
  fr,                              \* its cursor
  ret                              \* what the last entry point returned

blocks == <<alloc_count, free_count, owner>>
vars == <<alloc_count, free_count, owner, closing, fr, ret>>

Length(i) == alloc_count[i] + free_count[i]
Super(i) == Length(i) > 0
-----------------------------------------------------------------------------
(* minim_init: one free superblock.                                        *)
Init ==
  /\ alloc_count = [i \in Index |-> 0]
  /\ free_count = [i \in Index |-> IF i = 0 THEN NumBlocks ELSE 0]
  /\ owner = [i \in Index |-> NULL]
  /\ closing = NULL
  /\ fr = 0
  /\ ret = Status("none")

(* Mutant: a run of exactly the right length is passed over.               *)
Fits_Strict(i, n) == free_count[i] > n

Fits(i, n) == free_count[i] > 0 /\ free_count[i] >= n

(* The superblock the search loop of minim_alloc ends with: the smallest   *)
(* that fits, the first of these.                                          *)
BestMatch(i, n) ==
  /\ Fits(i, n)
  /\ \A j \in Index : Fits(j, n) =>
       \/ free_count[i] < free_count[j]
       \/ free_count[i] = free_count[j] /\ i <= j

(* Mutant: the remainder of the run is not made a superblock.              *)
Carve_NoSplit(c, i, n) ==
  /\ alloc_count' = [alloc_count EXCEPT ![i] = n]
  /\ free_count' = [b \in Index |-> IF b \in i .. i + n - 1 THEN 0 ELSE free_count[b]]
  /\ owner' = [owner EXCEPT ![i] = c]

(* Hands the first n blocks of the free superblock i to client c.          *)
Carve(c, i, n) ==
  /\ alloc_count' = [alloc_count EXCEPT ![i] = n]
  /\ free_count' = [b \in Index |->
       IF b \in i .. i + n - 1 THEN 0
       ELSE IF b = i + n /\ n < free_count[i] THEN free_count[i] - n
       ELSE free_count[b]]
  /\ owner' = [owner EXCEPT ![i] = c]

(* A request of 0 blocks returns a struct that was never written.          *)
minim_alloc(c, numBytes) ==
  LET n == BlocksFor(numBytes) IN
  /\ closing = NULL
  /\ UNCHANGED <<closing, fr>>
  /\ \/ /\ n = 0
        /\ ret' \in Garbage
        /\ UNCHANGED blocks
     \/ /\ n > 0
        /\ \E i \in Index :
             /\ BestMatch(i, n)
             /\ Carve(c, i, n)
             /\ ret' = Region(i, n)
     \/ /\ n > 0
        /\ ~ \E i \in Index : Fits(i, n)
        /\ ret' = Status("oom")
        /\ UNCHANGED blocks

(* The superblock the scan to the left of i stops at.                      *)
IsLeft(l, i) ==
  /\ l < i
  /\ Super(l)
  /\ \A k \in Index : l < k /\ k < i => ~ Super(k)

LeftOf(i) == CHOOSE l \in Index : IsLeft(l, i)

(* Mutant: the free run to the right is never looked for.                  *)
JoinsRight_Never(i) == FALSE

JoinsRight(i) ==
  /\ i + alloc_count[i] < NumBlocks
  /\ alloc_count[i + alloc_count[i]] = 0

JoinsLeft(i) == i > 0 /\ free_count[LeftOf(i)] > 0

(* Length of the freed run, with the free superblock to its right.         *)
Merged(i) ==
  alloc_count[i] + (IF JoinsRight(i) THEN free_count[i + alloc_count[i]] ELSE 0)

(* The successful path of loc_minim_free_by_idx.                           *)
Release(i) ==
  /\ alloc_count' = [alloc_count EXCEPT ![i] = 0]
  /\ owner' = [owner EXCEPT ![i] = NULL]
  /\ free_count' = [b \in Index |->
       IF b = i + alloc_count[i] /\ JoinsRight(i) THEN 0
       ELSE IF b = i THEN (IF JoinsLeft(i) THEN 0 ELSE Merged(i))
       ELSE IF JoinsLeft(i) /\ b = LeftOf(i) THEN free_count[b] + Merged(i)
       ELSE free_count[b]]

(* minim_free of an address in block i; NumBlocks stands for every address *)
(* outside of the pool.                                                    *)
minim_free(c, i) ==
  /\ closing = NULL
  /\ UNCHANGED <<closing, fr>>
  /\ \/ /\ i < NumBlocks
        /\ alloc_count[i] > 0
        /\ owner[i] = c
        /\ Release(i)
        /\ ret' = Status("freed")
     \/ /\ i < NumBlocks
        /\ alloc_count[i] > 0
        /\ owner[i] # c
        /\ ret' = Status("EACCES")
        /\ UNCHANGED blocks
     \/ /\ i < NumBlocks => alloc_count[i] = 0
        /\ ret' = Status("EFAULT")
        /\ UNCHANGED blocks

(* minim_free_by_client, called when the handle of client c is closed.     *)
minim_free_by_client(c) ==
  /\ closing = NULL
  /\ closing' = c
  /\ fr' = 0
  /\ UNCHANGED <<blocks, ret>>

(* Mutant: the loop is left after the first superblock it frees.           *)
ScanFree_Once ==
  /\ closing # NULL
  /\ fr < NumBlocks
  /\ alloc_count[fr] > 0
  /\ owner[fr] = closing
  /\ Release(fr)
  /\ closing' = NULL
  /\ fr' = 0
  /\ UNCHANGED ret

ScanFree ==
  /\ closing # NULL
  /\ fr < NumBlocks
  /\ alloc_count[fr] > 0
  /\ owner[fr] = closing
  /\ Release(fr)
  /\ UNCHANGED <<closing, fr, ret>>

ScanSkipOther ==
  /\ closing # NULL
  /\ fr < NumBlocks
  /\ alloc_count[fr] > 0
  /\ owner[fr] # closing
  /\ fr' = fr + alloc_count[fr]
  /\ UNCHANGED <<blocks, closing, ret>>

ScanSkipFree ==
  /\ closing # NULL
  /\ fr < NumBlocks
  /\ alloc_count[fr] = 0
  /\ fr' = fr + free_count[fr]
  /\ UNCHANGED <<blocks, closing, ret>>

ScanEnd ==
  /\ closing # NULL
  /\ fr >= NumBlocks
  /\ closing' = NULL
  /\ fr' = 0
  /\ UNCHANGED <<blocks, ret>>

Scan == ScanFree \/ ScanSkipOther \/ ScanSkipFree \/ ScanEnd

Next ==
  \/ \E c \in Clients :
       \/ \E s \in Requests : minim_alloc(c, s)
       \/ \E i \in 0 .. NumBlocks : minim_free(c, i)
       \/ minim_free_by_client(c)
  \/ Scan

Spec == Init /\ [][Next]_vars

(* The loop holds a mutex and never sleeps: it is always scheduled again.  *)
FairSpec == Spec /\ WF_vars(Scan)
-----------------------------------------------------------------------------
(* Type invariant.                                                         *)
TypeOK ==
  /\ alloc_count \in [Index -> 0 .. NumBlocks]
  /\ free_count \in [Index -> 0 .. NumBlocks]
  /\ owner \in [Index -> Clients \cup {NULL}]
  /\ closing \in Clients \cup {NULL}
  /\ fr \in 0 .. NumBlocks
  /\ ret \in Results

(* The runs whose lengths are given by L, where only the first block of a  *)
(* run has a length, cover the pool one after the other.                   *)
Tiles(L) ==
  /\ L[0] > 0
  /\ \A i \in Index : L[i] > 0 =>
       /\ i + L[i] <= NumBlocks
       /\ \A k \in Index : i < k /\ k < i + L[i] => L[k] = 0
       /\ i + L[i] < NumBlocks => L[i + L[i]] > 0
       /\ i > 0 => \E l \in Index : l < i /\ L[l] > 0 /\ l + L[l] = i
  /\ \A b \in Index : \E i \in Index : L[i] > 0 /\ i <= b /\ b < i + L[i]

(* Walking from superblock to superblock, as every loop of minim.c does,   *)
(* visits each run exactly once and stops exactly at the end of the pool,  *)
(* and the scan to the left of loc_minim_free_by_idx finds a superblock    *)
(* before it leaves the array.  No run is both in use and free.            *)
Tiling ==
  /\ Tiles([i \in Index |-> Length(i)])
  /\ \A i \in Index : alloc_count[i] = 0 \/ free_count[i] = 0

(* Two free runs are never neighbours: fragmentation is only ever caused   *)
(* by memory somebody still holds.                                         *)
Coalesced ==
  \A i \in Index :
    free_count[i] > 0 /\ i + free_count[i] < NumBlocks => free_count[i + free_count[i]] = 0

(* Exactly the runs in use have an owner.                                  *)
Owned == \A i \in Index : alloc_count[i] > 0 <=> owner[i] # NULL

(* When minim_free_by_client returns, the closed client owns no block any  *)
(* more: its slot in clients[] is about to be given to somebody else.      *)
ClosedOwnsNothing ==
  [][closing # NULL /\ closing' = NULL => \A i \in Index : owner[i] # closing]_vars

(* ... because the part of the pool the cursor has passed is clean: freeing *)
(* a superblock and joining it to its neighbours never moves something of  *)
(* the client to the left of the cursor.                                   *)
PassedOwnNothing ==
  closing # NULL => \A i \in Index : i < fr => owner[i] # closing

(* minim.h: "Free memory (by owner)", called by fops__release "in case     *)
(* client forgot to": closing a handle ends.                               *)
CloseEnds == closing # NULL ~> closing = NULL

held ==
  {[base |-> i, len |-> alloc_count[i], owner |-> owner[i]] :
     i \in {j \in Index : alloc_count[j] > 0}}

P == INSTANCE Pool WITH held <- held, closing <- closing, ret <- ret

(* The allocator implements the pool: runs handed out are disjoint, it     *)
(* fails only if no run of free blocks is long enough, and only the owner  *)
(* frees a run.                                                            *)
ImplementsPool == P!Spec
=============================================================================

------------------------------- MODULE Cache --------------------------------
(***************************************************************************)
(* A block of shared memory and the data cache of the GPP in front of it:  *)
(* what the cache types of include/dsp_common.h promise, and what the      *)
(* dsp_cache_*() functions do to the lines of a range (loc_ioctl_cache,    *)
(* loc_ioctl_cache_virt and the c64_v7_dma_*_range routines of             *)
(* kmod/dev.c; which ranges they accept is in module Shm).                 *)
(*                                                                         *)
(* The cache itself may at any time fetch a line or write one back.        *)
(***************************************************************************)
EXTENDS Integers

CONSTANTS
  N,          \* words of the block
  LineSize,   \* words of a cache line
  Vals,       \* contents of a word
  BlockTypes  \* cache types a block may have

Words == 0 .. N - 1
LineOf(w) == w \div LineSize
Lines == 0 .. LineOf(N - 1)
CacheTypes == {"NONE", "RW", "R", "W", "HUGETLB"}

ASSUME CacheAssumption ==
  N \in Nat \ {0} /\ LineSize \in Nat \ {0} /\ 0 \in Vals /\ BlockTypes \subseteq CacheTypes

VARIABLES
  type,       \* dsp_cache_t of the block
  mem,        \* what the DSP and its DMA see
  state,      \* state[l]: "no", "clean" or "dirty", of a line in the cache
  data        \* data[w]: word of a line in the cache, 0 if it is not

cache == <<type, mem, state, data>>

(* By the page attributes fops__mmap sets: NONE and W bypass the cache for *)
(* reads, R writes through it, RW and huge pages are written back.         *)
Cached == type \in {"RW", "R", "HUGETLB"}
WritesBack == type \in {"RW", "HUGETLB"}

CacheInit ==
  /\ type \in BlockTypes
  /\ mem = [w \in Words |-> 0]
  /\ state = [l \in Lines |-> "no"]
  /\ data = [w \in Words |-> 0]

(* What the GPP reads in a word.                                           *)
ArmSees(w) == IF state[LineOf(w)] = "no" THEN mem[w] ELSE data[w]
-----------------------------------------------------------------------------
(* Memory when the lines of a set have been written back.                  *)
WrittenBack(ls) ==
  [w \in Words |-> IF LineOf(w) \in ls /\ state[LineOf(w)] = "dirty" THEN data[w] ELSE mem[w]]

Drop(ls) ==
  /\ state' = [l \in Lines |-> IF l \in ls THEN "no" ELSE state[l]]
  /\ data' = [w \in Words |-> IF LineOf(w) \in ls THEN 0 ELSE data[w]]

Fetch(l) ==
  /\ Cached /\ state[l] = "no"
  /\ state' = [state EXCEPT ![l] = "clean"]
  /\ data' = [w \in Words |-> IF LineOf(w) = l THEN mem[w] ELSE data[w]]
  /\ UNCHANGED <<type, mem>>

Evict(l) ==
  /\ state[l] # "no"
  /\ mem' = WrittenBack({l})
  /\ Drop({l})
  /\ UNCHANGED type

(* The GPP writes a word: to a line that is cached, or past the cache.     *)
ArmWrite(w, v) ==
  LET l == LineOf(w)
  IN  /\ mem' = IF WritesBack /\ state[l] # "no" THEN mem ELSE [mem EXCEPT ![w] = v]
      /\ data' = IF state[l] # "no" THEN [data EXCEPT ![w] = v] ELSE data
      /\ state' = IF WritesBack /\ state[l] # "no" THEN [state EXCEPT ![l] = "dirty"] ELSE state
      /\ UNCHANGED type
-----------------------------------------------------------------------------
(* Lines a loop from start on, which tests for the end after a line, works *)
(* on.                                                                     *)
LinesOf(start, end) ==
  {l \in Lines : l = LineOf(start) \/ (l > LineOf(start) /\ l * LineSize < end)}

(* c64_v7_dma_clean_range, for DMA_TO_DEVICE                               *)
c64_v7_dma_clean_range(start, end) ==
  LET ls == LinesOf(start, end)
  IN  /\ mem' = WrittenBack(ls)
      /\ state' = [l \in Lines |-> IF l \in ls /\ state[l] = "dirty" THEN "clean" ELSE state[l]]
      /\ UNCHANGED <<type, data>>

(* Mutant: the lines the range covers in part are not cleaned.             *)
Edges_None(start, end) == {l \in {LineOf(start)} : FALSE}

(* Lines at the ends of a range that it covers in part.                    *)
Edges(start, end) ==
  {l \in {LineOf(start)} : start % LineSize # 0} \cup {l \in {LineOf(end)} : end % LineSize # 0}

(* Mutant: the lines in the middle stay in the cache.                      *)
c64_v7_dma_inv_range_Edges(start, end) ==
  /\ mem' = WrittenBack(Edges(start, end))
  /\ Drop(Edges(start, end))
  /\ UNCHANGED type

(* c64_v7_dma_inv_range, for DMA_FROM_DEVICE: lines the range covers in    *)
(* part are cleaned first, the others lose what the GPP has written.       *)
c64_v7_dma_inv_range(start, end) ==
  LET edges == Edges(start, end)
  IN  /\ mem' = WrittenBack(edges)
      /\ Drop(edges \cup LinesOf(start, end - (end % LineSize)))
      /\ UNCHANGED type

(* c64_v7_dma_flush_range, for DMA_BIDIRECTIONAL                           *)
c64_v7_dma_flush_range(start, end) ==
  LET ls == LinesOf(start, end)
  IN  mem' = WrittenBack(ls) /\ Drop(ls) /\ UNCHANGED type

(* The calls of the library, by physical or by virtual address.            *)
dsp_cache_wb(start, n) == c64_v7_dma_clean_range(start, start + n)
dsp_cache_inv(start, n) == c64_v7_dma_inv_range(start, start + n)
dsp_cache_wbinv(start, n) == c64_v7_dma_flush_range(start, start + n)
dsp_cache_wbinvall == mem' = WrittenBack(Lines) /\ Drop(Lines) /\ UNCHANGED type
=============================================================================

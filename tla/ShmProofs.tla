------------------------------ MODULE ShmProofs -----------------------------
(***************************************************************************)
(* Proofs about shared memory, for any number of processes, any sizes and  *)
(* addresses, whichever calls fail and wherever processes are killed.      *)
(* First IInv, of which what is mapped is owned follows; then EInv, which  *)
(* says of every page where exactly it is in the four tables, so that      *)
(* translations and cache operations find it.                              *)
(*                                                                         *)
(* The last part is about one block of that memory, the data cache in      *)
(* front of it and the DMA behind it (module Buffers), for blocks and      *)
(* cache lines of any size: with BInv, buffers are delivered.              *)
(***************************************************************************)
EXTENDS Shm, Buffers, WellFoundedInduction, FiniteSetTheorems, SequenceTheorems, TLAPS

Mem == [phys : Nat, virt : Nat, size : Nat]

Labels == {"closed", "map", "resume", "open", "mmap_huge", "ioctl_alloc", "v2p",
           "mmap", "ioctl_free", "close"}

TypeOK ==
  /\ pc \in [Procs -> Labels]
  /\ req \in [Procs -> Nat]
  /\ shared_mem \in [Procs -> [Types -> Mem]]
  /\ fd \in [Procs -> BOOLEAN] /\ client \in [Procs -> BOOLEAN]
  /\ shm \in [Procs -> [Types -> Mem]]
  /\ vma \in [Procs -> [Virt -> Nat]]

Block(p, t) == Pages(shm[p][t].phys, shm[p][t].size)

(* The driver's record of a client.                                        *)
Recorded(p) ==
  /\ \A t \in Contig :
       \/ shm[p][t] = NoMem
       \/ /\ shm[p][t].phys # 0 /\ shm[p][t].size # 0 /\ Block(p, t) \subseteq Cma
          /\ shm[p][t].virt # 0 => shm[p][t].virt + shm[p][t].size <= FAILED
  /\ ~client[p] => \A t \in Contig : shm[p][t] = NoMem
  /\ pc[p] # "closed" => fd[p] /\ client[p]

(* Where a page of contiguous memory is mapped.                            *)
Backed(p) ==
  \A w \in Virt : vma[p][w] \in Cma =>
    \E t \in Contig : /\ shm[p][t].virt # 0
                      /\ w \in Pages(shm[p][t].virt, shm[p][t].size)
                      /\ vma[p][w] = shm[p][t].phys + (w - shm[p][t].virt)

(* The library's table and the driver's.                                   *)
Agree(p) ==
  pc[p] # "closed" => \A t \in Contig :
    /\ shared_mem[p][t].phys = shm[p][t].phys
    /\ shm[p][t].phys # 0 => shared_mem[p][t].size = shm[p][t].size
    /\ shm[p][t].virt # 0 => shared_mem[p][t].virt = shm[p][t].virt

(* What the library has not got, it has not mapped.                        *)
Empty(p) ==
  pc[p] # "closed" => \A t \in Types : shared_mem[p][t].phys = 0 =>
    \/ shared_mem[p][t].virt \in {0, FAILED}
    \/ t = HUGE /\ pc[p] = "ioctl_alloc" /\ req[p] = HUGE

(* The physical pages of a type.                                           *)
Own(p, t) == IF t = HUGE THEN HugeFrames ELSE Block(p, t)

(* Behind a region there is its own memory, until it is unmapped.          *)
Covered(p) ==
  pc[p] # "closed" => \A t \in Types, w \in Virt :
    /\ ~ (pc[p] = "ioctl_free" /\ req[p] = t)
    /\ shared_mem[p][t].virt # 0 /\ AtVirt(w, shared_mem[p][t])
    => vma[p][w] \in Own(p, t)

(* What each place of the library is about.                                *)
Places(p) ==
  /\ pc[p] = "map" => req[p] \in Areas
  /\ pc[p] = "mmap_huge" =>
       /\ req[p] = HUGE /\ shared_mem[p][HUGE].phys = 0
       /\ shared_mem[p][HUGE].size # 0 /\ shared_mem[p][HUGE].size % HugePage = 0
  /\ pc[p] = "ioctl_alloc" =>
       /\ req[p] \in Types
       /\ req[p] # HUGE => shared_mem[p][req[p]].phys = 0 /\ shared_mem[p][req[p]].size # 0
       /\ req[p] = HUGE => /\ shared_mem[p][HUGE].virt \in Virt
                           /\ vma[p][shared_mem[p][HUGE].virt] \in HugeFrames
  /\ pc[p] = "mmap" =>
       req[p] \in Contig /\ shm[p][req[p]].phys # 0 /\ shm[p][req[p]].virt = 0
  /\ pc[p] = "ioctl_free" =>
       /\ req[p] \in Types
       /\ req[p] # HUGE => \A w \in Virt : vma[p][w] \notin Block(p, req[p])

(* Huge pages are mapped in one region, while the library knows of it.     *)
HugeIn(p) ==
  /\ shared_mem[p][HUGE].phys \in HugeFrames \cup {0}
  /\ \A w \in Virt : vma[p][w] \in HugeFrames =>
       /\ pc[p] \in {"open", "ioctl_alloc", "v2p", "mmap", "ioctl_free", "close"}
       /\ shared_mem[p][HUGE].phys # 0 \/ (pc[p] = "ioctl_alloc" /\ req[p] = HUGE)
       /\ pc[p] = "ioctl_free" => req[p] # HUGE
       /\ pc[p] = "close" => req[p] <= HUGE
       /\ shared_mem[p][HUGE].virt # 0 /\ AtVirt(w, shared_mem[p][HUGE])

(* A huge page is mapped as a whole.                                       *)
Whole(p) ==
  \A w \in Virt, b \in HugeBases, r \in 0 .. HugePage - 1 : vma[p][w] = b + r =>
    w - r \in Virt /\ vma[p][w - r] = b

(* What is said of one process.                                            *)
Local(p) ==
  /\ Recorded(p) /\ Backed(p) /\ Agree(p) /\ Empty(p) /\ Covered(p)
  /\ Places(p) /\ HugeIn(p) /\ Whole(p)

(* No two clients, and no two types, have a page in common.                *)
Disjoint ==
  \A p, q \in Procs : \A t, u \in Contig :
    <<p, t>> # <<q, u>> => Block(p, t) \cap Block(q, u) = {}

(* A page of a huge page is mapped once.                                   *)
HugeOnce ==
  \A p, q \in Procs : \A v, w \in Virt :
    vma[p][v] \in HugeFrames /\ vma[q][w] = vma[p][v] => p = q /\ v = w

IInv == TypeOK /\ (\A p \in Procs : Local(p)) /\ Disjoint /\ HugeOnce
-----------------------------------------------------------------------------
(* Min is what it is called.                                               *)
LEMMA MinLeast ==
  ASSUME NEW S \in SUBSET Nat, NEW y \in S
  PROVE  Min(S) \in S /\ Min(S) <= y
<1>1. PICK x \in S : \A z \in S : <<z, x>> \notin OpToRel(<, Nat)
  BY WFMin, NatLessThanWellFounded, Zenon
<1>2. \A z \in S : ~ (z < x)
  <2>1. \A z \in S : z \in Nat /\ x \in Nat
    OBVIOUS
  <2> QED  BY <1>1, <2>1, Zenon DEF OpToRel
<1>3. \A z \in S : x <= z
  BY <1>2
<1> QED  BY <1>3 DEF Min

(* ... and an element.                                                     *)
LEMMA MinFact ==
  ASSUME NEW S \in SUBSET Nat, S # {}
  PROVE  Min(S) \in S
BY MinLeast

(* What the constants are.                                                 *)
LEMMA Consts ==
  /\ HUGE \in Nat /\ HUGE \notin Contig /\ Types = Contig \cup {HUGE} /\ Types \subseteq Nat
  /\ HugePage \in Nat \ {0}
  /\ HugeBases \subseteq HugeFrames /\ HugeFrames \subseteq Nat \ {0}
  /\ Cma \subseteq Nat \ {0} /\ Virt \subseteq Nat \ {0} /\ Areas \subseteq Nat \ {0}
  /\ \A v \in Virt : v < FAILED
  /\ FAILED = Space - 1
  /\ Cma \cap HugeFrames = {} /\ Areas \cap Cma = {} /\ Areas \cap HugeFrames = {}
  /\ {L1, L2, LOG} = Areas
<1>1. HugePage \in Nat \ {0} /\ MaxPages \in Nat \ {0} /\ NumContig \in Nat \ {0}
  BY ShmAssumption DEF ShmAssumption
<1>2. HugePage * MaxPages \in Nat /\ HugePage * MaxPages > 0
  BY <1>1, SMT
<1> DEFINE M == HugePage * MaxPages
<1>3. Cma \cup HugeFrames \cup Areas \cup Virt \subseteq M .. FAILED - 1
  BY ShmAssumption DEF ShmAssumption
<1>4. M \in Nat /\ M > 0
  BY <1>2
<1> HIDE DEF M
<1>5. Space \in Nat /\ HugeBases \subseteq Nat
  BY ShmAssumption DEF ShmAssumption
<1>6. M .. FAILED - 1 \subseteq Nat \ {0} /\ \A v \in M .. FAILED - 1 : v < FAILED
  BY <1>4, <1>5 DEF FAILED
<1>7. HugeBases \subseteq HugeFrames
  BY <1>1, <1>5 DEF HugeFrames
<1>8. HUGE \in Nat /\ HUGE \notin Contig /\ Types = Contig \cup {HUGE} /\ Types \subseteq Nat
  BY <1>1 DEF HUGE, Contig, Types
<1>9. {L1, L2, LOG} = Areas
  BY DEF Areas
<1>10. Cma \cap HugeFrames = {} /\ Areas \cap Cma = {} /\ Areas \cap HugeFrames = {}
  BY ShmAssumption DEF ShmAssumption
<1> QED  BY <1>1, <1>3, <1>6, <1>7, <1>8, <1>9, <1>10 DEF FAILED

(* A range that ends below FAILED does not wrap around; one at 0 or at     *)
(* FAILED holds no page.                                                   *)
LEMMA RangeFact ==
  ASSUME NEW m \in Mem, NEW w \in Virt
  PROVE  /\ m.virt = FAILED => ~ AtVirt(w, m)
         /\ m.virt + m.size <= FAILED => (AtVirt(w, m) <=> w \in Pages(m.virt, m.size))
<1>1. w \in Nat /\ w < FAILED /\ FAILED = Space - 1 /\ Space \in Nat
  BY Consts, ShmAssumption DEF ShmAssumption, FAILED
<1>2. m.virt \in Nat /\ m.size \in Nat
  BY DEF Mem
<1>3. ASSUME m.virt + m.size <= FAILED
      PROVE  (m.virt + m.size) % Space = m.virt + m.size
  <2> DEFINE x == m.virt + m.size
  <2>1. x \in Nat /\ x < Space /\ Space \in Nat \ {0}
    BY <1>1, <1>2, <1>3
  <2> HIDE DEF x
  <2>2. x % Space = x
    BY <2>1
  <2> QED  BY <2>2 DEF x
<1>4. m.virt = FAILED => ~ AtVirt(w, m)
  BY <1>1, <1>2 DEF AtVirt, InRange
<1> QED  BY <1>1, <1>2, <1>3, <1>4 DEF AtVirt, InRange, Pages

(* A range of mapped or free pages ends below FAILED.                      *)
LEMMA Ends ==
  ASSUME NEW v \in Nat, NEW n \in Nat, n # 0, Pages(v, n) \subseteq Virt
  PROVE  v \in Virt /\ v + n <= FAILED
<1>1. v \in Pages(v, n) /\ v + n - 1 \in Pages(v, n)
  BY DEF Pages
<1> QED  BY <1>1, Consts

(* Offsets in a huge page.                                                 *)
LEMMA DivMod ==
  ASSUME NEW x \in Nat, NEW H \in Nat \ {0}
  PROVE  /\ x \div H \in Nat /\ x % H \in 0 .. H - 1
         /\ x = H * (x \div H) + (x % H)
OBVIOUS

(* Multiples of it.                                                        *)
LEMMA DivOf ==
  ASSUME NEW i \in Nat, NEW H \in Nat \ {0}
  PROVE  (H * i) \div H = i /\ (H * i) % H = 0 /\ H * i \in Nat /\ i * H = H * i
OBVIOUS

(* A page of a region is in one of the huge pages of the region.           *)
LEMMA DivLess ==
  ASSUME NEW x \in Nat, NEW n \in Nat, NEW H \in Nat \ {0}, x < n, n % H = 0
  PROVE  x \div H \in 0 .. (n \div H) - 1
<1>1. n = H * (n \div H) /\ x = H * (x \div H) + (x % H)
      /\ n \div H \in Nat /\ x \div H \in Nat /\ x % H \in Nat
  BY DivMod
<1>2. ASSUME x \div H >= n \div H PROVE FALSE
  <2>1. H * (x \div H) >= H * (n \div H)
    BY <1>1, <1>2
  <2> QED  BY <1>1, <2>1
<1> QED  BY <1>1, <1>2
-----------------------------------------------------------------------------
(* At the start nobody has anything.                                       *)
LEMMA InitIInv == Init => IInv
<1> SUFFICES ASSUME Init PROVE IInv
  OBVIOUS
<1>1. TypeOK
  BY Consts DEF Init, TypeOK, Labels, Mem, NoMem
<1>2. ASSUME NEW p \in Procs PROVE Local(p)
  <2>1. /\ pc[p] = "closed" /\ \A t \in Types : shm[p][t] = NoMem /\ shared_mem[p][t] = NoMem
        /\ \A w \in Virt : vma[p][w] = 0
        /\ ~client[p]
    BY DEF Init
  <2>2. NoMem.phys = 0 /\ NoMem.size = 0 /\ NoMem.virt = 0
    BY DEF NoMem
  <2>3. 0 \notin Cma /\ 0 \notin HugeFrames /\ 0 \notin HugeBases
    BY Consts
  <2>4. Recorded(p) /\ Agree(p) /\ Empty(p) /\ Covered(p) /\ Places(p)
    BY <2>1, Consts DEF Recorded, Agree, Empty, Covered, Places
  <2>5. Backed(p) /\ HugeIn(p)
    BY <2>1, <2>2, <2>3, Consts DEF Backed, HugeIn
  <2>6. Whole(p)
    <3> SUFFICES ASSUME NEW w \in Virt, NEW b \in HugeBases, NEW r \in 0 .. HugePage - 1, 0 = b + r
                 PROVE  FALSE
      BY <2>1 DEF Whole
    <3> QED  BY Consts
  <2> QED  BY <2>4, <2>5, <2>6 DEF Local
<1>3. Disjoint
  <2>1. \A p \in Procs, t \in Contig : Block(p, t) = 1 .. 0 \/ Block(p, t) = 0 .. -1
    BY Consts DEF Init, Block, Pages, NoMem
  <2> QED  BY <2>1 DEF Disjoint
<1>4. HugeOnce
  BY Consts DEF Init, HugeOnce
<1> QED  BY <1>1, <1>2, <1>3, <1>4 DEF IInv
-----------------------------------------------------------------------------
(* A step that another process takes.                                      *)
Same(q) ==
  /\ pc'[q] = pc[q] /\ req'[q] = req[q] /\ shared_mem'[q] = shared_mem[q]
  /\ fd'[q] = fd[q] /\ client'[q] = client[q] /\ shm'[q] = shm[q] /\ vma'[q] = vma[q]

(* A step of one process leaves what is said of another one alone.         *)
LEMMA SameKeeps ==
  ASSUME NEW q \in Procs, Local(q), Same(q)
  PROVE  Local(q)'
<1> USE DEF Same
<1>1. Recorded(q)'
  BY DEF Local, Recorded, Block
<1>2. Backed(q)' /\ Agree(q)' /\ Empty(q)' /\ Whole(q)'
  BY DEF Local, Backed, Agree, Empty, Whole
<1>3. Covered(q)' /\ Places(q)' /\ HugeIn(q)'
  BY DEF Local, Covered, Places, HugeIn, Own, Block
<1> QED  BY <1>1, <1>2, <1>3 DEF Local

(* A step of one process has to keep what is said of it, and what is said  *)
(* of all.                                                                 *)
LEMMA Glue ==
  ASSUME IInv, NEW p \in Procs, \A q \in Procs \ {p} : Same(q),
         TypeOK', Local(p)', Disjoint', HugeOnce'
  PROVE  IInv'
<1>1. ASSUME NEW q \in Procs PROVE Local(q)'
  <2>1. CASE q = p
    BY <2>1
  <2>2. CASE q # p
    BY <2>2, SameKeeps DEF IInv
  <2> QED  BY <2>1, <2>2
<1> QED  BY <1>1 DEF IInv

(* No block grows.                                                         *)
LEMMA StillDisjoint ==
  ASSUME Disjoint, \A q \in Procs, t \in Contig : Block(q, t)' \subseteq Block(q, t)
  PROVE  Disjoint'
BY DEF Disjoint

(* No huge page is mapped.                                                 *)
LEMMA StillOnce ==
  ASSUME HugeOnce,
         \A q \in Procs, w \in Virt : vma'[q][w] \in HugeFrames => vma'[q][w] = vma[q][w]
  PROVE  HugeOnce'
BY DEF HugeOnce

(* A step in which neither memory nor the tables about it change.          *)
LEMMA Quiet ==
  ASSUME IInv, NEW p \in Procs, pc[p] # "closed",
         UNCHANGED <<shared_mem, fd, client, shm, vma>>,
         NEW l \in Labels, Goto(p, l),
         NEW r \in Nat, req' = [req EXCEPT ![p] = r],
         Covered(p)', Empty(p)', Places(p)', HugeIn(p)'
  PROVE  IInv'
<1>1. \A q \in Procs \ {p} : Same(q)
  BY DEF Same, Goto, IInv, TypeOK
<1>2. TypeOK'
  BY DEF Goto, IInv, TypeOK
<1>3. Recorded(p)' /\ Agree(p)'
  BY DEF IInv, Local, Recorded, Agree, Block
<1>4. Backed(p)' /\ Whole(p)'
  BY DEF IInv, Local, Backed, Whole
<1>5. Disjoint' /\ HugeOnce'
  BY StillDisjoint, StillOnce DEF IInv, Block
<1> QED  BY <1>1, <1>2, <1>3, <1>4, <1>5, Glue DEF Local
-----------------------------------------------------------------------------
(* Calls that change neither: dsp_open ends.                               *)
LEMMA OpenEndsIInv ==
  ASSUME IInv, NEW p \in Procs, OpenEnds(p)
  PROVE  IInv'
<1>1. pc[p] = "resume" /\ pc'[p] = "open" /\ req' = [req EXCEPT ![p] = req[p]] /\ req[p] \in Nat
  BY DEF OpenEnds, Goto, IInv, TypeOK
<1>2. UNCHANGED <<req, shared_mem, fd, client, shm, vma>> /\ Goto(p, "open")
  BY DEF OpenEnds, lib, driver
<1>3. Local(p)
  BY DEF IInv
<1>4. Empty(p)' /\ Places(p)'
  BY <1>1, <1>2, <1>3 DEF Local, Empty, Places
<1>5. Covered(p)' /\ HugeIn(p)'
  BY <1>1, <1>2, <1>3 DEF Local, Covered, HugeIn, Own, Block
<1> QED  BY <1>1, <1>2, <1>4, <1>5, Quiet DEF Labels

(* The driver refuses.                                                     *)
LEMMA SHM_ALLOC_FailsIInv ==
  ASSUME IInv, NEW p \in Procs, SHM_ALLOC_Fails(p)
  PROVE  IInv'
<1>1. /\ pc[p] = "ioctl_alloc" /\ pc'[p] = "open" /\ req[p] # HUGE
      /\ req' = [req EXCEPT ![p] = req[p]] /\ req[p] \in Nat
  BY DEF SHM_ALLOC_Fails, Goto, IInv, TypeOK
<1>2. UNCHANGED <<req, shared_mem, fd, client, shm, vma>> /\ Goto(p, "open")
  BY DEF SHM_ALLOC_Fails, lib, driver
<1>3. Local(p)
  BY DEF IInv
<1>4. Empty(p)' /\ Places(p)'
  BY <1>1, <1>2, <1>3 DEF Local, Empty, Places
<1>5. Covered(p)' /\ HugeIn(p)'
  BY <1>1, <1>2, <1>3 DEF Local, Covered, HugeIn, Own, Block
<1> QED  BY <1>1, <1>2, <1>4, <1>5, Quiet DEF Labels

(* The library asks for the addresses of huge pages, one after the other.  *)
LEMMA HUGETLB_V2PIInv ==
  ASSUME IInv, NEW p \in Procs, HUGETLB_V2P(p)
  PROVE  IInv'
<1>1. PICK l \in {"v2p", "open"} : Goto(p, l)
  BY DEF HUGETLB_V2P
<1>2. /\ pc[p] = "v2p" /\ pc'[p] = l /\ req' = [req EXCEPT ![p] = req[p] + 1] /\ req[p] + 1 \in Nat
      /\ UNCHANGED <<shared_mem, fd, client, shm, vma>>
  BY <1>1 DEF HUGETLB_V2P, Goto, IInv, TypeOK, driver
<1>3. Local(p)
  BY DEF IInv
<1>4. Empty(p)' /\ Places(p)'
  BY <1>2, <1>3 DEF Local, Empty, Places
<1>5. Covered(p)' /\ HugeIn(p)'
  BY <1>2, <1>3 DEF Local, Covered, HugeIn, Own, Block
<1> QED  BY <1>1, <1>2, <1>4, <1>5, Quiet DEF Labels

(* The library begins to give everything back.                             *)
LEMMA dsp_closeIInv ==
  ASSUME IInv, NEW p \in Procs, dsp_close(p)
  PROVE  IInv'
<1>1. pc[p] = "open" /\ pc'[p] = "close" /\ req' = [req EXCEPT ![p] = 0] /\ req'[p] = 0
  BY DEF dsp_close, Goto, IInv, TypeOK
<1>2. UNCHANGED <<shared_mem, fd, client, shm, vma>> /\ Goto(p, "close")
  BY DEF dsp_close, lib, driver
<1>3. Local(p)
  BY DEF IInv
<1>4. Empty(p)' /\ Places(p)'
  BY <1>1, <1>2, <1>3 DEF Local, Empty, Places
<1>5. Covered(p)' /\ HugeIn(p)'
  BY <1>1, <1>2, <1>3, Consts DEF Local, Covered, HugeIn, Own, Block
<1> QED  BY <1>1, <1>2, <1>4, <1>5, Quiet DEF Labels
-----------------------------------------------------------------------------
(* munmap() only takes pages away.                                         *)
LEMMA MunmapTakes ==
  ASSUME TypeOK, NEW p \in Procs, NEW ms
  PROVE  /\ Munmap(p, ms) \in [Virt -> Nat]
         /\ \A w \in Virt : Munmap(p, ms)[w] \in {0, vma[p][w]}
BY DEF Munmap, TypeOK

(* A page of a huge page is one.                                           *)
LEMMA InHuge ==
  ASSUME NEW b \in HugeBases, NEW r \in 0 .. HugePage - 1
  PROVE  b + r \in HugeFrames
<1>1. b \in Nat /\ HugePage \in Nat
  BY ShmAssumption DEF ShmAssumption
<1> QED  BY <1>1 DEF HugeFrames

(* A client, open or not, with no huge page mapped.                        *)
LEMMA ClosesDevice ==
  ASSUME IInv, NEW p \in Procs, NEW as, CloseDevice(p, as),
         NEW r \in Nat, req' = [req EXCEPT ![p] = r],
         UNCHANGED <<shared_mem, client, shm>>,
         \A w \in Virt : vma[p][w] \notin HugeFrames
  PROVE  IInv'
<1> DEFINE ms == {area[p][a] : a \in as}
<1>1. /\ pc' = [pc EXCEPT ![p] = "closed"] /\ fd' = [fd EXCEPT ![p] = FALSE]
      /\ vma' = [vma EXCEPT ![p] = Munmap(p, ms)]
  BY DEF CloseDevice, Goto
<1> HIDE DEF ms
<1>2. Munmap(p, ms) \in [Virt -> Nat] /\ \A w \in Virt : Munmap(p, ms)[w] \in {0, vma[p][w]}
  BY MunmapTakes DEF IInv
<1>3. TypeOK'
  BY <1>1, <1>2 DEF IInv, TypeOK, Labels
<1>4. pc'[p] = "closed" /\ \A w \in Virt : vma'[p][w] \in {0, vma[p][w]}
  BY <1>1, <1>2 DEF IInv, TypeOK
<1>5. \A w \in Virt : vma'[p][w] \notin HugeFrames
  BY <1>4, Consts
<1>6. Local(p)
  BY DEF IInv
<1>7. Recorded(p)' /\ Agree(p)' /\ Empty(p)' /\ Covered(p)' /\ Places(p)'
  BY <1>4, <1>6 DEF Local, Recorded, Agree, Empty, Covered, Places, Block
<1>8. Backed(p)'
  BY <1>4, <1>6, Consts DEF Local, Backed
<1>9. HugeIn(p)' /\ Whole(p)'
  BY <1>5, <1>6, InHuge DEF Local, HugeIn, Whole
<1>10. \A q \in Procs \ {p} : Same(q)
  BY <1>1 DEF Same, IInv, TypeOK
<1>11. Disjoint'
  BY StillDisjoint DEF IInv, Block
<1>12. HugeOnce'
  BY <1>5, <1>10, StillOnce DEF IInv, Same
<1> QED  BY <1>3, <1>7, <1>8, <1>9, <1>10, <1>11, <1>12, Glue DEF Local

(* dsp_open gives up: there is no shared memory yet.                       *)
LEMMA OpenFailsIInv ==
  ASSUME IInv, NEW p \in Procs, OpenFails(p)
  PROVE  IInv'
<1>1. pc[p] \in {"map", "resume"}
  BY DEF OpenFails
<1>2. \A w \in Virt : vma[p][w] \notin HugeFrames
  BY <1>1 DEF IInv, Local, HugeIn
<1>3. /\ UNCHANGED <<shared_mem, client, shm>>
      /\ req' = [req EXCEPT ![p] = req[p]] /\ req[p] \in Nat
  BY DEF OpenFails, driver, IInv, TypeOK
<1>4. PICK as : CloseDevice(p, as)
  BY DEF OpenFails
<1> QED  BY <1>2, <1>3, <1>4, ClosesDevice

(* dsp_close ends: there is no shared memory any more.                     *)
LEMMA CloseEndsIInv ==
  ASSUME IInv, NEW p \in Procs, CloseEnds(p)
  PROVE  IInv'
<1>1. /\ pc[p] = "close" /\ req[p] \notin Types /\ req[p] \in Nat
      /\ UNCHANGED <<shared_mem, client, shm>>
      /\ req' = [req EXCEPT ![p] = 0]
      /\ CloseDevice(p, Areas)
  BY DEF CloseEnds, driver, IInv, TypeOK
<1>2. ~ (req[p] <= HUGE)
  BY <1>1, Consts DEF Types
<1>3. \A w \in Virt : vma[p][w] \notin HugeFrames
  BY <1>1, <1>2 DEF IInv, Local, HugeIn
<1> QED  BY <1>1, <1>3, ClosesDevice

(* A killed process has no mappings; the driver keeps its blocks, ...      *)
LEMMA KilledIInv ==
  ASSUME IInv, NEW p \in Procs, Killed(p)
  PROVE  IInv'
<1>1. /\ pc' = [pc EXCEPT ![p] = "closed"] /\ req' = [req EXCEPT ![p] = 0]
      /\ fd' = [fd EXCEPT ![p] = FALSE] /\ vma' = [vma EXCEPT ![p] = [v \in Virt |-> 0]]
      /\ shared_mem' = [shared_mem EXCEPT ![p] = [t \in Types |-> NoMem]]
      /\ UNCHANGED <<client, shm>>
  BY DEF Killed, Goto, driver
<1>2. TypeOK'
  BY <1>1 DEF IInv, TypeOK, Labels, NoMem, Mem
<1>3. /\ pc'[p] = "closed" /\ (\A w \in Virt : vma'[p][w] = 0)
      /\ shared_mem'[p][HUGE].phys = 0
  BY <1>1, Consts DEF IInv, TypeOK, NoMem
<1>4. Local(p)
  BY DEF IInv
<1>5. Recorded(p)' /\ Agree(p)' /\ Empty(p)' /\ Covered(p)' /\ Places(p)'
  BY <1>1, <1>3, <1>4 DEF Local, Recorded, Agree, Empty, Covered, Places, Block
<1>6. Backed(p)' /\ HugeIn(p)' /\ Whole(p)'
  BY <1>3, Consts, InHuge DEF Backed, HugeIn, Whole
<1>7. \A q \in Procs \ {p} : Same(q)
  BY <1>1 DEF Same, IInv, TypeOK
<1>8. Disjoint'
  BY <1>1, StillDisjoint DEF IInv, Block
<1>9. HugeOnce'
  BY <1>3, <1>7, StillOnce, Consts DEF IInv, Same
<1> QED  BY <1>2, <1>5, <1>6, <1>7, <1>8, <1>9, Glue DEF Local

(* ... until it takes them back, when nothing of them is mapped.           *)
LEMMA fops__releaseIInv ==
  ASSUME IInv, NEW p \in Procs, fops__release(p)
  PROVE  IInv'
<1>1. /\ ~fd[p] /\ client' = [client EXCEPT ![p] = FALSE]
      /\ shm' = [shm EXCEPT ![p] = Released(p)]
      /\ UNCHANGED <<pc, req, shared_mem, fd, vma>>
      /\ DeviceVmas(p) = {}
  BY DEF fops__release, lib
<1>2. Local(p)
  BY DEF IInv
<1>3. pc[p] = "closed"
  BY <1>1, <1>2 DEF Local, Recorded
<1>4. \A w \in Virt : vma[p][w] \notin Cma
  BY <1>1, Consts DEF DeviceVmas
<1>5. Released(p) \in [Types -> Mem] /\ \A t \in Contig : Released(p)[t] = NoMem
  BY <1>2, Consts DEF Released, IInv, TypeOK, Local, Recorded, NoMem, Mem
<1>6. TypeOK'
  BY <1>1, <1>5 DEF IInv, TypeOK
<1>7. (\A t \in Contig : shm'[p][t] = NoMem) /\ pc'[p] = "closed"
  BY <1>1, <1>3, <1>5 DEF IInv, TypeOK
<1>8. Recorded(p)' /\ Agree(p)' /\ Empty(p)' /\ Covered(p)' /\ Places(p)'
  BY <1>7 DEF Recorded, Agree, Empty, Covered, Places
<1>9. Backed(p)' /\ HugeIn(p)' /\ Whole(p)'
  BY <1>1, <1>2, <1>4 DEF Local, Backed, HugeIn, Whole
<1>10. \A q \in Procs \ {p} : Same(q)
  BY <1>1 DEF Same, IInv, TypeOK
<1>11. \A q \in Procs, t \in Contig : Block(q, t)' \subseteq Block(q, t)
  <2> SUFFICES ASSUME NEW q \in Procs, NEW t \in Contig
               PROVE  Block(q, t)' \subseteq Block(q, t)
    OBVIOUS
  <2>1. CASE q = p
    BY <2>1, <1>7 DEF Block, NoMem, Pages
  <2>2. CASE q # p
    BY <2>2, <1>10 DEF Block, Same
  <2> QED  BY <2>1, <2>2
<1>12. Disjoint' /\ HugeOnce'
  BY <1>1, <1>11, StillDisjoint, StillOnce DEF IInv
<1> QED  BY <1>6, <1>8, <1>9, <1>10, <1>12, Glue DEF Local

(* A new client has no blocks.                                             *)
LEMMA dsp_openIInv ==
  ASSUME IInv, NEW p \in Procs, dsp_open(p)
  PROVE  IInv'
<1>1. /\ pc[p] = "closed" /\ ~client[p]
      /\ pc' = [pc EXCEPT ![p] = "map"] /\ req' = [req EXCEPT ![p] = L1]
      /\ fd' = [fd EXCEPT ![p] = TRUE] /\ client' = [client EXCEPT ![p] = TRUE]
      /\ shared_mem' = [shared_mem EXCEPT ![p] = [t \in Types |-> NoMem]]
      /\ UNCHANGED <<shm, vma>>
  BY DEF dsp_open, Goto
<1>2. Local(p)
  BY DEF IInv
<1>3. (\A t \in Contig : shm[p][t] = NoMem) /\ \A w \in Virt : vma[p][w] \notin HugeFrames
  BY <1>1, <1>2 DEF Local, Recorded, HugeIn
<1>4. TypeOK'
  BY <1>1, Consts DEF IInv, TypeOK, Labels, NoMem, Mem
<1>5. /\ pc'[p] = "map" /\ fd'[p] /\ client'[p] /\ req'[p] \in Areas
      /\ \A t \in Types : shared_mem'[p][t] = NoMem
  BY <1>1, Consts DEF IInv, TypeOK
<1>6. Recorded(p)' /\ Agree(p)' /\ Empty(p)' /\ Covered(p)' /\ Places(p)'
  BY <1>1, <1>3, <1>5, Consts DEF Recorded, Agree, Empty, Covered, Places, NoMem
<1>7. Backed(p)' /\ HugeIn(p)' /\ Whole(p)'
  <2>1. Backed(p)' /\ Whole(p)'
    BY <1>1, <1>2 DEF Local, Backed, Whole
  <2>2. shared_mem'[p][HUGE].phys = 0
    BY <1>5, Consts DEF NoMem
  <2> QED  BY <1>1, <1>3, <2>1, <2>2 DEF HugeIn
<1>8. \A q \in Procs \ {p} : Same(q)
  BY <1>1 DEF Same, IInv, TypeOK
<1>9. Disjoint' /\ HugeOnce'
  BY <1>1, StillDisjoint, StillOnce DEF IInv, Block
<1> QED  BY <1>4, <1>6, <1>7, <1>8, <1>9, Glue DEF Local
-----------------------------------------------------------------------------
(* Memory of one type is not that of another, and 0 is nobody's.           *)
LEMMA Owners ==
  ASSUME IInv, NEW p \in Procs
  PROVE  /\ \A t \in Types : 0 \notin Own(p, t)
         /\ \A t, u \in Types : t # u => Own(p, t) \cap Own(p, u) = {}
         /\ \A t \in Contig : /\ shm[p][t].phys \in Cma \cup {0}
                              /\ shm[p][t].phys # 0 => shm[p][t].phys \in Block(p, t)
                              /\ Block(p, t) \subseteq Cma
<1>1. ASSUME NEW t \in Contig
      PROVE  /\ shm[p][t].phys \in Cma \cup {0}
             /\ shm[p][t].phys # 0 => shm[p][t].phys \in Block(p, t)
             /\ Block(p, t) \subseteq Cma
  <2>1. CASE shm[p][t] = NoMem
    BY <2>1 DEF NoMem, Block, Pages
  <2>2. CASE shm[p][t] # NoMem
    <3>1. shm[p][t].phys # 0 /\ shm[p][t].size # 0 /\ Block(p, t) \subseteq Cma
      BY <2>2 DEF IInv, Local, Recorded
    <3>2. shm[p][t].phys \in Nat /\ shm[p][t].size \in Nat
      BY Consts DEF IInv, TypeOK, Mem
    <3> QED  BY <3>1, <3>2 DEF Block, Pages
  <2> QED  BY <2>1, <2>2
<1>2. \A t \in Types : 0 \notin Own(p, t)
  BY <1>1, Consts DEF Own
<1>3. ASSUME NEW t \in Types, NEW u \in Types, t # u
      PROVE  Own(p, t) \cap Own(p, u) = {}
  <2>1. CASE t \in Contig /\ u \in Contig
    BY <1>3, <2>1, Consts DEF Own, IInv, Disjoint
  <2>2. CASE t = HUGE \/ u = HUGE
    BY <1>1, <1>3, <2>2, Consts DEF Own
  <2> QED  BY <2>1, <2>2, Consts
<1> QED  BY <1>1, <1>2, <1>3

(* The first hole that is large enough.                                    *)
LEMMA HoleFact ==
  ASSUME IInv, NEW p \in Procs, NEW n \in Nat \ {0},
         NEW S, S \subseteq Holes(p, n), S # {}
  PROVE  /\ Min(S) \in S /\ Min(S) \in Virt /\ Pages(Min(S), n) \subseteq Virt
         /\ \A w \in Pages(Min(S), n) : vma[p][w] = 0
         /\ Min(S) + n <= FAILED
<1>1. S \in SUBSET Nat
  BY Consts DEF Holes
<1>2. Min(S) \in S
  BY <1>1, MinFact
<1> DEFINE v == Min(S)
<1> HIDE DEF v
<1>3. v \in Virt /\ \A w \in Pages(v, n) : w \in Virt /\ vma[p][w] = 0
  BY <1>2 DEF v, Holes
<1>4. v + n <= FAILED
  BY <1>3, Ends, Consts
<1> QED  BY <1>2, <1>3, <1>4 DEF v

(* The page behind a page of a block.                                      *)
LEMMA Shift ==
  ASSUME NEW f \in Nat, NEW v \in Nat, NEW n \in Nat, NEW w \in Pages(v, n)
  PROVE  f + w - v = f + (w - v) /\ f + w - v \in Pages(f, n) /\ f + w - v \in Nat
BY DEF Pages

(* What is mapped into holes leaves what was mapped before: an area of the *)
(* chip, ...                                                               *)
LEMMA MapAreaIInv ==
  ASSUME IInv, NEW p \in Procs, MapArea(p)
  PROVE  IInv'
<1> DEFINE a == req[p]
           v == Min(Holes(p, 1))
<1>1. /\ pc[p] = "map" /\ Holes(p, 1) # {} /\ fops__mmap(p, a, 1, v)
      /\ (Goto(p, "map") \/ Goto(p, "resume"))
      /\ req' = [req EXCEPT ![p] = IF a = L1 THEN L2 ELSE LOG]
      /\ UNCHANGED <<shared_mem, fd>>
  BY DEF MapArea
<1>2. /\ v \in Virt /\ vma[p][v] = 0 /\ v \in Nat
  <2>1. v \in Virt /\ \A w \in Pages(v, 1) : vma[p][w] = 0
    BY <1>1, HoleFact
  <2>2. v \in Nat
    BY <2>1, Consts
  <2> QED  BY <2>1, <2>2 DEF Pages
<1> HIDE DEF v
<1>3. Local(p)
  BY DEF IInv
<1>4. a \in Areas /\ a \in Nat /\ a # 0 /\ a \notin Cma /\ a \notin HugeFrames
  <2>1. a \in Areas
    BY <1>1, <1>3 DEF Local, Places
  <2> QED  BY <2>1, Consts
<1>5. {t \in Contig : shm[p][t].phys = a} = {}
  BY <1>4, Owners
<1>6. /\ UNCHANGED <<shm, client>>
      /\ vma' = [vma EXCEPT ![p] =
                   [w \in Virt |-> IF w \in Pages(v, 1) THEN a + w - v ELSE vma[p][w]]]
  BY <1>1, <1>5 DEF fops__mmap
<1>7. vma' = [vma EXCEPT ![p] = [w \in Virt |-> IF w = v THEN a ELSE vma[p][w]]]
  <2>1. Pages(v, 1) = {v} /\ a + v - v = a
    BY <1>2, <1>4 DEF Pages
  <2> QED  BY <1>6, <2>1
<1>8. /\ \A w \in Virt : vma[p][w] # 0 => vma'[p][w] = vma[p][w]
      /\ \A w \in Virt : vma'[p][w] # a => vma'[p][w] = vma[p][w]
  BY <1>2, <1>7 DEF IInv, TypeOK
<1>9. /\ pc' \in [Procs -> Labels] /\ pc'[p] \in {"map", "resume"}
      /\ req' \in [Procs -> Nat] /\ req'[p] \in Areas
  BY <1>1, Consts DEF IInv, TypeOK, Goto, Labels
<1>10. TypeOK'
  BY <1>1, <1>4, <1>6, <1>7, <1>9 DEF IInv, TypeOK
<1>11. Recorded(p)' /\ Agree(p)' /\ Empty(p)' /\ Places(p)'
  BY <1>1, <1>3, <1>6, <1>9 DEF Local, Recorded, Agree, Empty, Places, Block
<1>12. \A w \in Virt : vma'[p][w] \in Cma => vma'[p][w] = vma[p][w]
  BY <1>4, <1>8
<1>13. \A w \in Virt : vma'[p][w] \in HugeFrames => vma'[p][w] = vma[p][w]
  BY <1>4, <1>8
<1>14. Backed(p)'
  BY <1>3, <1>6, <1>12 DEF Local, Backed
<1>15. HugeIn(p)' /\ Whole(p)'
  BY <1>1, <1>3, <1>13, InHuge DEF Local, HugeIn, Whole
<1>16. Covered(p)'
  <2>1. \A t \in Types : Own(p, t)' = Own(p, t) /\ 0 \notin Own(p, t)
    BY <1>6, Owners DEF Own, Block
  <2> QED  BY <1>1, <1>3, <1>8, <1>9, <2>1 DEF Local, Covered
<1>17. \A q \in Procs \ {p} : Same(q)
  BY <1>1, <1>6 DEF Same, Goto, IInv, TypeOK
<1>18. Disjoint'
  BY <1>6, StillDisjoint DEF IInv, Block
<1>19. HugeOnce'
  BY <1>13, <1>17, StillOnce DEF IInv, Same
<1> QED  BY <1>10, <1>11, <1>14, <1>15, <1>16, <1>17, <1>18, <1>19, Glue DEF Local

(* ... or the block the driver has just given to the library.              *)
LEMMA MmapBlockIInv ==
  ASSUME IInv, NEW p \in Procs, MmapBlock(p)
  PROVE  IInv'
<1> DEFINE t == req[p]
           m == shared_mem[p][t]
           v == Min(Holes(p, m.size))
<1>1. /\ pc[p] = "mmap" /\ Holes(p, m.size) # {} /\ fops__mmap(p, m.phys, m.size, v)
      /\ shared_mem' = [shared_mem EXCEPT ![p][t].virt = v]
      /\ Goto(p, "open") /\ UNCHANGED <<req, fd>>
  BY DEF MmapBlock
<1>2. Local(p)
  BY DEF IInv
<1>3. /\ t \in Contig /\ shm[p][t].phys # 0 /\ shm[p][t].virt = 0
      /\ m.phys = shm[p][t].phys /\ m.size = shm[p][t].size
      /\ m.size \in Nat \ {0} /\ m.phys \in Nat
      /\ Block(p, t) = Pages(m.phys, m.size)
  <2>1. t \in Contig /\ shm[p][t].phys # 0 /\ shm[p][t].virt = 0
    BY <1>1, <1>2 DEF Local, Places
  <2>2. m.phys = shm[p][t].phys /\ m.size = shm[p][t].size
    BY <1>1, <1>2, <2>1 DEF Local, Agree
  <2>3. shm[p][t].size # 0
    BY <1>2, <2>1 DEF Local, Recorded, NoMem
  <2>4. shm[p][t] \in Mem
    BY <2>1, Consts DEF IInv, TypeOK
  <2> QED  BY <2>1, <2>2, <2>3, <2>4 DEF Mem, Block
<1> DEFINE hit == {u \in Contig : shm[p][u].phys = m.phys}
<1>4. Min(hit) = t /\ hit # {}
  <2>1. t \in hit
    BY <1>3
  <2>2. hit \in SUBSET Nat
    BY Consts
  <2>3. Min(hit) \in hit
    BY <2>1, <2>2, MinFact
  <2>4. m.phys \in Block(p, Min(hit)) /\ m.phys \in Block(p, t)
    BY <1>3, <2>3, Owners
  <2> QED  BY <1>3, <2>1, <2>3, <2>4 DEF IInv, Disjoint
<1> HIDE DEF hit
<1>5. v \in Virt /\ v \in Nat \ {0} /\ Pages(v, m.size) \subseteq Virt /\ v + m.size <= FAILED
      /\ \A w \in Pages(v, m.size) : vma[p][w] = 0
  <2>1. /\ v \in Virt /\ Pages(v, m.size) \subseteq Virt /\ v + m.size <= FAILED
        /\ \A w \in Pages(v, m.size) : vma[p][w] = 0
    BY <1>1, <1>3, HoleFact
  <2> QED  BY <2>1, Consts
<1> HIDE DEF v
<1>6. /\ shm' = [shm EXCEPT ![p][t].virt = v] /\ client' = client
      /\ vma' = [vma EXCEPT ![p] = [w \in Virt |->
                   IF w \in Pages(v, m.size) THEN m.phys + w - v ELSE vma[p][w]]]
  BY <1>1, <1>4 DEF fops__mmap, hit
<1>7. \A w \in Virt :
        /\ w \in Pages(v, m.size) =>
             vma'[p][w] = m.phys + (w - v) /\ vma'[p][w] \in Block(p, t) /\ vma'[p][w] \in Nat
        /\ w \notin Pages(v, m.size) => vma'[p][w] = vma[p][w]
        /\ vma[p][w] # 0 => vma'[p][w] = vma[p][w]
  <2> SUFFICES ASSUME NEW w \in Virt
               PROVE  /\ w \in Pages(v, m.size) => /\ vma'[p][w] = m.phys + (w - v)
                                                   /\ vma'[p][w] \in Block(p, t)
                                                   /\ vma'[p][w] \in Nat
                      /\ w \notin Pages(v, m.size) => vma'[p][w] = vma[p][w]
                      /\ vma[p][w] # 0 => vma'[p][w] = vma[p][w]
    OBVIOUS
  <2>1. vma'[p][w] = IF w \in Pages(v, m.size) THEN m.phys + w - v ELSE vma[p][w]
    BY <1>6 DEF IInv, TypeOK
  <2>2. ASSUME w \in Pages(v, m.size)
        PROVE  /\ m.phys + w - v = m.phys + (w - v)
               /\ m.phys + w - v \in Pages(m.phys, m.size) /\ m.phys + w - v \in Nat
    BY <1>3, <1>5, <2>2, Shift
  <2> QED  BY <1>3, <1>5, <2>1, <2>2
<1>8. /\ \A q \in Procs, u \in Types : q # p \/ u # t => shm'[q][u] = shm[q][u]
      /\ shm'[p][t] = [shm[p][t] EXCEPT !.virt = v]
      /\ \A u \in Types : u # t => shared_mem'[p][u] = shared_mem[p][u]
      /\ shared_mem'[p][t] = [m EXCEPT !.virt = v]
  <2>1. t \in Types
    BY <1>3, Consts
  <2>2. /\ \A q \in Procs, u \in Types : q # p \/ u # t => shm'[q][u] = shm[q][u]
        /\ shm'[p][t] = [shm[p][t] EXCEPT !.virt = v]
    BY <1>6, <2>1 DEF IInv, TypeOK
  <2>3. /\ \A u \in Types : u # t => shared_mem'[p][u] = shared_mem[p][u]
        /\ shared_mem'[p][t] = [m EXCEPT !.virt = v]
    BY <1>1, <2>1 DEF IInv, TypeOK
  <2> QED  BY <2>2, <2>3
<1>9. shm[p][t] \in Mem /\ m \in Mem
  BY <1>3, Consts DEF IInv, TypeOK
<1>10. /\ shm'[p][t].phys = m.phys /\ shm'[p][t].size = m.size /\ shm'[p][t].virt = v
       /\ shared_mem'[p][t].phys = m.phys /\ shared_mem'[p][t].size = m.size
       /\ shared_mem'[p][t].virt = v /\ shm'[p][t] \in Mem /\ shared_mem'[p][t] \in Mem
  BY <1>3, <1>5, <1>8, <1>9 DEF Mem
<1>11. /\ pc' = [pc EXCEPT ![p] = "open"] /\ pc'[p] = "open"
  BY <1>1 DEF Goto, IInv, TypeOK
<1>12. TypeOK'
  <2>1. vma' \in [Procs -> [Virt -> Nat]]
    <3>1. \A w \in Virt : vma'[p][w] \in Nat
      BY <1>7 DEF IInv, TypeOK
    <3>2. [w \in Virt |-> IF w \in Pages(v, m.size) THEN m.phys + w - v ELSE vma[p][w]]
            \in [Virt -> Nat]
      BY <1>6, <3>1 DEF IInv, TypeOK
    <3> QED  BY <1>6, <3>2 DEF IInv, TypeOK
  <2>2. shm' \in [Procs -> [Types -> Mem]] /\ shared_mem' \in [Procs -> [Types -> Mem]]
    BY <1>1, <1>3, <1>5, <1>6, <1>9, Consts DEF IInv, TypeOK, Mem
  <2> QED  BY <1>1, <1>6, <1>11, <2>1, <2>2 DEF IInv, TypeOK, Labels
<1>13. \A u \in Types : Block(p, u)' = Block(p, u) /\ Own(p, u)' = Own(p, u)
  BY <1>3, <1>8, <1>10 DEF Block, Own
<1>14. Recorded(p)'
  <2>1. pc'[p] # "closed" => fd'[p] /\ client'[p]
    BY <1>1, <1>2, <1>6 DEF Local, Recorded
  <2>2. client'[p]
    BY <2>1, <1>11
  <2>3. shm'[p][t].phys # 0 /\ shm'[p][t].size # 0 /\ Block(p, t)' \subseteq Cma
        /\ shm'[p][t].virt + shm'[p][t].size <= FAILED
    <3>1. Block(p, t)' = Block(p, t) /\ Block(p, t) \subseteq Cma
      BY <1>1, <1>3, <1>13, Owners, Consts
    <3>2. m.phys # 0 /\ m.size # 0 /\ v + m.size <= FAILED
      BY <1>3, <1>5
    <3> QED  BY <1>10, <3>1, <3>2
  <2>4. ASSUME NEW u \in Contig
        PROVE  \/ shm'[p][u] = NoMem
               \/ /\ shm'[p][u].phys # 0 /\ shm'[p][u].size # 0 /\ Block(p, u)' \subseteq Cma
                  /\ shm'[p][u].virt # 0 => shm'[p][u].virt + shm'[p][u].size <= FAILED
    <3>1. CASE u = t
      <4>1. Block(p, u)' \subseteq Cma
        BY <1>13, Owners, Consts
      <4> QED  BY <2>3, <3>1, <4>1
    <3>2. CASE u # t
      <4>1. shm'[p][u] = shm[p][u] /\ Block(p, u)' = Block(p, u)
        BY <1>8, <1>13, <3>2, Consts
      <4> QED  BY <1>2, <4>1 DEF Local, Recorded
    <3> QED  BY <3>1, <3>2
  <2> QED  BY <2>1, <2>2, <2>4 DEF Recorded
<1>15. Backed(p)'
  <2> SUFFICES ASSUME NEW w \in Virt, vma'[p][w] \in Cma
               PROVE  \E u \in Contig :
                        /\ shm'[p][u].virt # 0
                        /\ w \in Pages(shm'[p][u].virt, shm'[p][u].size)
                        /\ vma'[p][w] = shm'[p][u].phys + (w - shm'[p][u].virt)
    BY DEF Backed
  <2>1. CASE w \in Pages(v, m.size)
    BY <1>3, <1>5, <1>7, <1>10, <2>1
  <2>2. CASE w \notin Pages(v, m.size)
    <3>1. vma'[p][w] = vma[p][w]
      BY <1>7, <2>2
    <3>2. PICK u \in Contig : /\ shm[p][u].virt # 0
                              /\ w \in Pages(shm[p][u].virt, shm[p][u].size)
                              /\ vma[p][w] = shm[p][u].phys + (w - shm[p][u].virt)
      BY <1>2, <3>1 DEF Local, Backed
    <3>3. shm'[p][u] = shm[p][u]
      BY <1>3, <1>8, <3>2, Consts
    <3> QED  BY <3>1, <3>2, <3>3
  <2> QED  BY <2>1, <2>2
<1>16. Agree(p)' /\ Empty(p)' /\ Places(p)'
  <2>1. Agree(p)'
    <3>1. \A u \in Contig : u # t =>
            shm'[p][u] = shm[p][u] /\ shared_mem'[p][u] = shared_mem[p][u]
      BY <1>8, Consts
    <3>2. \A u \in Contig : u # t =>
            /\ shared_mem'[p][u].phys = shm'[p][u].phys
            /\ shm'[p][u].phys # 0 => shared_mem'[p][u].size = shm'[p][u].size
            /\ shm'[p][u].virt # 0 => shared_mem'[p][u].virt = shm'[p][u].virt
      BY <1>1, <1>2, <3>1 DEF Local, Agree
    <3> QED  BY <1>10, <3>2 DEF Agree
  <2>2. Empty(p)'
    BY <1>1, <1>2, <1>3, <1>8, <1>10 DEF Local, Empty
  <2>3. Places(p)'
    BY <1>11 DEF Places
  <2> QED  BY <2>1, <2>2, <2>3
<1>17. Covered(p)'
  <2> SUFFICES ASSUME NEW u \in Types, NEW w \in Virt,
                      shared_mem'[p][u].virt # 0, AtVirt(w, shared_mem'[p][u])
               PROVE  vma'[p][w] \in Own(p, u)
    BY <1>13 DEF Covered
  <2>1. CASE u = t
    <3>1. w \in Pages(v, m.size)
      BY <1>5, <1>10, <2>1, RangeFact
    <3> QED  BY <1>3, <1>7, <2>1, <3>1, Consts DEF Own
  <2>2. CASE u # t
    <3>1. vma[p][w] \in Own(p, u)
      BY <1>1, <1>2, <1>8, <2>2 DEF Local, Covered
    <3> QED  BY <1>7, <3>1, Owners
  <2> QED  BY <2>1, <2>2
<1>18. \A w \in Virt : vma'[p][w] \in HugeFrames => vma'[p][w] = vma[p][w]
  BY <1>3, <1>7, Owners, Consts
<1>19. HugeIn(p)' /\ Whole(p)'
  <2>1. shared_mem'[p][HUGE] = shared_mem[p][HUGE]
    BY <1>3, <1>8, Consts
  <2>2. HugeIn(p)'
    BY <1>1, <1>2, <1>11, <1>18, <2>1 DEF Local, HugeIn
  <2>3. Whole(p)'
    <3> SUFFICES ASSUME NEW w \in Virt, NEW b \in HugeBases, NEW r \in 0 .. HugePage - 1,
                        vma'[p][w] = b + r
                 PROVE  w - r \in Virt /\ vma'[p][w - r] = b
      BY DEF Whole
    <3>1. vma[p][w] = b + r
      BY <1>18, InHuge
    <3>2. w - r \in Virt /\ vma[p][w - r] = b
      BY <1>2, <3>1 DEF Local, Whole
    <3>3. b # 0
      BY Consts
    <3> QED  BY <1>7, <3>2, <3>3
  <2> QED  BY <2>2, <2>3
<1>20. \A q \in Procs \ {p} : Same(q)
  BY <1>1, <1>6, <1>11 DEF Same, IInv, TypeOK
<1>21. Disjoint'
  <2>1. \A q \in Procs, u \in Contig : Block(q, u)' \subseteq Block(q, u)
    BY <1>13, <1>20, Consts DEF Block, Same
  <2> QED  BY <2>1, StillDisjoint DEF IInv
<1>22. HugeOnce'
  BY <1>18, <1>20, StillOnce DEF IInv, Same
<1> QED  BY <1>12, <1>14, <1>15, <1>16, <1>17, <1>19, <1>20, <1>21, <1>22, Glue DEF Local
-----------------------------------------------------------------------------
(* A step that changes the library's table alone, at a type that is not    *)
(* mapped.                                                                 *)
LEMMA LibOnly ==
  ASSUME IInv, NEW p \in Procs, pc[p] \notin {"closed", "ioctl_free"},
         UNCHANGED <<fd, client, shm, vma>>,
         NEW l \in Labels \ {"closed"}, Goto(p, l),
         NEW r \in Nat, req' = [req EXCEPT ![p] = r],
         NEW t \in Types, NEW m \in Mem, m.virt \in {0, FAILED},
         shared_mem' = [shared_mem EXCEPT ![p] = [shared_mem[p] EXCEPT ![t] = m]],
         t \in Contig => /\ m.phys = shm[p][t].phys /\ shm[p][t].virt = 0
                         /\ m.phys # 0 => m.size = shm[p][t].size,
         Places(p)', HugeIn(p)',
         pc[p] # "ioctl_alloc" \/ req[p] # HUGE
  PROVE  IInv'
<1>1. \A q \in Procs \ {p} : Same(q)
  BY DEF Same, Goto, IInv, TypeOK
<1>2. TypeOK'
  BY DEF Goto, IInv, TypeOK
<1>3. /\ \A u \in Types : u # t => shared_mem'[p][u] = shared_mem[p][u]
      /\ shared_mem'[p][t] = m /\ pc'[p] = l
  BY DEF Goto, IInv, TypeOK
<1>4. Local(p)
  BY DEF IInv
<1>5. Recorded(p)' /\ Backed(p)' /\ Whole(p)'
  <2>1. Recorded(p)'
    BY <1>4 DEF Local, Recorded, Block
  <2> QED  BY <2>1, <1>4 DEF Local, Backed, Whole
<1>6. Agree(p)'
  BY <1>3, <1>4, Consts DEF Local, Agree
<1>7. Empty(p)'
  BY <1>3, <1>4 DEF Local, Empty
<1>8. Covered(p)'
  <2> SUFFICES ASSUME NEW u \in Types, NEW w \in Virt,
                      shared_mem'[p][u].virt # 0, AtVirt(w, shared_mem'[p][u])
               PROVE  vma'[p][w] \in Own(p, u)'
    BY DEF Covered
  <2>1. u # t
    BY <1>3, RangeFact
  <2>2. vma[p][w] \in Own(p, u)
    BY <1>3, <1>4, <2>1 DEF Local, Covered
  <2> QED  BY <2>2 DEF Own, Block
<1>9. Disjoint' /\ HugeOnce'
  BY StillDisjoint, StillOnce DEF IInv, Block
<1> QED  BY <1>1, <1>2, <1>5, <1>6, <1>7, <1>8, <1>9, Glue DEF Local

(* The block stays the client's, with no address.                          *)
LEMMA MmapBlockFailsIInv ==
  ASSUME IInv, NEW p \in Procs, MmapBlockFails(p)
  PROVE  IInv'
<1>1. PICK t : t = req[p]
  OBVIOUS
<1>2. /\ pc[p] = "mmap" /\ Goto(p, "open") /\ req' = [req EXCEPT ![p] = t] /\ t \in Nat
      /\ shared_mem' = [shared_mem EXCEPT ![p][t].virt = FAILED]
      /\ UNCHANGED <<fd, client, shm, vma>>
  BY <1>1 DEF MmapBlockFails, driver, IInv, TypeOK
<1>3. Local(p)
  BY DEF IInv
<1>4. t \in Contig /\ t \in Types /\ shm[p][t].phys # 0 /\ shm[p][t].virt = 0
  BY <1>1, <1>2, <1>3, Consts DEF Local, Places
<1>5. /\ shared_mem[p][t].phys = shm[p][t].phys /\ shared_mem[p][t].size = shm[p][t].size
      /\ shared_mem[p][t] \in Mem
  BY <1>2, <1>3, <1>4 DEF Local, Agree, IInv, TypeOK
<1>6. PICK m : m = [shared_mem[p][t] EXCEPT !.virt = FAILED]
  OBVIOUS
<1>7. /\ m \in Mem /\ m.virt = FAILED
      /\ m.phys = shared_mem[p][t].phys /\ m.size = shared_mem[p][t].size
  <2>1. FAILED \in Nat
    BY Consts, <1>2, <1>3, ShmAssumption DEF FAILED, ShmAssumption, Areas
  <2> QED  BY <1>5, <1>6, <2>1 DEF Mem
<1>8. shared_mem' = [shared_mem EXCEPT ![p] = [shared_mem[p] EXCEPT ![t] = m]]
  BY <1>2, <1>4, <1>6 DEF IInv, TypeOK
<1>9. pc'[p] = "open" /\ shared_mem'[p][HUGE] = shared_mem[p][HUGE]
  BY <1>2, <1>4, <1>8, Consts DEF Goto, IInv, TypeOK
<1>10. Places(p)' /\ HugeIn(p)'
  BY <1>2, <1>3, <1>9 DEF Local, Places, HugeIn
<1> QED  BY <1>2, <1>4, <1>5, <1>7, <1>8, <1>10, LibOnly DEF Labels

(* No huge page is mapped.                                                 *)
LEMMA MmapHugeFailsIInv ==
  ASSUME IInv, NEW p \in Procs, MmapHugeFails(p)
  PROVE  IInv'
<1>1. /\ pc[p] = "mmap_huge" /\ Goto(p, "open") /\ req' = [req EXCEPT ![p] = req[p]]
      /\ req[p] \in Nat
      /\ shared_mem' = [shared_mem EXCEPT ![p][HUGE].virt = FAILED]
      /\ UNCHANGED <<fd, client, shm, vma>>
  BY DEF MmapHugeFails, driver, IInv, TypeOK
<1>2. Local(p) /\ HUGE \in Types /\ shared_mem[p][HUGE] \in Mem
  BY Consts DEF IInv, TypeOK
<1>3. PICK m : m = [shared_mem[p][HUGE] EXCEPT !.virt = FAILED]
  OBVIOUS
<1>4. /\ m \in Mem /\ m.virt = FAILED /\ m.phys = shared_mem[p][HUGE].phys
  <2>1. FAILED \in Nat
    BY Consts, ShmAssumption DEF FAILED, ShmAssumption, Areas
  <2> QED  BY <1>2, <1>3, <2>1 DEF Mem
<1>5. shared_mem' = [shared_mem EXCEPT ![p] = [shared_mem[p] EXCEPT ![HUGE] = m]]
  BY <1>1, <1>2, <1>3 DEF IInv, TypeOK
<1>6. pc'[p] = "open" /\ shared_mem'[p][HUGE] = m
  BY <1>1, <1>2, <1>5 DEF Goto, IInv, TypeOK
<1>7. Places(p)' /\ HugeIn(p)'
  BY <1>1, <1>2, <1>4, <1>6 DEF Local, Places, HugeIn
<1> QED  BY <1>1, <1>2, <1>4, <1>5, <1>7, LibOnly, Consts DEF Labels

(* A huge allocation is a whole number of huge pages.                      *)
LEMMA RoundedFact ==
  ASSUME NEW t \in Types, NEW n \in Nat \ {0}
  PROVE  Rounded(t, n) \in Nat \ {0} /\ Rounded(HUGE, n) % HugePage = 0
<1> DEFINE k == (n + HugePage - 1) \div HugePage
<1>1. HugePage \in Nat \ {0} /\ n + HugePage - 1 \in Nat
  BY Consts
<1>2. /\ k \in Nat /\ (n + HugePage - 1) % HugePage < HugePage
      /\ n + HugePage - 1 = HugePage * k + ((n + HugePage - 1) % HugePage)
  BY <1>1, DivMod
<1> HIDE DEF k
<1>3. HugePage * k \in Nat /\ k * HugePage = HugePage * k /\ (HugePage * k) % HugePage = 0
  BY <1>1, <1>2, DivOf, Zenon
<1>4. HugePage * k # 0
  BY <1>1, <1>2, <1>3
<1> QED  BY <1>3, <1>4 DEF Rounded, k

(* Only a type that is not allocated gets a new size.                      *)
LEMMA dsp_shm_alloc_atIInv ==
  ASSUME IInv, NEW p \in Procs, NEW t \in Types, NEW n \in Sizes, dsp_shm_alloc_at(p, t, n)
  PROVE  IInv'
<1>1. PICK l : l = IF t = HUGE THEN "mmap_huge" ELSE "ioctl_alloc"
  OBVIOUS
<1>2. /\ pc[p] = "open" /\ Goto(p, l) /\ req' = [req EXCEPT ![p] = t] /\ t \in Nat
      /\ shared_mem[p][t].phys = 0
      /\ shared_mem' = [shared_mem EXCEPT ![p][t].size = Rounded(t, n)]
      /\ UNCHANGED <<fd, client, shm, vma>>
  BY <1>1, Consts DEF dsp_shm_alloc_at, driver
<1>3. Local(p) /\ HUGE \in Types /\ shared_mem[p][t] \in Mem
  BY Consts DEF IInv, TypeOK
<1>4. n \in Nat \ {0}
  BY ShmAssumption DEF ShmAssumption
<1>5. PICK s : s = Rounded(t, n)
  OBVIOUS
<1>6. s \in Nat \ {0} /\ (t = HUGE => s % HugePage = 0)
  BY <1>4, <1>5, RoundedFact
<1>7. PICK m : m = [shared_mem[p][t] EXCEPT !.size = s]
  OBVIOUS
<1>8. m \in Mem /\ m.phys = 0 /\ m.virt = shared_mem[p][t].virt /\ m.size = s
  BY <1>2, <1>3, <1>6, <1>7 DEF Mem
<1>9. m.virt \in {0, FAILED}
  BY <1>2, <1>3, <1>8 DEF Local, Empty
<1>10. shared_mem' = [shared_mem EXCEPT ![p] = [shared_mem[p] EXCEPT ![t] = m]]
  BY <1>2, <1>3, <1>5, <1>7 DEF IInv, TypeOK
<1>11. t \in Contig => shm[p][t].phys = 0 /\ shm[p][t].virt = 0
  BY <1>2, <1>3 DEF Local, Agree, Recorded, NoMem
<1>12. /\ pc'[p] = l /\ req'[p] = t /\ shared_mem'[p][t] = m
       /\ \A u \in Types : u # t => shared_mem'[p][u] = shared_mem[p][u]
  BY <1>2, <1>3, <1>10 DEF Goto, IInv, TypeOK
<1>13. Places(p)'
  BY <1>1, <1>6, <1>8, <1>12, Consts DEF Places
<1>14. HugeIn(p)'
  <2>1. CASE t = HUGE
    <3>1. \A w \in Virt : vma[p][w] \notin HugeFrames
      BY <1>2, <1>3, <2>1 DEF Local, HugeIn
    <3> QED  BY <1>2, <1>8, <1>12, <2>1, <3>1 DEF HugeIn
  <2>2. CASE t # HUGE
    <3>1. shared_mem'[p][HUGE] = shared_mem[p][HUGE] /\ pc'[p] = "ioctl_alloc"
      BY <1>1, <1>3, <1>12, <2>2
    <3> QED  BY <1>2, <1>3, <3>1 DEF Local, HugeIn
  <2> QED  BY <2>1, <2>2
<1> QED  BY <1>1, <1>2, <1>8, <1>9, <1>10, <1>11, <1>13, <1>14, LibOnly DEF Labels
-----------------------------------------------------------------------------
(* The driver takes memory that no client has.                             *)
LEMMA SHM_ALLOCIInv ==
  ASSUME IInv, NEW p \in Procs, SHM_ALLOC(p)
  PROVE  IInv'
<1>1. PICK t : t = req[p]
  OBVIOUS
<1>2. PICK n : n = shared_mem[p][t].size
  OBVIOUS
<1>3. PICK f \in Cma : /\ Pages(f, n) \subseteq Cma \ Taken
                       /\ shm' = [shm EXCEPT ![p][t] = [phys |-> f, virt |-> 0, size |-> n]]
                       /\ shared_mem' = [shared_mem EXCEPT ![p][t] = [phys |-> f, virt |-> 0, size |-> n]]
  BY <1>1, <1>2 DEF SHM_ALLOC
<1>4. PICK m : m = [phys |-> f, virt |-> 0, size |-> n]
  OBVIOUS
<1>5. /\ pc[p] = "ioctl_alloc" /\ t # HUGE /\ shm[p][t].phys = 0
      /\ pc' = [pc EXCEPT ![p] = "mmap"] /\ UNCHANGED <<req, fd, client, vma>>
  BY <1>1 DEF SHM_ALLOC, Goto
<1>6. Local(p)
  BY DEF IInv
<1>7. t \in Contig /\ t \in Types /\ n \in Nat \ {0}
  BY <1>1, <1>2, <1>5, <1>6, Consts DEF Local, Places, IInv, TypeOK, Mem
<1>8. m \in Mem /\ m.phys = f /\ m.virt = 0 /\ m.size = n /\ f # 0
  BY <1>4, <1>7, Consts DEF Mem
<1>9. shm[p][t] = NoMem
  BY <1>5, <1>6, <1>7 DEF Local, Recorded
<1>10. TypeOK'
  BY <1>3, <1>4, <1>5, <1>7, <1>8 DEF IInv, TypeOK, Labels
<1>11. /\ pc'[p] = "mmap" /\ shm'[p][t] = m /\ shared_mem'[p][t] = m
       /\ \A u \in Types : u # t => /\ shm'[p][u] = shm[p][u]
                                    /\ shared_mem'[p][u] = shared_mem[p][u]
  BY <1>3, <1>4, <1>5, <1>7 DEF IInv, TypeOK
<1>12. \A q \in Procs \ {p} : Same(q)
  BY <1>3, <1>5 DEF Same, IInv, TypeOK
<1>13. Block(p, t)' = Pages(f, n)
  BY <1>8, <1>11, <1>1, <1>5 DEF Block
<1>14. Recorded(p)'
  <2>1. fd'[p] /\ client'[p]
    BY <1>5, <1>6 DEF Local, Recorded
  <2>2. \A u \in Contig : u # t => Block(p, u)' = Block(p, u) /\ shm'[p][u] = shm[p][u]
    BY <1>11, Consts DEF Block
  <2>3. shm'[p][t].phys # 0 /\ shm'[p][t].size # 0 /\ Block(p, t)' \subseteq Cma
        /\ shm'[p][t].virt = 0
    BY <1>3, <1>7, <1>8, <1>11, <1>13
  <2> QED  BY <1>6, <2>1, <2>2, <2>3 DEF Local, Recorded
<1>15. Backed(p)' /\ Whole(p)'
  <2>1. Backed(p)'
    <3>1. \A u \in Contig : shm[p][u].virt # 0 => shm'[p][u] = shm[p][u]
      BY <1>9, <1>11, Consts DEF NoMem
    <3> QED  BY <1>5, <1>6, <3>1 DEF Local, Backed
  <2> QED  BY <1>5, <1>6, <2>1 DEF Local, Whole
<1>16. Agree(p)'
  BY <1>5, <1>6, <1>11, Consts DEF Local, Agree
<1>17. Empty(p)' /\ Places(p)'
  <2>1. Empty(p)'
    BY <1>1, <1>5, <1>6, <1>7, <1>8, <1>11 DEF Local, Empty
  <2> QED  BY <1>1, <1>5, <1>7, <1>8, <1>11, <2>1 DEF Places
<1>18. Covered(p)'
  BY <1>5, <1>6, <1>7, <1>8, <1>11 DEF Local, Covered, Own, Block
<1>19. HugeIn(p)'
  BY <1>1, <1>5, <1>6, <1>7, <1>11, Consts DEF Local, HugeIn
<1>20. Disjoint'
  <2>1. ASSUME NEW q \in Procs, NEW u \in Contig, q # p \/ u # t
        PROVE  Block(q, u)' = Block(q, u) /\ Block(q, u) \cap Pages(f, n) = {}
    <3>1. Block(q, u) \subseteq Taken
      BY DEF Block, Taken
    <3>2. Block(q, u)' = Block(q, u)
      BY <1>11, <1>12, <2>1, Consts DEF Block, Same
    <3> QED  BY <1>3, <3>1, <3>2
  <2> QED  BY <1>13, <2>1 DEF IInv, Disjoint
<1>21. HugeOnce'
  BY <1>5, StillOnce DEF IInv
<1> QED  BY <1>10, <1>12, <1>14, <1>15, <1>16, <1>17, <1>18, <1>19, <1>20, <1>21, Glue DEF Local

(* The library and the driver note the first huge page.                    *)
LEMMA SHM_ALLOC_HUGEIInv ==
  ASSUME IInv, NEW p \in Procs, SHM_ALLOC_HUGE(p)
  PROVE  IInv'
<1>1. PICK f : f = vma[p][shared_mem[p][HUGE].virt]
  OBVIOUS
<1>2. PICK m : m = [shared_mem[p][HUGE] EXCEPT !.phys = f]
  OBVIOUS
<1>3. /\ pc[p] = "ioctl_alloc" /\ req[p] = HUGE
      /\ shm' = [shm EXCEPT ![p][HUGE] = m] /\ shared_mem' = [shared_mem EXCEPT ![p][HUGE] = m]
      /\ req' = [req EXCEPT ![p] = 0] /\ pc' = [pc EXCEPT ![p] = "v2p"]
      /\ UNCHANGED <<fd, client, vma>>
  BY <1>1, <1>2 DEF SHM_ALLOC_HUGE, loc_hugetlb_virt_to_phys, Goto
<1>4. Local(p) /\ HUGE \in Types /\ shared_mem[p][HUGE] \in Mem
  BY Consts DEF IInv, TypeOK
<1>5. f \in HugeFrames /\ f \in Nat /\ f # 0
  BY <1>1, <1>3, <1>4, Consts DEF Local, Places
<1>6. m \in Mem /\ m.phys = f /\ m.virt = shared_mem[p][HUGE].virt /\ m.size = shared_mem[p][HUGE].size
  BY <1>2, <1>4, <1>5 DEF Mem
<1>7. TypeOK'
  BY <1>3, <1>4, <1>6 DEF IInv, TypeOK, Labels
<1>8. /\ pc'[p] = "v2p" /\ shared_mem'[p][HUGE] = m
      /\ \A u \in Contig : shm'[p][u] = shm[p][u] /\ shared_mem'[p][u] = shared_mem[p][u]
  BY <1>3, <1>4, Consts DEF IInv, TypeOK
<1>9. \A q \in Procs \ {p} : Same(q)
  BY <1>3 DEF Same, IInv, TypeOK
<1>10. Recorded(p)' /\ Backed(p)' /\ Agree(p)' /\ Whole(p)'
  <2>1. Recorded(p)'
    BY <1>3, <1>4, <1>8 DEF Local, Recorded, Block
  <2>2. Backed(p)'
    BY <1>3, <1>4, <1>8 DEF Local, Backed
  <2>3. Agree(p)'
    BY <1>3, <1>4, <1>8 DEF Local, Agree
  <2> QED  BY <1>3, <1>4, <2>1, <2>2, <2>3 DEF Local, Whole
<1>11. Empty(p)'
  BY <1>3, <1>4, <1>5, <1>6, <1>8, Consts DEF Local, Empty
<1>12. Covered(p)'
  <2> SUFFICES ASSUME NEW u \in Types, NEW w \in Virt,
                      shared_mem'[p][u].virt # 0, AtVirt(w, shared_mem'[p][u])
               PROVE  vma'[p][w] \in Own(p, u)'
    BY DEF Covered
  <2>1. shared_mem[p][u].virt # 0 /\ AtVirt(w, shared_mem[p][u])
    BY <1>6, <1>8, Consts DEF AtVirt, InRange
  <2>2. vma[p][w] \in Own(p, u)
    BY <1>3, <1>4, <2>1 DEF Local, Covered
  <2> QED  BY <1>3, <1>8, <2>2, Consts DEF Own, Block
<1>13. Places(p)'
  BY <1>8 DEF Places
<1>14. HugeIn(p)'
  BY <1>3, <1>4, <1>5, <1>6, <1>8 DEF Local, HugeIn, AtVirt, InRange
<1>15. Disjoint'
  <2>1. \A q \in Procs, u \in Contig : Block(q, u)' \subseteq Block(q, u)
    BY <1>8, <1>9, Consts DEF Block, Same
  <2> QED  BY <2>1, StillDisjoint DEF IInv
<1>16. HugeOnce'
  BY <1>3, StillOnce DEF IInv
<1> QED  BY <1>7, <1>9, <1>10, <1>11, <1>12, <1>13, <1>14, <1>15, <1>16, Glue DEF Local
-----------------------------------------------------------------------------
(* Unmapping a region takes its pages, all of them, and no other's.        *)
LEMMA UnmapFact ==
  ASSUME IInv, NEW p \in Procs, pc[p] \in {"open", "close"}, NEW t \in Types
  PROVE  LET M == Munmap(p, {shared_mem[p][t]})
         IN  /\ M \in [Virt -> Nat]
             /\ \A w \in Virt : M[w] \in {0, vma[p][w]} /\ M[w] \notin Own(p, t)
             /\ \A w \in Virt, u \in Types : vma[p][w] \in Own(p, u) /\ u # t => M[w] = vma[p][w]
<1> DEFINE m == shared_mem[p][t]
           M == Munmap(p, {m})
<1>1. Local(p) /\ m \in Mem
  BY DEF IInv, TypeOK
<1>2. M \in [Virt -> Nat] /\ \A w \in Virt : M[w] \in {0, vma[p][w]}
  BY MunmapTakes DEF IInv
<1>3. \A w \in Virt : M[w] = IF m.virt # 0 /\ AtVirt(w, m) THEN 0 ELSE vma[p][w]
  BY DEF Munmap
<1> HIDE DEF m, M
<1>4. \A w \in Virt : m.virt # 0 /\ AtVirt(w, m) => vma[p][w] \in Own(p, t)
  BY <1>1 DEF Local, Covered, m
<1>5. \A w \in Virt, u \in Types : vma[p][w] \in Own(p, u) /\ u # t => M[w] = vma[p][w]
  BY <1>3, <1>4, Owners
<1>6. ASSUME NEW w \in Virt, vma[p][w] \in Own(p, t)
      PROVE  M[w] = 0
  <2>1. CASE t = HUGE
    <3>1. vma[p][w] \in HugeFrames
      BY <1>6, <2>1 DEF Own
    <3>2. m.virt # 0 /\ AtVirt(w, m)
      BY <1>1, <2>1, <3>1 DEF Local, HugeIn, m
    <3> QED  BY <1>3, <3>2
  <2>2. CASE t \in Contig
    <3>1. vma[p][w] \in Block(p, t) /\ vma[p][w] \in Cma
      BY <1>6, <2>2, Consts, Owners DEF Own
    <3>2. PICK u \in Contig : /\ shm[p][u].virt # 0
                              /\ w \in Pages(shm[p][u].virt, shm[p][u].size)
                              /\ vma[p][w] = shm[p][u].phys + (w - shm[p][u].virt)
      BY <1>1, <3>1 DEF Local, Backed
    <3>3. shm[p][u] \in Mem
      BY Consts DEF IInv, TypeOK
    <3>4. vma[p][w] \in Block(p, u)
      BY <3>2, <3>3, Consts DEF Block, Pages, Mem
    <3>5. u = t
      BY <2>2, <3>1, <3>4 DEF IInv, Disjoint
    <3>6. /\ shm[p][t] # NoMem /\ shm[p][t].phys # 0
          /\ shm[p][t].virt + shm[p][t].size <= FAILED
      BY <1>1, <3>2, <3>5 DEF Local, Recorded, NoMem
    <3>7. m.virt = shm[p][t].virt /\ m.size = shm[p][t].size
      BY <1>1, <2>2, <3>2, <3>5, <3>6 DEF Local, Agree, m
    <3>8. AtVirt(w, m)
      BY <1>1, <3>2, <3>5, <3>6, <3>7, RangeFact
    <3> QED  BY <1>3, <3>2, <3>5, <3>7, <3>8
  <2> QED  BY <2>1, <2>2, Consts
<1>7. \A w \in Virt : M[w] \notin Own(p, t)
  BY <1>2, <1>6, Owners
<1> QED  BY <1>2, <1>5, <1>7 DEF m, M

(* The mapping goes first, and takes nothing else with it.                 *)
LEMMA dsp_shm_freeIInv ==
  ASSUME IInv, NEW p \in Procs, NEW f, dsp_shm_free(p, f)
  PROVE  IInv'
<1> DEFINE hit == loc_get_cache_type_by_mem(p, f)
<1>1. PICK t : t = Min(hit)
  OBVIOUS
<1>2. t \in Types /\ t \in Nat
  <2>1. hit # {} /\ hit \in SUBSET Nat /\ hit \subseteq Types
    BY Consts DEF dsp_shm_free, loc_get_cache_type_by_mem
  <2> QED  BY <1>1, <2>1, MinFact
<1>3. PICK M : M = Munmap(p, {shared_mem[p][t]})
  OBVIOUS
<1>4. /\ pc[p] = "open" /\ pc' = [pc EXCEPT ![p] = "ioctl_free"] /\ req' = [req EXCEPT ![p] = t]
      /\ vma' = [vma EXCEPT ![p] = M] /\ UNCHANGED <<shared_mem, fd, client, shm>>
  BY <1>1, <1>3 DEF dsp_shm_free, Unmap, Goto, lib, driver
<1>5. /\ M \in [Virt -> Nat]
      /\ \A w \in Virt : M[w] \in {0, vma[p][w]} /\ M[w] \notin Own(p, t)
      /\ \A w \in Virt, u \in Types : vma[p][w] \in Own(p, u) /\ u # t => M[w] = vma[p][w]
  BY <1>2, <1>3, <1>4, UnmapFact
<1>6. TypeOK'
  BY <1>2, <1>4, <1>5 DEF IInv, TypeOK, Labels
<1>7. pc'[p] = "ioctl_free" /\ req'[p] = t /\ vma'[p] = M
  BY <1>4 DEF IInv, TypeOK
<1>8. \A q \in Procs \ {p} : Same(q)
  BY <1>4 DEF Same, IInv, TypeOK
<1>9. Local(p) /\ \A u \in Types : Own(p, u)' = Own(p, u)
  BY <1>4 DEF IInv, Own, Block
<1>10. Recorded(p)' /\ Agree(p)' /\ Empty(p)'
  BY <1>4, <1>7, <1>9 DEF Local, Recorded, Agree, Empty, Block
<1>11. Backed(p)'
  <2>1. \A w \in Virt : M[w] \in Cma => M[w] = vma[p][w]
    BY <1>5, Consts
  <2> QED  BY <1>4, <1>7, <1>9, <2>1 DEF Local, Backed
<1>12. Covered(p)'
  BY <1>4, <1>5, <1>7, <1>9 DEF Local, Covered
<1>13. Places(p)'
  BY <1>2, <1>4, <1>5, <1>7, Consts DEF Places, Own, Block
<1>14. \A w \in Virt : M[w] \in HugeFrames => M[w] = vma[p][w] /\ t # HUGE
  BY <1>5, Consts DEF Own
<1>15. HugeIn(p)'
  BY <1>4, <1>7, <1>9, <1>14 DEF Local, HugeIn
<1>16. Whole(p)'
  <2> SUFFICES ASSUME NEW w \in Virt, NEW b \in HugeBases, NEW r \in 0 .. HugePage - 1,
                      M[w] = b + r
               PROVE  w - r \in Virt /\ M[w - r] = b
    BY <1>7 DEF Whole
  <2>1. vma[p][w] = b + r /\ t # HUGE
    BY <1>14, InHuge
  <2>2. w - r \in Virt /\ vma[p][w - r] = b
    BY <1>9, <2>1 DEF Local, Whole
  <2>3. b \in Own(p, HUGE) /\ HUGE \in Types
    BY Consts DEF Own
  <2> QED  BY <1>5, <2>1, <2>2, <2>3
<1>17. Disjoint'
  BY <1>4, StillDisjoint DEF IInv, Block
<1>18. HugeOnce'
  BY <1>7, <1>8, <1>14, StillOnce DEF IInv, Same
<1> QED  BY <1>6, <1>8, <1>10, <1>11, <1>12, <1>13, <1>15, <1>16, <1>17, <1>18, Glue DEF Local

(* A page table without the pages of a type and with all others, for a     *)
(* process that is then at l, with type r to follow.                       *)
Without(p, t, M, l, r) ==
  /\ \A w \in Virt : M[w] \in {0, vma[p][w]} /\ M[w] \notin Own(p, t)
  /\ \A w \in Virt, u \in Types : vma[p][w] \in Own(p, u) /\ u # t => M[w] = vma[p][w]
  /\ \A w \in Virt : M[w] \in HugeFrames /\ l = "close" => r <= HUGE

(* What is given back in both ways: the record of a type nothing of which  *)
(* is mapped any more.                                                     *)
LEMMA GivesBack ==
  ASSUME IInv, NEW p \in Procs, NEW t \in Types, SHM_FREE(p, t),
         NEW l \in {"open", "close"}, pc' = [pc EXCEPT ![p] = l],
         pc[p] \in {"open", "close"} \/ (pc[p] = "ioctl_free" /\ req[p] = t),
         NEW r \in Nat, req' = [req EXCEPT ![p] = r],
         NEW M \in [Virt -> Nat], vma' = [vma EXCEPT ![p] = M], Without(p, t, M, l, r)
  PROVE  IInv'
<1> SUFFICES
      ASSUME \A w \in Virt : M[w] \in {0, vma[p][w]} /\ M[w] \notin Own(p, t),
             \A w \in Virt, u \in Types :
                vma[p][w] \in Own(p, u) /\ u # t => M[w] = vma[p][w],
             \A w \in Virt : M[w] \in HugeFrames /\ l = "close" => r <= HUGE
      PROVE  IInv'
  BY DEF Without
<1>1. /\ shm' = [shm EXCEPT ![p][t] = NoMem] /\ shared_mem' = [shared_mem EXCEPT ![p][t] = NoMem]
      /\ UNCHANGED <<fd, client>>
  BY DEF SHM_FREE
<1>2. NoMem \in Mem /\ NoMem.phys = 0 /\ NoMem.virt = 0 /\ NoMem.size = 0
  BY DEF NoMem, Mem
<1>3. TypeOK'
  BY <1>1, <1>2 DEF IInv, TypeOK, Labels
<1>4. /\ pc'[p] = l /\ req'[p] = r /\ vma'[p] = M
      /\ shm'[p][t] = NoMem /\ shared_mem'[p][t] = NoMem
      /\ \A u \in Types : u # t => /\ shm'[p][u] = shm[p][u]
                                   /\ shared_mem'[p][u] = shared_mem[p][u]
  BY <1>1 DEF IInv, TypeOK
<1>5. \A q \in Procs \ {p} : Same(q)
  BY <1>1 DEF Same, IInv, TypeOK
<1>6. Local(p) /\ \A u \in Types : u # t => Own(p, u)' = Own(p, u) /\ Block(p, u)' = Block(p, u)
  BY <1>4 DEF IInv, Own, Block
<1>7. Recorded(p)'
  BY <1>1, <1>4, <1>6, Consts DEF Local, Recorded
<1>8. Agree(p)' /\ Empty(p)' /\ Places(p)'
  <2>1. Agree(p)'
    BY <1>2, <1>4, <1>6, Consts DEF Local, Agree
  <2>2. Empty(p)'
    BY <1>2, <1>4, <1>6 DEF Local, Empty
  <2> QED  BY <1>4, <2>1, <2>2 DEF Places
<1>9. Backed(p)'
  <2> SUFFICES ASSUME NEW w \in Virt, M[w] \in Cma
               PROVE  \E u \in Contig :
                        /\ shm'[p][u].virt # 0
                        /\ w \in Pages(shm'[p][u].virt, shm'[p][u].size)
                        /\ M[w] = shm'[p][u].phys + (w - shm'[p][u].virt)
    BY <1>4 DEF Backed
  <2>1. M[w] = vma[p][w] /\ vma[p][w] \in Cma
    BY Consts
  <2>2. PICK u \in Contig : /\ shm[p][u].virt # 0
                            /\ w \in Pages(shm[p][u].virt, shm[p][u].size)
                            /\ vma[p][w] = shm[p][u].phys + (w - shm[p][u].virt)
    BY <1>6, <2>1 DEF Local, Backed
  <2>3. vma[p][w] \in Block(p, u)
    <3>1. shm[p][u] \in Mem /\ w \in Nat
      BY Consts DEF IInv, TypeOK
    <3> QED  BY <2>2, <3>1 DEF Block, Pages, Mem
  <2>4. u # t
    BY <2>1, <2>3, Consts DEF Own
  <2>5. shm'[p][u] = shm[p][u]
    BY <1>4, <2>4, Consts
  <2> QED  BY <2>1, <2>2, <2>5
<1>10. Covered(p)'
  <2> SUFFICES ASSUME NEW u \in Types, NEW w \in Virt,
                      shared_mem'[p][u].virt # 0, AtVirt(w, shared_mem'[p][u])
               PROVE  M[w] \in Own(p, u)'
    BY <1>4 DEF Covered
  <2>1. u # t /\ shared_mem'[p][u] = shared_mem[p][u]
    BY <1>2, <1>4
  <2>2. vma[p][w] \in Own(p, u)
    BY <1>6, <2>1 DEF Local, Covered
  <2> QED  BY <1>6, <2>1, <2>2
<1>11. \A w \in Virt : M[w] \in HugeFrames => M[w] = vma[p][w] /\ t # HUGE
  BY Consts DEF Own
<1>12. HugeIn(p)'
  <2>1. shared_mem'[p][HUGE].phys \in HugeFrames \cup {0}
    BY <1>2, <1>4, <1>6, Consts DEF Local, HugeIn
  <2>2. ASSUME NEW w \in Virt, M[w] \in HugeFrames
        PROVE  /\ shared_mem'[p][HUGE].phys # 0
               /\ shared_mem'[p][HUGE].virt # 0 /\ AtVirt(w, shared_mem'[p][HUGE])
    <3>1. vma[p][w] \in HugeFrames /\ shared_mem'[p][HUGE] = shared_mem[p][HUGE]
      BY <1>4, <1>11, <2>2, Consts
    <3> QED  BY <1>6, <3>1 DEF Local, HugeIn
  <2> QED  BY <1>4, <2>1, <2>2 DEF HugeIn
<1>13. Whole(p)'
  <2> SUFFICES ASSUME NEW w \in Virt, NEW b \in HugeBases, NEW s \in 0 .. HugePage - 1,
                      M[w] = b + s
               PROVE  w - s \in Virt /\ M[w - s] = b
    BY <1>4 DEF Whole
  <2>1. vma[p][w] = b + s /\ t # HUGE
    BY <1>11, InHuge
  <2>2. w - s \in Virt /\ vma[p][w - s] = b
    BY <1>6, <2>1 DEF Local, Whole
  <2>3. b \in Own(p, HUGE) /\ HUGE \in Types
    BY Consts DEF Own
  <2> QED  BY <2>1, <2>2, <2>3
<1>14. Disjoint'
  <2>1. Block(p, t)' = {} \/ t \notin Contig
    <3>1. Pages(0, 0) = {}
      BY DEF Pages
    <3> QED  BY <1>2, <1>4, <3>1 DEF Block
  <2>2. \A q \in Procs, u \in Contig : Block(q, u)' \subseteq Block(q, u)
    BY <1>5, <1>6, <2>1, Consts DEF Block, Same
  <2> QED  BY <2>2, StillDisjoint DEF IInv
<1>15. HugeOnce'
  BY <1>4, <1>5, <1>11, StillOnce DEF IInv, Same
<1> QED  BY <1>3, <1>5, <1>7, <1>8, <1>9, <1>10, <1>12, <1>13, <1>14, <1>15, Glue DEF Local

(* dsp_shm_free, after the mapping is gone.                                *)
LEMMA FreeEndsIInv ==
  ASSUME IInv, NEW p \in Procs, FreeEnds(p)
  PROVE  IInv'
<1>1. PICK t : t = req[p]
  OBVIOUS
<1>2. /\ pc[p] = "ioctl_free" /\ SHM_FREE(p, t) /\ pc' = [pc EXCEPT ![p] = "open"]
      /\ req' = [req EXCEPT ![p] = t] /\ t \in Nat
      /\ vma' = [vma EXCEPT ![p] = vma[p]] /\ vma[p] \in [Virt -> Nat]
  BY <1>1 DEF FreeEnds, Goto, IInv, TypeOK
<1>3. Local(p)
  BY DEF IInv
<1>4. t \in Types
  BY <1>1, <1>2, <1>3 DEF Local, Places
<1>5. \A w \in Virt : vma[p][w] \notin Own(p, t)
  BY <1>1, <1>2, <1>3 DEF Local, Places, HugeIn, Own
<1>6. Without(p, t, vma[p], "open", t)
  BY <1>5 DEF Without
<1>7. pc[p] = "ioctl_free" /\ req[p] = t
  BY <1>1, <1>2
<1> QED  BY <1>2, <1>4, <1>6, <1>7, GivesBack

(* dsp_close, which unmaps and gives back one type after the other.        *)
LEMMA CloseFreesIInv ==
  ASSUME IInv, NEW p \in Procs, CloseFrees(p)
  PROVE  IInv'
<1> DEFINE hit == loc_get_cache_type_by_mem(p, shared_mem[p][req[p]].phys)
<1>1. PICK t : t = Min(hit)
  OBVIOUS
<1>2. pc[p] = "close" /\ req[p] \in Types /\ req[p] \in Nat
  BY DEF CloseFrees, IInv, TypeOK
<1>3. t \in hit /\ t \in Types
  <2>1. req[p] \in hit /\ hit \in SUBSET Nat /\ hit \subseteq Types
    BY <1>2, Consts DEF loc_get_cache_type_by_mem
  <2>2. t \in hit
    BY <1>1, <2>1, MinFact
  <2> QED  BY <2>1, <2>2
<1>4. PICK M : M = Munmap(p, {shared_mem[p][t]})
  OBVIOUS
<1>5. /\ SHM_FREE(p, t) /\ pc' = [pc EXCEPT ![p] = "close"]
      /\ req' = [req EXCEPT ![p] = req[p] + 1] /\ req[p] + 1 \in Nat
      /\ vma' = [vma EXCEPT ![p] = M]
  BY <1>1, <1>2, <1>4 DEF CloseFrees, Unmap, IInv, TypeOK
<1>6. /\ M \in [Virt -> Nat]
      /\ \A w \in Virt : M[w] \in {0, vma[p][w]} /\ M[w] \notin Own(p, t)
      /\ \A w \in Virt, u \in Types : vma[p][w] \in Own(p, u) /\ u # t => M[w] = vma[p][w]
  BY <1>2, <1>3, <1>4, UnmapFact
<1>7. Local(p)
  BY DEF IInv
<1>8. ASSUME NEW w \in Virt, M[w] \in HugeFrames
      PROVE  req[p] + 1 <= HUGE
  <2>1. vma[p][w] \in HugeFrames /\ t \in Contig
    BY <1>3, <1>6, <1>8, Consts DEF Own
  <2>2. shared_mem[p][HUGE].phys \in HugeFrames /\ req[p] <= HUGE
    BY <1>2, <1>7, <2>1 DEF Local, HugeIn
  <2>3. shared_mem[p][t].phys \in Cma \cup {0}
    BY <1>2, <1>7, <2>1, Owners DEF Local, Agree
  <2>4. req[p] # HUGE
    BY <1>3, <2>2, <2>3, Consts DEF loc_get_cache_type_by_mem
  <2> QED  BY <1>2, <2>2, <2>4, Consts
<1>9. PICK r : r = req[p] + 1
  OBVIOUS
<1>10. Without(p, t, M, "close", r)
  BY <1>6, <1>8, <1>9 DEF Without
<1>11. req' = [req EXCEPT ![p] = r] /\ r \in Nat
  BY <1>5, <1>9
<1> QED  BY <1>2, <1>3, <1>5, <1>6, <1>10, <1>11, GivesBack
-----------------------------------------------------------------------------
(* A page belongs to one huge page.                                        *)
LEMMA OneBase ==
  ASSUME NEW b \in HugeBases, NEW c \in HugeBases,
         NEW r \in 0 .. HugePage - 1, NEW s \in 0 .. HugePage - 1, b + r = c + s
  PROVE  b = c /\ r = s
<1>1. b \in Nat /\ c \in Nat /\ HugePage \in Nat /\ (b < c => b + HugePage <= c)
      /\ (c < b => c + HugePage <= b)
  BY ShmAssumption DEF ShmAssumption
<1> QED  BY <1>1

(* mmap() of huge pages nobody has, into pages that are free.              *)
LEMMA MmapHugeIInv ==
  ASSUME IInv, NEW p \in Procs, MmapHuge(p)
  PROVE  IInv'
<1> DEFINE n == shared_mem[p][HUGE].size
           holes == {u \in Holes(p, n) : u % HugePage = 0}
           v == Min(holes)
<1>1. n = shared_mem[p][HUGE].size
  OBVIOUS
<1>2. v = Min(holes)
  OBVIOUS
<1>3. PICK frames \in [0 .. n \div HugePage - 1 -> FreeHuge] :
        /\ \A i, j \in DOMAIN frames : frames[i] = frames[j] => i = j
        /\ shared_mem' = [shared_mem EXCEPT ![p][HUGE].virt = v]
        /\ vma' = [vma EXCEPT ![p] = [w \in Virt |->
                     IF w \in Pages(v, n)
                       THEN frames[(w - v) \div HugePage] + ((w - v) % HugePage)
                       ELSE vma[p][w]]]
  BY DEF MmapHuge
<1>4. /\ pc[p] = "mmap_huge" /\ holes # {} /\ pc' = [pc EXCEPT ![p] = "ioctl_alloc"]
      /\ UNCHANGED <<req, fd, client, shm>>
  BY DEF MmapHuge, Goto, driver
<1> HIDE DEF n, v
<1>5. Local(p) /\ HUGE \in Types /\ shared_mem[p][HUGE] \in Mem
  BY Consts DEF IInv, TypeOK
<1>6. /\ req[p] = HUGE /\ shared_mem[p][HUGE].phys = 0
      /\ n \in Nat \ {0} /\ n % HugePage = 0
  BY <1>1, <1>4, <1>5 DEF Local, Places, Mem
<1>7. /\ v \in Virt /\ v \in Nat \ {0} /\ Pages(v, n) \subseteq Virt
      /\ v + n <= FAILED /\ \A w \in Pages(v, n) : vma[p][w] = 0
  <2>1. /\ v \in Virt /\ Pages(v, n) \subseteq Virt
        /\ v + n <= FAILED /\ \A w \in Pages(v, n) : vma[p][w] = 0
    BY <1>2, <1>4, <1>6, HoleFact
  <2> QED  BY <2>1, Consts
<1>8. \A w \in Virt : vma[p][w] \notin HugeFrames
  BY <1>4, <1>5 DEF Local, HugeIn
<1> HIDE DEF holes
<1>9. \A w \in Virt :
        vma'[p][w] = IF w \in Pages(v, n)
                       THEN frames[(w - v) \div HugePage] + ((w - v) % HugePage)
                       ELSE vma[p][w]
  BY <1>3 DEF IInv, TypeOK
<1>10. HugePage \in Nat \ {0}
  BY Consts
(* A page of the new region is a page of one of the frames.                *)
<1>11. ASSUME NEW w \in Pages(v, n)
       PROVE  \E i \in DOMAIN frames, r \in 0 .. HugePage - 1 :
                /\ w \in Nat /\ i \in Nat /\ w - v = HugePage * i + r
                /\ frames[i] \in HugeBases /\ frames[i] \in FreeHuge
                /\ vma'[p][w] = frames[i] + r
  <2>1. w - v \in Nat /\ w \in Nat /\ w - v < n
    BY <1>6, <1>7 DEF Pages
  <2>2. PICK i : i = (w - v) \div HugePage
    OBVIOUS
  <2>3. PICK r : r = (w - v) % HugePage
    OBVIOUS
  <2>4. i \in Nat /\ r \in 0 .. HugePage - 1 /\ w - v = HugePage * i + r
    BY <1>10, <2>1, <2>2, <2>3, DivMod
  <2>5. i \in 0 .. n \div HugePage - 1
    BY <1>6, <1>10, <2>1, <2>2, DivLess
  <2>6. i \in DOMAIN frames /\ frames[i] \in FreeHuge /\ frames[i] \in HugeBases
    BY <1>3, <2>5 DEF FreeHuge
  <2>7. vma'[p][w] = frames[i] + r
    BY <1>7, <1>9, <2>2, <2>3
  <2> QED  BY <2>1, <2>4, <2>6, <2>7
<1>12. \A w \in Pages(v, n) : vma'[p][w] \in HugeFrames
  BY <1>11, InHuge
<1>13. \A w \in Virt : /\ w \notin Pages(v, n) => vma'[p][w] = vma[p][w]
                       /\ vma'[p][w] \in HugeFrames <=> w \in Pages(v, n)
                       /\ vma[p][w] # 0 => vma'[p][w] = vma[p][w]
                       /\ vma'[p][w] \in Nat
  <2>1. \A w \in Virt : vma[p][w] \in Nat
    BY DEF IInv, TypeOK
  <2> QED  BY <1>7, <1>8, <1>9, <1>12, <2>1, Consts
<1>14. PICK m : m = [shared_mem[p][HUGE] EXCEPT !.virt = v]
  OBVIOUS
<1>15. m \in Mem /\ m.virt = v /\ m.phys = 0 /\ m.size = n
  BY <1>1, <1>5, <1>6, <1>7, <1>14 DEF Mem
<1>16. /\ pc'[p] = "ioctl_alloc" /\ shared_mem'[p][HUGE] = m
       /\ \A u \in Contig : shared_mem'[p][u] = shared_mem[p][u]
  BY <1>3, <1>4, <1>5, <1>14, Consts DEF IInv, TypeOK
<1>17. TypeOK'
  <2>1. vma' \in [Procs -> [Virt -> Nat]]
    <3>1. PICK g : g = [w \in Virt |->
                     IF w \in Pages(v, n)
                       THEN frames[(w - v) \div HugePage] + ((w - v) % HugePage)
                       ELSE vma[p][w]]
      OBVIOUS
    <3>2. vma' = [vma EXCEPT ![p] = g] /\ g = vma'[p]
      BY <1>3, <3>1 DEF IInv, TypeOK
    <3>3. g \in [Virt -> Nat]
      BY <1>13, <3>1, <3>2
    <3> QED  BY <3>2, <3>3 DEF IInv, TypeOK
  <2>2. shared_mem' \in [Procs -> [Types -> Mem]]
    BY <1>3, <1>5, <1>14, <1>15 DEF IInv, TypeOK
  <2> QED  BY <1>4, <2>1, <2>2 DEF IInv, TypeOK, Labels
<1>18. \A q \in Procs \ {p} : Same(q)
  BY <1>3, <1>4 DEF Same, IInv, TypeOK
<1>19. Recorded(p)' /\ Agree(p)' /\ Empty(p)'
  <2>1. Recorded(p)' /\ Agree(p)'
    BY <1>4, <1>5, <1>16 DEF Local, Recorded, Agree, Block
  <2> QED  BY <1>4, <1>5, <1>6, <1>16, <2>1, Consts DEF Local, Empty
<1>20. Backed(p)'
  <2>1. \A w \in Virt : vma'[p][w] \in Cma => vma'[p][w] = vma[p][w]
    BY <1>13, Consts
  <2> QED  BY <1>4, <1>5, <2>1 DEF Local, Backed
<1>21. Covered(p)'
  <2> SUFFICES ASSUME NEW u \in Types, NEW w \in Virt,
                      shared_mem'[p][u].virt # 0, AtVirt(w, shared_mem'[p][u])
               PROVE  vma'[p][w] \in Own(p, u)'
    BY DEF Covered
  <2>1. CASE u = HUGE
    <3>1. w \in Pages(v, n)
      BY <1>7, <1>15, <1>16, <2>1, RangeFact
    <3> QED  BY <1>12, <2>1, <3>1 DEF Own
  <2>2. CASE u \in Contig
    <3>1. vma[p][w] \in Own(p, u)
      BY <1>4, <1>5, <1>16, <2>2 DEF Local, Covered
    <3>2. Own(p, u)' = Own(p, u)
      BY <1>4 DEF Own, Block
    <3> QED  BY <1>13, <3>1, <3>2, Owners
  <2> QED  BY <2>1, <2>2, Consts
<1>22. Places(p)'
  <2>1. v \in Pages(v, n)
    BY <1>6, <1>7 DEF Pages
  <2> QED  BY <1>4, <1>5, <1>6, <1>7, <1>12, <1>15, <1>16, <2>1 DEF Places
<1>23. HugeIn(p)'
  <2>1. \A w \in Virt : vma'[p][w] \in HugeFrames => AtVirt(w, m)
    BY <1>7, <1>13, <1>15, RangeFact
  <2> QED  BY <1>4, <1>6, <1>7, <1>15, <1>16, <2>1 DEF HugeIn
<1>24. Whole(p)'
  <2> SUFFICES ASSUME NEW w \in Virt, NEW b \in HugeBases, NEW r \in 0 .. HugePage - 1,
                      vma'[p][w] = b + r
               PROVE  w - r \in Virt /\ vma'[p][w - r] = b
    BY DEF Whole
  <2>1. w \in Pages(v, n)
    BY <1>13, InHuge
  <2>2. PICK i \in DOMAIN frames, s \in 0 .. HugePage - 1 :
          /\ w \in Nat /\ i \in Nat /\ w - v = HugePage * i + s
          /\ frames[i] \in HugeBases /\ vma'[p][w] = frames[i] + s
    BY <1>11, <2>1
  <2>3. frames[i] = b /\ s = r
    BY <2>2, OneBase
  <2>4. HugePage * i \in Nat /\ (HugePage * i) \div HugePage = i /\ (HugePage * i) % HugePage = 0
    BY <1>10, <2>2, DivOf
  <2>5. (w - r) - v = HugePage * i /\ w - r \in Pages(v, n)
    BY <1>6, <1>7, <1>10, <2>1, <2>2, <2>3, <2>4 DEF Pages
  <2>6. vma'[p][w - r] = frames[i] + 0
    BY <1>7, <1>9, <2>4, <2>5
  <2>7. b \in Nat
    BY Consts
  <2> QED  BY <1>7, <2>3, <2>5, <2>6, <2>7
<1>25. Disjoint'
  BY <1>4, StillDisjoint DEF IInv, Block
<1>26. HugeOnce'
  (* no page of a frame is mapped before                                   *)
  <2>1. ASSUME NEW w \in Pages(v, n), NEW q \in Procs, NEW x \in Virt
        PROVE  vma[q][x] # vma'[p][w]
    <3>1. PICK i \in DOMAIN frames, r \in 0 .. HugePage - 1 :
            /\ frames[i] \in HugeBases /\ frames[i] \in FreeHuge
            /\ vma'[p][w] = frames[i] + r
      BY <1>11
    <3>2. SUFFICES ASSUME vma[q][x] = frames[i] + r PROVE FALSE
      BY <3>1
    <3>3. x - r \in Virt /\ vma[q][x - r] = frames[i]
      BY <3>1, <3>2 DEF IInv, Local, Whole
    <3> QED  BY <3>1, <3>3 DEF FreeHuge
  (* and no two pages are mapped to the same one                           *)
  <2>2. ASSUME NEW w \in Pages(v, n), NEW x \in Pages(v, n), vma'[p][w] = vma'[p][x]
        PROVE  w = x
    <3>1. PICK i \in DOMAIN frames, r \in 0 .. HugePage - 1 :
            /\ w \in Nat /\ i \in Nat /\ w - v = HugePage * i + r
            /\ frames[i] \in HugeBases /\ vma'[p][w] = frames[i] + r
      BY <1>11
    <3>2. PICK j \in DOMAIN frames, s \in 0 .. HugePage - 1 :
            /\ x \in Nat /\ j \in Nat /\ x - v = HugePage * j + s
            /\ frames[j] \in HugeBases /\ vma'[p][x] = frames[j] + s
      BY <1>11
    <3>3. frames[i] = frames[j] /\ r = s
      <4>1. frames[i] + r = frames[j] + s
        BY <2>2, <3>1, <3>2
      <4>2. PICK b \in HugeBases : b = frames[i]
        BY <3>1
      <4>3. PICK c \in HugeBases : c = frames[j]
        BY <3>2
      <4>4. b = c /\ r = s
        BY <4>1, <4>2, <4>3, OneBase
      <4> QED  BY <4>2, <4>3, <4>4
    <3>4. i = j
      BY <1>3, <3>3
    <3>5. w - v = x - v
      BY <3>1, <3>2, <3>3, <3>4
    <3> QED  BY <1>7, <3>1, <3>2, <3>5
  <2> SUFFICES ASSUME NEW q1 \in Procs, NEW q2 \in Procs, NEW w \in Virt, NEW x \in Virt,
                      vma'[q1][w] \in HugeFrames, vma'[q2][x] = vma'[q1][w]
               PROVE  q1 = q2 /\ w = x
    BY DEF HugeOnce
  <2> DEFINE New(q, y) == q = p /\ y \in Pages(v, n)
  <2>3. /\ ~ New(q1, w) => vma'[q1][w] = vma[q1][w]
        /\ ~ New(q2, x) => vma'[q2][x] = vma[q2][x]
    BY <1>13, <1>18 DEF Same
  <2>4. CASE New(q1, w) /\ New(q2, x)
    BY <2>2, <2>4
  <2>5. CASE New(q1, w) /\ ~ New(q2, x)
    BY <2>1, <2>3, <2>5
  <2>6. CASE ~ New(q1, w) /\ New(q2, x)
    BY <2>1, <2>3, <2>6
  <2>7. CASE ~ New(q1, w) /\ ~ New(q2, x)
    BY <2>3, <2>7 DEF IInv, HugeOnce
  <2> QED  BY <2>4, <2>5, <2>6, <2>7
<1> QED  BY <1>17, <1>18, <1>19, <1>20, <1>21, <1>22, <1>23, <1>24, <1>25, <1>26, Glue DEF Local
-----------------------------------------------------------------------------
(* Every step keeps the invariant.                                         *)
LEMMA NextIInv == IInv /\ [Next]_vars => IInv'
<1> SUFFICES ASSUME IInv, [Next]_vars PROVE IInv'
  OBVIOUS
<1>1. CASE UNCHANGED vars
  <2>1. TypeOK'
    BY <1>1 DEF IInv, TypeOK, vars, lib, driver
  <2>2. \A q \in Procs : Same(q)
    BY <1>1 DEF vars, lib, driver, Same
  <2>3. \A q \in Procs : Local(q)'
    BY <2>2, SameKeeps DEF IInv
  <2>4. Disjoint' /\ HugeOnce'
    BY <1>1, StillDisjoint, StillOnce DEF IInv, vars, lib, driver, Block
  <2> QED  BY <2>1, <2>3, <2>4 DEF IInv
<1>2. ASSUME NEW p \in Procs, Calls(p) PROVE IInv'
  BY <1>2, MapAreaIInv, OpenFailsIInv, OpenEndsIInv, MmapHugeIInv, MmapHugeFailsIInv,
     SHM_ALLOCIInv, SHM_ALLOC_FailsIInv, SHM_ALLOC_HUGEIInv, HUGETLB_V2PIInv,
     MmapBlockIInv, MmapBlockFailsIInv, FreeEndsIInv, CloseFreesIInv, CloseEndsIInv,
     fops__releaseIInv
  DEF Calls
<1>3. ASSUME NEW p \in Procs, NEW t \in Types, NEW n \in Sizes, dsp_shm_alloc_at(p, t, n)
      PROVE  IInv'
  BY <1>3, dsp_shm_alloc_atIInv
<1>4. ASSUME NEW p \in Procs, NEW f, dsp_shm_free(p, f) PROVE IInv'
  BY <1>4, dsp_shm_freeIInv
<1>5. ASSUME NEW p \in Procs, dsp_open(p) \/ dsp_close(p) \/ Killed(p) PROVE IInv'
  BY <1>5, dsp_openIInv, dsp_closeIInv, KilledIInv
<1> QED  BY <1>1, <1>2, <1>3, <1>4, <1>5 DEF Next

(* The tables keep their shape, agree with each other, and no page has two *)
(* owners.                                                                 *)
THEOREM ShmInvariance == Spec => []IInv
<1> QED  BY InitIInv, NextIInv, PTL DEF Spec
-----------------------------------------------------------------------------
(* A page of contiguous memory that a process sees belongs to a block of   *)
(* its own client, and a huge page is behind one page of one process, for  *)
(* any number of processes.                                                *)
THEOREM AlwaysMappedIsOwned == Spec => []MappedIsOwned
<1>1. IInv => MappedIsOwned
  <2> SUFFICES ASSUME IInv, NEW p \in Procs, NEW v \in Virt
               PROVE  /\ vma[p][v] \in Cma =>
                           \E t \in Contig : vma[p][v] \in Pages(shm[p][t].phys, shm[p][t].size)
                      /\ vma[p][v] \in HugeFrames =>
                           \A q \in Procs, w \in Virt : vma[q][w] = vma[p][v] => <<q, w>> = <<p, v>>
    BY DEF MappedIsOwned
  <2>1. ASSUME vma[p][v] \in Cma
        PROVE  \E t \in Contig : vma[p][v] \in Pages(shm[p][t].phys, shm[p][t].size)
    <3>1. PICK t \in Contig : /\ v \in Pages(shm[p][t].virt, shm[p][t].size)
                              /\ vma[p][v] = shm[p][t].phys + (v - shm[p][t].virt)
      BY <2>1 DEF IInv, Local, Backed
    <3>2. shm[p][t] \in Mem
      BY Consts DEF IInv, TypeOK
    <3> QED  BY <3>1, <3>2, Consts DEF Pages, Mem
  <2> QED  BY <2>1 DEF IInv, HugeOnce
<1> QED  BY <1>1, ShmInvariance, PTL

(* No physical page of either kind is seen by two processes, or twice by   *)
(* one: the driver's blocks and the pages of mmap() keep them apart.       *)
NeverShared ==
  \A p, q \in Procs : \A v, w \in Virt :
    vma[p][v] \in Cma \cup HugeFrames /\ vma[q][w] = vma[p][v] => p = q /\ v = w

(* NeverShared holds for any number of processes, whichever calls fail and *)
(* wherever processes are killed.                                          *)
THEOREM AlwaysNeverShared == Spec => []NeverShared
<1>1. IInv => NeverShared
  <2> SUFFICES ASSUME IInv, NEW p \in Procs, NEW q \in Procs, NEW v \in Virt, NEW w \in Virt,
                      vma[p][v] \in Cma, vma[q][w] = vma[p][v]
               PROVE  p = q /\ v = w
    BY DEF IInv, HugeOnce, NeverShared
  <2>1. PICK t \in Contig : /\ v \in Pages(shm[p][t].virt, shm[p][t].size)
                            /\ vma[p][v] = shm[p][t].phys + (v - shm[p][t].virt)
    BY DEF IInv, Local, Backed
  <2>2. PICK u \in Contig : /\ w \in Pages(shm[q][u].virt, shm[q][u].size)
                            /\ vma[q][w] = shm[q][u].phys + (w - shm[q][u].virt)
    BY DEF IInv, Local, Backed
  <2>3. shm[p][t] \in Mem /\ shm[q][u] \in Mem /\ v \in Nat /\ w \in Nat
    BY Consts DEF IInv, TypeOK
  <2>4. vma[p][v] \in Block(p, t) /\ vma[q][w] \in Block(q, u)
    BY <2>1, <2>2, <2>3 DEF Block, Pages, Mem
  <2>5. p = q /\ t = u
    BY <2>4 DEF IInv, Disjoint
  <2> QED  BY <2>1, <2>2, <2>3, <2>5 DEF Mem
<1> QED  BY <1>1, ShmInvariance, PTL
-----------------------------------------------------------------------------
(* How large an area can be: no address is as low as its size.             *)
Sized(p) ==
  /\ \A t \in Types : shared_mem[p][t].size <= HugePage * MaxPages
  /\ shared_mem[p][HUGE].size % HugePage = 0

(* Only pages of the process are in a region, and there is one wherever    *)
(* dsp_shm_alloc has returned with success.                                *)
Inside(p) ==
  pc[p] # "closed" => \A t \in Types :
    \/ shared_mem[p][t].virt \in {0, FAILED}
    \/ Region(p, t) \subseteq Virt

Finished(p) ==
  pc[p] # "closed" => \A t \in Contig :
    \/ shared_mem[p][t].phys = 0
    \/ shared_mem[p][t].virt = FAILED
    \/ pc[p] = "mmap" /\ req[p] = t
    \/ shm[p][t].virt # 0

(* The driver's record of the huge pages is the library's.                 *)
HugeNoted(p) ==
  /\ shm[p][HUGE].phys = 0 => shm[p][HUGE] = NoMem
  /\ ~client[p] => shm[p][HUGE].phys = 0
  /\ pc[p] # "closed" =>
       /\ shm[p][HUGE].phys = shared_mem[p][HUGE].phys
       /\ shm[p][HUGE].phys # 0 =>
            shm[p][HUGE] = shared_mem[p][HUGE] /\ shm[p][HUGE].virt \notin {0, FAILED}

(* What is behind the i-th huge page of the region.                        *)
Frame(p, i) == vma[p][shared_mem[p][HUGE].virt + HugePage * i]

Freeing(p, t) == pc[p] = "ioctl_free" /\ req[p] = t

(* Huge pages lie next to each other, each of them whole.                  *)
Laid(p) ==
  pc[p] # "closed" /\ shared_mem[p][HUGE].virt \notin {0, FAILED} /\ ~ Freeing(p, HUGE) =>
    \A i \in 0 .. MaxPages - 1, r \in 0 .. HugePage - 1 :
      HugePage * i + r < shared_mem[p][HUGE].size =>
        /\ Frame(p, i) \in HugeBases
        /\ vma[p][shared_mem[p][HUGE].virt + (HugePage * i + r)] = Frame(p, i) + r

(* The table has the present addresses at the front.                       *)
Listed(p) ==
  /\ pc[p] # "closed" /\ shared_mem[p][HUGE].phys # 0 /\ ~ Freeing(p, HUGE) =>
       \A i \in 0 .. MaxPages - 1 :
         /\ HugePage * i < shared_mem[p][HUGE].size
         /\ pc[p] = "v2p" => i < req[p]
         => hugetlb_page_phys_addr[p][i] = Frame(p, i)
  /\ pc[p] = "v2p" =>
       shared_mem[p][HUGE].phys # 0 /\ HugePage * req[p] < shared_mem[p][HUGE].size
  /\ pc[p] = "ioctl_alloc" /\ req[p] = HUGE =>
       shared_mem[p][HUGE].phys = 0 /\ shared_mem[p][HUGE].size # 0

(* The on-chip memories are mapped, page by page.                          *)
OnChip(p) ==
  pc[p] # "closed" =>
    \A a \in (IF pc[p] = "map" THEN Unmapped(req[p]) ELSE {L1, L2}) :
      /\ area[p][a].phys = a /\ area[p][a].size = 1
      /\ area[p][a].virt \in Virt /\ vma[p][area[p][a].virt] = a

(* What is being freed is mapped no more.                                  *)
Gone(p) ==
  pc[p] = "ioctl_free" => \A w \in Virt :
    shared_mem[p][req[p]].virt # 0 /\ AtVirt(w, shared_mem[p][req[p]]) => vma[p][w] = 0

TablesOK ==
  /\ hugetlb_page_phys_addr \in [Procs -> [0 .. MaxPages - 1 -> Nat]]
  /\ area \in [Procs -> [Areas -> Mem]]

Exact(p) ==
  /\ Sized(p) /\ Inside(p) /\ Finished(p) /\ HugeNoted(p) /\ Laid(p) /\ Listed(p)
  /\ OnChip(p) /\ Gone(p)

EInv == IInv /\ TablesOK /\ \A p \in Procs : Exact(p)

(* What the step of one process leaves alone.                              *)
Alone(p) ==
  \A q \in Procs \ {p} :
    /\ Same(q)
    /\ hugetlb_page_phys_addr'[q] = hugetlb_page_phys_addr[q] /\ area'[q] = area[q]

(* The areas have addresses of their own, above the size of any region.    *)
LEMMA AreaFact ==
  /\ L1 # L2 /\ L1 # LOG /\ L2 # LOG
  /\ HugePage * MaxPages \in Nat
  /\ \A x \in Virt \cup Cma \cup HugeFrames \cup Areas :
       x \in Nat /\ HugePage * MaxPages <= x /\ x < FAILED
<1>1. HugePage * MaxPages \in Nat
  <2>1. HugePage \in Nat /\ MaxPages \in Nat
    BY ShmAssumption DEF ShmAssumption
  <2> QED  BY <2>1, SMT
<1>2. \A x \in Virt \cup Cma \cup HugeFrames \cup Areas :
        x \in Nat /\ HugePage * MaxPages <= x /\ x < FAILED
  <2>1. Cma \cup HugeFrames \cup Areas \cup Virt \subseteq HugePage * MaxPages .. FAILED - 1
    BY ShmAssumption DEF ShmAssumption
  <2>2. PICK M : M = HugePage * MaxPages
    OBVIOUS
  <2>3. FAILED \in Int /\ M \in Nat
    BY <1>1, <2>2, ShmAssumption DEF ShmAssumption, FAILED
  <2>4. \A x \in M .. FAILED - 1 : x \in Nat /\ M <= x /\ x < FAILED
    BY <2>3
  <2> QED  BY <2>1, <2>2, <2>4
<1>3. ASSUME NEW x, NEW y, Areas = {x, y} PROVE FALSE
  <2>1. IsFiniteSet({x}) /\ Cardinality({x}) = 1
    BY FS_Singleton
  <2>2. Cardinality({x} \cup {y}) \in {1, 2}
    BY <2>1, FS_AddElement
  <2>3. {x} \cup {y} = Areas /\ Cardinality(Areas) = 3
    BY <1>3, ShmAssumption DEF ShmAssumption
  <2> QED  BY <2>2, <2>3
<1>4. L1 # L2 /\ L1 # LOG /\ L2 # LOG
  BY <1>3 DEF Areas
<1> QED  BY <1>1, <1>2, <1>4

(* A step of one process leaves the tables of another one exact.           *)
LEMMA ExactKept ==
  ASSUME NEW p \in Procs, Exact(p), Same(p),
         hugetlb_page_phys_addr'[p] = hugetlb_page_phys_addr[p], area'[p] = area[p]
  PROVE  Exact(p)'
<1> USE DEF Same
<1>1. Sized(p)' /\ Inside(p)' /\ Finished(p)' /\ HugeNoted(p)'
  BY DEF Exact, Sized, Inside, Finished, HugeNoted, Region
<1>2. Laid(p)' /\ Listed(p)'
  BY DEF Exact, Laid, Listed, Frame, Freeing
<1>3. OnChip(p)' /\ Gone(p)'
  BY DEF Exact, OnChip, Gone
<1> QED  BY <1>1, <1>2, <1>3 DEF Exact

(* One process takes the step, and its tables have to be exact after it.   *)
LEMMA ExactGlue ==
  ASSUME EInv, IInv', NEW p \in Procs, Alone(p), TablesOK', Exact(p)'
  PROVE  EInv'
<1>1. ASSUME NEW q \in Procs PROVE Exact(q)'
  <2>1. CASE q = p
    BY <2>1
  <2>2. CASE q # p
    BY <2>2, ExactKept DEF EInv, Alone
  <2> QED  BY <2>1, <2>2
<1> QED  BY <1>1 DEF EInv

(* A step that changes neither the library's nor the driver's table.       *)
LEMMA TablesKept ==
  ASSUME EInv, NEW p \in Procs, pc[p] \notin {"closed", "mmap"}, pc'[p] # "closed",
         shared_mem'[p] = shared_mem[p], shm'[p] = shm[p], client'[p] = client[p]
  PROVE  Sized(p)' /\ Inside(p)' /\ Finished(p)' /\ HugeNoted(p)'
<1>1. Exact(p)
  BY DEF EInv
<1>2. Sized(p)' /\ Inside(p)' /\ Finished(p)'
  BY <1>1 DEF Exact, Sized, Inside, Finished, Region
<1>3. HugeNoted(p)'
  BY <1>1 DEF Exact, HugeNoted
<1> QED  BY <1>2, <1>3

(* Where a huge page begins and where it ends.                             *)
LEMMA FrameFact ==
  ASSUME EInv, NEW p \in Procs, pc[p] # "closed", ~ Freeing(p, HUGE),
         shared_mem[p][HUGE].virt \notin {0, FAILED},
         NEW i \in 0 .. MaxPages - 1, NEW r \in 0 .. HugePage - 1,
         HugePage * i + r < shared_mem[p][HUGE].size
  PROVE  /\ shared_mem[p][HUGE].virt + (HugePage * i + r) \in Region(p, HUGE)
         /\ shared_mem[p][HUGE].virt + (HugePage * i + r) \in Virt
         /\ shared_mem[p][HUGE].virt + HugePage * i \in Virt
         /\ Frame(p, i) \in HugeBases
         /\ vma[p][shared_mem[p][HUGE].virt + (HugePage * i + r)] = Frame(p, i) + r
         /\ HugePage * i \in Nat
<1>1. PICK k : k = HugePage * i
  OBVIOUS
<1>2. k \in Nat
  <2>1. HugePage \in Nat /\ i \in Nat
    BY Consts, ShmAssumption DEF ShmAssumption
  <2>2. HugePage * i \in Nat
    BY <2>1, DivOf, Consts, Zenon
  <2> QED  BY <1>1, <2>2
<1>3. shared_mem[p][HUGE] \in Mem /\ HugePage \in Nat \ {0}
  BY Consts DEF EInv, IInv, TypeOK
<1>4. Region(p, HUGE) \subseteq Virt
  BY Consts DEF EInv, Exact, Inside
<1>5. k + r < shared_mem[p][HUGE].size
  BY <1>1
<1>6. /\ shared_mem[p][HUGE].virt + (k + r) \in Region(p, HUGE)
      /\ shared_mem[p][HUGE].virt + k \in Region(p, HUGE)
  BY <1>2, <1>3, <1>5 DEF Region, Pages, Mem
<1>7. /\ Frame(p, i) \in HugeBases
      /\ vma[p][shared_mem[p][HUGE].virt + (HugePage * i + r)] = Frame(p, i) + r
  BY DEF EInv, Exact, Laid
<1> QED  BY <1>1, <1>2, <1>4, <1>6, <1>7

(* Huge pages stay where they are.                                         *)
LEMMA HugeKept ==
  ASSUME EInv, NEW p \in Procs, pc[p] # "closed", ~ Freeing(p, HUGE),
         shared_mem'[p][HUGE].virt = shared_mem[p][HUGE].virt,
         shared_mem'[p][HUGE].size = shared_mem[p][HUGE].size
           \/ shared_mem[p][HUGE].virt \in {0, FAILED},
         \A w \in Virt : vma[p][w] \in HugeFrames => vma'[p][w] = vma[p][w]
  PROVE  /\ Laid(p)'
         /\ shared_mem[p][HUGE].virt \notin {0, FAILED} =>
              \A i \in 0 .. MaxPages - 1 :
                HugePage * i < shared_mem[p][HUGE].size => Frame(p, i)' = Frame(p, i)
<1> SUFFICES ASSUME shared_mem[p][HUGE].virt \notin {0, FAILED}
             PROVE  /\ Laid(p)'
                    /\ \A i \in 0 .. MaxPages - 1 :
                         HugePage * i < shared_mem[p][HUGE].size => Frame(p, i)' = Frame(p, i)
  BY DEF Laid
<1>1. ASSUME NEW i \in 0 .. MaxPages - 1, NEW r \in 0 .. HugePage - 1,
             HugePage * i + r < shared_mem[p][HUGE].size
      PROVE  /\ Frame(p, i)' = Frame(p, i) /\ Frame(p, i) \in HugeBases
             /\ vma'[p][shared_mem'[p][HUGE].virt + (HugePage * i + r)] = Frame(p, i) + r
  <2>1. /\ shared_mem[p][HUGE].virt + (HugePage * i + r) \in Virt
        /\ shared_mem[p][HUGE].virt + HugePage * i \in Virt
        /\ Frame(p, i) \in HugeBases
        /\ vma[p][shared_mem[p][HUGE].virt + (HugePage * i + r)] = Frame(p, i) + r
    BY <1>1, FrameFact
  <2>2. Frame(p, i) \in HugeFrames /\ Frame(p, i) + r \in HugeFrames
    BY <2>1, InHuge, Consts
  <2> QED  BY <2>1, <2>2 DEF Frame
<1>2. \A i \in 0 .. MaxPages - 1 :
        HugePage * i < shared_mem[p][HUGE].size => Frame(p, i)' = Frame(p, i)
  <2> SUFFICES ASSUME NEW i \in 0 .. MaxPages - 1, HugePage * i < shared_mem[p][HUGE].size
               PROVE  Frame(p, i)' = Frame(p, i)
    OBVIOUS
  <2>1. 0 \in 0 .. HugePage - 1 /\ HugePage * i \in Nat
    <3>1. i \in Nat /\ HugePage \in Nat \ {0}
      BY Consts, ShmAssumption DEF ShmAssumption
    <3>2. HugePage * i \in Nat
      BY <3>1, DivOf, Zenon
    <3> QED  BY <3>1, <3>2
  <2>2. HugePage * i + 0 < shared_mem[p][HUGE].size
    BY <2>1
  <2> QED  BY <1>1, <2>1, <2>2
<1>3. Laid(p)'
  BY <1>1 DEF Laid
<1> QED  BY <1>2, <1>3

(* The table stays true as long as the region is not touched, ...          *)
LEMMA ListedKept ==
  ASSUME EInv, NEW p \in Procs, pc[p] # "closed", ~ Freeing(p, HUGE),
         shared_mem'[p][HUGE] = shared_mem[p][HUGE],
         hugetlb_page_phys_addr'[p] = hugetlb_page_phys_addr[p],
         \A w \in Virt : vma[p][w] \in HugeFrames => vma'[p][w] = vma[p][w],
         pc[p] # "v2p", pc'[p] # "v2p", ~ (pc'[p] = "ioctl_alloc" /\ req'[p] = HUGE)
  PROVE  Listed(p)'
<1>1. Exact(p)
  BY DEF EInv
<1>2. shared_mem[p][HUGE].phys # 0 => shared_mem[p][HUGE].virt \notin {0, FAILED}
  BY <1>1 DEF Exact, HugeNoted
<1>3. shared_mem[p][HUGE].virt \notin {0, FAILED} =>
        \A i \in 0 .. MaxPages - 1 :
          HugePage * i < shared_mem[p][HUGE].size => Frame(p, i)' = Frame(p, i)
  BY HugeKept
<1> QED  BY <1>1, <1>2, <1>3 DEF Exact, Listed

(* ... and the areas stay mapped.                                          *)
LEMMA OnChipKept ==
  ASSUME EInv, NEW p \in Procs, pc[p] \notin {"closed", "map"}, pc'[p] # "map",
         area'[p] = area[p],
         \A w \in Virt : vma[p][w] \in Areas => vma'[p][w] = vma[p][w]
  PROVE  OnChip(p)'
<1>1. Exact(p) /\ {L1, L2} \subseteq Areas
  BY DEF EInv, Areas
<1> QED  BY <1>1 DEF Exact, OnChip
-----------------------------------------------------------------------------
(* Of a process that has the device closed little is said.                 *)
LEMMA ClosedExact ==
  ASSUME EInv, IInv', NEW p \in Procs, pc'[p] = "closed", Sized(p)',
         shm'[p][HUGE].phys = 0 => shm'[p][HUGE] = NoMem,
         ~client'[p] => shm'[p][HUGE].phys = 0,
         hugetlb_page_phys_addr' \in [Procs -> [0 .. MaxPages - 1 -> Nat]],
         area' \in [Procs -> [Areas -> Mem]], Alone(p)
  PROVE  EInv'
<1>1. Inside(p)' /\ Finished(p)' /\ HugeNoted(p)'
  BY DEF Inside, Finished, HugeNoted
<1>2. Laid(p)' /\ Listed(p)' /\ OnChip(p)' /\ Gone(p)'
  BY DEF Laid, Listed, OnChip, Gone
<1> QED  BY <1>1, <1>2, ExactGlue DEF Exact, TablesOK

(* A region that is unmapped keeps its physical address.                   *)
LEMMA CloseDeviceExact ==
  ASSUME EInv, IInv', NEW p \in Procs, NEW as, CloseDevice(p, as),
         NEW r \in Nat, req' = [req EXCEPT ![p] = r],
         UNCHANGED <<shared_mem, hugetlb_page_phys_addr, client, shm>>
  PROVE  EInv'
<1>1. /\ pc' = [pc EXCEPT ![p] = "closed"] /\ fd' = [fd EXCEPT ![p] = FALSE]
      /\ vma' = [vma EXCEPT ![p] = Munmap(p, {area[p][a] : a \in as})]
      /\ area' = [area EXCEPT ![p] =
                    [a \in Areas |-> IF a \in as /\ area[p][a].virt # FAILED
                                       THEN [area[p][a] EXCEPT !.virt = 0] ELSE area[p][a]]]
  BY DEF CloseDevice, Goto
<1>2. [a \in Areas |-> IF a \in as /\ area[p][a].virt # FAILED
                         THEN [area[p][a] EXCEPT !.virt = 0] ELSE area[p][a]] \in [Areas -> Mem]
  <2>1. \A a \in Areas : area[p][a] \in Mem
    BY DEF EInv, TablesOK
  <2>2. \A m \in Mem : [m EXCEPT !.virt = 0] \in Mem
    BY DEF Mem
  <2> QED  BY <2>1, <2>2
<1>3. area' \in [Procs -> [Areas -> Mem]]
  BY <1>1, <1>2 DEF EInv, TablesOK
<1>4. pc'[p] = "closed"
  BY <1>1 DEF EInv, IInv, TypeOK
<1>5. Alone(p)
  BY <1>1 DEF Alone, Same, EInv, IInv, TypeOK, TablesOK
<1>6. Exact(p)
  BY DEF EInv
<1>7. Sized(p)'
  BY <1>6 DEF Exact, Sized
<1>8. /\ shm'[p][HUGE].phys = 0 => shm'[p][HUGE] = NoMem
      /\ ~client'[p] => shm'[p][HUGE].phys = 0
  BY <1>6 DEF Exact, HugeNoted
<1> QED  BY <1>3, <1>4, <1>5, <1>7, <1>8, ClosedExact DEF EInv, TablesOK

(* dsp_open gives up, ...                                                  *)
LEMMA OpenFailsExact ==
  ASSUME EInv, IInv', NEW p \in Procs, OpenFails(p)
  PROVE  EInv'
<1>1. /\ UNCHANGED <<shared_mem, hugetlb_page_phys_addr, client, shm>>
      /\ req' = [req EXCEPT ![p] = req[p]] /\ req[p] \in Nat
  BY DEF OpenFails, driver, EInv, IInv, TypeOK
<1>2. PICK as : CloseDevice(p, as)
  BY DEF OpenFails
<1> QED  BY <1>1, <1>2, CloseDeviceExact

(* ... dsp_close ends, ...                                                 *)
LEMMA CloseEndsExact ==
  ASSUME EInv, IInv', NEW p \in Procs, CloseEnds(p)
  PROVE  EInv'
<1>1. /\ UNCHANGED <<shared_mem, hugetlb_page_phys_addr, client, shm>>
      /\ req' = [req EXCEPT ![p] = 0] /\ CloseDevice(p, Areas)
  BY DEF CloseEnds, driver
<1> QED  BY <1>1, CloseDeviceExact

(* ... the process is killed, ...                                          *)
LEMMA KilledExact ==
  ASSUME EInv, IInv', NEW p \in Procs, Killed(p)
  PROVE  EInv'
<1>1. /\ pc' = [pc EXCEPT ![p] = "closed"] /\ req' = [req EXCEPT ![p] = 0]
      /\ fd' = [fd EXCEPT ![p] = FALSE] /\ vma' = [vma EXCEPT ![p] = [v \in Virt |-> 0]]
      /\ shared_mem' = [shared_mem EXCEPT ![p] = [t \in Types |-> NoMem]]
      /\ hugetlb_page_phys_addr' = [hugetlb_page_phys_addr EXCEPT
                                      ![p] = [i \in DOMAIN hugetlb_page_phys_addr[p] |-> 0]]
      /\ area' = [area EXCEPT ![p] = [a \in Areas |-> NoMem]]
      /\ UNCHANGED <<client, shm>>
  BY DEF Killed, Goto, driver
<1>2. /\ hugetlb_page_phys_addr' \in [Procs -> [0 .. MaxPages - 1 -> Nat]]
      /\ area' \in [Procs -> [Areas -> Mem]]
  BY <1>1 DEF EInv, TablesOK, NoMem, Mem
<1>3. pc'[p] = "closed" /\ \A t \in Types : shared_mem'[p][t] = NoMem
  BY <1>1 DEF EInv, IInv, TypeOK
<1>4. Alone(p)
  BY <1>1 DEF Alone, Same, EInv, IInv, TypeOK, TablesOK
<1>5. Exact(p)
  BY DEF EInv
<1>6. Sized(p)'
  <2>1. 0 <= HugePage * MaxPages /\ 0 % HugePage = 0
    BY AreaFact, Consts
  <2> QED  BY <1>3, <2>1, Consts DEF Sized, NoMem
<1>7. /\ shm'[p][HUGE].phys = 0 => shm'[p][HUGE] = NoMem
      /\ ~client'[p] => shm'[p][HUGE].phys = 0
  BY <1>1, <1>5 DEF Exact, HugeNoted
<1> QED  BY <1>2, <1>3, <1>4, <1>6, <1>7, ClosedExact

(* ... and the driver takes back what it has left.                         *)
LEMMA fops__releaseExact ==
  ASSUME EInv, IInv', NEW p \in Procs, fops__release(p)
  PROVE  EInv'
<1>1. /\ ~fd[p] /\ client' = [client EXCEPT ![p] = FALSE]
      /\ shm' = [shm EXCEPT ![p] = Released(p)]
      /\ UNCHANGED <<pc, req, shared_mem, hugetlb_page_phys_addr, area, fd, vma>>
  BY DEF fops__release, lib
<1>2. Exact(p) /\ Local(p)
  BY DEF EInv, IInv
<1>3. pc'[p] = "closed"
  BY <1>1, <1>2 DEF Local, Recorded
<1>4. Alone(p)
  BY <1>1 DEF Alone, Same, EInv, IInv, TypeOK
<1>5. Sized(p)'
  BY <1>1, <1>2 DEF Exact, Sized
<1>6. shm'[p][HUGE] = NoMem /\ NoMem.phys = 0
  BY <1>1, <1>2, Consts DEF Released, EInv, IInv, TypeOK, Exact, HugeNoted, NoMem
<1> QED  BY <1>1, <1>3, <1>4, <1>5, <1>6, ClosedExact DEF EInv, TablesOK
-----------------------------------------------------------------------------
(* A new process has nothing, and nothing is old.                          *)
LEMMA dsp_openExact ==
  ASSUME EInv, IInv', NEW p \in Procs, dsp_open(p)
  PROVE  EInv'
<1>1. /\ ~client[p]
      /\ pc' = [pc EXCEPT ![p] = "map"] /\ req' = [req EXCEPT ![p] = L1]
      /\ fd' = [fd EXCEPT ![p] = TRUE] /\ client' = [client EXCEPT ![p] = TRUE]
      /\ shared_mem' = [shared_mem EXCEPT ![p] = [t \in Types |-> NoMem]]
      /\ hugetlb_page_phys_addr' = [hugetlb_page_phys_addr EXCEPT
                                      ![p] = [i \in DOMAIN hugetlb_page_phys_addr[p] |-> 0]]
      /\ area' = [area EXCEPT ![p] = [a \in Areas |-> NoMem]]
      /\ UNCHANGED <<shm, vma>>
  BY DEF dsp_open, Goto
<1>2. TablesOK'
  BY <1>1 DEF EInv, TablesOK, NoMem, Mem
<1>3. pc'[p] = "map" /\ req'[p] = L1 /\ \A t \in Types : shared_mem'[p][t] = NoMem
  BY <1>1 DEF EInv, IInv, TypeOK
<1>4. Alone(p)
  BY <1>1 DEF Alone, Same, EInv, IInv, TypeOK, TablesOK
<1>5. Exact(p) /\ HUGE \in Types /\ HUGE \notin Contig /\ Contig \subseteq Types
  BY Consts DEF EInv
<1>6. Sized(p)'
  <2>1. 0 <= HugePage * MaxPages /\ 0 % HugePage = 0
    BY AreaFact, Consts
  <2> QED  BY <1>3, <1>5, <2>1 DEF Sized, NoMem
<1>7. Inside(p)' /\ Finished(p)'
  BY <1>3, <1>5 DEF Inside, Finished, NoMem
<1>8. HugeNoted(p)' /\ Laid(p)' /\ Listed(p)'
  <2>1. shm[p][HUGE] = NoMem
    BY <1>1, <1>5 DEF Exact, HugeNoted
  <2>2. shm'[p][HUGE] = NoMem /\ shared_mem'[p][HUGE] = NoMem /\ NoMem.phys = 0 /\ NoMem.virt = 0
    BY <1>1, <1>3, <1>5, <2>1 DEF NoMem
  <2>3. client'[p]
    BY <1>1 DEF EInv, IInv, TypeOK
  <2> QED  BY <1>3, <2>2, <2>3 DEF HugeNoted, Laid, Listed
<1>9. OnChip(p)' /\ Gone(p)'
  <2>1. Unmapped(L1) = {}
    BY AreaFact, Consts DEF Unmapped, Areas
  <2> QED  BY <1>3, <2>1 DEF OnChip, Gone
<1> QED  BY <1>2, <1>4, <1>6, <1>7, <1>8, <1>9, ExactGlue DEF Exact

(* An area of the chip is mapped into a hole, and is found there.          *)
LEMMA MapAreaExact ==
  ASSUME EInv, IInv', NEW p \in Procs, MapArea(p)
  PROVE  EInv'
<1> DEFINE a == req[p]
           v == Min(Holes(p, 1))
<1>1. /\ pc[p] = "map" /\ Holes(p, 1) # {} /\ fops__mmap(p, a, 1, v)
      /\ area' = [area EXCEPT ![p][a] = [phys |-> a, virt |-> v, size |-> 1]]
      /\ Goto(p, IF a = LOG THEN "resume" ELSE "map")
      /\ req' = [req EXCEPT ![p] = IF a = L1 THEN L2 ELSE LOG]
      /\ UNCHANGED <<shared_mem, hugetlb_page_phys_addr, fd>>
  BY DEF MapArea
<1>2. /\ v \in Virt /\ vma[p][v] = 0 /\ v \in Nat
  <2>1. v \in Virt /\ \A w \in Pages(v, 1) : vma[p][w] = 0
    BY <1>1, HoleFact DEF EInv
  <2>2. v \in Nat
    BY <2>1, Consts
  <2> QED  BY <2>1, <2>2 DEF Pages
<1> HIDE DEF v
<1>3. Exact(p) /\ Local(p) /\ IInv
  BY DEF EInv, IInv
<1>4. a \in Areas /\ a \in Nat /\ a # 0 /\ a \notin Cma /\ a \notin HugeFrames
  <2>1. a \in Areas
    BY <1>1, <1>3 DEF Local, Places
  <2> QED  BY <2>1, Consts
<1>5. {t \in Contig : shm[p][t].phys = a} = {}
  BY <1>3, <1>4, Owners
<1>6. /\ UNCHANGED <<shm, client>>
      /\ vma' = [vma EXCEPT ![p] =
                   [w \in Virt |-> IF w \in Pages(v, 1) THEN a + w - v ELSE vma[p][w]]]
  BY <1>1, <1>5 DEF fops__mmap
<1>7. vma' = [vma EXCEPT ![p] = [w \in Virt |-> IF w = v THEN a ELSE vma[p][w]]]
  <2>1. Pages(v, 1) = {v} /\ a + v - v = a
    BY <1>2, <1>4 DEF Pages
  <2> QED  BY <1>6, <2>1
<1>8. /\ \A w \in Virt : vma[p][w] # 0 => vma'[p][w] = vma[p][w]
      /\ vma'[p][v] = a
  BY <1>2, <1>7 DEF EInv, IInv, TypeOK
<1>9. /\ pc'[p] = (IF a = LOG THEN "resume" ELSE "map")
      /\ req'[p] = (IF a = L1 THEN L2 ELSE LOG)
      /\ shared_mem'[p] = shared_mem[p] /\ shm'[p] = shm[p] /\ client'[p] = client[p]
      /\ hugetlb_page_phys_addr'[p] = hugetlb_page_phys_addr[p]
  BY <1>1, <1>6 DEF EInv, IInv, TypeOK, Goto
<1>10. Sized(p)' /\ Inside(p)' /\ Finished(p)' /\ HugeNoted(p)'
  BY <1>1, <1>9, TablesKept
<1>11. \A w \in Virt : vma[p][w] \in HugeFrames => vma'[p][w] = vma[p][w]
  BY <1>8, Consts
<1>12. pc[p] # "closed" /\ ~ Freeing(p, HUGE) /\ HUGE \in Types
  BY <1>1, Consts DEF Freeing
<1>13. Laid(p)' /\ Listed(p)'
  <2>1. Laid(p)'
    BY <1>9, <1>11, <1>12, HugeKept
  <2> QED  BY <1>1, <1>9, <1>11, <1>12, <2>1, ListedKept
<1>14. TablesOK'
  <2>1. [phys |-> a, virt |-> v, size |-> 1] \in Mem
    BY <1>2, <1>4 DEF Mem
  <2> QED  BY <1>1, <1>4, <2>1 DEF EInv, TablesOK
<1>15. OnChip(p)'
  <2>1. /\ area'[p][a] = [phys |-> a, virt |-> v, size |-> 1]
        /\ \A b \in Areas \ {a} : area'[p][b] = area[p][b]
    BY <1>1, <1>4 DEF EInv, TablesOK
  <2>2. area'[p][a].phys = a /\ area'[p][a].size = 1 /\ area'[p][a].virt = v
    BY <2>1
  <2>3. ASSUME NEW b \in Areas \ {a}, b \in Unmapped(a)
        PROVE  /\ area'[p][b].phys = b /\ area'[p][b].size = 1
               /\ area'[p][b].virt \in Virt /\ vma'[p][area'[p][b].virt] = b
    <3>1. /\ area[p][b].phys = b /\ area[p][b].size = 1
          /\ area[p][b].virt \in Virt /\ vma[p][area[p][b].virt] = b
      BY <1>1, <1>3, <2>3 DEF Exact, OnChip
    <3>2. b # 0
      BY Consts
    <3> QED  BY <1>8, <2>1, <3>1, <3>2
  <2>4. \A b \in (IF pc'[p] = "map" THEN Unmapped(req'[p]) ELSE {L1, L2}) :
          b = a \/ (b \in Areas \ {a} /\ b \in Unmapped(a))
    <3>1. L1 \in Areas /\ L2 \in Areas /\ LOG \in Areas /\ L1 # 0 /\ L2 # 0 /\ LOG # 0
      BY Consts
    <3>2. L1 # L2 /\ L1 # LOG /\ L2 # LOG
      BY AreaFact
    <3>3. Unmapped(L2) = {L1} /\ Unmapped(LOG) = {L1, L2}
      BY <3>1, <3>2 DEF Unmapped
    <3>4. a = L1 \/ a = L2 \/ a = LOG
      BY <1>4 DEF Areas
    <3>5. CASE a = L1
      BY <1>9, <3>1, <3>2, <3>3, <3>5
    <3>6. CASE a = L2
      BY <1>9, <3>1, <3>2, <3>3, <3>6
    <3>7. CASE a = LOG
      BY <1>9, <3>1, <3>2, <3>3, <3>7
    <3> QED  BY <3>4, <3>5, <3>6, <3>7
  <2> QED  BY <1>2, <1>8, <2>2, <2>3, <2>4 DEF OnChip
<1>16. Gone(p)'
  BY <1>9 DEF Gone
<1>17. Alone(p)
  BY <1>1, <1>6 DEF Alone, Same, Goto, EInv, IInv, TypeOK, TablesOK
<1> QED  BY <1>10, <1>13, <1>14, <1>15, <1>16, <1>17, ExactGlue DEF Exact
-----------------------------------------------------------------------------
(* A step in which only the place of the library changes.                  *)
LEMMA QuietExact ==
  ASSUME EInv, IInv', NEW p \in Procs, pc[p] \notin {"closed", "map", "mmap", "v2p", "ioctl_free"},
         NEW l \in {"open", "close"}, Goto(p, l),
         NEW r \in Nat, req' = [req EXCEPT ![p] = r],
         UNCHANGED <<lib, fd, client, shm, vma>>
  PROVE  EInv'
<1>1. /\ shared_mem' = shared_mem /\ hugetlb_page_phys_addr' = hugetlb_page_phys_addr
      /\ area' = area /\ pc'[p] = l
  BY DEF lib, Goto, EInv, IInv, TypeOK
<1>2. Sized(p)' /\ Inside(p)' /\ Finished(p)' /\ HugeNoted(p)'
  BY <1>1, TablesKept
<1>3. ~ Freeing(p, HUGE)
  BY DEF Freeing
<1>4. Laid(p)'
  BY <1>1, <1>3, HugeKept
<1>5. Listed(p)'
  BY <1>1, <1>3, ListedKept
<1>6. OnChip(p)' /\ Gone(p)'
  BY <1>1, OnChipKept DEF Gone
<1>7. TablesOK' /\ Alone(p)
  BY <1>1 DEF EInv, TablesOK, Alone, Same, Goto, IInv, TypeOK
<1> QED  BY <1>2, <1>4, <1>5, <1>6, <1>7, ExactGlue DEF Exact

(* dsp_open ends, ...                                                      *)
LEMMA OpenEndsExact ==
  ASSUME EInv, IInv', NEW p \in Procs, OpenEnds(p)
  PROVE  EInv'
<1>1. pc[p] = "resume" /\ Goto(p, "open") /\ UNCHANGED <<req, lib, fd, client, shm, vma>>
  BY DEF OpenEnds, driver
<1>2. req' = [req EXCEPT ![p] = req[p]] /\ req[p] \in Nat
  BY <1>1 DEF EInv, IInv, TypeOK
<1> QED  BY <1>1, <1>2, QuietExact

(* ... the driver refuses a block, ...                                     *)
LEMMA SHM_ALLOC_FailsExact ==
  ASSUME EInv, IInv', NEW p \in Procs, SHM_ALLOC_Fails(p)
  PROVE  EInv'
<1>1. pc[p] = "ioctl_alloc" /\ Goto(p, "open") /\ UNCHANGED <<req, lib, fd, client, shm, vma>>
  BY DEF SHM_ALLOC_Fails, driver
<1>2. req' = [req EXCEPT ![p] = req[p]] /\ req[p] \in Nat
  BY <1>1 DEF EInv, IInv, TypeOK
<1> QED  BY <1>1, <1>2, QuietExact

(* ... dsp_close begins.                                                   *)
LEMMA dsp_closeExact ==
  ASSUME EInv, IInv', NEW p \in Procs, dsp_close(p)
  PROVE  EInv'
<1>1. /\ pc[p] = "open" /\ Goto(p, "close") /\ req' = [req EXCEPT ![p] = 0]
      /\ UNCHANGED <<lib, fd, client, shm, vma>>
  BY DEF dsp_close, driver
<1> QED  BY <1>1, QuietExact
(* A step that changes one contiguous type: what is said of it must hold,  *)
(* and huge pages and areas stay mapped.                                   *)
LEMMA ContigExact ==
  ASSUME EInv, IInv', NEW p \in Procs,
         pc[p] \notin {"closed", "map", "v2p"}, ~ Freeing(p, HUGE),
         pc'[p] \notin {"closed", "map", "v2p", "ioctl_free"},
         ~ (pc'[p] = "ioctl_alloc" /\ req'[p] = HUGE),
         NEW t \in Contig, NEW m \in Mem, shared_mem'[p][t] = m,
         \A u \in Types \ {t} : /\ shared_mem'[p][u] = shared_mem[p][u]
                                /\ shm'[p][u] = shm[p][u]
                                /\ pc[p] = "mmap" => req[p] # u,
         client'[p] = client[p],
         UNCHANGED <<hugetlb_page_phys_addr, area>>,
         \A w \in Virt : vma[p][w] \in HugeFrames \cup Areas => vma'[p][w] = vma[p][w],
         m.size <= HugePage * MaxPages,
         m.virt \in {0, FAILED} \/ Pages(m.virt, m.size) \subseteq Virt,
         m.phys = 0 \/ m.virt = FAILED \/ (pc'[p] = "mmap" /\ req'[p] = t) \/ shm'[p][t].virt # 0,
         \A q \in Procs \ {p} : Same(q)
  PROVE  EInv'
<1>1. Exact(p)
  BY DEF EInv
<1>2. HUGE \in Types \ {t} /\ \A u \in Contig : u \in Types
  BY Consts
<1>3. Sized(p)'
  BY <1>1, <1>2 DEF Exact, Sized
<1>4. Inside(p)' /\ Finished(p)'
  <2>1. Inside(p)'
    BY <1>1 DEF Exact, Inside, Region
  <2>2. Finished(p)'
    BY <1>1, <1>2 DEF Exact, Finished
  <2> QED  BY <2>1, <2>2
<1>5. HugeNoted(p)'
  BY <1>1, <1>2 DEF Exact, HugeNoted
<1>6. Laid(p)' /\ Listed(p)'
  <2>1. Laid(p)'
    BY <1>2, HugeKept
  <2> QED  BY <1>2, <2>1, ListedKept
<1>7. OnChip(p)' /\ Gone(p)'
  BY OnChipKept DEF Gone
<1>8. TablesOK' /\ Alone(p)
  BY DEF EInv, TablesOK, Alone
<1> QED  BY <1>1, <1>3, <1>4, <1>5, <1>6, <1>7, <1>8, ExactGlue DEF Exact

(* A step that changes the huge pages alone.                               *)
LEMMA HugeExact ==
  ASSUME EInv, IInv', NEW p \in Procs,
         pc[p] \notin {"closed", "map", "mmap"}, pc'[p] \notin {"closed", "map"},
         \A u \in Contig : shared_mem'[p][u] = shared_mem[p][u] /\ shm'[p][u] = shm[p][u],
         NEW m, shared_mem'[p][HUGE] = m,
         m.size <= HugePage * MaxPages, m.size % HugePage = 0,
         m.virt \in {0, FAILED} \/ Pages(m.virt, m.size) \subseteq Virt,
         HugeNoted(p)', Laid(p)', Listed(p)', Gone(p)',
         \A w \in Virt : vma[p][w] \in Areas => vma'[p][w] = vma[p][w],
         TablesOK', Alone(p), area'[p] = area[p]
  PROVE  EInv'
<1>1. Exact(p)
  BY DEF EInv
<1>2. \A u \in Types : u \in Contig \/ u = HUGE
  BY Consts
<1>3. Sized(p)' /\ Inside(p)' /\ Finished(p)'
  <2>1. Sized(p)'
    BY <1>1, <1>2 DEF Exact, Sized
  <2>2. Inside(p)'
    BY <1>1, <1>2 DEF Exact, Inside, Region
  <2>3. Finished(p)'
    BY <1>1 DEF Exact, Finished
  <2> QED  BY <2>1, <2>2, <2>3
<1>4. OnChip(p)'
  BY OnChipKept
<1> QED  BY <1>3, <1>4, ExactGlue DEF Exact

(* What is rounded up to a huge page is not larger than all of them.       *)
LEMMA RoundedLess ==
  ASSUME NEW t \in Types, NEW n \in Sizes
  PROVE  Rounded(t, n) <= HugePage * MaxPages
<1> DEFINE k == (n + HugePage - 1) \div HugePage
<1>1. PICK M : M = HugePage * MaxPages
  OBVIOUS
<1>2. HugePage \in Nat \ {0} /\ MaxPages \in Nat \ {0} /\ M \in Nat /\ n \in Nat /\ n <= M
  <2>1. HugePage \in Nat \ {0} /\ MaxPages \in Nat \ {0} /\ M \in Nat
    BY <1>1, AreaFact, ShmAssumption DEF ShmAssumption
  <2>2. n \in 1 .. M
    BY <1>1, ShmAssumption DEF ShmAssumption
  <2> QED  BY <2>1, <2>2
<1>3. n + HugePage - 1 \in Nat
  BY <1>2
<1>4. /\ k \in Nat /\ (n + HugePage - 1) % HugePage >= 0
      /\ n + HugePage - 1 = HugePage * k + ((n + HugePage - 1) % HugePage)
  BY <1>2, <1>3, DivMod
<1> HIDE DEF k
<1>5. HugePage * k \in Nat /\ k * HugePage = HugePage * k
  BY <1>2, <1>4, DivOf, Zenon
<1>6. HugePage * k <= M + HugePage - 1
  BY <1>2, <1>4, <1>5
<1>7. k <= MaxPages
  <2>1. ASSUME k >= MaxPages + 1 PROVE FALSE
    <3>1. HugePage * k >= HugePage * MaxPages + HugePage
      BY <1>2, <1>4, <2>1, SMT
    <3> QED  BY <1>1, <1>2, <1>5, <1>6, <3>1
  <2> QED  BY <1>2, <1>4, <2>1
<1>8. HugePage * k <= M
  BY <1>1, <1>2, <1>4, <1>7, SMT
<1> QED  BY <1>1, <1>2, <1>5, <1>8 DEF Rounded, k

(* A type that is not allocated gets the size asked for.                   *)
LEMMA dsp_shm_alloc_atExact ==
  ASSUME EInv, IInv', NEW p \in Procs, NEW t \in Types, NEW n \in Sizes, dsp_shm_alloc_at(p, t, n)
  PROVE  EInv'
<1>1. PICK l : l = IF t = HUGE THEN "mmap_huge" ELSE "ioctl_alloc"
  OBVIOUS
<1>2. PICK s : s = Rounded(t, n)
  OBVIOUS
<1>3. /\ pc[p] = "open" /\ Goto(p, l) /\ req' = [req EXCEPT ![p] = t]
      /\ shared_mem[p][t].phys = 0
      /\ shared_mem' = [shared_mem EXCEPT ![p][t].size = s]
      /\ UNCHANGED <<hugetlb_page_phys_addr, area, fd, client, shm, vma>>
  BY <1>1, <1>2 DEF dsp_shm_alloc_at, driver
<1>4. Exact(p) /\ Local(p) /\ HUGE \in Types /\ shared_mem[p][t] \in Mem
  BY Consts DEF EInv, IInv, TypeOK
<1>5. s \in Nat /\ s # 0 /\ (t = HUGE => s % HugePage = 0) /\ s <= HugePage * MaxPages
  <2>1. n \in Nat \ {0}
    BY ShmAssumption DEF ShmAssumption
  <2> QED  BY <1>2, <2>1, RoundedFact, RoundedLess
<1>6. PICK m : m = [shared_mem[p][t] EXCEPT !.size = s]
  OBVIOUS
<1>7. m \in Mem /\ m.phys = 0 /\ m.virt = shared_mem[p][t].virt /\ m.size = s
  BY <1>3, <1>4, <1>5, <1>6 DEF Mem
<1>8. m.virt \in {0, FAILED}
  BY <1>3, <1>4, <1>7 DEF Local, Empty
<1>9. /\ pc'[p] = l /\ req'[p] = t /\ shared_mem'[p][t] = m
      /\ \A u \in Types \ {t} : shared_mem'[p][u] = shared_mem[p][u]
  BY <1>3, <1>4, <1>6 DEF Goto, EInv, IInv, TypeOK
<1>10. \A q \in Procs \ {p} : Same(q)
  BY <1>3 DEF Same, Goto, EInv, IInv, TypeOK
<1>11. TablesOK' /\ Alone(p)
  BY <1>3, <1>10 DEF EInv, TablesOK, Alone
<1>12. ~ Freeing(p, HUGE) /\ client'[p] = client[p]
  BY <1>3 DEF Freeing
<1>13. CASE t # HUGE
  <2>1. t \in Contig /\ l = "ioctl_alloc"
    BY <1>1, <1>13, Consts
  <2> QED  BY <1>3, <1>5, <1>7, <1>8, <1>9, <1>10, <1>12, <1>13, <2>1, ContigExact
<1>14. CASE t = HUGE
  <2>1. l = "mmap_huge" /\ shared_mem'[p][HUGE] = m
    BY <1>1, <1>9, <1>14
  <2>2. HugeNoted(p)'
    BY <1>3, <1>4, <1>7, <1>9, <1>14 DEF Exact, HugeNoted
  <2>3. Laid(p)' /\ Listed(p)' /\ Gone(p)'
    BY <1>7, <1>8, <1>9, <2>1 DEF Laid, Listed, Gone
  <2>4. \A u \in Contig : shared_mem'[p][u] = shared_mem[p][u] /\ shm'[p][u] = shm[p][u]
    BY <1>3, <1>9, <1>14, Consts
  <2> QED  BY <1>3, <1>5, <1>7, <1>8, <1>9, <1>11, <1>14, <2>1, <2>2, <2>3, <2>4, HugeExact
<1> QED  BY <1>13, <1>14

(* It gets no huge pages ...                                               *)
LEMMA MmapHugeFailsExact ==
  ASSUME EInv, IInv', NEW p \in Procs, MmapHugeFails(p)
  PROVE  EInv'
<1>1. /\ pc[p] = "mmap_huge" /\ Goto(p, "open")
      /\ shared_mem' = [shared_mem EXCEPT ![p][HUGE].virt = FAILED]
      /\ UNCHANGED <<req, hugetlb_page_phys_addr, area, fd, client, shm, vma>>
  BY DEF MmapHugeFails, driver
<1>2. Exact(p) /\ Local(p) /\ HUGE \in Types /\ shared_mem[p][HUGE] \in Mem
  BY Consts DEF EInv, IInv, TypeOK
<1>3. PICK m : m = [shared_mem[p][HUGE] EXCEPT !.virt = FAILED]
  OBVIOUS
<1>4. /\ m.virt = FAILED /\ m.phys = shared_mem[p][HUGE].phys
      /\ m.size = shared_mem[p][HUGE].size
  BY <1>2, <1>3 DEF Mem
<1>5. /\ pc'[p] = "open" /\ shared_mem'[p][HUGE] = m
      /\ \A u \in Contig : shared_mem'[p][u] = shared_mem[p][u] /\ shm'[p][u] = shm[p][u]
  <2>1. HUGE \notin Contig /\ Contig \subseteq Types
    BY Consts
  <2>2. pc'[p] = "open"
    BY <1>1 DEF Goto, EInv, IInv, TypeOK
  <2> QED  BY <1>1, <1>2, <1>3, <2>1, <2>2 DEF EInv, IInv, TypeOK
<1>6. shared_mem[p][HUGE].phys = 0
  BY <1>1, <1>2 DEF Local, Places
<1>7. HugeNoted(p)'
  BY <1>1, <1>2, <1>4, <1>5, <1>6 DEF Exact, HugeNoted
<1>8. Laid(p)' /\ Listed(p)' /\ Gone(p)'
  BY <1>4, <1>5, <1>6 DEF Laid, Listed, Gone
<1>9. TablesOK' /\ Alone(p)
  BY <1>1 DEF EInv, TablesOK, Alone, Same, Goto, IInv, TypeOK
<1>10. m.size <= HugePage * MaxPages /\ m.size % HugePage = 0
  BY <1>2, <1>4 DEF Exact, Sized
<1> QED  BY <1>1, <1>4, <1>5, <1>7, <1>8, <1>9, <1>10, HugeExact

(* ... or no address, ...                                                  *)
LEMMA MmapBlockFailsExact ==
  ASSUME EInv, IInv', NEW p \in Procs, MmapBlockFails(p)
  PROVE  EInv'
<1>1. PICK t : t = req[p]
  OBVIOUS
<1>2. /\ pc[p] = "mmap" /\ Goto(p, "open")
      /\ shared_mem' = [shared_mem EXCEPT ![p][t].virt = FAILED]
      /\ UNCHANGED <<req, hugetlb_page_phys_addr, area, fd, client, shm, vma>>
  BY <1>1 DEF MmapBlockFails, driver
<1>3. Exact(p) /\ Local(p)
  BY DEF EInv, IInv
<1>4. t \in Contig /\ t \in Types /\ shared_mem[p][t] \in Mem
  <2>1. t \in Contig
    BY <1>1, <1>2, <1>3 DEF Local, Places
  <2> QED  BY <2>1, Consts DEF EInv, IInv, TypeOK
<1>5. PICK m : m = [shared_mem[p][t] EXCEPT !.virt = FAILED]
  OBVIOUS
<1>6. m \in Mem /\ m.virt = FAILED /\ m.size = shared_mem[p][t].size
  <2>1. FAILED \in Nat
    BY Consts, ShmAssumption DEF FAILED, ShmAssumption, Areas
  <2> QED  BY <1>4, <1>5, <2>1 DEF Mem
<1>7. /\ pc'[p] = "open" /\ shared_mem'[p][t] = m
      /\ \A u \in Types \ {t} : /\ shared_mem'[p][u] = shared_mem[p][u]
                                /\ shm'[p][u] = shm[p][u] /\ req[p] # u
  BY <1>1, <1>2, <1>4, <1>5 DEF Goto, EInv, IInv, TypeOK
<1>8. \A q \in Procs \ {p} : Same(q)
  BY <1>2 DEF Same, Goto, EInv, IInv, TypeOK
<1>9. m.size <= HugePage * MaxPages
  BY <1>3, <1>4, <1>6 DEF Exact, Sized
<1>10. ~ Freeing(p, HUGE) /\ client'[p] = client[p]
  BY <1>2 DEF Freeing
<1> QED  BY <1>2, <1>4, <1>6, <1>7, <1>8, <1>9, <1>10, ContigExact

(* ... or a block of the driver's, ...                                     *)
LEMMA SHM_ALLOCExact ==
  ASSUME EInv, IInv', NEW p \in Procs, SHM_ALLOC(p)
  PROVE  EInv'
<1>1. PICK t : t = req[p]
  OBVIOUS
<1>2. PICK n : n = shared_mem[p][t].size
  OBVIOUS
<1>3. PICK f \in Cma : /\ shm' = [shm EXCEPT ![p][t] = [phys |-> f, virt |-> 0, size |-> n]]
                       /\ shared_mem' = [shared_mem EXCEPT ![p][t] = [phys |-> f, virt |-> 0, size |-> n]]
  BY <1>1, <1>2 DEF SHM_ALLOC
<1>4. PICK m : m = [phys |-> f, virt |-> 0, size |-> n]
  OBVIOUS
<1>5. /\ pc[p] = "ioctl_alloc" /\ t # HUGE /\ Goto(p, "mmap")
      /\ UNCHANGED <<req, hugetlb_page_phys_addr, area, fd, client, vma>>
  BY <1>1 DEF SHM_ALLOC
<1>6. Exact(p) /\ Local(p)
  BY DEF EInv, IInv
<1>7. t \in Contig /\ t \in Types
  BY <1>1, <1>5, <1>6, Consts DEF Local, Places
<1>8. n \in Nat /\ n <= HugePage * MaxPages
  BY <1>2, <1>6, <1>7 DEF Exact, Sized, EInv, IInv, TypeOK, Mem
<1>9. m \in Mem /\ m.virt = 0 /\ m.size = n
  BY <1>4, <1>8, Consts DEF Mem
<1>10. /\ pc'[p] = "mmap" /\ req'[p] = t /\ shared_mem'[p][t] = m
       /\ \A u \in Types \ {t} : /\ shared_mem'[p][u] = shared_mem[p][u]
                                 /\ shm'[p][u] = shm[p][u]
  BY <1>1, <1>3, <1>4, <1>5, <1>7 DEF Goto, EInv, IInv, TypeOK
<1>11. \A q \in Procs \ {p} : Same(q)
  BY <1>3, <1>5 DEF Same, Goto, EInv, IInv, TypeOK
<1>12. ~ Freeing(p, HUGE) /\ client'[p] = client[p]
  BY <1>5 DEF Freeing
<1> QED  BY <1>5, <1>7, <1>8, <1>9, <1>10, <1>11, <1>12, ContigExact
-----------------------------------------------------------------------------
(* ... which is mapped as a whole.                                         *)
LEMMA MmapBlockExact ==
  ASSUME EInv, IInv', NEW p \in Procs, MmapBlock(p)
  PROVE  EInv'
<1>1. PICK t : t = req[p]
  OBVIOUS
<1>2. PICK n : n = shared_mem[p][t].size
  OBVIOUS
<1>3. PICK v : v = Min(Holes(p, n))
  OBVIOUS
<1>4. PICK f : f = shared_mem[p][t].phys
  OBVIOUS
<1>5. /\ pc[p] = "mmap" /\ Holes(p, n) # {} /\ fops__mmap(p, f, n, v)
      /\ shared_mem' = [shared_mem EXCEPT ![p][t].virt = v]
      /\ Goto(p, "open") /\ UNCHANGED <<req, fd, hugetlb_page_phys_addr, area>>
  BY <1>1, <1>2, <1>3, <1>4 DEF MmapBlock
<1>6. Exact(p) /\ Local(p) /\ IInv
  BY DEF EInv, IInv
<1>7. /\ t \in Contig /\ t \in Types /\ shared_mem[p][t] \in Mem
      /\ f = shm[p][t].phys /\ f # 0 /\ n = shm[p][t].size /\ n \in Nat \ {0}
  <2>1. t \in Contig /\ shm[p][t].phys # 0
    BY <1>1, <1>5, <1>6 DEF Local, Places
  <2>2. f = shm[p][t].phys /\ n = shm[p][t].size
    BY <1>2, <1>4, <1>5, <1>6, <2>1 DEF Local, Agree
  <2>3. n # 0
    BY <1>6, <2>1, <2>2 DEF Local, Recorded, NoMem
  <2>4. t \in Types /\ shared_mem[p][t] \in Mem
    BY <2>1, Consts DEF EInv, IInv, TypeOK
  <2> QED  BY <1>2, <2>1, <2>2, <2>3, <2>4 DEF Mem
<1>8. PICK hit : hit = {u \in Contig : shm[p][u].phys = f}
  OBVIOUS
<1>9. Min(hit) = t /\ hit # {}
  <2>1. t \in hit /\ hit \in SUBSET Nat
    BY <1>7, <1>8, Consts
  <2>2. Min(hit) \in hit
    BY <2>1, MinFact
  <2>3. f \in Block(p, Min(hit)) /\ f \in Block(p, t)
    BY <1>6, <1>7, <1>8, <2>2, Owners
  <2> QED  BY <1>7, <1>8, <2>1, <2>2, <2>3 DEF EInv, IInv, Disjoint
<1>10. /\ v \in Nat \ {0} /\ Pages(v, n) \subseteq Virt
       /\ \A w \in Pages(v, n) : vma[p][w] = 0
  <2>1. /\ v \in Virt /\ Pages(v, n) \subseteq Virt /\ \A w \in Pages(v, n) : vma[p][w] = 0
    BY <1>3, <1>5, <1>6, <1>7, HoleFact
  <2> QED  BY <2>1, Consts
<1>11. /\ shm' = [shm EXCEPT ![p][t].virt = v] /\ client' = client
       /\ vma' = [vma EXCEPT ![p] =
                    [w \in Virt |-> IF w \in Pages(v, n) THEN f + w - v ELSE vma[p][w]]]
  BY <1>5, <1>8, <1>9 DEF fops__mmap
<1>12. \A w \in Virt : vma[p][w] # 0 => vma'[p][w] = vma[p][w]
  BY <1>10, <1>11 DEF EInv, IInv, TypeOK
<1>13. PICK m : m = [shared_mem[p][t] EXCEPT !.virt = v]
  OBVIOUS
<1>14. m \in Mem /\ m.virt = v /\ m.size = n
  BY <1>2, <1>7, <1>10, <1>13 DEF Mem
<1>15. shared_mem'[p][t] = m /\ shm'[p][t].virt = v
  BY <1>5, <1>7, <1>11, <1>13 DEF EInv, IInv, TypeOK, Mem
<1>16. pc'[p] = "open" /\ \A u \in Types \ {t} : /\ shared_mem'[p][u] = shared_mem[p][u]
                                                 /\ shm'[p][u] = shm[p][u] /\ req[p] # u
  BY <1>1, <1>5, <1>7, <1>11 DEF Goto, EInv, IInv, TypeOK
<1>17. \A q \in Procs \ {p} : Same(q)
  BY <1>5, <1>11 DEF Same, Goto, EInv, IInv, TypeOK
<1>18. n <= HugePage * MaxPages
  BY <1>2, <1>6, <1>7 DEF Exact, Sized
<1>19. \A w \in Virt : vma[p][w] \in HugeFrames \cup Areas => vma'[p][w] = vma[p][w]
  BY <1>12, Consts
<1>20. ~ Freeing(p, HUGE) /\ client'[p] = client[p] /\ v # 0
  BY <1>5, <1>10, <1>11 DEF Freeing
<1> QED  BY <1>5, <1>7, <1>10, <1>14, <1>15, <1>16, <1>17, <1>18, <1>19, <1>20, ContigExact
-----------------------------------------------------------------------------
(* Unmapping a region takes no page of the chip, and all of its own range. *)
LEMMA UnmapSpares ==
  ASSUME IInv, NEW p \in Procs, pc[p] \in {"open", "close"}, NEW t \in Types, NEW w \in Virt
  PROVE  LET M == Munmap(p, {shared_mem[p][t]})
         IN  /\ vma[p][w] \in Areas => M[w] = vma[p][w]
             /\ shared_mem[p][t].virt # 0 /\ AtVirt(w, shared_mem[p][t]) => M[w] = 0
<1> DEFINE m == shared_mem[p][t]
           M == Munmap(p, {m})
<1>1. M[w] = IF m.virt # 0 /\ AtVirt(w, m) THEN 0 ELSE vma[p][w]
  BY DEF Munmap
<1>2. m.virt # 0 /\ AtVirt(w, m) => vma[p][w] \in Own(p, t)
  BY DEF IInv, Local, Covered
<1>3. Own(p, t) \subseteq Cma \cup HugeFrames
  BY Owners, Consts DEF Own
<1> QED  BY <1>1, <1>2, <1>3, Consts

(* A region that is freed is mapped no more, ...                           *)
LEMMA dsp_shm_freeExact ==
  ASSUME EInv, IInv', NEW p \in Procs, NEW f, dsp_shm_free(p, f)
  PROVE  EInv'
<1> DEFINE hit == loc_get_cache_type_by_mem(p, f)
<1>1. PICK t : t = Min(hit)
  OBVIOUS
<1>2. t \in Types /\ t \in Nat
  <2>1. hit # {} /\ hit \in SUBSET Nat /\ hit \subseteq Types
    BY Consts DEF dsp_shm_free, loc_get_cache_type_by_mem
  <2> QED  BY <1>1, <2>1, MinFact
<1>3. PICK M : M = Munmap(p, {shared_mem[p][t]})
  OBVIOUS
<1>4. /\ pc[p] = "open" /\ pc' = [pc EXCEPT ![p] = "ioctl_free"] /\ req' = [req EXCEPT ![p] = t]
      /\ vma' = [vma EXCEPT ![p] = M]
      /\ UNCHANGED <<shared_mem, hugetlb_page_phys_addr, area, fd, client, shm>>
  BY <1>1, <1>3 DEF dsp_shm_free, Unmap, Goto, lib, driver
<1>5. \A w \in Virt, u \in Types : vma[p][w] \in Own(p, u) /\ u # t => M[w] = vma[p][w]
  BY <1>2, <1>3, <1>4, UnmapFact DEF EInv
<1>6. \A w \in Virt :
        /\ vma[p][w] \in Areas => M[w] = vma[p][w]
        /\ shared_mem[p][t].virt # 0 /\ AtVirt(w, shared_mem[p][t]) => M[w] = 0
  BY <1>2, <1>3, <1>4, UnmapSpares DEF EInv
<1>7. pc'[p] = "ioctl_free" /\ req'[p] = t /\ vma'[p] = M
  BY <1>4 DEF EInv, IInv, TypeOK
<1>8. Sized(p)' /\ Inside(p)' /\ Finished(p)' /\ HugeNoted(p)'
  BY <1>4, <1>7, TablesKept
<1>9. Laid(p)' /\ Listed(p)'
  <2>1. CASE t = HUGE
    <3>1. Freeing(p, HUGE)'
      BY <1>7, <2>1 DEF Freeing
    <3> QED  BY <1>7, <3>1 DEF Laid, Listed
  <2>2. CASE t # HUGE
    <3>1. \A w \in Virt : vma[p][w] \in HugeFrames => vma'[p][w] = vma[p][w]
      BY <1>5, <1>7, <2>2, Consts DEF Own
    <3>2. ~ Freeing(p, HUGE)
      BY <1>4 DEF Freeing
    <3>3. Laid(p)'
      BY <1>4, <3>1, <3>2, HugeKept
    <3> QED  BY <1>4, <1>7, <3>1, <3>2, <3>3, ListedKept
  <2> QED  BY <2>1, <2>2
<1>10. OnChip(p)'
  BY <1>4, <1>6, <1>7, OnChipKept
<1>11. Gone(p)'
  BY <1>4, <1>6, <1>7 DEF Gone
<1>12. TablesOK' /\ Alone(p)
  BY <1>4 DEF EInv, TablesOK, Alone, Same, IInv, TypeOK
<1> QED  BY <1>8, <1>9, <1>10, <1>11, <1>12, ExactGlue DEF Exact

(* The pages of a type go, and no others.                                  *)
Spares(p, t, M) ==
  /\ \A w \in Virt : vma[p][w] \in Areas => M[w] = vma[p][w]
  /\ \A w \in Virt, u \in Types : vma[p][w] \in Own(p, u) /\ u # t => M[w] = vma[p][w]

(* ... before its entry is cleared.                                        *)
LEMMA GivesBackExact ==
  ASSUME EInv, IInv', NEW p \in Procs, NEW t \in Types, SHM_FREE(p, t),
         NEW l \in {"open", "close"}, pc' = [pc EXCEPT ![p] = l],
         pc[p] \in {"open", "close"} \/ (pc[p] = "ioctl_free" /\ req[p] = t),
         NEW r \in Nat, req' = [req EXCEPT ![p] = r],
         NEW M \in [Virt -> Nat], vma' = [vma EXCEPT ![p] = M], Spares(p, t, M)
  PROVE  EInv'
<1>1. /\ shm' = [shm EXCEPT ![p][t] = NoMem]
      /\ shared_mem' = [shared_mem EXCEPT ![p][t] = NoMem]
      /\ UNCHANGED <<hugetlb_page_phys_addr, area, fd, client>>
  BY DEF SHM_FREE
<1>2. /\ pc'[p] = l /\ vma'[p] = M
      /\ shm'[p][t] = NoMem /\ shared_mem'[p][t] = NoMem
      /\ \A u \in Types \ {t} : /\ shared_mem'[p][u] = shared_mem[p][u]
                                /\ shm'[p][u] = shm[p][u]
  BY <1>1 DEF EInv, IInv, TypeOK
<1>3. \A q \in Procs \ {p} : Same(q)
  BY <1>1 DEF Same, EInv, IInv, TypeOK
<1>4. /\ NoMem \in Mem /\ NoMem.phys = 0 /\ NoMem.virt = 0 /\ NoMem.size = 0
      /\ 0 <= HugePage * MaxPages /\ 0 % HugePage = 0
  BY AreaFact, Consts DEF NoMem, Mem
<1>5. CASE t \in Contig
  <2>1. \A w \in Virt : vma[p][w] \in HugeFrames => vma'[p][w] = vma[p][w]
    BY <1>2, <1>5, Consts DEF Own, Spares
  <2>2. ~ Freeing(p, HUGE)
    BY <1>5, Consts DEF Freeing
  <2>3. \A w \in Virt : vma[p][w] \in HugeFrames \cup Areas => vma'[p][w] = vma[p][w]
    BY <1>2, <2>1 DEF Spares
  <2> QED  BY <1>1, <1>2, <1>3, <1>4, <1>5, <2>2, <2>3, ContigExact
<1>6. CASE t = HUGE
  <2>1. shm'[p][HUGE] = NoMem /\ shared_mem'[p][HUGE] = NoMem
    BY <1>2, <1>6
  <2>2. \A u \in Contig : shared_mem'[p][u] = shared_mem[p][u] /\ shm'[p][u] = shm[p][u]
    BY <1>2, <1>6, Consts
  <2>3. HugeNoted(p)'
    BY <1>4, <2>1 DEF HugeNoted
  <2>4. Laid(p)' /\ Listed(p)' /\ Gone(p)'
    BY <1>2, <1>4, <2>1 DEF Laid, Listed, Gone
  <2>5. TablesOK' /\ Alone(p)
    BY <1>1, <1>3 DEF EInv, TablesOK, Alone
  <2> QED  BY <1>1, <1>2, <1>4, <2>1, <2>2, <2>3, <2>4, <2>5, HugeExact DEF Spares
<1> QED  BY <1>5, <1>6, Consts

(* dsp_shm_free ends.                                                      *)
LEMMA FreeEndsExact ==
  ASSUME EInv, IInv', NEW p \in Procs, FreeEnds(p)
  PROVE  EInv'
<1>1. PICK t : t = req[p]
  OBVIOUS
<1>2. /\ pc[p] = "ioctl_free" /\ SHM_FREE(p, t) /\ pc' = [pc EXCEPT ![p] = "open"]
      /\ req' = [req EXCEPT ![p] = t] /\ t \in Nat
      /\ vma' = [vma EXCEPT ![p] = vma[p]] /\ vma[p] \in [Virt -> Nat]
  BY <1>1 DEF FreeEnds, Goto, EInv, IInv, TypeOK
<1>3. t \in Types
  BY <1>1, <1>2 DEF EInv, IInv, Local, Places
<1>4. Spares(p, t, vma[p])
  BY DEF Spares
<1> QED  BY <1>1, <1>2, <1>3, <1>4, GivesBackExact

(* dsp_close frees one type.                                               *)
LEMMA CloseFreesExact ==
  ASSUME EInv, IInv', NEW p \in Procs, CloseFrees(p)
  PROVE  EInv'
<1> DEFINE hit == loc_get_cache_type_by_mem(p, shared_mem[p][req[p]].phys)
<1>1. PICK t : t = Min(hit)
  OBVIOUS
<1>2. pc[p] = "close" /\ req[p] \in Types /\ req[p] \in Nat
  BY DEF CloseFrees, EInv, IInv, TypeOK
<1>3. t \in Types
  <2>1. req[p] \in hit /\ hit \in SUBSET Nat /\ hit \subseteq Types
    BY <1>2, Consts DEF loc_get_cache_type_by_mem
  <2>2. t \in hit
    BY <1>1, <2>1, MinFact
  <2> QED  BY <2>1, <2>2
<1>4. PICK M : M = Munmap(p, {shared_mem[p][t]})
  OBVIOUS
<1>5. PICK r : r = req[p] + 1
  OBVIOUS
<1>6. /\ SHM_FREE(p, t) /\ pc' = [pc EXCEPT ![p] = "close"]
      /\ req' = [req EXCEPT ![p] = r] /\ r \in Nat
      /\ vma' = [vma EXCEPT ![p] = M]
  BY <1>1, <1>2, <1>4, <1>5 DEF CloseFrees, Unmap, EInv, IInv, TypeOK
<1>7. /\ M \in [Virt -> Nat]
      /\ \A w \in Virt, u \in Types : vma[p][w] \in Own(p, u) /\ u # t => M[w] = vma[p][w]
  BY <1>2, <1>3, <1>4, UnmapFact DEF EInv
<1>8. \A w \in Virt : vma[p][w] \in Areas => M[w] = vma[p][w]
  BY <1>2, <1>3, <1>4, UnmapSpares DEF EInv
<1>9. Spares(p, t, M)
  BY <1>7, <1>8 DEF Spares
<1> QED  BY <1>2, <1>3, <1>6, <1>7, <1>9, GivesBackExact
-----------------------------------------------------------------------------
(* The driver notes the first huge page, as the library does.              *)
LEMMA SHM_ALLOC_HUGEExact ==
  ASSUME EInv, IInv', NEW p \in Procs, SHM_ALLOC_HUGE(p)
  PROVE  EInv'
<1>1. PICK f : f = vma[p][shared_mem[p][HUGE].virt]
  OBVIOUS
<1>2. PICK m : m = [shared_mem[p][HUGE] EXCEPT !.phys = f]
  OBVIOUS
<1>3. /\ pc[p] = "ioctl_alloc" /\ req[p] = HUGE
      /\ shm' = [shm EXCEPT ![p][HUGE] = m] /\ shared_mem' = [shared_mem EXCEPT ![p][HUGE] = m]
      /\ req' = [req EXCEPT ![p] = 0] /\ pc' = [pc EXCEPT ![p] = "v2p"]
      /\ UNCHANGED <<hugetlb_page_phys_addr, area, fd, client, vma>>
  BY <1>1, <1>2 DEF SHM_ALLOC_HUGE, loc_hugetlb_virt_to_phys, Goto
<1>4. Exact(p) /\ Local(p) /\ HUGE \in Types /\ shared_mem[p][HUGE] \in Mem
  BY Consts DEF EInv, IInv, TypeOK
<1>5. f # 0 /\ shared_mem[p][HUGE].virt \in Virt
  BY <1>1, <1>3, <1>4, Consts DEF Local, Places
<1>6. m.phys = f /\ m.virt = shared_mem[p][HUGE].virt /\ m.size = shared_mem[p][HUGE].size
  BY <1>2, <1>4 DEF Mem
<1>7. /\ pc'[p] = "v2p" /\ req'[p] = 0 /\ shared_mem'[p][HUGE] = m /\ shm'[p][HUGE] = m
      /\ vma'[p] = vma[p] /\ client'[p]
      /\ \A u \in Contig : shm'[p][u] = shm[p][u] /\ shared_mem'[p][u] = shared_mem[p][u]
  <2>1. HUGE \notin Contig /\ Contig \subseteq Types
    BY Consts
  <2>2. client[p]
    BY <1>3, <1>4 DEF Local, Recorded
  <2>3. pc'[p] = "v2p" /\ req'[p] = 0 /\ vma'[p] = vma[p] /\ client'[p]
    BY <1>3, <2>2 DEF EInv, IInv, TypeOK
  <2> QED  BY <1>3, <1>4, <2>1, <2>3 DEF EInv, IInv, TypeOK
<1>8. m.virt \notin {0, FAILED}
  <2>1. \A x \in Virt : x # 0 /\ x # FAILED
    BY AreaFact, Consts
  <2> QED  BY <1>5, <1>6, <2>1
<1>9. HugeNoted(p)'
  BY <1>5, <1>6, <1>7, <1>8 DEF HugeNoted
<1>10. ~ Freeing(p, HUGE)
  BY <1>3 DEF Freeing
<1>11. Laid(p)'
  BY <1>3, <1>6, <1>7, <1>10, HugeKept
<1>12. Listed(p)'
  <2>1. m.size # 0 /\ m.size \in Nat
    BY <1>3, <1>4, <1>6 DEF Exact, Listed, Mem
  <2>2. HugePage * 0 < m.size
    BY <2>1, Consts
  <2>3. \A i \in 0 .. MaxPages - 1 : ~ (i < 0)
    OBVIOUS
  <2> QED  BY <1>5, <1>6, <1>7, <2>2, <2>3 DEF Listed
<1>13. TablesOK' /\ Alone(p)
  BY <1>3 DEF EInv, TablesOK, Alone, Same, IInv, TypeOK
<1>14. Gone(p)'
  BY <1>7 DEF Gone
<1>15. /\ m.size <= HugePage * MaxPages /\ m.size % HugePage = 0
       /\ Pages(m.virt, m.size) \subseteq Virt
  BY <1>3, <1>4, <1>6, <1>8 DEF Exact, Sized, Inside, Region
<1> QED  BY <1>3, <1>7, <1>9, <1>11, <1>12, <1>13, <1>14, <1>15, HugeExact

(* A number below a multiple, and one that is not.                         *)
LEMMA Below ==
  ASSUME NEW i \in Nat, NEW j \in Nat, NEW H \in Nat \ {0}, H * j < H * i
  PROVE  j < i
<1>1. ASSUME i <= j PROVE FALSE
  <2>1. H * i <= H * j
    BY <1>1, SMT
  <2> QED  BY <2>1, SMT
<1> QED  BY <1>1

(* The table of huge pages is filled from the front.                       *)
LEMMA HUGETLB_V2PExact ==
  ASSUME EInv, IInv', NEW p \in Procs, HUGETLB_V2P(p)
  PROVE  EInv'
<1>1. PICK i : i = req[p]
  OBVIOUS
<1>2. PICK m : m = shared_mem[p][HUGE]
  OBVIOUS
<1>3. Exact(p) /\ Local(p) /\ HUGE \in Types /\ m \in Mem /\ i \in Nat
      /\ HugePage \in Nat \ {0} /\ MaxPages \in Nat \ {0}
  BY <1>1, <1>2, Consts, ShmAssumption DEF EInv, IInv, TypeOK, ShmAssumption
<1>4. /\ pc[p] = "v2p"
      /\ hugetlb_page_phys_addr' = [hugetlb_page_phys_addr EXCEPT
                                      ![p][i] = vma[p][m.virt + i * HugePage]]
      /\ req' = [req EXCEPT ![p] = i + 1]
      /\ Goto(p, IF (i + 1) * HugePage < m.size THEN "v2p" ELSE "open")
      /\ UNCHANGED <<shared_mem, area, fd, client, shm, vma>>
  BY <1>1, <1>2 DEF HUGETLB_V2P, loc_hugetlb_virt_to_phys, driver
<1>5. i * HugePage = HugePage * i /\ HugePage * i \in Nat
  BY <1>3, DivOf, Zenon
<1>6. (i + 1) * HugePage = HugePage * (i + 1) /\ HugePage * (i + 1) \in Nat
  <2>1. i + 1 \in Nat
    BY <1>3
  <2> QED  BY <1>3, <2>1, DivOf, Zenon
<1>7. m.phys # 0 /\ HugePage * i < m.size /\ m.size <= HugePage * MaxPages
  BY <1>1, <1>2, <1>3, <1>4 DEF Exact, Listed, Sized
<1>8. i < MaxPages /\ i \in 0 .. MaxPages - 1
  <2>1. m.size \in Nat /\ HugePage * MaxPages \in Nat
    BY <1>3, AreaFact DEF Mem
  <2>2. HugePage * i < HugePage * MaxPages
    BY <1>5, <1>7, <2>1
  <2>3. i < MaxPages
    BY <1>3, <2>2, Below
  <2> QED  BY <1>3, <2>3
<1>9. /\ pc'[p] = (IF HugePage * (i + 1) < m.size THEN "v2p" ELSE "open")
      /\ req'[p] = i + 1
  BY <1>4, <1>6 DEF Goto, EInv, IInv, TypeOK
<1>10. m.virt \notin {0, FAILED}
  BY <1>2, <1>3, <1>4, <1>7 DEF Exact, HugeNoted
<1>11. ~ Freeing(p, HUGE)
  BY <1>4 DEF Freeing
<1>12. hugetlb_page_phys_addr' = [hugetlb_page_phys_addr EXCEPT ![p][i] = Frame(p, i)]
  BY <1>2, <1>4, <1>5 DEF Frame
<1>13. Frame(p, i) \in Nat
  <2>1. 0 \in 0 .. HugePage - 1 /\ HugePage * i + 0 < m.size
    BY <1>3, <1>5, <1>7
  <2>2. Frame(p, i) \in HugeBases
    BY <1>2, <1>4, <1>8, <1>10, <1>11, <2>1, FrameFact
  <2> QED  BY <2>2, Consts
<1>14. TablesOK'
  <2>1. [hugetlb_page_phys_addr[p] EXCEPT ![i] = Frame(p, i)] \in [0 .. MaxPages - 1 -> Nat]
    BY <1>13 DEF EInv, TablesOK
  <2>2. hugetlb_page_phys_addr' \in [Procs -> [0 .. MaxPages - 1 -> Nat]]
    BY <1>12, <2>1 DEF EInv, TablesOK
  <2> QED  BY <1>4, <2>2 DEF EInv, TablesOK
<1>15. Alone(p)
  BY <1>4 DEF EInv, TablesOK, Alone, Same, Goto, IInv, TypeOK
<1>16. Sized(p)' /\ Inside(p)' /\ Finished(p)' /\ HugeNoted(p)'
  BY <1>4, <1>9, TablesKept
<1>17. Laid(p)'
  BY <1>4, <1>11, HugeKept
<1>18. Listed(p)'
  <2>1. \A j \in 0 .. MaxPages - 1 : Frame(p, j)' = Frame(p, j)
    BY <1>4 DEF Frame
  <2>2. ASSUME NEW j \in 0 .. MaxPages - 1, HugePage * j < m.size, j < i + 1
        PROVE  hugetlb_page_phys_addr'[p][j] = Frame(p, j)
    <3>1. CASE j = i
      BY <1>8, <1>12, <3>1 DEF EInv, TablesOK
    <3>2. CASE j # i
      <4>1. j < i
        BY <1>3, <2>2, <3>2
      <4>2. hugetlb_page_phys_addr[p][j] = Frame(p, j)
        BY <1>1, <1>2, <1>3, <1>4, <1>7, <1>11, <2>2, <4>1 DEF Exact, Listed
      <4> QED  BY <1>8, <1>12, <3>2, <4>2 DEF EInv, TablesOK
    <3> QED  BY <3>1, <3>2
  <2>3. ASSUME NEW j \in 0 .. MaxPages - 1, HugePage * j < m.size, pc'[p] = "v2p" => j < req'[p]
        PROVE  j < i + 1
    <3>1. CASE pc'[p] = "v2p"
      BY <1>9, <2>3, <3>1
    <3>2. CASE pc'[p] # "v2p"
      <4>1. m.size \in Nat /\ j \in Nat /\ i + 1 \in Nat
        BY <1>3 DEF Mem
      <4>2. HugePage * j \in Nat
        BY <1>3, <4>1, DivOf, Zenon
      <4>3. HugePage * j < HugePage * (i + 1)
        BY <1>6, <1>9, <2>3, <3>2, <4>1, <4>2
      <4> QED  BY <1>3, <4>1, <4>3, Below
    <3> QED  BY <3>1, <3>2
  <2>4. shared_mem'[p][HUGE] = m /\ (pc'[p] = "v2p" => HugePage * req'[p] < m.size)
    BY <1>2, <1>4, <1>9
  <2>5. pc'[p] # "ioctl_alloc"
    BY <1>9
  <2> QED  BY <1>7, <2>1, <2>2, <2>3, <2>4, <2>5 DEF Listed
<1>19. OnChip(p)' /\ Gone(p)'
  <2>1. pc'[p] \notin {"map", "ioctl_free"}
    BY <1>9
  <2> QED  BY <1>4, <2>1, OnChipKept DEF Gone
<1> QED  BY <1>14, <1>15, <1>16, <1>17, <1>18, <1>19, ExactGlue DEF Exact

(* Quotient and remainder of an address in a huge page.                    *)
LEMMA DivPage ==
  ASSUME NEW i \in Nat, NEW H \in Nat \ {0}, NEW r \in 0 .. H - 1
  PROVE  (H * i + r) \div H = i /\ (H * i + r) % H = r
OBVIOUS

(* Huge pages are mapped one behind the other.                             *)
LEMMA MmapHugeExact ==
  ASSUME EInv, IInv', NEW p \in Procs, MmapHuge(p)
  PROVE  EInv'
<1> DEFINE n == shared_mem[p][HUGE].size
           holes == {u \in Holes(p, n) : u % HugePage = 0}
           v == Min(holes)
<1>1. n = shared_mem[p][HUGE].size
  OBVIOUS
<1>2. v = Min(holes)
  OBVIOUS
<1>3. PICK frames \in [0 .. n \div HugePage - 1 -> FreeHuge] :
        /\ shared_mem' = [shared_mem EXCEPT ![p][HUGE].virt = v]
        /\ vma' = [vma EXCEPT ![p] = [w \in Virt |->
                     IF w \in Pages(v, n)
                       THEN frames[(w - v) \div HugePage] + ((w - v) % HugePage)
                       ELSE vma[p][w]]]
  BY DEF MmapHuge
<1>4. /\ pc[p] = "mmap_huge" /\ holes # {} /\ Goto(p, "ioctl_alloc")
      /\ UNCHANGED <<req, hugetlb_page_phys_addr, area, fd, client, shm>>
  BY DEF MmapHuge, driver
<1> HIDE DEF n, v
<1>5. Exact(p) /\ Local(p) /\ HUGE \in Types /\ shared_mem[p][HUGE] \in Mem
  BY Consts DEF EInv, IInv, TypeOK
<1>6. /\ req[p] = HUGE /\ shared_mem[p][HUGE].phys = 0
      /\ n \in Nat \ {0} /\ n % HugePage = 0
  BY <1>1, <1>4, <1>5 DEF Local, Places, Mem
<1>7. /\ v \in Nat /\ Pages(v, n) \subseteq Virt
      /\ \A w \in Pages(v, n) : vma[p][w] = 0
  <2>1. /\ v \in Virt /\ Pages(v, n) \subseteq Virt /\ \A w \in Pages(v, n) : vma[p][w] = 0
    BY <1>2, <1>4, <1>6, HoleFact DEF EInv
  <2> QED  BY <2>1, Consts
<1>8. \A w \in Virt :
        vma'[p][w] = IF w \in Pages(v, n)
                       THEN frames[(w - v) \div HugePage] + ((w - v) % HugePage)
                       ELSE vma[p][w]
  BY <1>3 DEF EInv, IInv, TypeOK
<1>9. HugePage \in Nat \ {0}
  BY Consts
<1>10. PICK m : m = [shared_mem[p][HUGE] EXCEPT !.virt = v]
  OBVIOUS
<1>11. m.virt = v /\ m.phys = 0 /\ m.size = n
  BY <1>1, <1>5, <1>6, <1>10 DEF Mem
<1>12. /\ pc'[p] = "ioctl_alloc" /\ shared_mem'[p][HUGE] = m
       /\ \A u \in Contig : shared_mem'[p][u] = shared_mem[p][u] /\ shm'[p][u] = shm[p][u]
  <2>1. HUGE \notin Contig /\ Contig \subseteq Types
    BY Consts
  <2>2. pc'[p] = "ioctl_alloc"
    BY <1>4 DEF Goto, EInv, IInv, TypeOK
  <2> QED  BY <1>3, <1>4, <1>5, <1>10, <2>1, <2>2 DEF EInv, IInv, TypeOK
<1>13. ASSUME NEW i \in 0 .. MaxPages - 1, NEW r \in 0 .. HugePage - 1, HugePage * i + r < n
       PROVE  /\ vma'[p][v + (HugePage * i + r)] = frames[i] + r
              /\ vma'[p][v + HugePage * i] = frames[i]
              /\ frames[i] \in HugeBases
  <2>1. PICK k : k = HugePage * i
    OBVIOUS
  <2>2. i \in Nat
    OBVIOUS
  <2>3. k \in Nat /\ k \div HugePage = i /\ k % HugePage = 0
    BY <1>9, <2>1, <2>2, DivOf, Zenon
  <2>4. r \in Nat /\ k + r < n
    BY <1>9, <1>13, <2>1
  <2>5. (k + r) \div HugePage = i /\ (k + r) % HugePage = r
    <3>1. r \in 0 .. HugePage - 1
      OBVIOUS
    <3> QED  BY <1>9, <2>1, <2>2, <3>1, DivPage, Zenon
  <2>6. v + (k + r) \in Pages(v, n) /\ v + k \in Pages(v, n)
        /\ (v + (k + r)) - v = k + r /\ (v + k) - v = k
    BY <1>6, <1>7, <2>3, <2>4 DEF Pages
  <2>7. i \in 0 .. n \div HugePage - 1
    BY <1>6, <1>9, <2>3, <2>4, DivLess
  <2>8. frames[i] \in HugeBases /\ frames[i] \in Nat
    <3>1. frames[i] \in FreeHuge
      BY <1>3, <2>7
    <3> QED  BY <3>1, Consts DEF FreeHuge
  <2>9. vma'[p][v + (k + r)] = frames[i] + r
    BY <1>7, <1>8, <2>5, <2>6
  <2>10. vma'[p][v + k] = frames[i] + 0
    BY <1>7, <1>8, <2>3, <2>6
  <2> QED  BY <2>1, <2>8, <2>9, <2>10
<1>14. Laid(p)'
  BY <1>11, <1>12, <1>13 DEF Laid, Frame
<1>15. HugeNoted(p)'
  BY <1>4, <1>5, <1>6, <1>11, <1>12 DEF Exact, HugeNoted
<1>16. Listed(p)' /\ Gone(p)'
  BY <1>6, <1>11, <1>12 DEF Listed, Gone
<1>17. TablesOK' /\ Alone(p)
  BY <1>3, <1>4 DEF EInv, TablesOK, Alone, Same, Goto, IInv, TypeOK
<1>18. \A w \in Virt : vma[p][w] \in Areas => vma'[p][w] = vma[p][w]
  BY <1>7, <1>8, Consts
<1>19. m.size <= HugePage * MaxPages /\ m.size % HugePage = 0
  BY <1>1, <1>5, <1>11 DEF Exact, Sized
<1> QED  BY <1>4, <1>7, <1>11, <1>12, <1>14, <1>15, <1>16, <1>17, <1>18, <1>19, HugeExact
-----------------------------------------------------------------------------
(* The processes begin with empty tables, ...                              *)
LEMMA InitEInv == Init => EInv
<1> SUFFICES ASSUME Init PROVE EInv
  OBVIOUS
<1>1. IInv
  BY InitIInv
<1>2. TablesOK
  BY DEF Init, TablesOK, NoMem, Mem
<1>3. ASSUME NEW p \in Procs PROVE Exact(p)
  <2>1. /\ pc[p] = "closed" /\ HUGE \in Types
        /\ \A t \in Types : shared_mem[p][t] = NoMem /\ shm[p][t] = NoMem
    BY Consts DEF Init
  <2>2. Sized(p)
    <3>1. 0 <= HugePage * MaxPages /\ 0 % HugePage = 0
      BY AreaFact, Consts
    <3> QED  BY <2>1, <3>1 DEF Sized, NoMem
  <2>3. Inside(p) /\ Finished(p) /\ HugeNoted(p)
    BY <2>1 DEF Inside, Finished, HugeNoted, NoMem
  <2>4. Laid(p) /\ Listed(p) /\ OnChip(p) /\ Gone(p)
    BY <2>1 DEF Laid, Listed, OnChip, Gone
  <2> QED  BY <2>2, <2>3, <2>4 DEF Exact
<1> QED  BY <1>1, <1>2, <1>3 DEF EInv

(* ... and every step keeps them exact.                                    *)
LEMMA NextEInv == EInv /\ [Next]_vars => EInv'
<1> SUFFICES ASSUME EInv, [Next]_vars PROVE EInv'
  OBVIOUS
<1>1. IInv'
  BY NextIInv DEF EInv
<1>2. CASE UNCHANGED vars
  <2>1. \A q \in Procs : Same(q)
    BY <1>2 DEF vars, lib, driver, Same
  <2>2. hugetlb_page_phys_addr' = hugetlb_page_phys_addr /\ area' = area
    BY <1>2 DEF vars, lib
  <2>3. \A q \in Procs : Exact(q)'
    BY <2>1, <2>2, ExactKept DEF EInv
  <2> QED  BY <1>1, <2>2, <2>3 DEF EInv, TablesOK
<1>3. ASSUME NEW p \in Procs, Calls(p) PROVE EInv'
  BY <1>1, <1>3, MapAreaExact, OpenFailsExact, OpenEndsExact, MmapHugeExact,
     MmapHugeFailsExact, SHM_ALLOCExact, SHM_ALLOC_FailsExact, SHM_ALLOC_HUGEExact,
     HUGETLB_V2PExact, MmapBlockExact, MmapBlockFailsExact, FreeEndsExact,
     CloseFreesExact, CloseEndsExact, fops__releaseExact
  DEF Calls
<1>4. ASSUME NEW p \in Procs, NEW t \in Types, NEW n \in Sizes, dsp_shm_alloc_at(p, t, n)
      PROVE  EInv'
  BY <1>1, <1>4, dsp_shm_alloc_atExact
<1>5. ASSUME NEW p \in Procs, NEW f, dsp_shm_free(p, f) PROVE EInv'
  BY <1>1, <1>5, dsp_shm_freeExact
<1>6. ASSUME NEW p \in Procs, dsp_open(p) \/ dsp_close(p) \/ Killed(p) PROVE EInv'
  BY <1>1, <1>6, dsp_openExact, dsp_closeExact, KilledExact
<1> QED  BY <1>2, <1>3, <1>4, <1>5, <1>6 DEF Next

(* The tables say where each page is, to the page.                         *)
THEOREM ExactInvariance == Spec => []EInv
<1> QED  BY InitEInv, NextEInv, PTL DEF Spec
-----------------------------------------------------------------------------
(* A range of addresses that does not wrap around.                         *)
LEMMA RangeOf ==
  ASSUME NEW m \in Mem, NEW base \in Nat, NEW a \in Nat, a < FAILED,
         base + m.size <= FAILED \/ m.size = 0
  PROVE  InRange(a, m, base) <=> a \in Pages(base, m.size)
<1>1. m.size \in Nat /\ FAILED = Space - 1 /\ Space \in Nat
  BY Consts, ShmAssumption DEF Mem, ShmAssumption
<1>2. CASE base + m.size <= FAILED
  <2>1. (base + m.size) % Space = base + m.size
    BY <1>1, <1>2
  <2> QED  BY <1>1, <2>1 DEF InRange, Pages
<1>3. CASE m.size = 0
  <2>1. base % Space <= base
    <3>1. Space \in Nat \ {0}
      BY <1>1
    <3>2. PICK q : q = base \div Space
      OBVIOUS
    <3>3. PICK r : r = base % Space
      OBVIOUS
    <3>4. q \in Nat /\ r \in Nat /\ base = Space * q + r
      <4>1. /\ base \div Space \in Nat /\ base % Space \in 0 .. Space - 1
            /\ base = Space * (base \div Space) + (base % Space)
        BY <3>1, DivMod
      <4>2. r \in Nat
        BY <3>1, <3>3, <4>1
      <4> QED  BY <3>2, <3>3, <4>1, <4>2
    <3>5. Space * q \in Nat
      BY <3>1, <3>4, DivOf, Zenon
    <3> QED  BY <3>3, <3>4, <3>5
  <2>2. base + m.size = base
    BY <1>3
  <2>3. ~ InRange(a, m, base)
    <3>1. base % Space \in Nat
      BY <1>1
    <3> QED  BY <2>1, <2>2, <3>1 DEF InRange
  <2> QED  BY <1>3, <2>3 DEF Pages
<1> QED  BY <1>2, <1>3

(* An address of memory is in no entry that begins at 0.                   *)
LEMMA NotAtZero ==
  ASSUME EInv, NEW p \in Procs, NEW t \in Types,
         NEW x \in Virt \cup Cma \cup HugeFrames \cup Areas
  PROVE  ~ InRange(x, shared_mem[p][t], 0)
<1>1. /\ shared_mem[p][t].size \in Nat /\ shared_mem[p][t].size <= HugePage * MaxPages
      /\ HugePage * MaxPages \in Nat /\ HugePage * MaxPages <= x /\ x < FAILED /\ x \in Nat
  BY AreaFact DEF EInv, IInv, TypeOK, Mem, Exact, Sized
<1>2. FAILED = Space - 1 /\ Space \in Nat
  BY Consts, ShmAssumption DEF ShmAssumption
<1>3. (0 + shared_mem[p][t].size) % Space = shared_mem[p][t].size
  BY <1>1, <1>2
<1> QED  BY <1>1, <1>3 DEF InRange

(* A region that has been returned: the library's entry is the driver's.   *)
LEMMA ReturnedFact ==
  ASSUME EInv, NEW p \in Procs, pc[p] # "closed", NEW t \in Returned(p)
  PROVE  /\ t \in Types /\ shared_mem[p][t] \in Mem /\ shm[p][t] \in Mem
         /\ shared_mem[p][t].virt \notin {0, FAILED} /\ Region(p, t) \subseteq Virt
         /\ shm[p][t].virt # 0 /\ shared_mem[p][t] = shm[p][t]
         /\ ~ Freeing(p, t) /\ (t = HUGE => pc[p] # "v2p")
<1>1. /\ t \in Types /\ shared_mem[p][t].phys # 0 /\ shared_mem[p][t].virt # FAILED
      /\ pc[p] \in {"mmap", "v2p", "ioctl_free"} =>
           t # (IF pc[p] = "v2p" THEN HUGE ELSE req[p])
  BY DEF Returned
<1>2. Exact(p) /\ Local(p) /\ shared_mem[p][t] \in Mem /\ shm[p][t] \in Mem
  BY <1>1 DEF EInv, IInv, TypeOK
<1>3. ~ Freeing(p, t) /\ (t = HUGE => pc[p] # "v2p") /\ ~ (pc[p] = "mmap" /\ req[p] = t)
  BY <1>1 DEF Freeing
<1>4. /\ shared_mem[p][t].virt = shm[p][t].virt /\ shared_mem[p][t].size = shm[p][t].size
      /\ shared_mem[p][t].phys = shm[p][t].phys /\ shm[p][t].virt # 0
  <2>1. CASE t \in Contig
    <3>1. shm[p][t].virt # 0
      BY <1>1, <1>2, <1>3, <2>1 DEF Exact, Finished
    <3> QED  BY <1>1, <1>2, <2>1, <3>1 DEF Local, Agree
  <2>2. CASE t = HUGE
    BY <1>1, <1>2, <2>2 DEF Exact, HugeNoted
  <2> QED  BY <1>1, <2>1, <2>2, Consts
<1>5. shared_mem[p][t] = shm[p][t]
  BY <1>2, <1>4 DEF Mem
<1>6. Region(p, t) \subseteq Virt
  BY <1>1, <1>2, <1>4 DEF Exact, Inside
<1> QED  BY <1>1, <1>2, <1>3, <1>4, <1>5, <1>6

(* A page of a region that has been returned: it is in this region only.   *)
LEMMA InRegion ==
  ASSUME EInv, NEW p \in Procs, pc[p] # "closed", NEW t \in Returned(p), NEW v \in Region(p, t)
  PROVE  /\ v \in Virt /\ shared_mem[p][t].virt + shared_mem[p][t].size <= FAILED
         /\ AtVirt(v, shared_mem[p][t]) /\ vma[p][v] \in Own(p, t)
         /\ {u \in Types : AtVirt(v, shared_mem[p][u])} = {t}
<1>1. /\ t \in Types /\ shared_mem[p][t] \in Mem
      /\ shared_mem[p][t].virt \notin {0, FAILED} /\ Region(p, t) \subseteq Virt
      /\ ~ Freeing(p, t)
  BY ReturnedFact
<1>2. Exact(p) /\ Local(p) /\ IInv
  BY DEF EInv, IInv
<1>3. /\ v \in Virt /\ shared_mem[p][t].virt + shared_mem[p][t].size <= FAILED
      /\ shared_mem[p][t].virt \in Nat /\ v \in Nat /\ v < FAILED
  <2>1. v \in Virt /\ v \in Nat /\ v < FAILED /\ shared_mem[p][t].virt \in Nat
        /\ shared_mem[p][t].size \in Nat
    BY <1>1, Consts DEF Mem
  <2>2. shared_mem[p][t].size # 0
    BY <2>1 DEF Region, Pages
  <2> QED  BY <1>1, <2>1, <2>2, Ends DEF Region
<1>4. AtVirt(v, shared_mem[p][t])
  BY <1>1, <1>3, RangeOf DEF AtVirt, Region
<1>5. vma[p][v] \in Own(p, t)
  BY <1>1, <1>2, <1>3, <1>4 DEF Local, Covered, Freeing
<1>6. ASSUME NEW u \in Types, u # t, AtVirt(v, shared_mem[p][u])
      PROVE  FALSE
  <2>1. shared_mem[p][u] \in Mem
    BY DEF EInv, IInv, TypeOK
  <2>2. shared_mem[p][u].virt # 0
    BY <1>3, <1>6, NotAtZero DEF AtVirt
  <2>3. CASE Freeing(p, u)
    <3>1. vma[p][v] = 0
      BY <1>2, <1>3, <1>6, <2>2, <2>3 DEF Exact, Gone, Freeing
    <3> QED  BY <1>1, <1>2, <1>5, <3>1, Owners
  <2>4. CASE ~ Freeing(p, u)
    <3>1. vma[p][v] \in Own(p, u)
      BY <1>2, <1>3, <1>6, <2>2, <2>4 DEF Local, Covered, Freeing
    <3> QED  BY <1>1, <1>2, <1>5, <1>6, <3>1, Owners
  <2> QED  BY <2>3, <2>4
<1> QED  BY <1>1, <1>3, <1>4, <1>5, <1>6

(* Behind a page of a contiguous region is the page of its block.          *)
LEMMA BehindBlock ==
  ASSUME EInv, NEW p \in Procs, NEW v \in Virt, NEW t \in Contig, vma[p][v] \in Block(p, t)
  PROVE  /\ shm[p][t].virt # 0 /\ v \in Pages(shm[p][t].virt, shm[p][t].size)
         /\ vma[p][v] = shm[p][t].phys + (v - shm[p][t].virt)
<1>1. vma[p][v] \in Cma /\ Local(p)
  BY Owners DEF EInv, IInv
<1>2. PICK u \in Contig : /\ shm[p][u].virt # 0
                          /\ v \in Pages(shm[p][u].virt, shm[p][u].size)
                          /\ vma[p][v] = shm[p][u].phys + (v - shm[p][u].virt)
  BY <1>1 DEF Local, Backed
<1>3. shm[p][u] \in Mem
  BY Consts DEF EInv, IInv, TypeOK
<1>4. vma[p][v] \in Block(p, u)
  BY <1>2, <1>3, Consts DEF Block, Pages, Mem
<1>5. u = t
  BY <1>4 DEF EInv, IInv, Disjoint
<1> QED  BY <1>2, <1>5
-----------------------------------------------------------------------------
(* The only one is the least.                                              *)
LEMMA MinSingle ==
  ASSUME NEW x \in Nat
  PROVE  Min({x}) = x
BY MinFact

(* The on-chip memory a process may use.                                   *)
LEMMA ChipFact ==
  ASSUME EInv, NEW p \in Procs, pc[p] \notin {"closed", "map"}, NEW a \in {L1, L2}
  PROVE  /\ a \in Areas /\ a \in Nat /\ area[p][a] \in Mem
         /\ area[p][a].phys = a /\ area[p][a].virt \in Virt /\ vma[p][area[p][a].virt] = a
         /\ \A w \in Virt : AtVirt(w, area[p][a]) <=> w = area[p][a].virt
         /\ \A f \in Virt \cup Cma \cup HugeFrames \cup Areas : AtPhys(f, area[p][a]) <=> f = a
<1>1. /\ a \in Areas /\ area[p][a] \in Mem
      /\ area[p][a].phys = a /\ area[p][a].size = 1
      /\ area[p][a].virt \in Virt /\ vma[p][area[p][a].virt] = a
  BY DEF EInv, TablesOK, Exact, OnChip, Areas
<1>2. /\ \A x \in Virt \cup Cma \cup HugeFrames \cup Areas : x \in Nat /\ x < FAILED
      /\ FAILED \in Nat
  BY AreaFact, Consts, <1>1, ShmAssumption DEF ShmAssumption
<1>3. \A x \in Virt \cup Cma \cup HugeFrames \cup Areas :
        Pages(x, 1) = {x} /\ x + area[p][a].size <= FAILED
  BY <1>1, <1>2 DEF Pages
<1>4. ASSUME NEW w \in Virt PROVE AtVirt(w, area[p][a]) <=> w = area[p][a].virt
  <2>1. PICK x \in Virt : x = area[p][a].virt
    BY <1>1
  <2>2. InRange(w, area[p][a], x) <=> w \in Pages(x, area[p][a].size)
    BY <1>1, <1>2, <1>3, RangeOf
  <2> QED  BY <1>1, <1>3, <2>1, <2>2 DEF AtVirt
<1>5. ASSUME NEW f \in Virt \cup Cma \cup HugeFrames \cup Areas
      PROVE  AtPhys(f, area[p][a]) <=> f = a
  <2>1. InRange(f, area[p][a], a) <=> f \in Pages(a, area[p][a].size)
    BY <1>1, <1>2, <1>3, RangeOf
  <2> QED  BY <1>1, <1>3, <2>1 DEF AtPhys
<1> QED  BY <1>1, <1>2, <1>4, <1>5

(* What the lookups of dsp_virt_to_phys and dsp_phys_to_virt find.         *)
LEMMA BlockAt ==
  ASSUME EInv, NEW p \in Procs, pc[p] # "closed", NEW f \in Cma \cup HugeFrames \cup Areas
  PROVE  \A u \in Contig : AtPhys(f, shared_mem[p][u]) <=> f \in Block(p, u)
<1> SUFFICES ASSUME NEW u \in Contig
             PROVE  AtPhys(f, shared_mem[p][u]) <=> f \in Block(p, u)
  OBVIOUS
<1>1. /\ u \in Types /\ shared_mem[p][u] \in Mem /\ shm[p][u] \in Mem /\ Local(p)
      /\ f \in Nat /\ f < FAILED
  BY AreaFact, Consts DEF EInv, IInv, TypeOK
<1>2. shared_mem[p][u].phys = shm[p][u].phys
  BY <1>1 DEF Local, Agree
<1>3. CASE shm[p][u].phys = 0
  <2>1. ~ AtPhys(f, shared_mem[p][u])
    BY <1>1, <1>2, <1>3, NotAtZero DEF AtPhys
  <2>2. Block(p, u) = Pages(0, 0)
    BY <1>1, <1>3 DEF Local, Recorded, Block, NoMem
  <2> QED  BY <1>1, <2>1, <2>2 DEF Pages
<1>4. CASE shm[p][u].phys # 0
  <2>1. PICK n : n = shm[p][u].size
    OBVIOUS
  <2>2. PICK b : b = shm[p][u].phys
    OBVIOUS
  <2>3. n \in Nat \ {0} /\ b \in Nat /\ Pages(b, n) \subseteq Cma /\ shared_mem[p][u].size = n
    BY <1>1, <1>4, <2>1, <2>2 DEF Local, Recorded, Agree, Block, Mem, NoMem
  <2>4. b + n <= FAILED
    <3>1. b + n - 1 \in Pages(b, n)
      BY <2>3 DEF Pages
    <3>2. b + n - 1 < FAILED
      BY <2>3, <3>1, AreaFact
    <3>3. FAILED \in Int
      BY ShmAssumption DEF ShmAssumption, FAILED
    <3> QED  BY <2>3, <3>2, <3>3
  <2>5. InRange(f, shared_mem[p][u], b) <=> f \in Pages(b, n)
    BY <1>1, <2>3, <2>4, RangeOf
  <2> QED  BY <1>2, <2>1, <2>2, <2>5 DEF AtPhys, Block
<1> QED  BY <1>3, <1>4

(* There and back again: a page of a contiguous region, ...                *)
LEMMA RoundContig ==
  ASSUME EInv, NEW p \in Procs, pc[p] \notin {"closed", "map"},
         NEW t \in Returned(p), t \in Contig, NEW v \in Region(p, t)
  PROVE  /\ vma[p][v] # 0
         /\ dsp_virt_to_phys(p, v) = vma[p][v]
         /\ dsp_phys_to_virt(p, vma[p][v]) = v
<1>1. /\ t \in Types /\ t \in Nat /\ t # HUGE /\ shm[p][t] \in Mem
      /\ shared_mem[p][t] = shm[p][t] /\ IInv
  BY ReturnedFact, Consts DEF EInv
<1>2. /\ v \in Virt /\ v \in Nat /\ vma[p][v] \in Block(p, t)
      /\ {u \in Types : AtVirt(v, shared_mem[p][u])} = {t}
  BY <1>1, InRegion, Consts DEF Own
<1>3. PICK f : f = vma[p][v]
  OBVIOUS
<1>4. /\ f \in Cma /\ f \in Nat /\ f # 0
      /\ f = shm[p][t].phys + (v - shm[p][t].virt)
  <2>1. f \in Cma
    BY <1>1, <1>2, <1>3, Owners
  <2>2. f = shm[p][t].phys + (v - shm[p][t].virt)
    BY <1>2, <1>3, BehindBlock
  <2> QED  BY <2>1, <2>2, Consts
<1>5. ASSUME NEW a \in {L1, L2}
      PROVE  ~ AtVirt(v, area[p][a]) /\ ~ AtPhys(f, area[p][a])
  <2>1. a # f
    <3>1. a \in Areas
      BY ChipFact
    <3> QED  BY <1>4, <3>1, Consts
  <2>2. AtVirt(v, area[p][a]) <=> v = area[p][a].virt
    BY <1>2, ChipFact
  <2>3. vma[p][area[p][a].virt] = a
    BY ChipFact
  <2>4. AtPhys(f, area[p][a]) <=> f = a
    BY <1>4, ChipFact
  <2> QED  BY <1>3, <2>1, <2>2, <2>3, <2>4
<1>6. Min({t}) = t
  BY <1>1, MinSingle
<1>7. {a \in {L1, L2} : AtVirt(v, area[p][a])} = {} /\ {a \in {L1, L2} : AtPhys(f, area[p][a])} = {}
  BY <1>5
<1>8. {u \in Contig : AtPhys(f, shared_mem[p][u])} = {t}
  <2>1. \A u \in Contig : AtPhys(f, shared_mem[p][u]) <=> f \in Block(p, u)
    BY <1>4, BlockAt
  <2>2. \A u \in Contig : f \in Block(p, u) => u = t
    BY <1>1, <1>2, <1>3 DEF IInv, Disjoint
  <2> QED  BY <1>2, <1>3, <2>1, <2>2
<1>9. dsp_virt_to_phys(p, v) = v - shared_mem[p][t].virt + shared_mem[p][t].phys
  BY <1>1, <1>2, <1>6, <1>7 DEF dsp_virt_to_phys
<1>10. dsp_phys_to_virt(p, f) = f - shared_mem[p][t].phys + shared_mem[p][t].virt
  BY <1>6, <1>7, <1>8 DEF dsp_phys_to_virt
<1>11. shm[p][t].phys \in Nat /\ shm[p][t].virt \in Nat
  BY <1>1 DEF Mem
<1> QED  BY <1>1, <1>2, <1>3, <1>4, <1>9, <1>10, <1>11

(* ... of a region of huge pages, where the table of the pages has old     *)
(* entries behind those of the present region, ...                         *)
LEMMA RoundHuge ==
  ASSUME EInv, NEW p \in Procs, pc[p] \notin {"closed", "map"},
         HUGE \in Returned(p), NEW v \in Region(p, HUGE)
  PROVE  /\ vma[p][v] # 0
         /\ dsp_virt_to_phys(p, v) = vma[p][v]
         /\ dsp_phys_to_virt(p, vma[p][v]) = v
<1>1. PICK b : b = shared_mem[p][HUGE].virt
  OBVIOUS
<1>2. PICK n : n = shared_mem[p][HUGE].size
  OBVIOUS
<1>3. /\ HUGE \in Types /\ HUGE \in Nat /\ b \in Nat /\ n \in Nat /\ b \notin {0, FAILED}
      /\ ~ Freeing(p, HUGE) /\ pc[p] # "v2p" /\ shared_mem[p][HUGE].phys # 0
      /\ IInv /\ Exact(p) /\ Local(p) /\ n <= HugePage * MaxPages
  <2>1. /\ shared_mem[p][HUGE] \in Mem /\ shared_mem[p][HUGE].virt \notin {0, FAILED}
        /\ ~ Freeing(p, HUGE) /\ pc[p] # "v2p"
    BY ReturnedFact
  <2>2. shared_mem[p][HUGE].phys # 0
    BY DEF Returned
  <2>3. HUGE \in Types /\ HUGE \in Nat
    BY Consts
  <2>4. IInv /\ Exact(p) /\ Local(p)
    BY DEF EInv, IInv
  <2>5. n <= HugePage * MaxPages
    BY <1>2, <2>3, <2>4 DEF Exact, Sized
  <2> QED  BY <1>1, <1>2, <2>1, <2>2, <2>3, <2>4, <2>5 DEF Mem
<1>4. /\ v \in Virt /\ v \in Nat /\ vma[p][v] \in HugeFrames
      /\ {u \in Types : AtVirt(v, shared_mem[p][u])} = {HUGE}
  BY InRegion, Consts DEF Own
<1>5. PICK f : f = vma[p][v]
  OBVIOUS
<1>6. HugePage \in Nat \ {0} /\ MaxPages \in Nat \ {0} /\ HugePage * MaxPages \in Nat
  BY Consts, AreaFact, ShmAssumption DEF ShmAssumption
<1>7. v - b \in Nat /\ v - b < n
  BY <1>1, <1>2, <1>3, <1>4 DEF Region, Pages
(* the page of the table the address is in, and the offset in it           *)
<1>8. PICK i : i = (v - b) \div HugePage
  OBVIOUS
<1>9. PICK r : r = (v - b) % HugePage
  OBVIOUS
<1>10. /\ i \in Nat /\ r \in 0 .. HugePage - 1 /\ r \in Nat
       /\ v - b = HugePage * i + r /\ HugePage * i \in Nat
  <2>1. i \in Nat /\ r \in 0 .. HugePage - 1 /\ v - b = HugePage * i + r
    BY <1>6, <1>7, <1>8, <1>9, DivMod
  <2>2. HugePage * i \in Nat
    BY <1>6, <2>1, DivOf, Zenon
  <2> QED  BY <1>6, <2>1, <2>2
<1>11. i \in 0 .. MaxPages - 1
  <2>1. HugePage * i < HugePage * MaxPages
    BY <1>3, <1>6, <1>7, <1>10
  <2>2. i < MaxPages
    BY <1>6, <1>10, <2>1, Below
  <2> QED  BY <1>6, <1>10, <2>2
<1>12. v = b + (HugePage * i + r)
  BY <1>3, <1>4, <1>10
<1>13. ASSUME NEW j \in 0 .. MaxPages - 1, HugePage * j \in Nat, HugePage * j <= HugePage * i
       PROVE  /\ hugetlb_page_phys_addr[p][j] = Frame(p, j)
              /\ Frame(p, j) \in HugeBases /\ b + HugePage * j \in Virt
  <2>1. HugePage * j + 0 < n /\ HugePage * j < n /\ 0 \in 0 .. HugePage - 1
    BY <1>3, <1>6, <1>7, <1>10, <1>13
  <2>2. Frame(p, j) \in HugeBases /\ b + HugePage * j \in Virt
    BY <1>1, <1>2, <1>3, <2>1, FrameFact
  <2>3. hugetlb_page_phys_addr[p][j] = Frame(p, j)
    BY <1>2, <1>3, <2>1 DEF Exact, Listed
  <2> QED  BY <2>2, <2>3
<1>14. hugetlb_page_phys_addr[p][i] = Frame(p, i) /\ Frame(p, i) \in HugeBases
  <2>1. HugePage * i <= HugePage * i
    BY <1>10
  <2> QED  BY <1>10, <1>11, <1>13, <2>1
<1>15. f = Frame(p, i) + r /\ Frame(p, i) \in Nat /\ f \in Nat /\ f # 0
  <2>1. HugePage * i + r < shared_mem[p][HUGE].size
    BY <1>2, <1>7, <1>10
  <2>2. vma[p][shared_mem[p][HUGE].virt + (HugePage * i + r)] = Frame(p, i) + r
    BY <1>1, <1>3, <1>10, <1>11, <2>1, FrameFact
  <2> QED  BY <1>1, <1>4, <1>5, <1>12, <1>14, <2>2, Consts
(* no other page of the table up to it holds the same address              *)
<1> DEFINE pages == {j \in 0 .. MaxPages - 1 : f \in Pages(hugetlb_page_phys_addr[p][j], HugePage)}
<1>16. i \in pages
  <2>1. f \in Pages(Frame(p, i), HugePage)
    BY <1>6, <1>10, <1>15 DEF Pages
  <2> QED  BY <1>11, <1>14, <2>1
<1>17. Min(pages) = i
  <2>1. pages \in SUBSET Nat
    BY <1>6
  <2>2. PICK j : j = Min(pages)
    OBVIOUS
  <2>3. j \in pages /\ j <= i
    BY <1>16, <2>1, <2>2, MinLeast
  <2>4. j \in Nat /\ j \in 0 .. MaxPages - 1 /\ f \in Pages(hugetlb_page_phys_addr[p][j], HugePage)
    BY <2>1, <2>3
  <2> HIDE DEF pages
  <2>5. HugePage * j \in Nat
    BY <1>6, <2>4, DivOf, Zenon
  <2>6. HugePage * j <= HugePage * i
    BY <1>6, <1>10, <2>3, <2>4, SMT
  <2>7. /\ hugetlb_page_phys_addr[p][j] = Frame(p, j)
        /\ Frame(p, j) \in HugeBases /\ b + HugePage * j \in Virt
        /\ b + HugePage * i \in Virt
    <3>1. HugePage * i <= HugePage * i
      BY <1>10
    <3> QED  BY <1>10, <1>11, <1>13, <2>4, <2>5, <2>6, <3>1
  <2>8. PICK s \in 0 .. HugePage - 1 : f = Frame(p, j) + s
    <3>1. Frame(p, j) \in Nat
      BY <2>7, Consts
    <3>2. f \in Frame(p, j) .. Frame(p, j) + HugePage - 1
      BY <2>4, <2>7 DEF Pages
    <3>3. f - Frame(p, j) \in 0 .. HugePage - 1 /\ f = Frame(p, j) + (f - Frame(p, j))
      BY <1>6, <1>15, <3>1, <3>2
    <3> QED  BY <3>3
  <2>9. Frame(p, j) = Frame(p, i)
    <3>1. PICK c \in HugeBases : c = Frame(p, j)
      BY <2>7
    <3>2. PICK d \in HugeBases : d = Frame(p, i)
      BY <1>14
    <3>3. c + s = d + r
      BY <1>15, <2>8, <3>1, <3>2
    <3>4. c = d
      BY <1>10, <3>3, OneBase
    <3> QED  BY <3>1, <3>2, <3>4
  <2>10. b + HugePage * j = b + HugePage * i
    <3>1. vma[p][b + HugePage * j] = vma[p][b + HugePage * i]
      BY <1>1, <2>9 DEF Frame
    <3>2. vma[p][b + HugePage * i] \in HugeFrames
      BY <1>1, <1>14, Consts DEF Frame
    <3> QED  BY <1>3, <2>7, <3>1, <3>2 DEF IInv, HugeOnce
  <2>11. HugePage * j = HugePage * i
    BY <1>3, <1>10, <2>5, <2>10
  <2>12. j = i
    <3>1. ~ (j < i)
      <4>1. ASSUME j < i PROVE FALSE
        <5>1. HugePage * (j + 1) <= HugePage * i /\ HugePage * (j + 1) = HugePage * j + HugePage
          BY <1>6, <1>10, <2>4, <4>1, SMT
        <5> QED  BY <1>6, <1>10, <2>5, <2>11, <5>1
      <4> QED  BY <4>1
    <3> QED  BY <1>10, <2>3, <2>4, <3>1
  <2> QED  BY <2>2, <2>12
<1>18. HugeHits(p, f) = {i} /\ Min(HugeHits(p, f)) = i
  <2>1. HugeHits(p, f) = {i}
    BY <1>3, <1>16, <1>17 DEF HugeHits
  <2> QED  BY <1>10, <2>1, MinSingle
<1> HIDE DEF pages
(* both lookups                                                            *)
<1>19. /\ {a \in {L1, L2} : AtVirt(v, area[p][a])} = {}
       /\ {a \in {L1, L2} : AtPhys(f, area[p][a])} = {}
  BY <1>4, <1>5, ChipFact, Consts
<1>20. {u \in Contig : AtPhys(f, shared_mem[p][u])} = {}
  <2>1. \A u \in Contig : AtPhys(f, shared_mem[p][u]) <=> f \in Block(p, u)
    BY <1>4, <1>5, BlockAt
  <2> QED  BY <1>3, <1>4, <1>5, <2>1, Owners, Consts
<1>21. dsp_virt_to_phys(p, v) = hugetlb_page_phys_addr[p][i] + r
  <2>1. Min({HUGE}) = HUGE
    BY <1>3, MinSingle
  <2> QED  BY <1>1, <1>4, <1>8, <1>9, <1>19, <2>1 DEF dsp_virt_to_phys
<1>22. dsp_phys_to_virt(p, f) = b + i * HugePage + f - hugetlb_page_phys_addr[p][i]
  BY <1>1, <1>18, <1>19, <1>20 DEF dsp_phys_to_virt
<1>23. i * HugePage = HugePage * i
  BY <1>6, <1>10, DivOf, Zenon
<1> QED  BY <1>3, <1>5, <1>10, <1>12, <1>14, <1>15, <1>21, <1>22, <1>23

(* ... and of the on-chip memory.                                          *)
LEMMA RoundChip ==
  ASSUME EInv, NEW p \in Procs, pc[p] \notin {"closed", "map"}, NEW a \in {L1, L2},
         NEW v, v = area[p][a].virt
  PROVE  /\ vma[p][v] # 0
         /\ dsp_virt_to_phys(p, v) = vma[p][v]
         /\ dsp_phys_to_virt(p, vma[p][v]) = v
<1>1. /\ a \in Areas /\ a \in Nat /\ a # 0 /\ v \in Virt /\ v \in Nat /\ vma[p][v] = a
      /\ area[p][a].phys = a
  BY ChipFact, Consts
<1>2. {c \in {L1, L2} : AtVirt(v, area[p][c])} = {a} /\ {c \in {L1, L2} : AtPhys(a, area[p][c])} = {a}
  <2>1. \A c \in {L1, L2} : /\ vma[p][area[p][c].virt] = c
                            /\ AtVirt(v, area[p][c]) <=> v = area[p][c].virt
                            /\ AtPhys(a, area[p][c]) <=> a = c
    BY <1>1, ChipFact
  <2> QED  BY <1>1, <2>1
<1>3. Min({a}) = a
  BY <1>1, MinSingle
<1>4. dsp_virt_to_phys(p, v) = v - area[p][a].virt + area[p][a].phys
  BY <1>2, <1>3 DEF dsp_virt_to_phys
<1>5. dsp_phys_to_virt(p, a) = a - a + area[p][a].virt
  BY <1>2, <1>3 DEF dsp_phys_to_virt
<1> QED  BY <1>1, <1>4, <1>5

(* Whatever was allocated, freed or failed before, by whom: an address of  *)
(* a region a process may use is translated to the physical page behind it *)
(* and back, in any address space and for any number of types and pages.   *)
THEOREM AlwaysRoundTrip == Spec => []RoundTrip
<1>1. EInv => RoundTrip
  <2> SUFFICES ASSUME EInv, NEW p \in Procs, NEW v \in Usable(p)
               PROVE  /\ vma[p][v] # 0
                      /\ dsp_virt_to_phys(p, v) = vma[p][v]
                      /\ dsp_phys_to_virt(p, vma[p][v]) = v
    BY DEF RoundTrip
  <2>1. /\ pc[p] \notin {"closed", "map"}
        /\ \/ \E t \in Returned(p) : v \in Region(p, t)
           \/ v = area[p][L1].virt \/ v = area[p][L2].virt
    <3>1. pc[p] \notin {"closed", "map", "resume", "close"}
      BY DEF Usable
    <3>2. v \in (UNION {Region(p, t) : t \in Returned(p)}) \cup {area[p][L1].virt, area[p][L2].virt}
      BY <3>1 DEF Usable
    <3>3. ASSUME v \in UNION {Region(p, t) : t \in Returned(p)}
          PROVE  \E t \in Returned(p) : v \in Region(p, t)
      BY <3>3, Zenon
    <3>4. \/ v \in UNION {Region(p, t) : t \in Returned(p)}
          \/ v = area[p][L1].virt \/ v = area[p][L2].virt
      BY <3>2, Zenon
    <3>5. pc[p] \notin {"closed", "map"}
      BY <3>1
    <3> QED  BY <3>3, <3>4, <3>5, Zenon
  <2>2. ASSUME NEW t \in Returned(p), v \in Region(p, t)
        PROVE  /\ vma[p][v] # 0
               /\ dsp_virt_to_phys(p, v) = vma[p][v]
               /\ dsp_phys_to_virt(p, vma[p][v]) = v
    <3>1. t \in Contig \/ t = HUGE
      BY Consts DEF Returned
    <3> QED  BY <2>1, <2>2, <3>1, RoundContig, RoundHuge
  <2> QED  BY <2>1, <2>2, RoundChip
<1> QED  BY <1>1, ExactInvariance, PTL

(* A cache call on any part of a region works on just that part, by either *)
(* address, and one that reaches outside a region is refused, for regions  *)
(* of any number, size and place.                                          *)
THEOREM AlwaysCacheFindsRegion == Spec => []CacheFindsRegion
<1>1. ASSUME EInv, NEW p \in Procs, pc[p] = "open", NEW v \in Virt,
             NEW n \in 1 .. HugePage * MaxPages, NEW f, f = vma[p][v]
      PROVE  /\ loc_ioctl_cache_virt(p, v, n) =
                  {v : t \in {s \in Returned(p) : v \in Region(p, s) /\ v + n - 1 \in Region(p, s)}}
             /\ f \in Cma =>
                  loc_ioctl_cache(p, f, n) =
                    {v : t \in {s \in Returned(p) \ {HUGE} :
                                  v \in Region(p, s) /\ v + n - 1 \in Region(p, s)}}
  <2>1. /\ n \in Nat /\ n # 0 /\ v \in Nat /\ v < FAILED /\ IInv /\ Local(p) /\ Exact(p)
    BY <1>1, AreaFact, Consts DEF EInv, IInv
  (* what the driver has an address for is what the library has returned   *)
  <2>2. ASSUME NEW s \in Types PROVE shm[p][s].virt # 0 <=> s \in Returned(p)
    <3>1. s \in Returned(p) => shm[p][s].virt # 0
      BY <1>1, ReturnedFact
    <3>2. ASSUME shm[p][s].virt # 0 PROVE shared_mem[p][s].phys # 0 /\ shared_mem[p][s].virt # FAILED
      <4>1. CASE s \in Contig
        <5>1. /\ shm[p][s] \in Mem /\ shm[p][s].phys # 0 /\ shm[p][s].size # 0
              /\ shm[p][s].virt + shm[p][s].size <= FAILED
              /\ shared_mem[p][s].phys = shm[p][s].phys
              /\ shared_mem[p][s].virt = shm[p][s].virt
          BY <1>1, <2>1, <3>2, <4>1, Consts
             DEF Local, Recorded, Agree, NoMem, IInv, TypeOK
        <5>2. FAILED \in Int
          BY ShmAssumption DEF ShmAssumption, FAILED
        <5> QED  BY <5>1, <5>2 DEF Mem
      <4>2. CASE s = HUGE
        BY <1>1, <2>1, <3>2, <4>2 DEF Exact, HugeNoted, NoMem
      <4> QED  BY <4>1, <4>2, Consts
    <3> QED  BY <1>1, <3>1, <3>2 DEF Returned
  (* a range begins in a region and ends in it, or it does not             *)
  <2>3. ASSUME NEW s \in Returned(p)
        PROVE  /\ AtVirt(v, shm[p][s]) <=> v \in Region(p, s)
               /\ v \in Region(p, s) => (v + n <= shm[p][s].virt + shm[p][s].size
                                           <=> v + n - 1 \in Region(p, s))
    <3>1. /\ shared_mem[p][s] = shm[p][s] /\ shm[p][s] \in Mem
          /\ Region(p, s) \subseteq Virt
      BY <1>1, ReturnedFact
    <3>2. PICK b \in Nat : b = shm[p][s].virt
      BY <3>1 DEF Mem
    <3>3. PICK z \in Nat : z = shm[p][s].size
      BY <3>1 DEF Mem
    <3>4. Region(p, s) = Pages(b, z)
      BY <3>1, <3>2, <3>3 DEF Region
    <3>5. b + shm[p][s].size <= FAILED \/ shm[p][s].size = 0
      BY <3>1, <3>3, <3>4, Ends
    <3>6. AtVirt(v, shm[p][s]) <=> v \in Region(p, s)
      <4>1. InRange(v, shm[p][s], b) <=> v \in Pages(b, shm[p][s].size)
        BY <2>1, <3>1, <3>5, RangeOf
      <4> QED  BY <3>2, <3>3, <3>4, <4>1 DEF AtVirt
    <3>7. v \in Pages(b, z) => (v + n <= b + z <=> v + n - 1 \in Pages(b, z))
      BY <2>1 DEF Pages
    <3> QED  BY <3>2, <3>3, <3>4, <3>6, <3>7
  <2>4. Returned(p) \subseteq Types
    BY DEF Returned
  <2>5. {s \in Types : shm[p][s].virt # 0 /\ AtVirt(v, shm[p][s])
                       /\ v + n <= shm[p][s].virt + shm[p][s].size}
          = {s \in Returned(p) : v \in Region(p, s) /\ v + n - 1 \in Region(p, s)}
    BY <2>2, <2>3, <2>4
  <2>6. loc_ioctl_cache_virt(p, v, n) =
          {v : t \in {s \in Returned(p) : v \in Region(p, s) /\ v + n - 1 \in Region(p, s)}}
    BY <2>5 DEF loc_ioctl_cache_virt
  <2>7. ASSUME f \in Cma
        PROVE  loc_ioctl_cache(p, f, n) =
                 {v : t \in {s \in Returned(p) \ {HUGE} :
                               v \in Region(p, s) /\ v + n - 1 \in Region(p, s)}}
    <3> DEFINE S == {s \in Contig : shm[p][s].virt # 0 /\ AtPhys(f, shm[p][s])
                                    /\ f + n <= shm[p][s].phys + shm[p][s].size}
               T == {s \in Returned(p) \ {HUGE} :
                       v \in Region(p, s) /\ v + n - 1 \in Region(p, s)}
    <3>1. f \in Nat
      BY <2>7, Consts
    <3>2. ASSUME NEW s \in Contig, s \in Returned(p)
          PROVE  /\ AtPhys(f, shm[p][s]) <=> v \in Region(p, s)
                 /\ v \in Region(p, s) =>
                      /\ shm[p][s].virt + f - shm[p][s].phys = v
                      /\ f + n <= shm[p][s].phys + shm[p][s].size
                           <=> v + n <= shm[p][s].virt + shm[p][s].size
      <4>1. shared_mem[p][s] = shm[p][s] /\ shm[p][s] \in Mem
        BY <1>1, <3>2, ReturnedFact
      <4>2. AtPhys(f, shm[p][s]) <=> f \in Block(p, s)
        BY <1>1, <2>7, <4>1, BlockAt
      <4>3. v \in Region(p, s) => f \in Block(p, s)
        BY <1>1, <3>2, InRegion, Consts DEF Own
      <4>4. f \in Block(p, s) => /\ v \in Pages(shm[p][s].virt, shm[p][s].size)
                                 /\ f = shm[p][s].phys + (v - shm[p][s].virt)
        BY <1>1, BehindBlock
      <4>5. /\ shm[p][s].phys \in Nat /\ shm[p][s].virt \in Nat /\ shm[p][s].size \in Nat
            /\ Region(p, s) = Pages(shm[p][s].virt, shm[p][s].size)
        BY <4>1 DEF Mem, Region
      <4> QED  BY <2>1, <3>1, <4>2, <4>3, <4>4, <4>5
    <3>3. S = T
      <4>1. \A s \in Contig : s \in Types /\ s # HUGE
        BY Consts
      <4>2. \A s \in Returned(p) \ {HUGE} : s \in Contig
        BY <2>4, Consts
      <4>3. ASSUME NEW s \in S PROVE s \in T
        BY <2>2, <2>3, <3>2, <4>1, <4>3
      <4>4. ASSUME NEW s \in T PROVE s \in S
        BY <2>2, <2>3, <3>2, <4>1, <4>2, <4>4
      <4> QED  BY <4>3, <4>4
    <3>4. \A s \in T : shm[p][s].virt + f - shm[p][s].phys = v
      <4>1. \A s \in Returned(p) \ {HUGE} : s \in Contig
        BY <2>4, Consts
      <4> QED  BY <3>2, <4>1
    <3>5. loc_ioctl_cache(p, f, n) = {shm[p][t].virt + f - shm[p][t].phys : t \in S}
      BY DEF loc_ioctl_cache
    <3> HIDE DEF S, T
    <3>6. loc_ioctl_cache(p, f, n) = {v : t \in T}
      BY <3>3, <3>4, <3>5
    <3> QED  BY <3>6 DEF T
  <2> QED  BY <2>6, <2>7
<1>2. EInv => CacheFindsRegion
  BY <1>1 DEF CacheFindsRegion
<1> QED  BY <1>2, ExactInvariance, PTL
-----------------------------------------------------------------------------
(* Buffers.  A word of the output is right when the DMA has written it,    *)
(* which only works if the input is in memory by then, if nothing that is  *)
(* queued is forgotten, and if no dirty line lies over the output: BInv    *)
(* says so at every stage of a call.                                       *)

(* The types of the variables.                                             *)
BuffersTypeOK ==
  /\ type \in CacheTypes
  /\ mem \in [Words -> Vals] /\ data \in [Words -> Vals]
  /\ state \in [Lines -> {"no", "clean", "dirty"}]
  /\ out \in Outs /\ shared \in BOOLEAN
  /\ stage \in {"own", "written", "sent", "answered", "read"}
  /\ want \in [In -> Vals] /\ mine \in [Words -> Vals]
  /\ b_running \in [Channels -> BOOLEAN] /\ IPR \subseteq Channels
  /\ QDMAQNUM = QueueNumbers

(* A transfer takes words of the output from where they are in the input.  *)
Straight(moves) == DOMAIN moves \subseteq Out /\ \A w \in DOMAIN moves : moves[w] = w - out

(* Parameter sets: those that are no channel's are the links of chains,    *)
(* each linked to the one before it, and only ends of chains signal.       *)
Sets == NUM_QDMAS .. NumParams - 1

ParamsOK ==
  /\ param = [i \in Params |-> param[i]]
  /\ \A i \in Params : /\ Straight(param[i].moves)
                       /\ param[i].link \in Sets \cup {NoLink} /\ param[i].tcint \in BOOLEAN
                       /\ param[i].tcint => param[i].link = NoLink
  /\ \A i \in Sets : param[i].link \in Sets => param[i].link = i - 1

(* A chain that goes on with a set is linked down to a set that signals.   *)
LinkedDown(link) ==
  \A i \in NUM_QDMAS .. link :
    IF i = NUM_QDMAS THEN param[i].tcint ELSE param[i].link = i - 1

(* The transfer of channel q, or the chain it goes on with, signals.       *)
Signals(q) ==
  IF param[q].link = NoLink THEN param[q].tcint ELSE LinkedDown(param[q].link)

(* Channel q has an event in its queue.                                    *)
Queued(q) == queue[QueueNumbers[q]] = <<q>>

(* The transfers of a chain of the application.                            *)
ChainMoves ==
  {Transfers1d(c) : c \in {c \in Chains : Flat(c)}} \cup {Transfers2d(c) : c \in Chains}

(* What is left of a command when the DSP has gone through part of it.     *)
Plain ==
  {<< >>, loc_copy1d, loc_copy2d, <<Copy(0, Moves1d(out, 0, Size)), Wait(0)>>,
   <<Copy(0, Moves2d(out, 1, 0, 1, 1, Size)), Wait(0)>>, <<Wait(0)>>, <<Wait(1)>>}

IsWhole(s) == \E moves \in ChainMoves : s = <<Reset>> \o LinkedFrom(moves, Len(moves) - 1)
IsRest(s) == \E moves \in ChainMoves : \E m \in 0 .. Len(moves) - 1 : s = LinkedFrom(moves, m)
IsSuffix(s) == s \in Plain \/ IsWhole(s) \/ IsRest(s)

(* While it writes a chain, the sets of the transfers after transfer m are *)
(* as it has written them.                                                 *)
Written(moves, m) ==
  \A i \in m + 1 .. Len(moves) - 1 :
    LET set == param[NUM_QDMAS + i - 1]
    IN  set.moves = moves[i + 1] /\ set.link = Linked(moves, i).link /\ set.tcint = (i = 1)

Linking ==
  prog # << >> /\ Head(prog).op = "link" =>
    \E moves \in ChainMoves : \E m \in 0 .. Len(moves) - 1 :
      prog = LinkedFrom(moves, m) /\ Written(moves, m)

(* Channels that a command still starts, and that it still waits for.      *)
Starts(s) == {q \in Channels : \E i \in DOMAIN s : s[i].op \in {"copy", "link"} /\ s[i].q = q}
Waits(s) == {q \in Channels : \E i \in DOMAIN s : s[i] = Wait(q)}

(* A channel that runs is still waited for; either its event is queued, or *)
(* its interrupt is pending.                                               *)
Events ==
  /\ queue \in [EventQueues -> {<< >>} \cup {<<q>> : q \in Channels}]
  /\ \A k \in EventQueues, q \in Channels : queue[k] = <<q>> => k = QueueNumbers[q] /\ b_running[q]
  /\ \A q \in Channels :
       /\ q \in IPR => b_running[q] /\ ~ Queued(q)
       /\ b_running[q] => /\ Queued(q) \/ q \in IPR
                          /\ q \in Waits(prog) \ Starts(prog)
       /\ Queued(q) => Signals(q)

(* Words of the output that a transfer and the sets linked to it write,    *)
(* and a command when it is carried out.                                   *)
Chain(moves, link) ==
  DOMAIN moves
    \cup {o \in Out : link \in Sets /\ \E i \in NUM_QDMAS .. link : o \in DOMAIN param[i].moves}

Writes(c) ==
  CASE c.op = "copy" -> DOMAIN c.moves
    [] c.op = "link" -> IF c.i \in Sets THEN DOMAIN c.moves ELSE Chain(c.moves, c.link)
    [] OTHER -> {}

(* A word of the output that the DMA has still to write.                   *)
Coming(o) ==
  \/ \E q \in Channels : Queued(q) /\ o \in Chain(param[q].moves, param[q].link)
  \/ \E i \in DOMAIN prog : o \in Writes(prog[i])

Dma ==
  /\ ParamsOK /\ Events /\ Linking
  /\ IsSuffix(prog) /\ (stage # "sent" => prog = << >>)

(* Lines are in a cache that is used, and dirty if it writes back.  What   *)
(* the DMA does not write is in memory as in a clean line.                 *)
Coherent ==
  /\ \A l \in Lines : /\ state[l] # "no" => Cached
                      /\ state[l] = "dirty" => WritesBack
  /\ \A w \in In \cup Mine : state[LineOf(w)] = "clean" => data[w] = mem[w]

(* Once handed over, the input is in memory and nowhere else.              *)
InputKept ==
  stage # "own" => \A w \in In :
    /\ state[LineOf(w)] # "no" => data[w] = mem[w]
    /\ stage # "written" => mem[w] = want[w]

(* The cache has nothing to write over the output.                         *)
OutputClean ==
  stage # "own" /\ ~ shared => \A w \in In : state[LineOf(out + w)] # "dirty"

(* The output is there or coming.                                          *)
OutputThere ==
  ~ shared => \A w \in In :
    /\ stage = "sent" => mem[out + w] = want[w] \/ Coming(out + w)
    /\ stage \in {"answered", "read"} => mem[out + w] = want[w]
    /\ stage = "read" /\ state[LineOf(out + w)] # "no" => data[out + w] = mem[out + w]

BInv ==
  /\ BuffersTypeOK /\ Dma
  /\ Coherent /\ NeighboursKept /\ InputKept /\ OutputClean /\ OutputThere
-----------------------------------------------------------------------------
(* What the constants are.                                                 *)
LEMMA BufferConsts ==
  /\ N \in Nat \ {0} /\ LineSize \in Nat \ {0} /\ 0 \in Vals
  /\ Size \in Nat \ {0} /\ NUM_QDMAS \in Nat /\ NUM_QDMAS >= 2
  /\ NumParams \in Nat /\ NumParams > NUM_QDMAS
  /\ 1 % CountSpace = 1 /\ Size % CountSpace = Size /\ (Size - 1) % CountSpace = Size - 1
  /\ NoLink \notin Sets /\ NoLink \notin Params /\ Sets \subseteq Params
  /\ Channels \cap Sets = {} /\ Channels \subseteq Params /\ Params = Channels \cup Sets
  /\ NUM_QDMAS \in Sets /\ 0 \in Channels /\ 1 \in Channels
BY CacheAssumption, QdmaAssumption, BuffersAssumption DEF Channels, Params, NoLink, Sets

(* Where the buffers are.                                                  *)
LEMMA BufferPlaces ==
  ASSUME BuffersTypeOK
  PROVE  /\ out \in Nat /\ out + Size <= N /\ Size <= out
         /\ In \subseteq Words /\ Out \subseteq Words /\ In \cap Out = {}
         /\ \A w \in In : w \in Nat /\ out + w \in Out
         /\ \A o \in Out : o \in Nat /\ o - out \in In /\ out + (o - out) = o
<1>1. Size \in Nat \ {0} /\ N \in Nat \ {0}
  BY BufferConsts
<1>2. out \in Words /\ out .. out + Size - 1 \subseteq Words \ In
  BY BuffersAssumption DEF BuffersTypeOK
<1>3. out \in Nat /\ out + Size - 1 \in out .. out + Size - 1 /\ out \in out .. out + Size - 1
  BY <1>1, <1>2 DEF Words
<1>4. out + Size <= N /\ Size <= out
  BY <1>1, <1>2, <1>3 DEF Words, In
<1> QED  BY <1>1, <1>2, <1>3, <1>4 DEF Words, In, Out

(* Words and their lines.                                                  *)
LEMMA LineFact ==
  ASSUME NEW w \in Nat
  PROVE  /\ LineOf(w) \in Nat /\ w % LineSize \in 0 .. LineSize - 1
         /\ w = LineSize * LineOf(w) + (w % LineSize)
BY BufferConsts DEF LineOf

LEMMA LineTimes ==
  ASSUME NEW a \in Nat, NEW b \in Nat
  PROVE  /\ LineSize * a \in Nat /\ a * LineSize = LineSize * a
         /\ a < b => LineSize * a + LineSize <= LineSize * b
         /\ a <= b <=> LineSize * a <= LineSize * b
<1>1. LineSize \in Nat \ {0}
  BY BufferConsts
<1>2. LineSize * a \in Nat /\ LineSize * b \in Nat /\ a * LineSize = LineSize * a
  BY <1>1
<1>3. ASSUME NEW c \in Nat, NEW d \in Nat, c < d PROVE LineSize * c + LineSize <= LineSize * d
  <2>1. LineSize * (c + 1) <= LineSize * d
    BY <1>1, <1>3
  <2>2. LineSize * (c + 1) = LineSize * c + LineSize
    BY <1>1
  <2> QED  BY <2>1, <2>2
<1>4. a <= b => LineSize * a <= LineSize * b
  BY <1>1
<1>5. b < a => LineSize * b < LineSize * a
  BY <1>1, <1>2, <1>3
<1> QED  BY <1>2, <1>3, <1>4, <1>5

LEMMA LineMono ==
  ASSUME NEW v \in Nat, NEW w \in Nat, v <= w
  PROVE  LineOf(v) <= LineOf(w)
<1>1. PICK a : a = LineOf(v)
  OBVIOUS
<1>2. PICK b : b = LineOf(w)
  OBVIOUS
<1>3. /\ a \in Nat /\ b \in Nat /\ LineSize \in Nat
      /\ v = LineSize * a + (v % LineSize) /\ w = LineSize * b + (w % LineSize)
      /\ v % LineSize \in Nat /\ w % LineSize \in Nat /\ w % LineSize < LineSize
  BY <1>1, <1>2, LineFact, BufferConsts
<1>4. ASSUME b < a PROVE FALSE
  <2>1. LineSize * b + LineSize <= LineSize * a
    BY <1>3, <1>4, LineTimes
  <2>2. LineSize * a \in Nat /\ LineSize * b \in Nat
    BY <1>3
  <2> QED  BY <1>3, <2>1, <2>2
<1> QED  BY <1>1, <1>2, <1>3, <1>4

LEMMA WordHasLine ==
  ASSUME NEW w \in Words
  PROVE  w \in Nat /\ LineOf(w) \in Lines
<1>1. w \in Nat /\ N - 1 \in Nat /\ w <= N - 1
  BY BufferConsts DEF Words
<1>2. LineOf(w) \in Nat /\ LineOf(N - 1) \in Nat /\ LineOf(w) <= LineOf(N - 1)
  BY <1>1, LineFact, LineMono
<1> QED  BY <1>1, <1>2 DEF Lines

(* A loop over all of the block comes to every line.                       *)
LEMMA AllLines ==
  LinesOf(0, 0 + N) = Lines
<1>1. N \in Nat \ {0} /\ 0 + N = N
  BY BufferConsts
<1>2. LineOf(0) = 0 /\ LineOf(N - 1) \in Nat
  BY <1>1, LineFact, BufferConsts DEF LineOf
<1>3. ASSUME NEW l \in Lines PROVE l * LineSize < N
  <2>1. l \in Nat /\ l <= LineOf(N - 1) /\ N - 1 \in Nat
    BY <1>1, <1>2, <1>3 DEF Lines
  <2>2. /\ LineSize * l <= LineSize * LineOf(N - 1) /\ l * LineSize = LineSize * l
        /\ LineSize * l \in Nat
    BY <1>2, <2>1, LineTimes
  <2>3. /\ N - 1 = LineSize * LineOf(N - 1) + ((N - 1) % LineSize)
        /\ (N - 1) % LineSize \in Nat /\ LineSize * LineOf(N - 1) \in Nat
    <3>1. N - 1 \in Nat
      BY <2>1
    <3>2. (N - 1) % LineSize \in 0 .. LineSize - 1
          /\ N - 1 = LineSize * LineOf(N - 1) + ((N - 1) % LineSize)
      BY <3>1, LineFact, Zenon
    <3>3. LineSize * LineOf(N - 1) \in Nat
      BY <1>2, LineTimes
    <3> QED  BY <3>2, <3>3, BufferConsts
  <2> QED  BY <1>1, <2>2, <2>3
<1>4. \A l \in Lines : l = 0 \/ l > 0
  BY <1>2 DEF Lines
<1> QED  BY <1>1, <1>2, <1>3, <1>4 DEF LinesOf

(* Taking the output back drops all of its lines; what it does not clean   *)
(* first is a line of the output alone.                                    *)
LEMMA OutputLines ==
  ASSUME BuffersTypeOK
  PROVE  LET end == out + Size
             rest == LinesOf(out, end - (end % LineSize))
         IN  /\ \A o \in Out : LineOf(o) \in Edges(out, end) \cup rest
             /\ \A w \in Words \ Out : LineOf(w) \in rest => LineOf(w) \in Edges(out, end)
<1>1. PICK end : end = out + Size
  OBVIOUS
<1>2. PICK a : a = LineOf(out)
  OBVIOUS
<1>3. PICK b : b = LineOf(end)
  OBVIOUS
<1>4. PICK i : i = out % LineSize
  OBVIOUS
<1>5. PICK j : j = end % LineSize
  OBVIOUS
<1>6. out \in Nat /\ end \in Nat /\ out < end /\ LineSize \in Nat \ {0}
  BY <1>1, BufferPlaces, BufferConsts
<1>7. /\ a \in Nat /\ b \in Nat /\ a <= b /\ i \in 0 .. LineSize - 1 /\ j \in 0 .. LineSize - 1
      /\ out = LineSize * a + i /\ end = LineSize * b + j
  BY <1>2, <1>3, <1>4, <1>5, <1>6, LineFact, LineMono
<1>8. PICK A : A = LineSize * a
  OBVIOUS
<1>9. PICK B : B = LineSize * b
  OBVIOUS
<1>10. A \in Nat /\ B \in Nat /\ out = A + i /\ end = B + j /\ end - j = B
  BY <1>6, <1>7, <1>8, <1>9
<1>11. Edges(out, end) = {l \in {a} : i # 0} \cup {l \in {b} : j # 0}
  BY <1>2, <1>3, <1>4, <1>5 DEF Edges
<1>12. \A l : l \in LinesOf(out, end - j) <=> l \in Lines /\ (l = a \/ (l > a /\ l * LineSize < B))
  BY <1>2, <1>10 DEF LinesOf
<1>13. ASSUME NEW l \in Nat PROVE l * LineSize < B <=> l < b
  <2>1. l * LineSize = LineSize * l /\ LineSize * l \in Nat /\ (b <= l <=> B <= LineSize * l)
    BY <1>7, <1>9, LineTimes
  <2> QED  BY <1>7, <1>10, <2>1
<1>14. ASSUME NEW o \in Out PROVE LineOf(o) \in Edges(out, end) \cup LinesOf(out, end - j)
  <2>1. o \in Nat /\ out <= o /\ o < end /\ o \in Words
    BY <1>1, <1>6, BufferPlaces, BufferConsts DEF Out
  <2>2. PICK l : l = LineOf(o)
    OBVIOUS
  <2>3. l \in Nat /\ l \in Lines /\ a <= l /\ l <= b
    BY <1>2, <1>3, <1>6, <2>1, <2>2, LineFact, LineMono, WordHasLine
  <2>4. CASE l = b
    <3>1. o = B + (o % LineSize) /\ o % LineSize \in Nat
      <4>1. o \in Nat
        BY <2>1
      <4>2. o % LineSize \in 0 .. LineSize - 1 /\ o = LineSize * LineOf(o) + (o % LineSize)
        BY <4>1, LineFact, Zenon
      <4> QED  BY <1>6, <1>9, <2>2, <2>4, <4>2
    <3>2. j # 0
      BY <1>7, <1>10, <2>1, <3>1
    <3> QED  BY <1>11, <2>2, <2>4, <3>2
  <2>5. CASE l # b
    BY <1>7, <1>12, <1>13, <2>2, <2>3, <2>5
  <2> QED  BY <2>4, <2>5
<1>15. ASSUME NEW w \in Words \ Out, LineOf(w) \in LinesOf(out, end - j)
       PROVE  LineOf(w) \in Edges(out, end)
  <2>1. w \in Nat /\ (w < out \/ w >= end)
    BY <1>1, <1>6, BufferConsts DEF Words, Out
  <2>2. PICK l : l = LineOf(w)
    OBVIOUS
  <2>3. PICK C : C = LineSize * l
    OBVIOUS
  <2>4. /\ l \in Nat /\ C \in Nat /\ w % LineSize \in 0 .. LineSize - 1
        /\ w = C + (w % LineSize) /\ (l = a \/ (l > a /\ l < b))
    BY <1>6, <1>12, <1>13, <1>15, <2>1, <2>2, <2>3, LineFact, LineTimes
  <2>5. CASE w < out
    <3>1. l = a
      BY <1>2, <1>6, <1>7, <2>1, <2>2, <2>4, <2>5, LineMono
    <3>2. i # 0
      BY <1>8, <1>10, <2>3, <2>4, <2>5, <3>1
    <3> QED  BY <1>11, <2>2, <3>1, <3>2
  <2>6. CASE w >= end
    <3>1. l = a /\ l = b
      BY <1>3, <1>6, <1>7, <2>1, <2>2, <2>4, <2>6, LineMono
    <3>2. j # 0
      BY <1>6, <1>7, <1>8, <1>9, <1>10, <3>1
    <3> QED  BY <1>11, <2>2, <3>1, <3>2
  <2> QED  BY <2>1, <2>5, <2>6
<1> QED  BY <1>1, <1>5, <1>14, <1>15
-----------------------------------------------------------------------------
(* The transfers of the commands.                                          *)
LEMMA Moves1dStraight ==
  ASSUME BuffersTypeOK, NEW d \in Nat, NEW n \in Nat, d + n <= Size, n % CountSpace = n
  PROVE  /\ DOMAIN Moves1d(out + d, d, n) = out + d .. out + d + n - 1
         /\ Straight(Moves1d(out + d, d, n))
<1>1. out \in Nat /\ Size \in Nat
  BY BufferPlaces, BufferConsts
<1>2. DOMAIN Moves1d(out + d, d, n) = out + d .. out + d + n - 1
  BY <1>1 DEF Moves1d
<1>3. out + d .. out + d + n - 1 \subseteq Out
  BY <1>1 DEF Out
<1>4. \A w \in out + d .. out + d + n - 1 : Moves1d(out + d, d, n)[w] = d + w - (out + d)
  BY <1>1 DEF Moves1d
<1>5. \A w \in out + d .. out + d + n - 1 : d + w - (out + d) = w - out
  BY <1>1
<1> QED  BY <1>2, <1>3, <1>4, <1>5 DEF Straight

LEMMA Moves2dStraight ==
  ASSUME BuffersTypeOK
  PROVE  /\ DOMAIN Moves2d(out, 1, 0, 1, 1, Size) = Out
         /\ Straight(Moves2d(out, 1, 0, 1, 1, Size))
<1> DEFINE cells == (0 .. (1 % CountSpace) - 1) \X (0 .. Size - 1)
           at(w) == CHOOSE c \in cells : w = out + c[1] + c[2] * 1
<1>1. out \in Nat /\ Size \in Nat /\ 1 % CountSpace = 1
  BY BufferPlaces, BufferConsts
<1>2. cells = {0} \X (0 .. Size - 1)
  BY <1>1
<1>3. Moves2d(out, 1, 0, 1, 1, Size)
        = [w \in {out + c[1] + c[2] * 1 : c \in cells} |-> 0 + at(w)[1] + at(w)[2] * 1]
  BY DEF Moves2d
<1>4. \A c \in cells : c[1] = 0 /\ c[2] \in 0 .. Size - 1 /\ out + c[1] + c[2] * 1 = out + c[2]
  BY <1>1, <1>2
<1>5. \A w \in Out : <<0, w - out>> \in cells /\ w = out + 0 + (w - out) * 1
  BY <1>1, <1>2 DEF Out
<1> HIDE DEF cells
<1>6. {out + c[1] + c[2] * 1 : c \in cells} = Out
  <2>1. ASSUME NEW w \in Out PROVE \E c \in cells : w = out + c[1] + c[2] * 1
    <3>1. <<0, w - out>>[1] = 0 /\ <<0, w - out>>[2] = w - out
      OBVIOUS
    <3> QED  BY <1>5, <3>1
  <2>2. ASSUME NEW c \in cells PROVE out + c[1] + c[2] * 1 \in Out
    BY <1>1, <1>4 DEF Out
  <2> QED  BY <2>1, <2>2
<1>7. ASSUME NEW w \in Out PROVE 0 + at(w)[1] + at(w)[2] * 1 = w - out
  <2>1. \E c \in cells : w = out + c[1] + c[2] * 1
    BY <1>6
  <2>2. PICK c : c = at(w)
    OBVIOUS
  <2>3. c \in cells /\ w = out + c[1] + c[2] * 1
    BY <2>1, <2>2
  <2>4. c[1] = 0 /\ c[2] \in Nat
    BY <1>1, <1>4, <2>3
  <2>5. 0 + c[1] + c[2] * 1 = w - out
    BY <1>1, <2>3, <2>4
  <2> QED  BY <2>2, <2>5
<1> HIDE DEF at
<1>8. /\ DOMAIN Moves2d(out, 1, 0, 1, 1, Size) = Out
      /\ \A w \in Out : Moves2d(out, 1, 0, 1, 1, Size)[w] = 0 + at(w)[1] + at(w)[2] * 1
  BY <1>3, <1>6
<1> QED  BY <1>7, <1>8 DEF Straight

LEMMA CommandMoves ==
  ASSUME BuffersTypeOK
  PROVE  Straight(Moves1d(out, 0, Size)) /\ DOMAIN Moves1d(out, 0, Size) = Out
<1>1. /\ out \in Nat /\ out + 0 = out /\ Size \in Nat /\ 0 + Size <= Size
      /\ Size % CountSpace = Size
  BY BufferPlaces, BufferConsts
<1>2. Straight(Moves1d(out, 0, Size)) /\ DOMAIN Moves1d(out, 0, Size) = out + 0 .. out + 0 + Size - 1
  BY <1>1, Moves1dStraight
<1> QED  BY <1>1, <1>2 DEF Out

LEMMA CellsAt ==
  ASSUME NEW p, NEW x \in 0 .. p.nx - 1, NEW y \in 0 .. p.ny - 1
  PROVE  p.at + x + y * p.pitch \in Cells(p)
BY DEF Cells

LEMMA RowTimes == \A y, d \in Nat : y * d \in Nat
OBVIOUS

(* A transfer of a chain moves its words, whichever way it counts them.    *)
LEMMA PieceMoves ==
  ASSUME BuffersTypeOK, NEW p \in Pieces, Cells(p) \subseteq In, p.nx < CountSpace
  PROVE  /\ LET moves == Moves2d(out + p.at, p.pitch, p.at, p.pitch, p.nx, p.ny)
            IN  Straight(moves) /\ DOMAIN moves = {out + v : v \in Cells(p)}
         /\ p.ny = 1 =>
              LET moves == Moves1d(out + p.at, p.at, p.nx)
              IN  Straight(moves) /\ DOMAIN moves = {out + v : v \in Cells(p)}
<1>1. PICK a \in Nat : a = p.at
  BY DEF Pieces
<1>2. PICK d \in Nat : d = p.pitch
  BY DEF Pieces
<1>3. PICK n \in Nat \ {0} : n = p.nx
  BY DEF Pieces
<1>4. PICK h \in Nat \ {0} : h = p.ny
  BY DEF Pieces
<1>5. n % CountSpace = n /\ out \in Nat /\ Size \in Nat
  <2>1. CountSpace \in Nat \ {0} /\ n < CountSpace
    BY <1>3, QdmaAssumption
  <2> QED  BY <2>1, BufferPlaces, BufferConsts
<1>6. Cells(p) = {a + x + y * d : x \in 0 .. n - 1, y \in 0 .. h - 1}
  BY <1>1, <1>2, <1>3, <1>4 DEF Cells
<1>7. ASSUME NEW v \in Cells(p) PROVE v \in Nat /\ out + v \in Out /\ (out + v) - out = v
  BY <1>5, <1>7 DEF In, Out
<1>8. LET moves == Moves2d(out + a, d, a, d, n, h)
      IN  Straight(moves) /\ DOMAIN moves = {out + v : v \in Cells(p)}
  <2> DEFINE cells == (0 .. (n % CountSpace) - 1) \X (0 .. h - 1)
             at(w) == CHOOSE c \in cells : w = (out + a) + c[1] + c[2] * d
  <2>1. Moves2d(out + a, d, a, d, n, h)
          = [w \in {(out + a) + c[1] + c[2] * d : c \in cells} |-> a + at(w)[1] + at(w)[2] * d]
    BY DEF Moves2d
  <2>2. cells = (0 .. n - 1) \X (0 .. h - 1)
    BY <1>5
  <2> HIDE DEF cells
  <2>3. ASSUME NEW c \in cells
        PROVE  /\ c[1] \in 0 .. n - 1 /\ c[2] \in 0 .. h - 1 /\ c[2] * d \in Nat
               /\ a + c[1] + c[2] * d \in Cells(p)
               /\ (out + a) + c[1] + c[2] * d = out + (a + c[1] + c[2] * d)
    <3>1. c[1] \in 0 .. n - 1 /\ c[2] \in 0 .. h - 1
      BY <2>2
    <3>2. PICK x \in 0 .. n - 1 : x = c[1]
      BY <3>1
    <3>3. PICK y \in 0 .. h - 1 : y = c[2]
      BY <3>1
    <3>4. y * d \in Nat
      <4>1. y \in Nat
        BY <1>4
      <4> QED  BY <4>1, <1>2, RowTimes
    <3>5. a + x + y * d \in Cells(p)
      <4>1. p.at + x + y * p.pitch \in Cells(p)
        BY <1>3, <1>4, CellsAt
      <4> QED  BY <4>1, <1>1, <1>2
    <3>6. (out + a) + x + y * d = out + (a + x + y * d)
      BY <1>5, <3>4
    <3> QED  BY <3>2, <3>3, <3>4, <3>5, <3>6
  <2>4. ASSUME NEW v \in Cells(p) PROVE \E c \in cells : out + v = (out + a) + c[1] + c[2] * d
    <3>1. PICK x \in 0 .. n - 1, y \in 0 .. h - 1 : v = a + x + y * d
      BY <1>6
    <3>2. PICK c : c = <<x, y>>
      OBVIOUS
    <3>3. c \in cells /\ c[1] = x /\ c[2] = y
      BY <2>2, <3>2
    <3>4. (out + a) + c[1] + c[2] * d = out + (a + c[1] + c[2] * d)
      BY <2>3, <3>3
    <3> QED  BY <3>1, <3>3, <3>4
  <2>5. {(out + a) + c[1] + c[2] * d : c \in cells} = {out + v : v \in Cells(p)}
    <3>1. ASSUME NEW c \in cells
          PROVE  \E v \in Cells(p) : (out + a) + c[1] + c[2] * d = out + v
      BY <2>3
    <3> QED  BY <2>4, <3>1
  <2>6. ASSUME NEW v \in Cells(p) PROVE a + at(out + v)[1] + at(out + v)[2] * d = v
    <3>1. PICK c : c = at(out + v)
      OBVIOUS
    <3>2. c \in cells /\ out + v = (out + a) + c[1] + c[2] * d
      BY <2>4, <3>1
    <3>3. out + v = out + (a + c[1] + c[2] * d) /\ a + c[1] + c[2] * d \in Nat
      BY <1>7, <2>3, <3>2
    <3>4. a + c[1] + c[2] * d = v
      BY <1>5, <1>7, <3>3
    <3> QED  BY <3>1, <3>4
  <2> HIDE DEF at
  <2>7. PICK moves : moves = Moves2d(out + a, d, a, d, n, h)
    OBVIOUS
  <2>8. moves = [w \in {out + v : v \in Cells(p)} |-> a + at(w)[1] + at(w)[2] * d]
    BY <2>1, <2>5, <2>7
  <2>9. ASSUME NEW w \in DOMAIN moves PROVE w \in Out /\ moves[w] = w - out
    <3>1. PICK v \in Cells(p) : w = out + v
      BY <2>8
    <3> QED  BY <1>7, <2>6, <2>8, <3>1
  <2> QED  BY <2>7, <2>8, <2>9 DEF Straight
<1>9. ASSUME h = 1
      PROVE  LET moves == Moves1d(out + a, a, n)
             IN  Straight(moves) /\ DOMAIN moves = {out + v : v \in Cells(p)}
  <2>1. Cells(p) = a .. a + n - 1
    <3>1. ASSUME NEW v \in Cells(p) PROVE v \in a .. a + n - 1
      <4>1. PICK x \in 0 .. n - 1, y \in 0 .. h - 1 : v = a + x + y * d
        BY <1>6
      <4>2. y = 0 /\ y * d = 0
        BY <1>9
      <4> QED  BY <4>1, <4>2
    <3>2. ASSUME NEW v \in a .. a + n - 1 PROVE v \in Cells(p)
      <4>1. v - a \in 0 .. n - 1 /\ 0 \in 0 .. h - 1 /\ v = a + (v - a) + 0 * d
        BY <1>9
      <4> QED  BY <1>6, <4>1
    <3> QED  BY <3>1, <3>2
  <2>2. a + n <= Size
    <3>1. a + n - 1 \in Cells(p)
      BY <2>1
    <3>2. a + n - 1 \in 0 .. Size - 1
      BY <3>1, <1>1, <1>2, <1>3, <1>4 DEF In
    <3> QED  BY <1>5, <3>2
  <2>3. /\ DOMAIN Moves1d(out + a, a, n) = out + a .. out + a + n - 1
        /\ Straight(Moves1d(out + a, a, n))
    BY <1>5, <2>2, Moves1dStraight
  <2>4. out + a .. out + a + n - 1 = {out + v : v \in Cells(p)}
    <3>1. \A w \in out + a .. out + a + n - 1 : w - out \in Cells(p) /\ w = out + (w - out)
      BY <1>5, <2>1
    <3>2. \A v \in Cells(p) : out + v \in out + a .. out + a + n - 1
      BY <1>5, <2>1
    <3> QED  BY <3>1, <3>2
  <2> QED  BY <2>3, <2>4
<1> QED  BY <1>1, <1>2, <1>3, <1>4, <1>8, <1>9

LEMMA LenOfFunction ==
  ASSUME NEW n \in Nat, NEW f, f = [i \in 1 .. n |-> f[i]]
  PROVE  Len(f) = n
<1>1. PICK S : S = {f[i] : i \in 1 .. n}
  OBVIOUS
<1>2. f \in [1 .. n -> S]
  BY <1>1
<1>3. f \in Seq(S)
  BY <1>2, SeqDef
<1>4. DOMAIN f = 1 .. Len(f) /\ Len(f) \in Nat
  BY <1>3, LenProperties
<1>5. DOMAIN f = 1 .. n
  OBVIOUS
<1>6. PICK l : l = Len(f)
  OBVIOUS
<1>7. l \in Nat /\ 1 .. l = 1 .. n
  BY <1>4, <1>5, <1>6
<1> QED  BY <1>6, <1>7

(* All transfers of a chain.                                               *)
LEMMA ChainFact ==
  ASSUME BuffersTypeOK, NEW moves \in ChainMoves
  PROVE  /\ DOMAIN moves = 1 .. Len(moves)
         /\ Len(moves) \in Nat /\ Len(moves) >= 2 /\ NUM_QDMAS + Len(moves) - 1 <= NumParams
         /\ \A i \in 1 .. Len(moves) : Straight(moves[i])
         /\ \A o \in Out : \E i \in 1 .. Len(moves) : o \in DOMAIN moves[i]
<1>1. PICK c \in Chains : moves = Transfers2d(c) \/ (Flat(c) /\ moves = Transfers1d(c))
  BY DEF ChainMoves
<1>2. /\ c \in Seq(Pieces) /\ Len(c) >= 2 /\ NUM_QDMAS + Len(c) - 1 <= NumParams
      /\ UNION {Cells(c[i]) : i \in DOMAIN c} = In /\ \A i \in DOMAIN c : c[i].nx < CountSpace
  BY BuffersAssumption
<1>3. DOMAIN c = 1 .. Len(c) /\ Len(c) \in Nat /\ \A i \in 1 .. Len(c) : c[i] \in Pieces
  <2>1. c \in Seq(Pieces)
    BY <1>2
  <2>2. DOMAIN c = 1 .. Len(c) /\ Len(c) \in Nat
    BY <2>1, LenProperties
  <2>3. \A i \in 1 .. Len(c) : c[i] \in Pieces
    BY <2>1, ElementOfSeq
  <2> QED  BY <2>2, <2>3
<1>4. PICK n : n = Len(c)
  OBVIOUS
<1>5. ASSUME NEW i \in 1 .. n
      PROVE  Straight(moves[i]) /\ DOMAIN moves[i] = {out + v : v \in Cells(c[i])}
  <2>1. /\ c[i] \in Pieces /\ Cells(c[i]) \subseteq In /\ c[i].nx < CountSpace
        /\ (Flat(c) => c[i].ny = 1)
    BY <1>2, <1>3, <1>4 DEF Flat
  <2>2. PICK p \in Pieces : p = c[i]
    BY <2>1
  <2>3. CASE moves = Transfers2d(c)
    <3>1. moves[i] = Moves2d(out + p.at, p.pitch, p.at, p.pitch, p.nx, p.ny)
      BY <1>3, <1>4, <2>2, <2>3 DEF Transfers2d
    <3> QED  BY <2>1, <2>2, <3>1, PieceMoves
  <2>4. CASE Flat(c) /\ moves = Transfers1d(c)
    <3>1. moves[i] = Moves1d(out + p.at, p.at, p.nx)
      BY <1>3, <1>4, <2>2, <2>4 DEF Transfers1d
    <3> QED  BY <2>1, <2>2, <2>4, <3>1, PieceMoves
  <2> QED  BY <1>1, <2>3, <2>4
<1>6. DOMAIN moves = 1 .. n /\ moves = [i \in 1 .. n |-> moves[i]]
  BY <1>1, <1>3, <1>4 DEF Transfers1d, Transfers2d
<1>7. Len(moves) = n
  BY <1>3, <1>4, <1>6, LenOfFunction
<1>8. ASSUME NEW o \in Out PROVE \E i \in 1 .. n : o \in DOMAIN moves[i]
  <2>1. o - out \in In /\ out + (o - out) = o
    BY BufferPlaces
  <2>2. PICK i \in DOMAIN c : o - out \in Cells(c[i])
    BY <1>2, <2>1
  <2> QED  BY <1>3, <1>4, <1>5, <2>1, <2>2
<1> QED  BY <1>2, <1>3, <1>4, <1>5, <1>6, <1>7, <1>8
-----------------------------------------------------------------------------
(* A program of the DSP, call by call.                                     *)
LEMMA Literal ==
  ASSUME NEW a, NEW b, NEW c
  PROVE  /\ Head(<<a>>) = a /\ Tail(<<a>>) = << >> /\ DOMAIN <<a>> = {1}
         /\ Head(<<a, b>>) = a /\ Tail(<<a, b>>) = <<b>> /\ DOMAIN <<a, b>> = {1, 2}
         /\ Head(<<a, b, c>>) = a /\ Tail(<<a, b, c>>) = <<b, c>>
         /\ DOMAIN <<a, b, c>> = {1, 2, 3} /\ DOMAIN << >> = {}
         /\ <<a>> # << >> /\ <<a, b>> # << >> /\ <<a, b, c>> # << >>
OBVIOUS

(* A program is its first call and the rest.                               *)
Started(c) == {q \in Channels : c.op \in {"copy", "link"} /\ c.q = q}
Waited(c) == {q \in Channels : c = Wait(q)}

Splits(s, c, t) ==
  /\ s # << >> /\ Head(s) = c /\ Tail(s) = t
  /\ Starts(s) = Started(c) \cup Starts(t) /\ Waits(s) = Waited(c) \cup Waits(t)
  /\ \A i \in DOMAIN s : s[i] = c \/ \E j \in DOMAIN t : s[i] = t[j]
  /\ \E i \in DOMAIN s : s[i] = c
  /\ \A j \in DOMAIN t : \E i \in DOMAIN s : s[i] = t[j]

LEMMA SplitsLiteral ==
  ASSUME NEW a, NEW b, NEW c
  PROVE  /\ Splits(<<a>>, a, << >>) /\ Splits(<<a, b>>, a, <<b>>)
         /\ Splits(<<a, b, c>>, a, <<b, c>>)
         /\ Starts(<< >>) = {} /\ Waits(<< >>) = {}
<1>1. Splits(<<a>>, a, << >>)
  <2> DEFINE s == <<a>>
  <2>1. DOMAIN s = {1} /\ s[1] = a /\ DOMAIN << >> = {} /\ s # << >> /\ Head(s) = a /\ Tail(s) = << >>
    BY Literal
  <2> HIDE DEF s
  <2> QED  BY <2>1 DEF Splits, Starts, Waits, Started, Waited, s
<1>2. Splits(<<a, b>>, a, <<b>>)
  <2> DEFINE s == <<a, b>>
             t == <<b>>
  <2>1. /\ DOMAIN s = {1, 2} /\ s[1] = a /\ s[2] = b /\ s # << >> /\ Head(s) = a /\ Tail(s) = t
        /\ DOMAIN t = {1} /\ t[1] = b
    BY Literal
  <2> HIDE DEF s, t
  <2>2. Splits(s, a, t)
    BY <2>1 DEF Splits, Starts, Waits, Started, Waited
  <2> QED  BY <2>2 DEF s, t
<1>3. Splits(<<a, b, c>>, a, <<b, c>>)
  <2> DEFINE s == <<a, b, c>>
             t == <<b, c>>
  <2>1. /\ DOMAIN s = {1, 2, 3} /\ s[1] = a /\ s[2] = b /\ s[3] = c
        /\ s # << >> /\ Head(s) = a /\ Tail(s) = t
        /\ DOMAIN t = {1, 2} /\ t[1] = b /\ t[2] = c
    BY Literal
  <2> HIDE DEF s, t
  <2>2. Splits(s, a, t)
    BY <2>1 DEF Splits, Starts, Waits, Started, Waited
  <2> QED  BY <2>2 DEF s, t
<1>4. Starts(<< >>) = {} /\ Waits(<< >>) = {}
  BY Literal DEF Starts, Waits
<1> QED  BY <1>1, <1>2, <1>3, <1>4

LEMMA Ops ==
  /\ Reset.op = "init" /\ Started(Reset) = {} /\ Waited(Reset) = {}
  /\ \A q \in Channels : \A m :
       /\ Copy(q, m).op = "copy" /\ Copy(q, m).q = q /\ Copy(q, m).moves = m
       /\ Started(Copy(q, m)) = {q} /\ Waited(Copy(q, m)) = {}
  /\ \A q \in Channels : \A i, l, m :
       /\ Link(q, i, l, m).op = "link" /\ Link(q, i, l, m).q = q /\ Link(q, i, l, m).i = i
       /\ Link(q, i, l, m).link = l /\ Link(q, i, l, m).moves = m
       /\ Started(Link(q, i, l, m)) = {q} /\ Waited(Link(q, i, l, m)) = {}
  /\ \A q \in Channels :
       /\ Wait(q).op = "wait" /\ Wait(q).q = q /\ Started(Wait(q)) = {} /\ Waited(Wait(q)) = {q}
<1>1. \A q : /\ Wait(q).op = "wait" /\ Wait(q).q = q
  BY DEF Wait
<1>2. \A q, m : Copy(q, m).op = "copy" /\ Copy(q, m).q = q /\ Copy(q, m).moves = m
  BY DEF Copy
<1>3. \A q, i, l, m :
        /\ Link(q, i, l, m).op = "link" /\ Link(q, i, l, m).q = q /\ Link(q, i, l, m).i = i
        /\ Link(q, i, l, m).link = l /\ Link(q, i, l, m).moves = m
  BY DEF Link
<1>4. Reset.op = "init"
  BY DEF Reset
<1>5. \A q, c : c.op # "wait" => c # Wait(q)
  BY <1>1
<1> QED  BY <1>1, <1>2, <1>3, <1>4, <1>5 DEF Started, Waited

LEMMA SplitsParts ==
  ASSUME NEW s, NEW c, NEW t, s # << >>, Head(s) = c, Tail(s) = t, 1 \in DOMAIN s, s[1] = c,
         \A i \in DOMAIN s : i = 1 \/ (i - 1 \in DOMAIN t /\ s[i] = t[i - 1]),
         \A j \in DOMAIN t : j + 1 \in DOMAIN s /\ s[j + 1] = t[j]
  PROVE  Splits(s, c, t)
<1>1. \A i \in DOMAIN s : s[i] = c \/ \E j \in DOMAIN t : s[i] = t[j]
  <2>1. ASSUME NEW i \in DOMAIN s PROVE s[i] = c \/ \E j \in DOMAIN t : s[i] = t[j]
    <3>1. CASE i = 1
      BY <3>1
    <3>2. CASE i # 1
      BY <3>2
    <3> QED  BY <3>1, <3>2
  <2> QED  BY <2>1
<1>2. \E i \in DOMAIN s : s[i] = c
  OBVIOUS
<1>3. \A j \in DOMAIN t : \E i \in DOMAIN s : s[i] = t[j]
  OBVIOUS
<1>4. Starts(s) = Started(c) \cup Starts(t)
  <2>1. ASSUME NEW q \in Starts(s) PROVE q \in Started(c) \cup Starts(t)
    <3>1. q \in Channels
      BY <2>1 DEF Starts
    <3>2. PICK i \in DOMAIN s : s[i].op \in {"copy", "link"} /\ s[i].q = q
      BY <2>1 DEF Starts
    <3>3. s[i] = c \/ \E j \in DOMAIN t : s[i] = t[j]
      BY <1>1
    <3> QED  BY <3>1, <3>2, <3>3 DEF Starts, Started
  <2>2. ASSUME NEW q \in Started(c) PROVE q \in Starts(s)
    <3>1. q \in Channels /\ c.op \in {"copy", "link"} /\ c.q = q
      BY <2>2 DEF Started
    <3> QED  BY <1>2, <3>1 DEF Starts
  <2>3. ASSUME NEW q \in Starts(t) PROVE q \in Starts(s)
    <3>1. q \in Channels
      BY <2>3 DEF Starts
    <3>2. PICK j \in DOMAIN t : t[j].op \in {"copy", "link"} /\ t[j].q = q
      BY <2>3 DEF Starts
    <3>3. PICK i \in DOMAIN s : s[i] = t[j]
      BY <1>3
    <3> QED  BY <3>1, <3>2, <3>3 DEF Starts
  <2> QED  BY <2>1, <2>2, <2>3
<1>5. Waits(s) = Waited(c) \cup Waits(t)
  BY <1>1, <1>2, <1>3 DEF Waits, Waited
<1> QED  BY <1>1, <1>2, <1>3, <1>4, <1>5 DEF Splits

LEMMA ConsSplits ==
  ASSUME NEW S, NEW t \in Seq(S), NEW a
  PROVE  Splits(<<a>> \o t, a, t)
<1>1. PICK T : T = S \cup {a}
  OBVIOUS
<1>2. PICK s : s = <<a>> \o t
  OBVIOUS
<1>3. <<a>> \in Seq(T) /\ Len(<<a>>) = 1 /\ <<a>>[1] = a
  BY <1>1
<1>4. t \in Seq(T)
  BY <1>1, SeqMonotonic
<1>5. PICK n \in Nat : n = Len(t)
  BY <1>4, LenProperties
<1>6. DOMAIN t = 1 .. n
  BY <1>4, <1>5, LenProperties
<1>7. /\ s \in Seq(T) /\ Len(s) = n + 1
      /\ \A i \in 1 .. n + 1 : s[i] = IF i <= 1 THEN a ELSE t[i - 1]
  <2>1. /\ <<a>> \o t \in Seq(T) /\ Len(<<a>> \o t) = Len(<<a>>) + Len(t)
        /\ \A i \in 1 .. Len(<<a>>) + Len(t) :
             (<<a>> \o t)[i] = IF i <= Len(<<a>>) THEN <<a>>[i] ELSE t[i - Len(<<a>>)]
    BY <1>3, <1>4, ConcatProperties
  <2>2. \A i \in 1 .. 1 + n : s[i] = IF i <= 1 THEN <<a>>[i] ELSE t[i - 1]
    BY <1>2, <1>3, <1>5, <2>1
  <2> QED  BY <1>2, <1>3, <1>5, <2>1, <2>2
<1>8. DOMAIN s = 1 .. n + 1 /\ s[1] = a /\ s # << >> /\ \A i \in 1 .. n : s[i + 1] = t[i]
  <2>1. DOMAIN s = 1 .. n + 1
    BY <1>7, LenProperties
  <2>2. s # << >>
    BY <1>5, <2>1, Literal
  <2> QED  BY <1>5, <1>7, <2>1, <2>2
<1>9. Head(s) = a
  BY <1>7, <1>8
<1>10. Tail(s) = t
  <2>1. /\ Tail(s) \in Seq(T) /\ Len(Tail(s)) = n
        /\ \A i \in 1 .. Len(Tail(s)) : Tail(s)[i] = s[i + 1]
    BY <1>5, <1>7, <1>8, HeadTailProperties
  <2>2. \A i \in 1 .. Len(Tail(s)) : Tail(s)[i] = t[i]
    BY <1>8, <2>1
  <2> QED  BY <1>4, <1>5, <2>1, <2>2, SeqEqual
<1>11. \A i \in DOMAIN s : i = 1 \/ (i - 1 \in DOMAIN t /\ s[i] = t[i - 1])
  BY <1>5, <1>6, <1>7, <1>8
<1>12. \A j \in DOMAIN t : j + 1 \in DOMAIN s /\ s[j + 1] = t[j]
  BY <1>5, <1>6, <1>8
<1>13. 1 \in DOMAIN s
  BY <1>5, <1>8
<1> QED  BY <1>2, <1>8, <1>9, <1>10, <1>11, <1>12, <1>13, SplitsParts

(* A chain, transfer by transfer.                                          *)
LEMMA LinkedFact ==
  ASSUME BuffersTypeOK, NEW moves \in ChainMoves, NEW i \in 0 .. Len(moves) - 1
  PROVE  LET c == Linked(moves, i)
         IN  /\ c.op = "link" /\ c.q = 1 /\ c.moves = moves[i + 1] /\ Straight(c.moves)
             /\ Started(c) = {1} /\ Waited(c) = {}
             /\ i = 0 => c.i = 1 /\ c.link = NUM_QDMAS + Len(moves) - 2 /\ c.link \in Sets
             /\ i # 0 => /\ c.i = NUM_QDMAS + i - 1 /\ c.i \in Sets
                         /\ c.link = IF i = 1 THEN NoLink ELSE c.i - 1
                         /\ i # 1 => c.link \in Sets
<1>1. PICK n \in Nat : n = Len(moves) /\ n >= 2 /\ NUM_QDMAS + n - 1 <= NumParams
  BY ChainFact
<1>2. /\ NUM_QDMAS \in Nat /\ NumParams \in Nat /\ 1 \in Channels
  BY BufferConsts
<1>3. i + 1 \in 1 .. n /\ Straight(moves[i + 1])
  BY <1>1, ChainFact
<1>4. CASE i = 0
  <2>1. Linked(moves, i) = Link(1, 1, NUM_QDMAS + n - 2, moves[i + 1])
    BY <1>1, <1>4 DEF Linked
  <2>2. NUM_QDMAS + n - 2 \in Sets
    BY <1>1, <1>2 DEF Sets
  <2> QED  BY <1>1, <1>2, <1>3, <1>4, <2>1, <2>2, Ops
<1>5. CASE i # 0
  <2>1. PICK l : l = IF i = 1 THEN NoLink ELSE NUM_QDMAS + i - 2
    OBVIOUS
  <2>2. Linked(moves, i) = Link(1, NUM_QDMAS + i - 1, l, moves[i + 1])
    BY <1>5, <2>1 DEF Linked
  <2>3. NUM_QDMAS + i - 1 \in Sets /\ (i # 1 => l = (NUM_QDMAS + i - 1) - 1 /\ l \in Sets)
    BY <1>1, <1>2, <1>5, <2>1 DEF Sets
  <2> QED  BY <1>2, <1>3, <1>5, <2>1, <2>2, <2>3, Ops
<1> QED  BY <1>4, <1>5

LEMMA LinkedFromFact ==
  ASSUME BuffersTypeOK, NEW moves \in ChainMoves, NEW m \in -1 .. Len(moves) - 1
  PROVE  LET s == LinkedFrom(moves, m)
         IN  /\ s \in Seq({Linked(moves, i) : i \in 0 .. Len(moves) - 1} \cup {Wait(1)})
             /\ Len(s) = m + 2 /\ DOMAIN s = 1 .. m + 2 /\ s # << >>
             /\ s[m + 2] = Wait(1) /\ \A k \in 1 .. m + 1 : s[k] = Linked(moves, m + 1 - k)
<1>1. PICK n \in Nat : n = Len(moves) /\ n >= 2
  BY ChainFact
<1>2. PICK S : S = {Linked(moves, i) : i \in 0 .. n - 1} \cup {Wait(1)}
  OBVIOUS
<1>3. PICK s : s = LinkedFrom(moves, m)
  OBVIOUS
<1>4. m + 2 \in Nat /\ m + 2 >= 1
  BY <1>1
<1>5. s = [k \in 1 .. m + 2 |-> IF k = m + 2 THEN Wait(1) ELSE Linked(moves, m + 1 - k)]
  BY <1>3 DEF LinkedFrom
<1>6. s[m + 2] = Wait(1) /\ \A k \in 1 .. m + 1 : s[k] = Linked(moves, m + 1 - k)
  BY <1>1, <1>4, <1>5
<1>7. \A k \in 1 .. m + 1 : m + 1 - k \in 0 .. n - 1
  BY <1>1
<1>8. s \in [1 .. m + 2 -> S]
  <2>1. ASSUME NEW k \in 1 .. m + 2 PROVE s[k] \in S
    <3>1. k = m + 2 \/ k \in 1 .. m + 1
      BY <1>1
    <3> QED  BY <1>2, <1>6, <1>7, <3>1
  <2> QED  BY <1>5, <2>1
<1>9. s \in Seq(S)
  BY <1>4, <1>8, SeqDef
<1>10. Len(s) = m + 2 /\ DOMAIN s = 1 .. m + 2
  <2>1. DOMAIN s = 1 .. Len(s) /\ Len(s) \in Nat
    BY <1>9, LenProperties
  <2>2. DOMAIN s = 1 .. m + 2
    BY <1>5
  <2>3. \A k \in Nat : 1 .. k = 1 .. m + 2 => k = m + 2
    <3>1. ASSUME NEW k \in Nat, 1 .. k = 1 .. m + 2 PROVE k = m + 2
      <4>1. m + 2 \in 1 .. k
        BY <1>4, <3>1
      <4>2. k >= 1 => k \in 1 .. m + 2
        BY <3>1
      <4> QED  BY <1>4, <3>1, <4>1, <4>2
    <3> QED  BY <3>1
  <2>4. 1 .. Len(s) = 1 .. m + 2
    BY <2>1, <2>2, Zenon
  <2>5. PICK l : l = Len(s)
    OBVIOUS
  <2>6. l \in Nat /\ 1 .. l = 1 .. m + 2
    BY <2>1, <2>4, <2>5, Zenon
  <2>7. l = m + 2
    BY <2>3, <2>6, Zenon
  <2> QED  BY <2>2, <2>5, <2>7
<1>11. s # << >>
  BY <1>4, <1>10, Literal
<1> QED  BY <1>1, <1>2, <1>3, <1>6, <1>9, <1>10, <1>11

LEMMA LinkedLast ==
  ASSUME BuffersTypeOK, NEW moves \in ChainMoves
  PROVE  LinkedFrom(moves, -1) = <<Wait(1)>>
<1>1. LinkedFrom(moves, -1) = [k \in 1 .. 1 |-> Wait(1)]
  BY DEF LinkedFrom
<1> QED  BY <1>1

LEMMA LinkedSplits ==
  ASSUME BuffersTypeOK, NEW moves \in ChainMoves, NEW m \in 0 .. Len(moves) - 1
  PROVE  /\ Splits(LinkedFrom(moves, m), Linked(moves, m), LinkedFrom(moves, m - 1))
         /\ Starts(LinkedFrom(moves, m)) = {1} /\ Waits(LinkedFrom(moves, m)) = {1}
         /\ Waits(LinkedFrom(moves, m - 1)) = {1}
         /\ Starts(LinkedFrom(moves, m - 1)) = IF m = 0 THEN {} ELSE {1}
<1>1. PICK n \in Nat : n = Len(moves) /\ n >= 2
  BY ChainFact
<1>2. PICK S : S = {Linked(moves, i) : i \in 0 .. n - 1} \cup {Wait(1)}
  OBVIOUS
<1>3. PICK s : s = LinkedFrom(moves, m)
  OBVIOUS
<1>4. PICK t : t = LinkedFrom(moves, m - 1)
  OBVIOUS
<1>5. m \in -1 .. n - 1 /\ m - 1 \in -1 .. n - 1
  BY <1>1
<1>6. /\ s \in Seq(S) /\ Len(s) = m + 2 /\ DOMAIN s = 1 .. m + 2 /\ s # << >>
      /\ s[m + 2] = Wait(1) /\ \A k \in 1 .. m + 1 : s[k] = Linked(moves, m + 1 - k)
  BY <1>1, <1>2, <1>3, <1>5, LinkedFromFact
<1>7. /\ t \in Seq(S) /\ Len(t) = m + 1 /\ DOMAIN t = 1 .. m + 1
      /\ t[m + 1] = Wait(1) /\ \A k \in 1 .. m : t[k] = Linked(moves, m - k)
  <2>1. PICK l \in -1 .. n - 1 : l = m - 1
    BY <1>5
  <2>2. /\ t \in Seq(S) /\ Len(t) = l + 2 /\ DOMAIN t = 1 .. l + 2
        /\ t[l + 2] = Wait(1) /\ \A k \in 1 .. l + 1 : t[k] = Linked(moves, l + 1 - k)
    BY <1>1, <1>2, <1>4, <2>1, LinkedFromFact
  <2>3. l + 2 = m + 1 /\ l + 1 = m
    BY <1>1, <2>1
  <2> QED  BY <2>2, <2>3
<1>8. Head(s) = s[1] /\ s[1] = Linked(moves, m)
  <2>1. 1 \in 1 .. m + 1 /\ m + 1 - 1 = m
    BY <1>1
  <2> QED  BY <1>6, <2>1
<1>9. \A j \in 1 .. m + 1 : s[j + 1] = t[j]
  <2>1. ASSUME NEW j \in 1 .. m + 1 PROVE s[j + 1] = t[j]
    <3>1. CASE j = m + 1
      BY <1>1, <1>6, <1>7, <3>1
    <3>2. CASE j # m + 1
      <4>1. j \in 1 .. m /\ j + 1 \in 1 .. m + 1 /\ m + 1 - (j + 1) = m - j
        BY <1>1, <3>2
      <4> QED  BY <1>6, <1>7, <4>1
    <3> QED  BY <3>1, <3>2
  <2> QED  BY <2>1
<1>10. Tail(s) = t
  <2>1. /\ Tail(s) \in Seq(S) /\ Len(Tail(s)) = Len(s) - 1
        /\ \A i \in 1 .. Len(Tail(s)) : Tail(s)[i] = s[i + 1]
    BY <1>6, HeadTailProperties
  <2>2. Len(Tail(s)) = m + 1
    BY <1>1, <1>6, <2>1
  <2>3. \A i \in 1 .. Len(Tail(s)) : Tail(s)[i] = t[i]
    BY <1>9, <2>1, <2>2
  <2> QED  BY <1>7, <2>1, <2>2, <2>3, SeqEqual
<1>11. \A i \in DOMAIN s : i = 1 \/ (i - 1 \in DOMAIN t /\ s[i] = t[i - 1])
  <2>1. ASSUME NEW i \in 1 .. m + 2, i # 1 PROVE i - 1 \in 1 .. m + 1 /\ s[i] = t[i - 1]
    <3>1. i - 1 \in 1 .. m + 1 /\ (i - 1) + 1 = i
      BY <1>1, <2>1
    <3> QED  BY <1>9, <3>1
  <2> QED  BY <1>6, <1>7, <2>1
<1>12. \A j \in DOMAIN t : j + 1 \in DOMAIN s /\ s[j + 1] = t[j]
  BY <1>1, <1>6, <1>7, <1>9
<1>13. 1 \in DOMAIN s
  BY <1>1, <1>6
<1>14. Splits(s, Linked(moves, m), t)
  BY <1>6, <1>8, <1>10, <1>11, <1>12, <1>13, SplitsParts
<1>15. 1 \in Channels /\ Wait(1).op = "wait" /\ \A q \in Channels : Wait(1) = Wait(q) => q = 1
  <2>1. 1 \in Channels
    BY BufferConsts
  <2> QED  BY <2>1, Ops
<1>16. \A i \in 0 .. n - 1 : /\ Linked(moves, i).op = "link" /\ Linked(moves, i).q = 1
                             /\ \A q \in Channels : Linked(moves, i) # Wait(q)
  BY <1>1, LinkedFact DEF Waited
<1>17. Waits(t) = {1} /\ Starts(t) = IF m = 0 THEN {} ELSE {1}
  <2>1. \A k \in 1 .. m : m - k \in 0 .. n - 1
    BY <1>1
  <2>2. \A k \in DOMAIN t : k = m + 1 \/ k \in 1 .. m
    BY <1>1, <1>7
  <2>3. m + 1 \in DOMAIN t /\ (m # 0 => 1 \in DOMAIN t /\ 1 \in 1 .. m) /\ (m = 0 => 1 .. m = {})
    <3>1. PICK d : d = DOMAIN t
      OBVIOUS
    <3>2. m \in Nat /\ d = 1 .. m + 1
      BY <1>1, <1>7, <3>1
    <3>3. m + 1 \in d /\ (m # 0 => 1 \in d /\ 1 \in 1 .. m) /\ (m = 0 => 1 .. m = {})
      BY <3>2
    <3> QED  BY <3>1, <3>3
  <2>4. Waits(t) = {1}
    <3>1. 1 \in Waits(t)
      BY <1>7, <1>15, <2>3 DEF Waits
    <3>2. ASSUME NEW q \in Waits(t) PROVE q = 1
      <4>1. q \in Channels
        BY <3>2 DEF Waits
      <4>2. PICK k \in DOMAIN t : t[k] = Wait(q)
        BY <3>2 DEF Waits
      <4>3. k = m + 1
        BY <1>7, <1>16, <2>1, <2>2, <4>1, <4>2
      <4> QED  BY <1>7, <1>15, <4>1, <4>2, <4>3
    <3> QED  BY <3>1, <3>2
  <2>5. ASSUME NEW q \in Starts(t) PROVE q = 1 /\ m # 0
    <3>1. PICK k \in DOMAIN t : t[k].op \in {"copy", "link"} /\ t[k].q = q
      BY <2>5 DEF Starts
    <3>2. k # m + 1
      BY <1>7, <1>15, <3>1
    <3>3. k \in 1 .. m
      BY <2>2, <3>2
    <3>4. t[k] = Linked(moves, m - k) /\ m - k \in 0 .. n - 1
      BY <1>7, <2>1, <3>3
    <3>5. t[k].q = 1
      BY <1>16, <3>4
    <3> QED  BY <2>3, <3>1, <3>3, <3>5
  <2>6. ASSUME m # 0 PROVE 1 \in Starts(t)
    <3>1. 1 \in DOMAIN t /\ 1 \in 1 .. m
      BY <2>3, <2>6
    <3>2. t[1] = Linked(moves, m - 1) /\ m - 1 \in 0 .. n - 1
      BY <1>7, <2>1, <3>1
    <3>3. t[1].op = "link" /\ t[1].q = 1
      BY <1>16, <3>2
    <3> QED  BY <1>15, <3>1, <3>3 DEF Starts
  <2>7. Starts(t) = IF m = 0 THEN {} ELSE {1}
    <3>1. CASE m = 0
      BY <2>5, <3>1
    <3>2. CASE m # 0
      BY <2>5, <2>6, <3>2
    <3> QED  BY <3>1, <3>2
  <2> QED  BY <2>4, <2>7
<1>18. Started(Linked(moves, m)) = {1} /\ Waited(Linked(moves, m)) = {}
  BY LinkedFact
<1> QED  BY <1>3, <1>4, <1>14, <1>17, <1>18 DEF Splits

(* What a program does next, and what that leaves.                         *)
NextCall(c, t) ==
  \/ c.op = "init" /\ Waits(t) \subseteq Starts(t)
  \/ /\ c.op = "copy" /\ c.q \in Channels /\ Straight(c.moves)
     /\ c.q \in Waits(t) \ Starts(t) /\ Waits(t) = {c.q}
  \/ /\ c.op = "link" /\ c.q = 1 /\ Straight(c.moves) /\ Waits(t) = {1}
     /\ (c.i \in Sets /\ Starts(t) = {1}) \/ (c.i = 1 /\ Starts(t) = {})
  \/ c.op = "wait" /\ c.q \in Channels /\ Waited(c) = {c.q} /\ Starts(t) = {}

(* The calls for a chain, all of them.                                     *)
IsChain(t) == \E moves \in ChainMoves : t = LinkedFrom(moves, Len(moves) - 1)

LEMMA ProgFact ==
  ASSUME BuffersTypeOK, IsSuffix(prog), prog # << >>
  PROVE  LET c == Head(prog)
             t == Tail(prog)
         IN  /\ Splits(prog, c, t) /\ NextCall(c, t) /\ IsSuffix(t)
             /\ t # << >> /\ Head(t).op = "link" => c.op = "link" \/ (c.op = "init" /\ IsChain(t))
<1> DEFINE all == Moves1d(out, 0, Size)
           cells == Moves2d(out, 1, 0, 1, 1, Size)
           C1 == Copy(0, all)
           C2 == Copy(0, cells)
           W0 == Wait(0)
           W1 == Wait(1)
           Good(s, c, t) ==
             /\ Splits(s, c, t) /\ NextCall(c, t) /\ IsSuffix(t)
             /\ t # << >> /\ Head(t).op = "link" => c.op = "link" \/ (c.op = "init" /\ IsChain(t))
<1>1. 0 \in Channels /\ 1 \in Channels
  BY BufferConsts
<1>2. Straight(all) /\ Straight(cells)
  BY CommandMoves, Moves2dStraight
<1>3. Plain = {<< >>, <<Reset, C1, W0>>, <<Reset, C2, W0>>, <<C1, W0>>, <<C2, W0>>, <<W0>>, <<W1>>}
  BY DEF Plain, loc_copy1d, loc_copy2d
<1>4. /\ C1.op = "copy" /\ C1.q = 0 /\ C1.moves = all /\ Started(C1) = {0} /\ Waited(C1) = {}
      /\ C2.op = "copy" /\ C2.q = 0 /\ C2.moves = cells /\ Started(C2) = {0} /\ Waited(C2) = {}
      /\ W0.op = "wait" /\ W0.q = 0 /\ Started(W0) = {} /\ Waited(W0) = {0}
      /\ W1.op = "wait" /\ W1.q = 1 /\ Started(W1) = {} /\ Waited(W1) = {1}
      /\ Reset.op = "init" /\ Started(Reset) = {} /\ Waited(Reset) = {}
  BY <1>1, Ops
<1> HIDE DEF all, cells, C1, C2, W0, W1
<1>5. /\ Splits(<<W0>>, W0, << >>) /\ Splits(<<W1>>, W1, << >>)
      /\ Splits(<<C1, W0>>, C1, <<W0>>) /\ Splits(<<C2, W0>>, C2, <<W0>>)
      /\ Splits(<<Reset, C1, W0>>, Reset, <<C1, W0>>)
      /\ Splits(<<Reset, C2, W0>>, Reset, <<C2, W0>>)
      /\ Starts(<< >>) = {} /\ Waits(<< >>) = {}
  BY SplitsLiteral
<1>6. /\ Starts(<<W0>>) = {} /\ Waits(<<W0>>) = {0} /\ Head(<<W0>>) = W0
      /\ Starts(<<W1>>) = {} /\ Waits(<<W1>>) = {1} /\ Head(<<W1>>) = W1
  BY <1>4, <1>5 DEF Splits
<1>7. /\ Starts(<<C1, W0>>) = {0} /\ Waits(<<C1, W0>>) = {0} /\ Head(<<C1, W0>>) = C1
      /\ Starts(<<C2, W0>>) = {0} /\ Waits(<<C2, W0>>) = {0} /\ Head(<<C2, W0>>) = C2
  BY <1>4, <1>5, <1>6 DEF Splits
<1>8. /\ NextCall(W0, << >>) /\ NextCall(W1, << >>)
      /\ NextCall(C1, <<W0>>) /\ NextCall(C2, <<W0>>)
      /\ NextCall(Reset, <<C1, W0>>) /\ NextCall(Reset, <<C2, W0>>)
  BY <1>1, <1>2, <1>4, <1>5, <1>6, <1>7 DEF NextCall
<1>9. /\ IsSuffix(<< >>) /\ IsSuffix(<<W0>>) /\ IsSuffix(<<C1, W0>>) /\ IsSuffix(<<C2, W0>>)
      /\ IsSuffix(<<W1>>)
  BY <1>3 DEF IsSuffix
<1>10. W0.op # "link" /\ W1.op # "link" /\ C1.op # "link" /\ C2.op # "link"
  BY <1>4
<1> HIDE DEF Good
<1>11. /\ Good(<<W0>>, W0, << >>) /\ Good(<<W1>>, W1, << >>)
       /\ Good(<<C1, W0>>, C1, <<W0>>) /\ Good(<<C2, W0>>, C2, <<W0>>)
       /\ Good(<<Reset, C1, W0>>, Reset, <<C1, W0>>)
       /\ Good(<<Reset, C2, W0>>, Reset, <<C2, W0>>)
  BY <1>5, <1>6, <1>7, <1>8, <1>9, <1>10 DEF Good
<1>12. ASSUME IsWhole(prog) PROVE \E c, t : Good(prog, c, t)
  <2>1. PICK moves \in ChainMoves : prog = <<Reset>> \o LinkedFrom(moves, Len(moves) - 1)
    BY <1>12 DEF IsWhole
  <2>2. PICK m : m = Len(moves) - 1
    OBVIOUS
  <2>3. m \in 0 .. Len(moves) - 1 /\ m \in -1 .. Len(moves) - 1
    BY <2>2, ChainFact
  <2>4. PICK t : t = LinkedFrom(moves, m)
    OBVIOUS
  <2>5. t \in Seq({Linked(moves, i) : i \in 0 .. Len(moves) - 1} \cup {Wait(1)})
    BY <2>3, <2>4, LinkedFromFact
  <2>6. Splits(prog, Reset, t)
    BY <2>1, <2>2, <2>4, <2>5, ConsSplits
  <2>7. NextCall(Reset, t)
    BY <1>4, <2>3, <2>4, LinkedSplits DEF NextCall
  <2>8. IsSuffix(t) /\ IsChain(t)
    BY <2>2, <2>3, <2>4 DEF IsSuffix, IsRest, IsChain
  <2>9. Good(prog, Reset, t)
    BY <1>4, <2>6, <2>7, <2>8 DEF Good
  <2> QED  BY <2>9
<1>13. ASSUME IsRest(prog) PROVE \E c, t : Good(prog, c, t)
  <2>1. PICK moves \in ChainMoves : \E m \in 0 .. Len(moves) - 1 : prog = LinkedFrom(moves, m)
    BY <1>13 DEF IsRest
  <2>2. PICK m \in 0 .. Len(moves) - 1 : prog = LinkedFrom(moves, m)
    BY <2>1
  <2>3. PICK t : t = LinkedFrom(moves, m - 1)
    OBVIOUS
  <2>4. PICK c : c = Linked(moves, m)
    OBVIOUS
  <2>5. /\ Splits(prog, c, t) /\ Waits(t) = {1} /\ Starts(t) = IF m = 0 THEN {} ELSE {1}
    BY <2>2, <2>3, <2>4, LinkedSplits
  <2>6. /\ c.op = "link" /\ c.q = 1 /\ Straight(c.moves)
        /\ m = 0 => c.i = 1
        /\ m # 0 => c.i \in Sets
    BY <2>4, LinkedFact
  <2>7. NextCall(c, t)
    BY <2>5, <2>6 DEF NextCall
  <2>8. IsSuffix(t)
    <3>1. CASE m = 0
      BY <1>9, <2>3, <3>1, LinkedLast DEF W1
    <3>2. CASE m # 0
      <4>1. m - 1 \in 0 .. Len(moves) - 1
        BY <3>2, ChainFact
      <4> QED  BY <2>3, <4>1 DEF IsSuffix, IsRest
    <3> QED  BY <3>1, <3>2
  <2>9. Good(prog, c, t)
    BY <2>5, <2>6, <2>7, <2>8 DEF Good
  <2> QED  BY <2>9
<1>14. PICK c, t : Good(prog, c, t)
  BY <1>3, <1>11, <1>12, <1>13 DEF IsSuffix
<1>15. c = Head(prog) /\ t = Tail(prog)
  BY <1>14 DEF Good, Splits
<1> QED  BY <1>14, <1>15 DEF Good
-----------------------------------------------------------------------------
(* The calls of the component.  In none of them anything is lost of what   *)
(* the DMA has still to write.                                             *)
Untouched == UNCHANGED <<type, data, state, mem, out, shared, stage, want, mine>>

LEMMA ExecParts ==
  ASSUME BInv, Exec
  PROVE  LET c == Head(prog)
             t == Tail(prog)
         IN  /\ prog # << >> /\ stage = "sent" /\ BuffersTypeOK /\ ParamsOK /\ Events /\ Linking
             /\ Splits(prog, c, t) /\ NextCall(c, t) /\ IsSuffix(t)
             /\ t # << >> /\ Head(t).op = "link" => c.op = "link" \/ (c.op = "init" /\ IsChain(t))
             /\ c.op # "wait" => Waited(c) = {}
             /\ prog' = t /\ Untouched
             /\ \/ c.op = "init" /\ qdma_init
                \/ c.op = "copy" /\ qdma_copy(c.q, c.moves)
                \/ c.op = "link" /\ qdma_link(c.q, c.i, c.link, c.moves)
                \/ c.op = "wait" /\ qdma_wait(c.q)
<1>1. /\ BuffersTypeOK /\ ParamsOK /\ Events /\ Linking /\ IsSuffix(prog)
      /\ prog # << >> /\ stage = "sent"
  BY DEF BInv, Dma, Exec
<1>2. Head(prog).op # "wait" => Waited(Head(prog)) = {}
  <2>1. \A q : Wait(q).op = "wait"
    BY DEF Wait
  <2> QED  BY <2>1 DEF Waited
<1>3. LET c == Head(prog)
          t == Tail(prog)
      IN  /\ Splits(prog, c, t) /\ NextCall(c, t) /\ IsSuffix(t)
          /\ t # << >> /\ Head(t).op = "link" => c.op = "link" \/ (c.op = "init" /\ IsChain(t))
  BY <1>1, ProgFact
<1>4. LET c == Head(prog)
      IN  /\ prog' = Tail(prog) /\ Untouched
          /\ \/ c.op = "init" /\ qdma_init
             \/ c.op = "copy" /\ qdma_copy(c.q, c.moves)
             \/ c.op = "link" /\ qdma_link(c.q, c.i, c.link, c.moves)
             \/ c.op = "wait" /\ qdma_wait(c.q)
  BY DEF Exec, Untouched, cache
<1> QED  BY <1>1, <1>2, <1>3, <1>4

(* What the commands and the chains are depends on the output alone.       *)
LEMMA SameOut ==
  ASSUME out' = out
  PROVE  Plain' = Plain /\ ChainMoves' = ChainMoves /\ Out' = Out
<1>1. Plain' = Plain
  BY DEF Plain, loc_copy1d, loc_copy2d
<1>2. ChainMoves' = ChainMoves
  BY DEF ChainMoves, Transfers1d, Transfers2d
<1> QED  BY <1>1, <1>2 DEF Out

(* What goes on after a transfer is in the sets that are no channel's.     *)
LEMMA SameSets ==
  ASSUME BuffersTypeOK, out' = out, \A i \in Sets : param'[i] = param[i]
  PROVE  /\ \A l \in Sets : LinkedDown(l)' <=> LinkedDown(l)
         /\ \A q \in Channels :
              param'[q] = param[q] /\ param[q].link \in Sets \cup {NoLink} /\ Signals(q) => Signals(q)'
         /\ \A m, l : Chain(m, l)' = Chain(m, l)
         /\ \A x : Writes(x)' = Writes(x)
         /\ \A moves \in ChainMoves : \A m \in 0 .. Len(moves) - 1 :
              Written(moves, m)' <=> Written(moves, m)
<1>1. \A l \in Sets : \A i \in NUM_QDMAS .. l : param'[i] = param[i]
  BY BufferConsts DEF Sets
<1>2. \A l \in Sets : LinkedDown(l)' <=> LinkedDown(l)
  BY <1>1 DEF LinkedDown
<1>3. \A m, l : Chain(m, l)' = Chain(m, l)
  <2>1. ASSUME NEW m, NEW l PROVE Chain(m, l)' = Chain(m, l)
    <3>1. CASE l \in Sets
      BY <1>1, <3>1, SameOut DEF Chain
    <3>2. CASE l \notin Sets
      BY <3>2 DEF Chain
    <3> QED  BY <3>1, <3>2
  <2> QED  BY <2>1
<1>4. \A x : Writes(x)' = Writes(x)
  BY <1>3 DEF Writes
<1>5. ASSUME NEW moves \in ChainMoves, NEW m \in 0 .. Len(moves) - 1
      PROVE  Written(moves, m)' <=> Written(moves, m)
  <2>1. \A i \in m + 1 .. Len(moves) - 1 : NUM_QDMAS + i - 1 \in Sets
    <3>1. PICK n \in Nat : n = Len(moves) /\ n >= 2 /\ NUM_QDMAS + n - 1 <= NumParams
      BY ChainFact
    <3> QED  BY <3>1, BufferConsts DEF Sets
  <2> QED  BY <2>1 DEF Written
<1>6. ASSUME NEW q \in Channels, param'[q] = param[q], param[q].link \in Sets \cup {NoLink}, Signals(q)
      PROVE  Signals(q)'
  <2>1. PICK l : l = param[q].link
    OBVIOUS
  <2>2. CASE l = NoLink
    BY <1>6, <2>1, <2>2 DEF Signals
  <2>3. CASE l # NoLink
    <3>1. l \in Sets /\ LinkedDown(l)'
      BY <1>2, <1>6, <2>1, <2>3 DEF Signals
    <3> QED  BY <1>6, <2>1, <2>3, <3>1 DEF Signals, LinkedDown
  <2> QED  BY <2>2, <2>3
<1> QED  BY <1>2, <1>3, <1>4, <1>5, <1>6

(* Nothing is queued, runs or is pending that is not waited for.           *)
LEMMA QuietChannel ==
  ASSUME Events, NEW q \in Channels, q \notin Waits(prog) \ Starts(prog)
  PROVE  ~ b_running[q] /\ q \notin IPR /\ ~ Queued(q) /\ \A k \in EventQueues : queue[k] # <<q>>
<1>1. ~ b_running[q] /\ q \notin IPR /\ \A k \in EventQueues : queue[k] # <<q>>
  BY DEF Events
<1>2. QueueNumbers[q] \in EventQueues
  BY DEF QueueNumbers, EventQueues
<1> QED  BY <1>1, <1>2 DEF Queued

LEMMA ExecInit ==
  ASSUME BInv, Exec, Head(prog).op = "init"
  PROVE  ParamsOK' /\ Events' /\ Linking' /\ \A o : Coming(o) => Coming(o)'
<1> DEFINE c == Head(prog)
           t == Tail(prog)
<1>1. /\ Splits(prog, c, t) /\ Waits(t) \subseteq Starts(t) /\ qdma_init /\ Waited(c) = {}
      /\ prog' = t /\ Untouched /\ BuffersTypeOK /\ ParamsOK /\ Events
      /\ t # << >> /\ Head(t).op = "link" => IsChain(t)
  BY ExecParts DEF NextCall
<1> HIDE DEF c, t
<1>2. \A q \in Channels : q \notin Waits(prog) \ Starts(prog)
  BY <1>1 DEF Splits
<1>3. \A q \in Channels : ~ b_running[q] /\ q \notin IPR /\ ~ Queued(q)
                         /\ \A k \in EventQueues : queue[k] # <<q>>
  BY <1>1, <1>2, QuietChannel
<1>4. UNCHANGED <<param, queue, out>> /\ (\A q \in Channels : ~ b_running'[q]) /\ IPR' \subseteq IPR
  BY <1>1 DEF qdma_init, Cleared, Untouched
<1>5. /\ \A l \in Sets : LinkedDown(l)' <=> LinkedDown(l)
      /\ \A x : Writes(x)' = Writes(x) /\ \A m, l : Chain(m, l)' = Chain(m, l)
  BY <1>1, <1>4, SameSets
<1>6. ParamsOK'
  BY <1>1, <1>4 DEF ParamsOK, Straight, Out
<1>7. Events'
  BY <1>1, <1>3, <1>4 DEF Events, Queued
<1>8. Linking'
  <2>1. ASSUME t # << >>, Head(t).op = "link"
        PROVE  \E moves \in ChainMoves : \E m \in 0 .. Len(moves) - 1 :
                 t = LinkedFrom(moves, m) /\ Written(moves, m)'
    <3>1. PICK moves \in ChainMoves : t = LinkedFrom(moves, Len(moves) - 1)
      BY <1>1, <2>1 DEF IsChain
    <3>2. PICK n \in Nat : n = Len(moves) /\ n >= 2
      BY <1>1, ChainFact
    <3>3. n - 1 \in 0 .. n - 1 /\ (n - 1) + 1 .. n - 1 = {}
      BY <3>2
    <3>4. Written(moves, n - 1)'
      BY <3>2, <3>3 DEF Written
    <3> QED  BY <3>1, <3>2, <3>3, <3>4
  <2> QED  BY <1>1, <1>4, <2>1, SameOut DEF Linking
<1>9. ASSUME NEW o, Coming(o) PROVE Coming(o)'
  <2>1. PICK i \in DOMAIN prog : o \in Writes(prog[i])
    BY <1>3, <1>9 DEF Coming
  <2>2. Writes(c) = {}
    BY DEF Writes, c
  <2>3. \E j \in DOMAIN t : o \in Writes(t[j])
    BY <1>1, <2>1, <2>2 DEF Splits
  <2> QED  BY <1>1, <1>5, <2>3 DEF Coming
<1> QED  BY <1>6, <1>7, <1>8, <1>9

(* A channel whose event queue is empty is started.                        *)
LEMMA Starting ==
  ASSUME BInv, Exec, NEW q \in Channels, q \in Starts(prog),
         \A r \in Waits(prog) : QueueNumbers[r] = QueueNumbers[q] => r = q
  PROVE  /\ queue[QueueNumbers[q]] = << >> /\ QueueNumbers[q] \in EventQueues
         /\ Triggered(q) = [queue EXCEPT ![QueueNumbers[q]] = <<q>>]
         /\ ~ b_running[q] /\ q \notin IPR /\ ~ Queued(q)
<1>1. Events /\ QDMAQNUM = QueueNumbers
  BY DEF BInv, Dma, BuffersTypeOK
<1>2. ~ b_running[q] /\ q \notin IPR /\ ~ Queued(q)
  BY <1>1, QuietChannel
<1>3. QueueNumbers[q] \in EventQueues
  BY DEF QueueNumbers, EventQueues
<1>4. ASSUME NEW r \in Channels, queue[QueueNumbers[q]] = <<r>> PROVE FALSE
  <2>1. QueueNumbers[q] = QueueNumbers[r] /\ b_running[r]
    BY <1>1, <1>3, <1>4 DEF Events
  <2>2. r \in Waits(prog)
    BY <1>1, <2>1 DEF Events
  <2> QED  BY <1>2, <2>1, <2>2
<1>5. queue[QueueNumbers[q]] = << >>
  BY <1>1, <1>3, <1>4 DEF Events
<1>6. Triggered(q) = [queue EXCEPT ![QueueNumbers[q]] = <<q>>]
  BY <1>1, <1>5 DEF Triggered
<1> QED  BY <1>2, <1>3, <1>5, <1>6

LEMMA ExecStart ==
  ASSUME BInv, Exec, NEW q \in Channels, Splits(prog, Head(prog), Tail(prog)),
         Waited(Head(prog)) = {}, Untouched,
         Started(Head(prog)) = {q}, q \in Waits(Tail(prog)) \ Starts(Tail(prog)),
         \A r \in Waits(Tail(prog)) : QueueNumbers[r] = QueueNumbers[q] => r = q,
         NEW p, Straight(p.moves), p.link \in Sets \cup {NoLink}, p.tcint \in BOOLEAN,
         p.tcint <=> p.link = NoLink, p.link \in Sets => LinkedDown(p.link),
         Writes(Head(prog)) = Chain(p.moves, p.link),
         param' = [param EXCEPT ![q] = p], queue' = Triggered(q),
         b_running' = [b_running EXCEPT ![q] = TRUE], IPR' = IPR, prog' = Tail(prog),
         Tail(prog) = << >> \/ Head(Tail(prog)).op # "link"
  PROVE  ParamsOK' /\ Events' /\ Linking' /\ \A o : Coming(o) => Coming(o)'
<1> DEFINE c == Head(prog)
           t == Tail(prog)
<1>1. /\ Starts(prog) = {q} \cup Starts(t) /\ Waits(prog) = Waits(t)
      /\ \A i \in DOMAIN prog : prog[i] = c \/ \E j \in DOMAIN t : prog[i] = t[j]
  BY DEF Splits
<1> HIDE DEF c, t
<1>2. /\ queue[QueueNumbers[q]] = << >> /\ QueueNumbers[q] \in EventQueues
      /\ queue' = [queue EXCEPT ![QueueNumbers[q]] = <<q>>]
      /\ ~ b_running[q] /\ q \notin IPR /\ ~ Queued(q)
  BY <1>1, Starting DEF t
<1>3. ParamsOK /\ Events /\ BuffersTypeOK
  BY DEF BInv, Dma
<1>4. q \in Params /\ q \notin Sets /\ NoLink \notin Sets /\ Sets \subseteq Params
  BY BufferConsts
<1>5. /\ param'[q] = p /\ \A i \in Params \ {q} : param'[i] = param[i]
      /\ param' = [i \in Params |-> param'[i]]
      /\ (\A i \in Sets : param'[i] = param[i]) /\ out' = out
  BY <1>3, <1>4 DEF ParamsOK, Untouched
<1>6. /\ \A l \in Sets : LinkedDown(l)' <=> LinkedDown(l)
      /\ \A r \in Channels :
           param'[r] = param[r] /\ param[r].link \in Sets \cup {NoLink} /\ Signals(r) => Signals(r)'
      /\ \A x : Writes(x)' = Writes(x) /\ \A m, l : Chain(m, l)' = Chain(m, l)
  BY <1>3, <1>5, SameSets
<1>7. /\ b_running'[q] /\ \A r \in Channels \ {q} : b_running'[r] = b_running[r]
      /\ queue'[QueueNumbers[q]] = <<q>>
      /\ \A k \in EventQueues \ {QueueNumbers[q]} : queue'[k] = queue[k]
      /\ queue' \in [EventQueues -> {<< >>} \cup {<<r>> : r \in Channels}]
      /\ \A r \in Channels : QueueNumbers[r] \in EventQueues
  BY <1>2, <1>3 DEF BuffersTypeOK, Events, QueueNumbers, EventQueues
<1>8. ParamsOK'
  <2>1. \A i \in Params : /\ param'[i].link \in Sets \cup {NoLink} /\ param'[i].tcint \in BOOLEAN
                          /\ param'[i].tcint => param'[i].link = NoLink
    BY <1>3, <1>5 DEF ParamsOK
  <2>2. ASSUME NEW i \in Params
        PROVE  /\ DOMAIN param'[i].moves \subseteq Out
               /\ \A w \in DOMAIN param'[i].moves : param'[i].moves[w] = w - out
    <3>1. CASE i = q
      BY <1>5, <3>1 DEF Straight
    <3>2. CASE i # q
      BY <1>3, <1>5, <3>2 DEF ParamsOK, Straight
    <3> QED  BY <3>1, <3>2
  <2>3. \A i \in Sets : param'[i].link \in Sets => param'[i].link = i - 1
    BY <1>3, <1>5 DEF ParamsOK
  <2>4. Out' = Out
    BY <1>5 DEF Out
  <2> QED  BY <1>5, <2>1, <2>2, <2>3, <2>4 DEF ParamsOK, Straight
<1>9. \A r \in Channels : /\ r # q => (Queued(r)' <=> Queued(r))
                          /\ Queued(q)' /\ (r # q /\ Queued(r)' => QueueNumbers[r] # QueueNumbers[q])
  <2>1. \A r \in Channels : r # q => <<r>> # <<q>> /\ <<r>> # << >>
    OBVIOUS
  <2> QED  BY <1>2, <1>7, <2>1 DEF Queued
<1>10. Events'
  <2>1. \A k \in EventQueues, r \in Channels : queue'[k] = <<r>> => k = QueueNumbers[r] /\ b_running'[r]
    <3>1. \A r \in Channels : <<r>> = <<q>> => r = q
      OBVIOUS
    <3> QED  BY <1>3, <1>7, <3>1 DEF Events
  <2>2. ASSUME NEW r \in Channels
        PROVE  /\ r \in IPR' => b_running'[r] /\ ~ Queued(r)'
               /\ b_running'[r] => /\ Queued(r)' \/ r \in IPR'
                                   /\ r \in Waits(t) \ Starts(t)
    BY <1>1, <1>2, <1>3, <1>7, <1>9 DEF Events, t
  <2>3. ASSUME NEW r \in Channels, Queued(r)'
        PROVE  Signals(r)'
    <3>1. CASE r = q
      <4>1. p.link # NoLink => LinkedDown(p.link)'
        BY <1>6
      <4> QED  BY <1>4, <1>5, <3>1, <4>1 DEF Signals, LinkedDown
    <3>2. CASE r # q
      <4>1. r \in Params /\ Queued(r)
        BY <1>9, <2>3, <3>2, BufferConsts
      <4>2. /\ param'[r] = param[r] /\ param[r].link \in Sets \cup {NoLink}
            /\ Signals(r)
        BY <1>3, <1>5, <3>2, <4>1 DEF Events, ParamsOK
      <4> QED  BY <1>6, <4>2
    <3> QED  BY <3>1, <3>2
  <2> QED  BY <1>7, <2>1, <2>2, <2>3, <1>5 DEF Events, t
<1>11. ASSUME NEW o, Coming(o) PROVE Coming(o)'
  <2>2. CASE \E r \in Channels : Queued(r) /\ o \in Chain(param[r].moves, param[r].link)
    <3>1. PICK r \in Channels : Queued(r) /\ o \in Chain(param[r].moves, param[r].link)
      BY <2>2
    <3>2. r # q /\ Queued(r)' /\ param'[r] = param[r]
      BY <1>2, <1>5, <1>9, <3>1, BufferConsts
    <3> QED  BY <1>6, <3>1, <3>2 DEF Coming
  <2>3. CASE \E i \in DOMAIN prog : o \in Writes(prog[i])
    <3>1. PICK i \in DOMAIN prog : o \in Writes(prog[i])
      BY <2>3
    <3>2. CASE prog[i] = c
      BY <1>5, <1>6, <1>9, <3>1, <3>2 DEF Coming, c
    <3>3. CASE \E j \in DOMAIN t : prog[i] = t[j]
      BY <1>6, <3>1, <3>3 DEF Coming, t
    <3> QED  BY <1>1, <3>1, <3>2, <3>3
  <2> QED  BY <1>11, <2>2, <2>3 DEF Coming
<1>12. Linking'
  BY DEF Linking
<1> QED  BY <1>8, <1>10, <1>11, <1>12

LEMMA ExecCopy ==
  ASSUME BInv, Exec, Head(prog).op = "copy"
  PROVE  ParamsOK' /\ Events' /\ Linking' /\ \A o : Coming(o) => Coming(o)'
<1>1. PICK c : c = Head(prog)
  OBVIOUS
<1>2. PICK q : q = c.q
  OBVIOUS
<1>3. /\ Splits(prog, c, Tail(prog)) /\ NextCall(c, Tail(prog)) /\ Waited(c) = {} /\ Untouched
      /\ qdma_copy(q, c.moves) /\ prog' = Tail(prog)
      /\ Tail(prog) = << >> \/ Head(Tail(prog)).op # "link"
  BY <1>1, <1>2, ExecParts
<1>4. /\ q \in Channels /\ Straight(c.moves) /\ q \in Waits(Tail(prog)) \ Starts(Tail(prog))
      /\ \A r \in Waits(Tail(prog)) : QueueNumbers[r] = QueueNumbers[q] => r = q
  BY <1>1, <1>2, <1>3 DEF NextCall
<1>5. PICK p : p = [moves |-> c.moves, link |-> NoLink, tcint |-> TRUE]
  OBVIOUS
<1>6. /\ p.moves = c.moves /\ p.link = NoLink /\ p.tcint = TRUE
      /\ NoLink \notin Sets
  BY <1>5, BufferConsts
<1>7. Started(c) = {q}
  BY <1>1, <1>2, <1>4 DEF Started
<1>8. Writes(c) = Chain(p.moves, p.link)
  BY <1>1, <1>6 DEF Writes, Chain
<1>9. /\ param' = [param EXCEPT ![q] = p] /\ queue' = Triggered(q)
      /\ b_running' = [b_running EXCEPT ![q] = TRUE] /\ IPR' = IPR
  BY <1>3, <1>5 DEF qdma_copy
<1> QED  BY <1>1, <1>3, <1>4, <1>6, <1>7, <1>8, <1>9, ExecStart

(* Where a chain has come to that the component writes.                    *)
LEMMA ExecLinking ==
  ASSUME BInv, Exec, Head(prog).op = "link"
  PROVE  \E moves \in ChainMoves : \E m \in 0 .. Len(moves) - 1 :
           /\ Head(prog) = Linked(moves, m) /\ Tail(prog) = LinkedFrom(moves, m - 1)
           /\ prog = LinkedFrom(moves, m) /\ Written(moves, m)
<1>1. prog # << >> /\ Linking /\ BuffersTypeOK
  BY ExecParts
<1>2. PICK moves \in ChainMoves :
        \E m \in 0 .. Len(moves) - 1 : prog = LinkedFrom(moves, m) /\ Written(moves, m)
  BY <1>1 DEF Linking
<1>3. PICK m \in 0 .. Len(moves) - 1 : prog = LinkedFrom(moves, m) /\ Written(moves, m)
  BY <1>2
<1>4. Splits(prog, Linked(moves, m), LinkedFrom(moves, m - 1))
  BY <1>1, <1>3, LinkedSplits
<1> QED  BY <1>3, <1>4 DEF Splits

(* The set of the channel: the chain starts, and it is whole.              *)
LEMMA ExecLinkFirst ==
  ASSUME BInv, Exec, Head(prog).op = "link", Head(prog).i \notin Sets
  PROVE  ParamsOK' /\ Events' /\ Linking' /\ \A o : Coming(o) => Coming(o)'
<1>1. PICK c : c = Head(prog)
  OBVIOUS
<1>2. PICK moves \in ChainMoves : \E m \in 0 .. Len(moves) - 1 :
        /\ c = Linked(moves, m) /\ Tail(prog) = LinkedFrom(moves, m - 1)
        /\ prog = LinkedFrom(moves, m) /\ Written(moves, m)
  BY <1>1, ExecLinking
<1>3. PICK m \in 0 .. Len(moves) - 1 :
        /\ c = Linked(moves, m) /\ Tail(prog) = LinkedFrom(moves, m - 1)
        /\ prog = LinkedFrom(moves, m) /\ Written(moves, m)
  BY <1>2
<1>4. /\ Splits(prog, c, Tail(prog)) /\ Waited(c) = {} /\ Untouched /\ BuffersTypeOK
      /\ qdma_link(c.q, c.i, c.link, c.moves) /\ prog' = Tail(prog)
      /\ b_running \in [Channels -> BOOLEAN]
  BY <1>1, ExecParts DEF BuffersTypeOK
<1>5. PICK n \in Nat : n = Len(moves) /\ n >= 2 /\ NUM_QDMAS + n - 1 <= NumParams
  BY <1>4, ChainFact
<1>6. m = 0
  BY <1>1, <1>3, <1>4, LinkedFact
<1>7. /\ c.op = "link" /\ c.q = 1 /\ c.i = 1 /\ c.moves = moves[1] /\ Straight(c.moves)
      /\ c.link = NUM_QDMAS + n - 2 /\ c.link \in Sets /\ Started(c) = {1}
  BY <1>3, <1>4, <1>5, <1>6, LinkedFact
<1>8. Tail(prog) = <<Wait(1)>> /\ Waits(Tail(prog)) = {1} /\ Starts(Tail(prog)) = {}
  <2>1. m - 1 = -1
    BY <1>6
  <2>2. Tail(prog) = <<Wait(1)>>
    BY <1>3, <1>4, <2>1, LinkedLast
  <2>3. /\ Waits(LinkedFrom(moves, m - 1)) = {1}
        /\ Starts(LinkedFrom(moves, m - 1)) = IF m = 0 THEN {} ELSE {1}
    BY <1>4, LinkedSplits
  <2> QED  BY <1>3, <1>6, <2>2, <2>3
<1>9. Head(Tail(prog)).op # "link"
  <2>1. Head(<<Wait(1)>>) = Wait(1)
    BY Literal
  <2>2. Wait(1).op = "wait"
    BY DEF Wait
  <2> QED  BY <1>8, <2>1, <2>2
<1>10. 1 \in Channels /\ NUM_QDMAS \in Nat /\ NoLink \notin Sets /\ 1 \notin Sets
  BY BufferConsts
<1>11. LinkedDown(c.link)
  <2>1. ASSUME NEW i \in NUM_QDMAS .. c.link
        PROVE  IF i = NUM_QDMAS THEN param[i].tcint ELSE param[i].link = i - 1
    <3>1. PICK k : k = i - NUM_QDMAS + 1
      OBVIOUS
    <3>2. k \in 1 .. n - 1 /\ NUM_QDMAS + k - 1 = i /\ (k = 1 <=> i = NUM_QDMAS)
      BY <1>5, <1>7, <1>10, <3>1
    <3>3. k \in m + 1 .. Len(moves) - 1
      BY <1>5, <1>6, <3>2
    <3>4. param[i].link = Linked(moves, k).link /\ param[i].tcint = (k = 1)
      BY <1>3, <3>2, <3>3 DEF Written
    <3>5. k \in 0 .. Len(moves) - 1 /\ k # 0
      BY <1>5, <3>2
    <3>6. Linked(moves, k).i = i /\ (k # 1 => Linked(moves, k).link = i - 1)
      BY <1>4, <3>2, <3>5, LinkedFact
    <3> QED  BY <3>2, <3>4, <3>6
  <2> QED  BY <2>1 DEF LinkedDown
<1>12. PICK p : p = [moves |-> c.moves, link |-> c.link, tcint |-> FALSE]
  OBVIOUS
<1>13. p.moves = c.moves /\ p.link = c.link /\ p.tcint = FALSE
  BY <1>12
<1>14. Writes(c) = Chain(p.moves, p.link)
  BY <1>7, <1>10, <1>13 DEF Writes
<1>15. /\ param' = [param EXCEPT ![1] = p] /\ queue' = Triggered(1)
       /\ b_running' = [b_running EXCEPT ![1] = TRUE] /\ IPR' = IPR
  BY <1>4, <1>7, <1>10, <1>12 DEF qdma_link, SignalsEnd
<1>16. /\ \A r \in Waits(Tail(prog)) : QueueNumbers[r] = QueueNumbers[1] => r = 1
       /\ 1 \in Waits(Tail(prog)) \ Starts(Tail(prog))
  BY <1>8
<1>17. /\ Straight(p.moves) /\ p.link \in Sets \cup {NoLink} /\ p.tcint \in BOOLEAN
       /\ (p.tcint <=> p.link = NoLink) /\ (p.link \in Sets => LinkedDown(p.link))
  BY <1>7, <1>10, <1>11, <1>13
<1> QED  BY <1>1, <1>4, <1>7, <1>9, <1>10, <1>14, <1>15, <1>16, <1>17, ExecStart

(* The sets of the other transfers.  With those that are written and those *)
(* that are still to come, the chain covers the output.                    *)
LEMMA ExecLinkSet ==
  ASSUME BInv, Exec, Head(prog).op = "link", Head(prog).i \in Sets
  PROVE  ParamsOK' /\ Events' /\ Linking' /\ \A o \in Out : Coming(o)'
<1>1. PICK c : c = Head(prog)
  OBVIOUS
<1>2. PICK t : t = Tail(prog)
  OBVIOUS
<1>3. PICK moves \in ChainMoves : \E m \in 0 .. Len(moves) - 1 :
        /\ c = Linked(moves, m) /\ t = LinkedFrom(moves, m - 1)
        /\ prog = LinkedFrom(moves, m) /\ Written(moves, m)
  BY <1>1, <1>2, ExecLinking
<1>4. PICK m \in 0 .. Len(moves) - 1 :
        /\ c = Linked(moves, m) /\ t = LinkedFrom(moves, m - 1)
        /\ prog = LinkedFrom(moves, m) /\ Written(moves, m)
  BY <1>3
<1>5. /\ Untouched /\ qdma_link(c.q, c.i, c.link, c.moves) /\ prog' = t
      /\ ParamsOK /\ Events /\ BuffersTypeOK
  BY <1>1, <1>2, ExecParts
<1>6. PICK n \in Nat : n = Len(moves) /\ n >= 2 /\ NUM_QDMAS + n - 1 <= NumParams
  BY <1>5, ChainFact
<1>7. /\ 1 \in Channels /\ NUM_QDMAS \in Nat /\ NoLink \notin Sets /\ 1 \notin Sets
      /\ Sets \subseteq Params /\ Channels \cap Sets = {}
  BY BufferConsts
<1>8. m # 0
  BY <1>1, <1>4, <1>5, <1>7, LinkedFact
<1>9. m \in 1 .. n - 1 /\ m - 1 \in 0 .. n - 1
  BY <1>6, <1>8
<1>10. PICK s : s = NUM_QDMAS + m - 1
  OBVIOUS
<1>11. /\ c.q = 1 /\ c.i = s /\ s \in Sets /\ c.moves = moves[m + 1] /\ Straight(c.moves)
       /\ c.link = IF m = 1 THEN NoLink ELSE s - 1
       /\ m # 1 => c.link \in Sets
  BY <1>4, <1>5, <1>8, <1>10, LinkedFact
<1>12. PICK p : p = [moves |-> c.moves, link |-> c.link, tcint |-> (c.link = NoLink)]
  OBVIOUS
<1>13. /\ p.moves = c.moves /\ p.link = c.link /\ p.tcint = (m = 1) /\ p.tcint \in BOOLEAN
       /\ p.tcint <=> p.link = NoLink
  BY <1>7, <1>11, <1>12
<1>14. /\ param' = [param EXCEPT ![s] = p] /\ queue' = queue /\ IPR' = IPR
       /\ b_running' = b_running /\ out' = out
  <2>1. s \notin Channels /\ s # 1 /\ b_running \in [Channels -> BOOLEAN]
    BY <1>5, <1>7, <1>11 DEF BuffersTypeOK
  <2> QED  BY <1>5, <1>7, <1>11, <1>12, <2>1 DEF qdma_link, SignalsEnd, Triggered, Untouched
<1>15. /\ param'[s] = p /\ \A i \in Params \ {s} : param'[i] = param[i]
       /\ param' = [i \in Params |-> param'[i]]
  BY <1>5, <1>7, <1>11, <1>14 DEF ParamsOK
<1>16. \A q \in Channels : ~ b_running[q] /\ q \notin IPR /\ ~ Queued(q)
                          /\ \A k \in EventQueues : queue[k] # <<q>>
  <2>1. \A q \in Channels : q \notin Waits(prog) \ Starts(prog)
    BY <1>4, <1>5, LinkedSplits
  <2> QED  BY <1>5, <2>1, QuietChannel
<1>17. ParamsOK'
  <2>1. Out' = Out
    BY <1>14 DEF Out
  <2>2. ASSUME NEW i \in Params
        PROVE  /\ DOMAIN param'[i].moves \subseteq Out
               /\ \A w \in DOMAIN param'[i].moves : param'[i].moves[w] = w - out
               /\ param'[i].link \in Sets \cup {NoLink} /\ param'[i].tcint \in BOOLEAN
               /\ param'[i].tcint => param'[i].link = NoLink
    <3>1. CASE i = s
      BY <1>11, <1>13, <1>15, <3>1 DEF Straight
    <3>2. CASE i # s
      BY <1>5, <1>15, <3>2 DEF ParamsOK, Straight
    <3> QED  BY <3>1, <3>2
  <2>3. ASSUME NEW i \in Sets, param'[i].link \in Sets PROVE param'[i].link = i - 1
    <3>1. CASE i = s
      BY <1>7, <1>11, <1>13, <1>15, <2>3, <3>1
    <3>2. CASE i # s
      BY <1>5, <1>7, <1>15, <2>3, <3>2 DEF ParamsOK
    <3> QED  BY <3>1, <3>2
  <2> QED  BY <1>14, <1>15, <2>1, <2>2, <2>3 DEF ParamsOK, Straight
<1>18. Events'
  BY <1>5, <1>14, <1>16 DEF Events, Queued
<1>19. Written(moves, m - 1)'
  <2>1. ASSUME NEW i \in (m - 1) + 1 .. Len(moves) - 1
        PROVE  LET set == param'[NUM_QDMAS + i - 1]
               IN  set.moves = moves[i + 1] /\ set.link = Linked(moves, i).link /\ set.tcint = (i = 1)
    <3>1. CASE i = m
      BY <1>4, <1>10, <1>11, <1>13, <1>15, <3>1
    <3>2. CASE i # m
      <4>1. i \in m + 1 .. n - 1 /\ NumParams \in Nat
        BY <1>6, <1>9, <2>1, <3>2, BufferConsts
      <4>3. i \in m + 1 .. Len(moves) - 1 /\ NUM_QDMAS + i - 1 \in Params \ {s}
        BY <1>6, <1>7, <1>9, <1>10, <4>1 DEF Params
      <4>2. param'[NUM_QDMAS + i - 1] = param[NUM_QDMAS + i - 1]
        BY <1>15, <4>3
      <4> QED  BY <1>4, <4>3, <4>2 DEF Written
    <3> QED  BY <3>1, <3>2
  <2> QED  BY <2>1 DEF Written
<1>20. Linking'
  BY <1>4, <1>5, <1>6, <1>9, <1>14, <1>19, SameOut DEF Linking
<1>21. ASSUME NEW o \in Out PROVE Coming(o)'
  <2>1. PICK j \in 1 .. n : o \in DOMAIN moves[j]
    BY <1>5, <1>6, ChainFact
  <2>2. /\ DOMAIN t = 1 .. m + 1
        /\ \A k \in 1 .. m : t[k] = Linked(moves, m - k)
    <3>1. PICK l \in -1 .. n - 1 : l = m - 1
      BY <1>9
    <3>2. /\ DOMAIN t = 1 .. l + 2
          /\ \A k \in 1 .. l + 1 : t[k] = Linked(moves, l + 1 - k)
      BY <1>4, <1>5, <1>6, <3>1, LinkedFromFact
    <3>3. l + 2 = m + 1 /\ l + 1 = m
      BY <1>9, <3>1
    <3> QED  BY <3>2, <3>3
  <2>3. CASE j <= m
    <3>1. m - j + 1 \in 1 .. m /\ m - (m - j + 1) = j - 1 /\ j - 1 \in 0 .. n - 1
          /\ m - j + 1 \in 1 .. m + 1
      BY <1>9, <2>1, <2>3
    <3>2. t[m - j + 1] = Linked(moves, j - 1)
      BY <2>2, <3>1
    <3>3. Linked(moves, j - 1).op = "link" /\ Linked(moves, j - 1).moves = moves[j]
      <4>1. (j - 1) + 1 = j
        BY <2>1
      <4> QED  BY <1>5, <1>6, <3>1, <4>1, LinkedFact
    <3>4. o \in Writes(t[m - j + 1])'
      BY <1>5, <2>1, <3>2, <3>3 DEF Writes, Chain
    <3> QED  BY <1>5, <2>2, <3>1, <3>4 DEF Coming
  <2>4. CASE j > m
    <3>1. j - 1 \in (m - 1) + 1 .. n - 1 /\ (j - 1) + 1 = j
      BY <1>9, <2>1, <2>4
    <3>2. param'[NUM_QDMAS + (j - 1) - 1].moves = moves[j]
      BY <1>6, <1>19, <3>1 DEF Written
    <3>3. t[m] = Linked(moves, 0) /\ m \in 1 .. m + 1 /\ 0 \in 0 .. n - 1
      BY <1>9, <2>2
    <3>4. /\ t[m].op = "link" /\ t[m].i = 1 /\ t[m].link = NUM_QDMAS + n - 2 /\ t[m].link \in Sets
      BY <1>5, <1>6, <3>3, LinkedFact
    <3>5. NUM_QDMAS + (j - 1) - 1 \in NUM_QDMAS .. NUM_QDMAS + n - 2
      BY <1>7, <1>9, <3>1
    <3>6. o \in Chain(t[m].moves, t[m].link)'
      BY <1>5, <1>14, <2>1, <3>2, <3>4, <3>5, SameOut DEF Chain
    <3>7. o \in Writes(t[m])'
      BY <1>7, <3>4, <3>6 DEF Writes
    <3> QED  BY <1>5, <2>2, <3>3, <3>7 DEF Coming
  <2> QED  BY <1>9, <2>1, <2>3, <2>4
<1> QED  BY <1>17, <1>18, <1>20, <1>21

LEMMA ExecWait ==
  ASSUME BInv, Exec, Head(prog).op = "wait"
  PROVE  ParamsOK' /\ Events' /\ Linking' /\ \A o : Coming(o) => Coming(o)'
<1>1. PICK c : c = Head(prog)
  OBVIOUS
<1>2. PICK t : t = Tail(prog)
  OBVIOUS
<1>3. PICK q : q = c.q
  OBVIOUS
<1>4. /\ Splits(prog, c, t) /\ NextCall(c, t) /\ Untouched /\ qdma_wait(q) /\ prog' = t
      /\ ParamsOK /\ Events /\ BuffersTypeOK /\ prog # << >>
      /\ t = << >> \/ Head(t).op # "link"
  BY <1>1, <1>2, <1>3, ExecParts
<1>5. c.op = "wait" /\ q \in Channels /\ Waited(c) = {q} /\ Starts(t) = {}
  BY <1>1, <1>3, <1>4 DEF NextCall
<1>6. ~ Queued(q)
  <2>1. Queued(q) => b_running[q]
    BY <1>4, <1>5 DEF Events, Queued, QueueNumbers, EventQueues
  <2>2. b_running[q] => q \in IPR
    BY <1>4 DEF qdma_wait
  <2> QED  BY <1>4, <1>5, <2>1, <2>2 DEF Events
<1>7. /\ b_running' = [b_running EXCEPT ![q] = FALSE] /\ UNCHANGED <<param, queue, out>>
      /\ IPR' = IPR \ {q}
  BY <1>4, <1>5 DEF qdma_wait, Cleared, Events, Untouched
<1>8. ~ b_running'[q] /\ \A r \in Channels \ {q} : b_running'[r] = b_running[r]
  BY <1>4, <1>5, <1>7 DEF BuffersTypeOK
<1>9. /\ \A r \in Channels :
           param'[r] = param[r] /\ param[r].link \in Sets \cup {NoLink} /\ Signals(r) => Signals(r)'
      /\ \A x : Writes(x)' = Writes(x) /\ \A m, l : Chain(m, l)' = Chain(m, l)
  BY <1>4, <1>7, SameSets
<1>10. ParamsOK'
  BY <1>4, <1>7 DEF ParamsOK, Straight, Out
<1>11. \A k \in EventQueues : queue[k] # <<q>>
  BY <1>4, <1>5, <1>6 DEF Events, Queued
<1>12. \A r \in Channels : r # q => (r \in Waits(prog) <=> r \in Waits(t))
  BY <1>4, <1>5 DEF Splits
<1>13. Events'
  <2>1. \A k \in EventQueues, r \in Channels : queue'[k] = <<r>> => k = QueueNumbers[r] /\ b_running'[r]
    BY <1>4, <1>7, <1>8, <1>11 DEF Events
  <2>2. ASSUME NEW r \in Channels
        PROVE  /\ r \in IPR' => b_running'[r] /\ ~ Queued(r)'
               /\ b_running'[r] => (Queued(r)' \/ r \in IPR') /\ r \in Waits(t) \ Starts(t)
               /\ Queued(r)' => Queued(r)
    BY <1>4, <1>5, <1>7, <1>8, <1>12 DEF Events, Queued
  <2>3. ASSUME NEW r \in Channels, Queued(r)
        PROVE  Signals(r)'
    <3>1. param'[r] = param[r] /\ param[r].link \in Sets \cup {NoLink} /\ Signals(r)
      BY <1>4, <1>7, <2>3, BufferConsts DEF Events, ParamsOK
    <3> QED  BY <1>9, <3>1
  <2> QED  BY <1>4, <1>7, <2>1, <2>2, <2>3 DEF Events
<1>14. ASSUME NEW o, Coming(o) PROVE Coming(o)'
  <2>1. Writes(c) = {}
    BY <1>5 DEF Writes
  <2>2. (\E i \in DOMAIN prog : o \in Writes(prog[i])) => \E j \in DOMAIN t : o \in Writes(t[j])
    BY <1>4, <2>1 DEF Splits
  <2> QED  BY <1>4, <1>7, <1>9, <1>14, <2>2 DEF Coming, Queued
<1>15. Linking'
  BY <1>4 DEF Linking
<1> QED  BY <1>10, <1>13, <1>14, <1>15

(* All calls.                                                              *)
LEMMA ExecDma ==
  ASSUME BInv, Exec
  PROVE  /\ Dma' /\ Untouched /\ stage = "sent"
         /\ b_running' \in [Channels -> BOOLEAN] /\ IPR' \subseteq Channels
         /\ QDMAQNUM' = QueueNumbers
         /\ \A o \in Out : Coming(o) => Coming(o)'
<1> DEFINE c == Head(prog)
<1>1. ParamsOK' /\ Events' /\ Linking' /\ \A o \in Out : Coming(o) => Coming(o)'
  <2>1. CASE c.op = "init"
    BY <2>1, ExecInit
  <2>2. CASE c.op = "copy"
    BY <2>2, ExecCopy
  <2>3. CASE c.op = "link" /\ c.i \notin Sets
    BY <2>3, ExecLinkFirst
  <2>4. CASE c.op = "link" /\ c.i \in Sets
    BY <2>4, ExecLinkSet
  <2>5. CASE c.op = "wait"
    BY <2>5, ExecWait
  <2> QED  BY <2>1, <2>2, <2>3, <2>4, <2>5, ExecParts
<1>2. Untouched /\ stage = "sent" /\ prog' = Tail(prog) /\ IsSuffix(Tail(prog))
  BY ExecParts
<1>3. IsSuffix(prog)'
  <2>1. Plain' = Plain /\ ChainMoves' = ChainMoves
    BY <1>2, SameOut DEF Untouched
  <2> QED  BY <1>2, <2>1 DEF IsSuffix, IsWhole, IsRest
<1>4. /\ b_running' \in [Channels -> BOOLEAN] /\ IPR' \subseteq Channels
      /\ QDMAQNUM' = QueueNumbers
  <2>1. BuffersTypeOK
    BY DEF BInv
  <2> QED  BY <2>1 DEF Exec, BuffersTypeOK, qdma_init, qdma_copy, qdma_link, qdma_wait, Cleared
<1> QED  BY <1>1, <1>2, <1>3, <1>4 DEF Dma, Untouched

(* A transfer writes words of the output as the input has them.            *)
LEMMA MoveDma ==
  ASSUME BInv, NEW k \in EventQueues, Move(k)
  PROVE  /\ Dma' /\ stage = "sent"
         /\ b_running' \in [Channels -> BOOLEAN] /\ IPR' \subseteq Channels
         /\ QDMAQNUM' = QueueNumbers
         /\ mem' = [w \in Words |-> mem'[w]] /\ \A w \in Words : mem'[w] \in Vals
         /\ \A w \in Words \ Out : mem'[w] = mem[w]
         /\ \A w \in In :
              \/ mem'[out + w] = mem[w]
              \/ mem'[out + w] = mem[out + w] /\ (Coming(out + w) => Coming(out + w)')
<1>1. /\ ParamsOK /\ Events /\ Linking /\ BuffersTypeOK /\ IsSuffix(prog)
      /\ (stage # "sent" => prog = << >>) /\ Transfer(k)
      /\ UNCHANGED <<type, state, data, out, stage, prog, want, mine, shared>>
  BY DEF BInv, Dma, Move, call
<1>2. PICK q \in Channels : queue[k] = <<q>>
  BY <1>1 DEF Transfer, Events
<1>3. /\ Head(queue[k]) = q /\ Tail(queue[k]) = << >> /\ Append(Tail(queue[k]), q) = <<q>>
      /\ k = QueueNumbers[q] /\ b_running[q] /\ Queued(q) /\ q \notin IPR
  BY <1>1, <1>2 DEF Events, Queued
<1>4. q \in Waits(prog)
  BY <1>1, <1>3 DEF Events
<1>5. stage = "sent"
  BY <1>1, <1>4, SplitsLiteral
<1>6. PICK p : p = param[q]
  OBVIOUS
<1>7. /\ q \in Params /\ q \notin Sets /\ NoLink \notin Sets /\ Sets \subseteq Params
      /\ NUM_QDMAS \in Nat /\ \A r \in Channels : r \notin Sets /\ r \in Params
  BY BufferConsts
<1>8. /\ Straight(p.moves) /\ p.link \in Sets \cup {NoLink} /\ (p.tcint => p.link = NoLink)
      /\ p.link = NoLink => p.tcint
      /\ p.link \in Sets => LinkedDown(p.link)
  <2>1. Signals(q)
    BY <1>1, <1>3 DEF Events
  <2> QED  BY <1>1, <1>6, <1>7, <2>1 DEF ParamsOK, Signals
<1>9. ASSUME p.link = NoLink
      PROVE  /\ ParamsOK' /\ Events' /\ Linking'
             /\ \A o : Coming(o) => Coming(o)' \/ o \in DOMAIN p.moves
  <2>1. /\ queue' = [queue EXCEPT ![k] = << >>] /\ param' = param /\ IPR' = IPR \cup {q}
        /\ UNCHANGED <<b_running, QDMAQNUM, out>>
    BY <1>1, <1>3, <1>6, <1>8, <1>9 DEF Transfer
  <2>2. queue'[k] = << >> /\ \A j \in EventQueues \ {k} : queue'[j] = queue[j]
    BY <1>1, <2>1 DEF Events
  <2>3. \A r \in Channels : Queued(r)' <=> (Queued(r) /\ r # q)
    <3>1. \A r \in Channels : QueueNumbers[r] \in EventQueues /\ <<r>> # << >>
                           /\ (<<q>> = <<r>> => q = r)
      BY DEF QueueNumbers, EventQueues
    <3> QED  BY <1>2, <1>3, <2>2, <3>1 DEF Queued
  <2>4. ParamsOK'
    BY <1>1, <2>1 DEF ParamsOK, Straight, Out
  <2>5. /\ \A r \in Channels : Signals(r) => Signals(r)'
        /\ \A x : Writes(x)' = Writes(x) /\ \A m, l : Chain(m, l)' = Chain(m, l)
    <3>1. \A r \in Channels : Signals(r) => Signals(r)'
      BY <2>1 DEF Signals, LinkedDown
    <3> QED  BY <1>1, <2>1, <3>1, SameSets
  <2>6. Events'
    BY <1>1, <1>3, <2>1, <2>2, <2>3, <2>5 DEF Events
  <2>7. \A o : Coming(o) => Coming(o)' \/ o \in DOMAIN p.moves
    <3>1. Chain(p.moves, p.link) = DOMAIN p.moves
      BY <1>7, <1>9 DEF Chain
    <3> QED  BY <1>1, <1>6, <2>1, <2>3, <2>5, <3>1 DEF Coming
  <2>8. Linking'
    BY <1>1, <2>1, SameOut DEF Linking, Written
  <2> QED  BY <2>4, <2>6, <2>7, <2>8
<1>10. ASSUME p.link \in Sets
       PROVE  /\ ParamsOK' /\ Events' /\ Linking'
              /\ \A o : Coming(o) => Coming(o)' \/ o \in DOMAIN p.moves
  <2>1. /\ queue' = [queue EXCEPT ![k] = <<q>>] /\ IPR' = IPR
        /\ param' = [param EXCEPT ![q] = param[p.link]]
        /\ UNCHANGED <<b_running, QDMAQNUM, out>>
    BY <1>1, <1>3, <1>6, <1>7, <1>8, <1>10 DEF Transfer
  <2>2. queue' = queue
    BY <1>1, <1>2, <2>1 DEF Events
  <2>3. /\ param'[q] = param[p.link] /\ \A i \in Params \ {q} : param'[i] = param[i]
        /\ param' = [i \in Params |-> param'[i]]
        /\ \A i \in Sets : param'[i] = param[i]
    BY <1>1, <1>7, <2>1 DEF ParamsOK
  <2>4. PICK s : s = param[p.link]
    OBVIOUS
  <2>5. /\ s.link \in Sets \cup {NoLink} /\ (s.tcint => s.link = NoLink)
        /\ s.link \in Sets => s.link = p.link - 1
        /\ p.link = NUM_QDMAS => s.link = NoLink /\ s.tcint
        /\ p.link # NUM_QDMAS => s.link = p.link - 1
    <3>1. p.link \in NUM_QDMAS .. p.link
      BY <1>10 DEF Sets
    <3>2. IF p.link = NUM_QDMAS THEN s.tcint ELSE s.link = p.link - 1
      BY <1>8, <1>10, <2>4, <3>1 DEF LinkedDown
    <3>3. /\ s.link \in Sets \cup {NoLink} /\ (s.tcint => s.link = NoLink)
          /\ s.link \in Sets => s.link = p.link - 1
      BY <1>1, <1>7, <1>10, <2>4 DEF ParamsOK
    <3> QED  BY <3>2, <3>3
  <2>6. s.link = NoLink => p.link = NUM_QDMAS
    <3>1. p.link # NUM_QDMAS => p.link - 1 # NoLink
      BY <1>10, BufferConsts DEF Sets, NoLink
    <3> QED  BY <2>5, <3>1
  <2>7. ParamsOK'
    <3>1. Out' = Out /\ out' = out
      BY <1>1 DEF Out
    <3>2. \A i \in Params : \E j \in Params : param'[i] = param[j]
      BY <1>7, <1>10, <2>3
    <3>3. ASSUME NEW i \in Params
          PROVE  /\ DOMAIN param'[i].moves \subseteq Out
                 /\ \A w \in DOMAIN param'[i].moves : param'[i].moves[w] = w - out
                 /\ param'[i].link \in Sets \cup {NoLink} /\ param'[i].tcint \in BOOLEAN
                 /\ param'[i].tcint => param'[i].link = NoLink
      BY <1>1, <3>2 DEF ParamsOK, Straight
    <3>4. \A i \in Sets : param'[i].link \in Sets => param'[i].link = i - 1
      BY <1>1, <1>7, <2>3 DEF ParamsOK
    <3> QED  BY <2>3, <3>1, <3>3, <3>4 DEF ParamsOK, Straight
  <2>8. /\ \A x : Writes(x)' = Writes(x) /\ \A m, l : Chain(m, l)' = Chain(m, l)
        /\ \A l \in Sets : LinkedDown(l)' <=> LinkedDown(l)
        /\ \A r \in Channels :
             param'[r] = param[r] /\ param[r].link \in Sets \cup {NoLink} /\ Signals(r) => Signals(r)'
        /\ \A moves \in ChainMoves : \A m \in 0 .. Len(moves) - 1 :
             Written(moves, m)' <=> Written(moves, m)
    BY <1>1, <2>1, <2>3, SameSets
  <2>9. ASSUME NEW r \in Channels, Queued(r) PROVE Signals(r)'
    <3>1. CASE r = q
      <4>1. CASE s.link = NoLink
        BY <2>3, <2>4, <2>5, <2>6, <3>1, <4>1 DEF Signals
      <4>2. CASE s.link # NoLink
        <5>1. s.link \in Sets /\ s.link = p.link - 1
          BY <2>5, <4>2
        <5>2. NUM_QDMAS .. s.link \subseteq NUM_QDMAS .. p.link
          BY <1>7, <1>10, <5>1 DEF Sets
        <5>3. LinkedDown(s.link)
          BY <1>8, <1>10, <5>2 DEF LinkedDown
        <5>4. LinkedDown(s.link)'
          BY <2>8, <5>1, <5>3
        <5> QED  BY <2>3, <2>4, <3>1, <4>2, <5>4 DEF Signals, LinkedDown
      <4> QED  BY <4>1, <4>2
    <3>2. CASE r # q
      <4>1. param'[r] = param[r] /\ param[r].link \in Sets \cup {NoLink} /\ Signals(r)
        BY <1>1, <1>7, <2>3, <2>9, <3>2 DEF Events, ParamsOK
      <4> QED  BY <2>8, <4>1
    <3> QED  BY <3>1, <3>2
  <2>10. Events'
    BY <1>1, <2>1, <2>2, <2>9 DEF Events, Queued
  <2>11. ASSUME NEW o, Coming(o) PROVE Coming(o)' \/ o \in DOMAIN p.moves
    <3>1. CASE \E r \in Channels : Queued(r) /\ o \in Chain(param[r].moves, param[r].link)
      <4>1. PICK r \in Channels : Queued(r) /\ o \in Chain(param[r].moves, param[r].link)
        BY <3>1
      <4>2. Queued(r)'
        BY <2>2, <4>1 DEF Queued
      <4>3. CASE r = q
        <5>1. o \in DOMAIN p.moves \/ \E i \in NUM_QDMAS .. p.link : o \in Out /\ o \in DOMAIN param[i].moves
          BY <1>6, <1>10, <4>1, <4>3 DEF Chain
        <5>2. ASSUME NEW i \in NUM_QDMAS .. p.link, o \in Out, o \in DOMAIN param[i].moves
              PROVE  o \in Chain(s.moves, s.link)
          <6>1. CASE i = p.link
            BY <2>4, <5>2, <6>1 DEF Chain
          <6>2. CASE i # p.link
            <7>1. p.link # NUM_QDMAS /\ i \in NUM_QDMAS .. p.link - 1
              BY <1>7, <1>10, <5>2, <6>2 DEF Sets
            <7>2. s.link = p.link - 1 /\ s.link \in Sets
              BY <1>10, <2>5, <2>6, <7>1
            <7> QED  BY <5>2, <7>1, <7>2 DEF Chain
          <6> QED  BY <6>1, <6>2
        <5>3. o \in DOMAIN p.moves \/ o \in Chain(s.moves, s.link)'
          BY <2>8, <5>1, <5>2
        <5> QED  BY <2>3, <2>4, <4>2, <4>3, <5>3 DEF Coming, Chain
      <4>4. CASE r # q
        <5>1. param'[r] = param[r]
          BY <1>7, <2>3, <4>4
        <5> QED  BY <2>8, <4>1, <4>2, <5>1 DEF Coming
      <4> QED  BY <4>3, <4>4
    <3>2. CASE \E i \in DOMAIN prog : o \in Writes(prog[i])
      BY <1>1, <2>8, <3>2 DEF Coming
    <3> QED  BY <2>11, <3>1, <3>2 DEF Coming
  <2>12. Linking'
    BY <1>1, <2>8, SameOut DEF Linking
  <2> QED  BY <2>7, <2>10, <2>11, <2>12
<1>11. /\ ParamsOK' /\ Events' /\ Linking'
       /\ \A o : Coming(o) => Coming(o)' \/ o \in DOMAIN p.moves
  BY <1>8, <1>9, <1>10
<1>12. /\ \A w \in Words : mem'[w] = IF w \in DOMAIN p.moves THEN mem[p.moves[w]] ELSE mem[w]
       /\ mem' = [w \in Words |-> mem'[w]]
  BY <1>3, <1>6 DEF Move
<1>13. \A w \in Words \ Out : mem'[w] = mem[w]
  BY <1>8, <1>12 DEF Straight
<1>14. ASSUME NEW w \in In
       PROVE  \/ mem'[out + w] = mem[w]
              \/ mem'[out + w] = mem[out + w] /\ (Coming(out + w) => Coming(out + w)')
  <2>1. out \in Nat /\ w \in Nat /\ out + w \in Words /\ (out + w) - out = w
    BY <1>1, BufferPlaces
  <2>2. CASE out + w \in DOMAIN p.moves
    <3>1. p.moves[out + w] = w
      BY <1>8, <2>1, <2>2 DEF Straight
    <3> QED  BY <1>12, <2>1, <2>2, <3>1
  <2>3. CASE out + w \notin DOMAIN p.moves
    <3>1. PICK o : o = out + w
      OBVIOUS
    <3>2. mem'[o] = mem[o]
      BY <1>12, <2>1, <2>3, <3>1
    <3>3. Coming(o) => Coming(o)'
      BY <1>11, <2>3, <3>1
    <3>4. out' = out
      BY <1>1
    <3> QED  BY <3>1, <3>2, <3>3, <3>4
  <2> QED  BY <2>2, <2>3
<1>17. \A w \in Words : mem'[w] \in Vals
  <2>1. \A w \in DOMAIN p.moves : p.moves[w] \in Words
    BY <1>1, <1>8, BufferPlaces DEF Straight
  <2> QED  BY <1>1, <1>12, <2>1 DEF BuffersTypeOK
<1>15. IsSuffix(prog)'
  <2>1. Plain' = Plain /\ ChainMoves' = ChainMoves
    BY <1>1, SameOut
  <2> QED  BY <1>1, <2>1 DEF IsSuffix, IsWhole, IsRest
<1>16. /\ b_running' \in [Channels -> BOOLEAN] /\ IPR' \subseteq Channels
       /\ QDMAQNUM' = QueueNumbers
  BY <1>1, <1>3 DEF Transfer, BuffersTypeOK
<1> QED  BY <1>1, <1>5, <1>11, <1>12, <1>13, <1>14, <1>15, <1>16, <1>17 DEF Dma
-----------------------------------------------------------------------------
(* The steps of the cache and of the application leave the DMA as it is.   *)
LEMMA DmaSame ==
  ASSUME BInv, UNCHANGED <<qdma, out, prog>>, stage' = "sent" \/ prog = << >>
  PROVE  Dma' /\ \A o : Coming(o)' <=> Coming(o)
<1>1. ParamsOK /\ Events /\ Linking /\ IsSuffix(prog) /\ BuffersTypeOK
  BY DEF BInv, Dma
<1>2. UNCHANGED <<b_running, param, queue, IPR, QDMAQNUM, out, prog>>
  BY DEF qdma
<1>3. ParamsOK'
  BY <1>1, <1>2 DEF ParamsOK, Straight, Out
<1>4. Events'
  BY <1>1, <1>2 DEF Events, Queued, Signals, LinkedDown
<1>5. Linking' /\ IsSuffix(prog)'
  <2>1. Plain' = Plain /\ ChainMoves' = ChainMoves
    BY <1>2, SameOut
  <2> QED  BY <1>1, <1>2, <2>1 DEF Linking, Written, IsSuffix, IsWhole, IsRest
<1>6. \A x : Writes(x)' = Writes(x) /\ \A m, l : Chain(m, l)' = Chain(m, l)
  BY <1>1, <1>2, SameSets
<1>7. \A o : Coming(o)' <=> Coming(o)
  BY <1>2, <1>6 DEF Coming, Queued
<1> QED  BY <1>1, <1>2, <1>3, <1>4, <1>5, <1>7 DEF Dma

LEMMA Others ==
  ASSUME BuffersTypeOK
  PROVE  /\ In \cup Mine = Words \ Out /\ Out \subseteq Words
         /\ \A w \in In : w \in Words \ Out /\ out + w \in Out /\ out + w \in Words
BY BufferPlaces DEF Mine

(* What every routine of the cache does: lines of one set are written      *)
(* back, lines of another are dropped.                                     *)
Synced(ls, ds) ==
  /\ mem' = WrittenBack(ls)
  /\ state' = [l \in Lines |-> IF l \in ds THEN "no"
                               ELSE IF l \in ls /\ state[l] = "dirty" THEN "clean" ELSE state[l]]
  /\ data' = [w \in Words |-> IF LineOf(w) \in ds THEN 0 ELSE data[w]]
  /\ type' = type

LEMMA DropIsSynced ==
  ASSUME NEW ls, NEW ds, ls \subseteq ds, mem' = WrittenBack(ls), Drop(ds), UNCHANGED type
  PROVE  Synced(ls, ds)
BY DEF Synced, Drop

LEMMA SameIsSynced ==
  ASSUME BuffersTypeOK, UNCHANGED cache
  PROVE  Synced({}, {})
BY DEF Synced, WrittenBack, BuffersTypeOK, cache

(* It is harmless if what is dropped, of the words that are not of the     *)
(* output, is written back first; to hand over, all lines have to be       *)
(* written back, and to take back, the lines of the output dropped.        *)
LEMMA SyncedKeeps ==
  ASSUME BInv, NEW ls, NEW ds, Synced(ls, ds),
         UNCHANGED <<qdma, out, prog, want, mine, shared>>,
         \A w \in Words \ Out :
           state[LineOf(w)] = "dirty" /\ LineOf(w) \in ds => LineOf(w) \in ls,
         \/ stage' = stage
         \/ stage = "own" /\ stage' = "written" /\ \A l \in Lines : state'[l] # "dirty"
         \/ stage = "answered" /\ stage' = "read" /\ \A o \in Out : state'[LineOf(o)] = "no"
  PROVE  BInv'
<1>1. /\ BuffersTypeOK /\ Dma /\ Coherent /\ NeighboursKept /\ InputKept /\ OutputClean
      /\ OutputThere
  BY DEF BInv
<1>2. ASSUME NEW w \in Words
      PROVE  /\ LineOf(w) \in Lines
             /\ mem'[w] = IF LineOf(w) \in ls /\ state[LineOf(w)] = "dirty" THEN data[w] ELSE mem[w]
             /\ data'[w] = IF LineOf(w) \in ds THEN 0 ELSE data[w]
  BY <1>2, WordHasLine DEF Synced, WrittenBack
<1>3. ASSUME NEW l \in Lines
      PROVE  /\ state'[l] = IF l \in ds THEN "no"
                            ELSE IF l \in ls /\ state[l] = "dirty" THEN "clean" ELSE state[l]
             /\ state'[l] # "no" => state[l] # "no" /\ l \notin ds
             /\ state'[l] = "dirty" => state[l] = "dirty"
             /\ state[l] \in {"no", "clean", "dirty"}
  BY <1>1 DEF Synced, BuffersTypeOK
<1>4. /\ type' = type /\ out' = out /\ Out' = Out /\ Mine' = Mine
      /\ UNCHANGED <<b_running, IPR, QDMAQNUM, want, mine, shared>>
  BY DEF Synced, Out, Mine, qdma
<1>5. BuffersTypeOK'
  <2>1. mem' \in [Words -> Vals] /\ data' \in [Words -> Vals]
        /\ state' \in [Lines -> {"no", "clean", "dirty"}]
    BY <1>1, BufferConsts DEF Synced, WrittenBack, BuffersTypeOK
  <2> QED  BY <1>1, <1>4, <2>1 DEF BuffersTypeOK
<1>6. In \cup Mine = Words \ Out /\ \A w \in In : w \in Words \ Out /\ out + w \in Out /\ out + w \in Words
  BY <1>1, Others
<1>7. ASSUME NEW w \in Words \ Out
      PROVE  /\ ArmSees(w)' = ArmSees(w)
             /\ state'[LineOf(w)] = "clean" => data'[w] = mem'[w]
  <2>1. LineOf(w) \in Lines /\ (state[LineOf(w)] = "clean" => data[w] = mem[w])
    BY <1>1, <1>2, <1>6 DEF Coherent
  <2> QED  BY <1>2, <1>3, <2>1 DEF ArmSees
<1>8. Coherent'
  BY <1>1, <1>3, <1>4, <1>6, <1>7 DEF Coherent, Cached, WritesBack
<1>9. NeighboursKept'
  BY <1>1, <1>4, <1>6, <1>7 DEF NeighboursKept
<1>10. ASSUME stage' # "own", NEW w \in In
       PROVE  /\ state'[LineOf(w)] # "no" => data'[w] = mem'[w]
              /\ stage' # "written" => mem'[w] = want[w]
  <2>1. w \in Words /\ LineOf(w) \in Lines
    BY <1>2, <1>6
  <2>2. CASE stage # "own"
    <3>1. state[LineOf(w)] # "no" => data[w] = mem[w]
      BY <1>1, <2>2 DEF InputKept
    <3>2. mem'[w] = mem[w] /\ (state'[LineOf(w)] # "no" => data'[w] = data[w])
      BY <1>2, <1>3, <2>1, <3>1
    <3>3. stage # "written" => mem[w] = want[w]
      BY <1>1, <2>2 DEF InputKept
    <3> QED  BY <1>3, <2>1, <2>2, <3>1, <3>2, <3>3
  <2>3. CASE stage = "own"
    <3>1. stage' = "written" /\ state'[LineOf(w)] # "dirty"
      BY <1>10, <2>1, <2>3
    <3>2. state'[LineOf(w)] \in {"no", "clean"}
      BY <1>5, <2>1, <3>1 DEF BuffersTypeOK
    <3> QED  BY <1>6, <1>7, <3>1, <3>2
  <2> QED  BY <2>2, <2>3
<1>11. InputKept'
  BY <1>4, <1>10 DEF InputKept
<1>12. ASSUME stage' # "own", ~ shared, NEW w \in In
       PROVE  /\ state'[LineOf(out + w)] # "dirty"
              /\ stage # "own" => mem'[out + w] = mem[out + w]
              /\ stage = stage' /\ state'[LineOf(out + w)] # "no" => data'[out + w] = data[out + w]
  <2>1. out + w \in Words /\ LineOf(out + w) \in Lines
    BY <1>2, <1>6
  <2>2. CASE stage # "own"
    <3>1. state[LineOf(out + w)] # "dirty"
      BY <1>1, <1>12, <2>2 DEF OutputClean
    <3> QED  BY <1>2, <1>3, <2>1, <3>1
  <2>3. CASE stage = "own"
    BY <1>12, <2>1, <2>3
  <2> QED  BY <2>2, <2>3
<1>13. OutputClean'
  BY <1>4, <1>12 DEF OutputClean
<1>14. Dma' /\ \A o : Coming(o)' <=> Coming(o)
  <2>1. stage' = "sent" \/ prog = << >>
    BY <1>1 DEF Dma
  <2> QED  BY <2>1, DmaSame
<1>15. ASSUME ~ shared, NEW w \in In
       PROVE  /\ stage' = "sent" => mem'[out + w] = want[w] \/ Coming(out + w)'
              /\ stage' \in {"answered", "read"} => mem'[out + w] = want[w]
              /\ stage' = "read" /\ state'[LineOf(out + w)] # "no" => data'[out + w] = mem'[out + w]
  <2>1. out + w \in Out
    BY <1>6
  <2>2. /\ stage = "sent" => mem[out + w] = want[w] \/ Coming(out + w)
        /\ stage \in {"answered", "read"} => mem[out + w] = want[w]
        /\ stage = "read" /\ state[LineOf(out + w)] # "no" => data[out + w] = mem[out + w]
    BY <1>1, <1>15 DEF OutputThere
  <2>3. LineOf(out + w) \in Lines /\ (state'[LineOf(out + w)] # "no" => state[LineOf(out + w)] # "no")
    BY <1>2, <1>3, <1>6
  <2>4. Coming(out + w)' <=> Coming(out + w)
    BY <1>14, <1>4
  <2> QED  BY <1>12, <1>15, <2>1, <2>2, <2>3, <2>4
<1>16. OutputThere'
  BY <1>4, <1>15 DEF OutputThere
<1> QED  BY <1>5, <1>8, <1>9, <1>11, <1>13, <1>14, <1>16 DEF BInv

LEMMA EvictKeeps ==
  ASSUME BInv, NEW l \in Lines, Evict(l), UNCHANGED <<qdma, call>>
  PROVE  BInv'
<1>1. Synced({l}, {l})
  BY DropIsSynced DEF Evict
<1>2. UNCHANGED <<qdma, out, prog, want, mine, shared>> /\ stage' = stage
  BY DEF call
<1> QED  BY <1>1, <1>2, SyncedKeeps

LEMMA FetchKeeps ==
  ASSUME BInv, NEW l \in Lines, Fetch(l), UNCHANGED <<qdma, call>>
  PROVE  BInv'
<1>1. /\ BuffersTypeOK /\ Dma /\ Coherent /\ NeighboursKept /\ InputKept /\ OutputClean
      /\ OutputThere
  BY DEF BInv
<1>2. /\ type' = type /\ mem' = mem /\ UNCHANGED <<qdma, out, stage, prog, want, mine, shared>>
      /\ Out' = Out /\ Mine' = Mine /\ UNCHANGED <<b_running, IPR, QDMAQNUM>>
      /\ Cached /\ state[l] = "no"
  BY DEF Fetch, call, qdma, Out, Mine
<1>3. state'[l] = "clean" /\ \A k \in Lines \ {l} : state'[k] = state[k]
  BY <1>1 DEF Fetch, BuffersTypeOK
<1>4. \A w \in Words : data'[w] = IF LineOf(w) = l THEN mem[w] ELSE data[w]
  BY DEF Fetch
<1>5. \A w \in Words : LineOf(w) \in Lines
  BY WordHasLine
<1>6. BuffersTypeOK'
  <2>1. data' \in [Words -> Vals] /\ state' \in [Lines -> {"no", "clean", "dirty"}]
    BY <1>1 DEF Fetch, BuffersTypeOK
  <2> QED  BY <1>1, <1>2, <2>1 DEF BuffersTypeOK
<1>7. In \cup Mine = Words \ Out /\ \A w \in In : w \in Words \ Out /\ out + w \in Out /\ out + w \in Words
  BY <1>1, Others
<1>8. Coherent'
  BY <1>1, <1>2, <1>3, <1>4, <1>5, <1>7 DEF Coherent, Cached, WritesBack
<1>9. \A w \in Words : ArmSees(w)' = ArmSees(w)
  BY <1>2, <1>3, <1>4, <1>5 DEF ArmSees
<1>10. NeighboursKept'
  BY <1>1, <1>2, <1>7, <1>9 DEF NeighboursKept
<1>11. InputKept'
  BY <1>1, <1>2, <1>3, <1>4, <1>5, <1>7 DEF InputKept
<1>12. OutputClean'
  BY <1>1, <1>2, <1>3, <1>5, <1>7 DEF OutputClean
<1>13. Dma' /\ \A o : Coming(o)' <=> Coming(o)
  <2>1. stage' = "sent" \/ prog = << >>
    BY <1>1, <1>2 DEF Dma
  <2> QED  BY <1>2, <2>1, DmaSame
<1>14. OutputThere'
  <2>1. ASSUME ~ shared, NEW w \in In
        PROVE  /\ stage = "sent" => mem[out + w] = want[w] \/ Coming(out + w)'
               /\ stage \in {"answered", "read"} => mem[out + w] = want[w]
               /\ stage = "read" /\ state'[LineOf(out + w)] # "no" => data'[out + w] = mem[out + w]
    <3>1. /\ stage = "sent" => mem[out + w] = want[w] \/ Coming(out + w)
          /\ stage \in {"answered", "read"} => mem[out + w] = want[w]
          /\ stage = "read" /\ state[LineOf(out + w)] # "no" => data[out + w] = mem[out + w]
      BY <1>1, <2>1 DEF OutputThere
    <3>2. out + w \in Words /\ LineOf(out + w) \in Lines
      BY <1>5, <1>7
    <3>3. Coming(out + w)' <=> Coming(out + w)
      BY <1>2, <1>13
    <3> QED  BY <1>3, <1>4, <3>1, <3>2, <3>3
  <2> QED  BY <1>2, <2>1 DEF OutputThere
<1> QED  BY <1>6, <1>8, <1>10, <1>11, <1>12, <1>13, <1>14 DEF BInv

(* A write of the GPP changes the word it is to, and may make its line     *)
(* dirty.                                                                  *)
LEMMA ArmWriteFact ==
  ASSUME BInv, NEW w \in Words, NEW v \in Vals, ArmWrite(w, v)
  PROVE  /\ mem' \in [Words -> Vals] /\ data' \in [Words -> Vals] /\ type' = type
         /\ state' \in [Lines -> {"no", "clean", "dirty"}]
         /\ ArmSees(w)' = v
         /\ \A x \in Words \ {w} : mem'[x] = mem[x] /\ data'[x] = data[x] /\ ArmSees(x)' = ArmSees(x)
         /\ \A l \in Lines : /\ state'[l] # "no" <=> state[l] # "no"
                             /\ state'[l] = "dirty" => WritesBack
                             /\ l # LineOf(w) => state'[l] = state[l]
         /\ \A x \in Words \ Out : state'[LineOf(x)] = "clean" => data'[x] = mem'[x]
<1>1. BuffersTypeOK /\ Coherent
  BY DEF BInv
<1>2. PICK l : l = LineOf(w)
  OBVIOUS
<1>3. l \in Lines /\ \A x \in Words : LineOf(x) \in Lines
  BY <1>2, WordHasLine
<1>4. /\ mem' = IF WritesBack /\ state[l] # "no" THEN mem ELSE [mem EXCEPT ![w] = v]
      /\ data' = IF state[l] # "no" THEN [data EXCEPT ![w] = v] ELSE data
      /\ state' = IF WritesBack /\ state[l] # "no" THEN [state EXCEPT ![l] = "dirty"] ELSE state
      /\ type' = type
  BY <1>2 DEF ArmWrite
<1>5. /\ mem \in [Words -> Vals] /\ data \in [Words -> Vals]
      /\ state \in [Lines -> {"no", "clean", "dirty"}]
  BY <1>1 DEF BuffersTypeOK
<1>6. /\ mem' \in [Words -> Vals] /\ data' \in [Words -> Vals]
      /\ state' \in [Lines -> {"no", "clean", "dirty"}]
  BY <1>4, <1>5
<1>7. \A x \in Words \ {w} : mem'[x] = mem[x] /\ data'[x] = data[x]
  BY <1>4, <1>5
<1>8. \A k \in Lines : k # l => state'[k] = state[k]
  BY <1>3, <1>4, <1>5
<1>9. IF WritesBack /\ state[l] # "no"
        THEN state'[l] = "dirty" /\ data'[w] = v
        ELSE state'[l] = state[l] /\ mem'[w] = v /\ (state[l] # "no" => data'[w] = v)
  BY <1>3, <1>4, <1>5
<1>10. \A k \in Lines : state[k] = "dirty" => WritesBack
  BY <1>1 DEF Coherent
<1>11. \A k \in Lines : /\ state'[k] # "no" <=> state[k] # "no"
                        /\ state'[k] = "dirty" => WritesBack
  BY <1>3, <1>8, <1>9, <1>10
<1>12. ArmSees(w)' = v
  BY <1>2, <1>3, <1>9, <1>11 DEF ArmSees
<1>13. ASSUME NEW x \in Words \ {w} PROVE ArmSees(x)' = ArmSees(x)
  <2>1. mem'[x] = mem[x] /\ data'[x] = data[x]
    BY <1>7
  <2>2. state'[LineOf(x)] # "no" <=> state[LineOf(x)] # "no"
    <3>1. PICK k \in Lines : k = LineOf(x)
      BY <1>3
    <3>2. state'[k] # "no" <=> state[k] # "no"
      BY <1>11
    <3> QED  BY <3>1, <3>2
  <2> QED  BY <2>1, <2>2 DEF ArmSees
<1>14. ASSUME NEW x \in Words \ Out, state'[LineOf(x)] = "clean" PROVE data'[x] = mem'[x]
  <2>1. state[LineOf(x)] = "clean"
    <3>1. CASE LineOf(x) = l
      BY <1>9, <1>14, <3>1
    <3>2. CASE LineOf(x) # l
      BY <1>3, <1>8, <1>14, <3>2
    <3> QED  BY <3>1, <3>2
  <2>2. data[x] = mem[x]
    BY <1>1, <2>1, Others DEF Coherent
  <2>3. CASE x = w
    BY <1>2, <1>9, <1>14, <2>1, <2>3
  <2>4. CASE x # w
    BY <1>7, <2>2, <2>4
  <2> QED  BY <2>3, <2>4
<1> QED  BY <1>2, <1>4, <1>6, <1>7, <1>8, <1>11, <1>12, <1>13, <1>14

LEMMA FillKeeps ==
  ASSUME BInv, NEW w \in Words, NEW v \in Vals, Fill(w, v)
  PROVE  BInv'
<1>1. BuffersTypeOK /\ Dma /\ Coherent /\ NeighboursKept
  BY DEF BInv
<1>2. /\ stage = "own" /\ w \in In \cup Out /\ ArmWrite(w, v)
      /\ UNCHANGED <<qdma, out, stage, prog, want, mine, shared>>
      /\ UNCHANGED <<b_running, IPR, QDMAQNUM>> /\ Out' = Out /\ Mine' = Mine
  BY DEF Fill, call, qdma, Out, Mine
<1>3. /\ mem' \in [Words -> Vals] /\ data' \in [Words -> Vals] /\ type' = type
      /\ state' \in [Lines -> {"no", "clean", "dirty"}]
      /\ \A x \in Words \ {w} : ArmSees(x)' = ArmSees(x)
      /\ \A l \in Lines : /\ state'[l] # "no" <=> state[l] # "no"
                          /\ state'[l] = "dirty" => WritesBack
      /\ \A x \in Words \ Out : state'[LineOf(x)] = "clean" => data'[x] = mem'[x]
  BY <1>2, ArmWriteFact
<1>4. BuffersTypeOK'
  BY <1>1, <1>2, <1>3 DEF BuffersTypeOK
<1>5. Coherent'
  BY <1>1, <1>2, <1>3, Others DEF Coherent, Cached, WritesBack
<1>6. NeighboursKept'
  BY <1>1, <1>2, <1>3 DEF NeighboursKept, Mine
<1>7. Dma'
  BY <1>1, <1>2, DmaSame DEF Dma
<1>8. InputKept' /\ OutputClean' /\ OutputThere'
  BY <1>2 DEF InputKept, OutputClean, OutputThere
<1> QED  BY <1>4, <1>5, <1>6, <1>7, <1>8 DEF BInv

LEMMA WriteMineKeeps ==
  ASSUME BInv, NEW w \in Words, NEW v \in Vals, WriteMine(w, v)
  PROVE  BInv'
<1>1. /\ BuffersTypeOK /\ Dma /\ Coherent /\ NeighboursKept /\ InputKept /\ OutputClean
      /\ OutputThere
  BY DEF BInv
<1>2. /\ w \in Mine /\ ArmWrite(w, v) /\ mine' = [mine EXCEPT ![w] = v]
      /\ shared' = (shared \/ (stage # "own" /\ LineOf(w) \in {LineOf(o) : o \in Out}))
      /\ UNCHANGED <<qdma, out, stage, prog, want>>
      /\ UNCHANGED <<b_running, IPR, QDMAQNUM>> /\ Out' = Out /\ Mine' = Mine
  BY DEF WriteMine, qdma, Out, Mine
<1>3. /\ mem' \in [Words -> Vals] /\ data' \in [Words -> Vals] /\ type' = type
      /\ state' \in [Lines -> {"no", "clean", "dirty"}]
      /\ ArmSees(w)' = v
      /\ \A x \in Words \ {w} : mem'[x] = mem[x] /\ data'[x] = data[x] /\ ArmSees(x)' = ArmSees(x)
      /\ \A l \in Lines : /\ state'[l] # "no" <=> state[l] # "no"
                          /\ state'[l] = "dirty" => WritesBack
                          /\ l # LineOf(w) => state'[l] = state[l]
      /\ \A x \in Words \ Out : state'[LineOf(x)] = "clean" => data'[x] = mem'[x]
  BY <1>2, ArmWriteFact
<1>4. BuffersTypeOK'
  <2>1. shared' \in BOOLEAN /\ mine' \in [Words -> Vals]
    BY <1>1, <1>2 DEF BuffersTypeOK
  <2> QED  BY <1>1, <1>2, <1>3, <2>1 DEF BuffersTypeOK
<1>5. Coherent'
  BY <1>1, <1>2, <1>3, Others DEF Coherent, Cached, WritesBack
<1>6. NeighboursKept'
  <2>1. mine'[w] = v /\ \A x \in Words \ {w} : mine'[x] = mine[x]
    BY <1>1, <1>2 DEF BuffersTypeOK
  <2> QED  BY <1>1, <1>2, <1>3, <2>1 DEF NeighboursKept, Mine
<1>7. \A x \in In : x \in Words \ {w} /\ LineOf(x) \in Lines /\ out + x \in Out
                    /\ out + x \in Words \ {w} /\ LineOf(out + x) \in Lines
  BY <1>1, <1>2, Others, WordHasLine DEF Mine
<1>8. InputKept'
  BY <1>1, <1>2, <1>3, <1>7 DEF InputKept
<1>9. ASSUME ~ shared', stage # "own", NEW x \in In
      PROVE  ~ shared /\ state'[LineOf(out + x)] = state[LineOf(out + x)]
  BY <1>2, <1>3, <1>7, <1>9
<1>10. OutputClean'
  BY <1>1, <1>2, <1>9 DEF OutputClean
<1>11. Dma' /\ \A o : Coming(o)' <=> Coming(o)
  BY <1>1, <1>2, DmaSame DEF Dma
<1>12. OutputThere'
  <2>1. ASSUME ~ shared', NEW x \in In
        PROVE  /\ stage = "sent" => mem'[out + x] = want[x] \/ Coming(out + x)'
               /\ stage \in {"answered", "read"} => mem'[out + x] = want[x]
               /\ stage = "read" /\ state'[LineOf(out + x)] # "no" => data'[out + x] = mem'[out + x]
    <3>1. /\ stage = "sent" => mem[out + x] = want[x] \/ Coming(out + x)
          /\ stage \in {"answered", "read"} => mem[out + x] = want[x]
          /\ stage = "read" /\ state[LineOf(out + x)] # "no" => data[out + x] = mem[out + x]
      BY <1>1, <1>2, <2>1 DEF OutputThere
    <3>2. mem'[out + x] = mem[out + x] /\ data'[out + x] = data[out + x]
      BY <1>3, <1>7
    <3>3. Coming(out + x)' <=> Coming(out + x)
      BY <1>2, <1>11
    <3> QED  BY <1>9, <2>1, <3>1, <3>2, <3>3
  <2> QED  BY <1>2, <2>1 DEF OutputThere
<1> QED  BY <1>4, <1>5, <1>6, <1>8, <1>10, <1>11, <1>12 DEF BInv

(* The calls that hand the block over, and that take the output back.      *)
LEMMA HandOverKeeps ==
  ASSUME BInv, HandOver
  PROVE  BInv'
<1>1. BuffersTypeOK /\ Coherent
  BY DEF BInv
<1>2. /\ stage = "own" /\ stage' = "written"
      /\ UNCHANGED <<qdma, out, prog, want, mine, shared>>
  BY DEF HandOver
<1>3. \A l \in Lines : state[l] \in {"no", "clean", "dirty"}
  BY <1>1 DEF BuffersTypeOK
<1>4. CASE ~ WritesBack
  <2>1. Synced({}, {}) /\ state' = state
    BY <1>1, <1>4, SameIsSynced DEF HandOver, cache
  <2>2. \A l \in Lines : state'[l] # "dirty"
    BY <1>1, <1>4, <2>1 DEF Coherent
  <2> QED  BY <1>2, <2>1, <2>2, SyncedKeeps
<1>5. CASE c64_v7_dma_clean_range(0, 0 + N)
  <2>1. Synced(Lines, {})
    <3>1. data' = data /\ type' = type /\ mem' = WrittenBack(Lines) /\ data = [w \in Words |-> data[w]]
      BY <1>1, <1>5, AllLines DEF c64_v7_dma_clean_range, BuffersTypeOK
    <3>2. state' = [l \in Lines |-> IF state[l] = "dirty" THEN "clean" ELSE state[l]]
      BY <1>5, AllLines DEF c64_v7_dma_clean_range
    <3> QED  BY <3>1, <3>2 DEF Synced
  <2>2. \A l \in Lines : state'[l] # "dirty"
    BY <2>1 DEF Synced
  <2> QED  BY <1>2, <2>1, <2>2, SyncedKeeps
<1>6. CASE mem' = WrittenBack(Lines) /\ Drop(Lines) /\ UNCHANGED type
  <2>1. Synced(Lines, Lines)
    BY <1>6, DropIsSynced
  <2>2. \A l \in Lines : state'[l] # "dirty"
    BY <2>1 DEF Synced
  <2> QED  BY <1>2, <2>1, <2>2, SyncedKeeps
<1>7. c64_v7_dma_flush_range(0, 0 + N) => mem' = WrittenBack(Lines) /\ Drop(Lines) /\ UNCHANGED type
  BY AllLines DEF c64_v7_dma_flush_range
<1> QED  BY <1>4, <1>5, <1>6, <1>7
         DEF HandOver, dsp_cache_wb, dsp_cache_wbinv, dsp_cache_wbinvall

LEMMA TakeBackKeeps ==
  ASSUME BInv, TakeBack
  PROVE  BInv'
<1>1. BuffersTypeOK /\ Coherent
  BY DEF BInv
<1>2. /\ stage = "answered" /\ stage' = "read"
      /\ UNCHANGED <<qdma, out, prog, want, mine, shared>>
  BY DEF TakeBack
<1>3. \A o \in Out : LineOf(o) \in Lines
  BY <1>1, Others, WordHasLine
<1>4. CASE ~ Cached
  <2>1. Synced({}, {}) /\ state' = state
    BY <1>1, <1>4, SameIsSynced DEF TakeBack, cache
  <2>2. \A o \in Out : state'[LineOf(o)] = "no"
    BY <1>1, <1>3, <1>4, <2>1 DEF Coherent
  <2> QED  BY <1>2, <2>1, <2>2, SyncedKeeps
<1>5. CASE c64_v7_dma_inv_range(out, out + Size)
  <2> DEFINE end == out + Size
             edges == Edges(out, end)
             rest == LinesOf(out, end - (end % LineSize))
  <2>1. Synced(edges, edges \cup rest)
    BY <1>5, DropIsSynced DEF c64_v7_dma_inv_range
  <2>2. /\ \A o \in Out : LineOf(o) \in edges \cup rest
        /\ \A w \in Words \ Out : LineOf(w) \in rest => LineOf(w) \in edges
    BY <1>1, OutputLines
  <2> HIDE DEF edges, rest
  <2>3. \A o \in Out : state'[LineOf(o)] = "no"
    BY <1>3, <2>1, <2>2 DEF Synced
  <2>4. \A w \in Words \ Out : LineOf(w) \in edges \cup rest => LineOf(w) \in edges
    BY <2>2
  <2> QED  BY <1>2, <2>1, <2>3, <2>4, SyncedKeeps
<1>6. CASE mem' = WrittenBack(Lines) /\ Drop(Lines) /\ UNCHANGED type
  <2>1. Synced(Lines, Lines)
    BY <1>6, DropIsSynced
  <2>2. \A o \in Out : state'[LineOf(o)] = "no"
    BY <1>3, <2>1 DEF Synced
  <2> QED  BY <1>2, <2>1, <2>2, SyncedKeeps
<1> QED  BY <1>4, <1>5, <1>6 DEF TakeBack, dsp_cache_inv, dsp_cache_wbinvall

(* Nothing runs or is queued when a command is through.                    *)
LEMMA NothingComing ==
  ASSUME BInv, prog = << >>
  PROVE  /\ \A q \in Channels : /\ ~ b_running[q] /\ q \notin IPR /\ ~ Queued(q)
                                /\ \A k \in EventQueues : queue[k] # <<q>>
         /\ \A o : ~ Coming(o)
<1>1. Events /\ Waits(prog) = {} /\ DOMAIN prog = {}
  BY SplitsLiteral, Literal DEF BInv, Dma
<1>2. \A q \in Channels : /\ ~ b_running[q] /\ q \notin IPR /\ ~ Queued(q)
                          /\ \A k \in EventQueues : queue[k] # <<q>>
  BY <1>1, QuietChannel
<1> QED  BY <1>1, <1>2 DEF Coming

LEMMA AnswerKeeps ==
  ASSUME BInv, Answer
  PROVE  BInv'
<1>1. /\ BuffersTypeOK /\ Dma /\ Coherent /\ NeighboursKept /\ InputKept /\ OutputClean
      /\ OutputThere
  BY DEF BInv
<1>2. /\ stage = "sent" /\ stage' = "answered" /\ prog = << >>
      /\ UNCHANGED <<type, mem, state, data, qdma, out, prog, want, mine, shared>>
      /\ UNCHANGED <<b_running, IPR, QDMAQNUM>> /\ Out' = Out /\ Mine' = Mine
  BY DEF Answer, cache, qdma, Out, Mine
<1>3. BuffersTypeOK'
  BY <1>1, <1>2 DEF BuffersTypeOK
<1>4. Dma'
  BY <1>2, DmaSame
<1>5. Coherent' /\ NeighboursKept'
  BY <1>1, <1>2 DEF Coherent, NeighboursKept, Cached, WritesBack, ArmSees
<1>6. InputKept' /\ OutputClean'
  BY <1>1, <1>2 DEF InputKept, OutputClean
<1>7. OutputThere'
  <2>1. \A w \in In : ~ shared => mem[out + w] = want[w]
    BY <1>1, <1>2, NothingComing DEF OutputThere
  <2> QED  BY <1>2, <2>1 DEF OutputThere
<1> QED  BY <1>3, <1>4, <1>5, <1>6, <1>7 DEF BInv

LEMMA DoneKeeps ==
  ASSUME BInv, Done
  PROVE  BInv'
<1>1. BuffersTypeOK /\ Dma /\ Coherent /\ NeighboursKept
  BY DEF BInv
<1>2. /\ stage = "read" /\ stage' = "own" /\ want' = [w \in In |-> 0] /\ shared' = FALSE
      /\ UNCHANGED <<type, mem, state, data, qdma, out, prog, mine>>
      /\ UNCHANGED <<b_running, IPR, QDMAQNUM>> /\ Out' = Out /\ Mine' = Mine
  BY DEF Done, cache, qdma, Out, Mine
<1>3. BuffersTypeOK'
  BY <1>1, <1>2, BufferConsts DEF BuffersTypeOK
<1>4. Dma'
  BY <1>1, <1>2, DmaSame DEF Dma
<1>5. Coherent' /\ NeighboursKept'
  BY <1>1, <1>2 DEF Coherent, NeighboursKept, Cached, WritesBack, ArmSees
<1>6. InputKept' /\ OutputClean' /\ OutputThere'
  BY <1>2 DEF InputKept, OutputClean, OutputThere
<1> QED  BY <1>3, <1>4, <1>5, <1>6 DEF BInv

(* What the application can ask for.                                      *)
LEMMA CommandKinds ==
  ASSUME NEW c \in Commands
  PROVE  c = loc_copy1d \/ c = loc_copy2d \/ IsWhole(c)
<1>1. ASSUME NEW chain \in Chains
      PROVE  Len(Transfers1d(chain)) = Len(chain) /\ Len(Transfers2d(chain)) = Len(chain)
  <2>1. DOMAIN chain = 1 .. Len(chain) /\ Len(chain) \in Nat
    <3>1. chain \in Seq(Pieces)
      BY BuffersAssumption
    <3> QED  BY <3>1, LenProperties
  <2>2. PICK n : n = Len(chain)
    OBVIOUS
  <2>3. Len(Transfers1d(chain)) = n
    <3>1. PICK f : f = Transfers1d(chain)
      OBVIOUS
    <3>2. f = [i \in 1 .. n |-> f[i]]
      BY <2>1, <2>2, <3>1 DEF Transfers1d
    <3>3. n \in Nat
      BY <2>1, <2>2
    <3> QED  BY <3>1, <3>2, <3>3, LenOfFunction
  <2>4. Len(Transfers2d(chain)) = n
    <3>1. PICK f : f = Transfers2d(chain)
      OBVIOUS
    <3>2. f = [i \in 1 .. n |-> f[i]]
      BY <2>1, <2>2, <3>1 DEF Transfers2d
    <3>3. n \in Nat
      BY <2>1, <2>2
    <3> QED  BY <3>1, <3>2, <3>3, LenOfFunction
  <2> QED  BY <2>2, <2>3, <2>4
<1>2. ASSUME NEW chain \in Chains, Flat(chain) PROVE IsWhole(loc_link1d(chain))
  <2>1. Transfers1d(chain) \in ChainMoves
    BY <1>2 DEF ChainMoves
  <2> QED  BY <1>1, <2>1 DEF IsWhole, loc_link1d
<1>3. ASSUME NEW chain \in Chains PROVE IsWhole(loc_link2d(chain))
  <2>1. Transfers2d(chain) \in ChainMoves
    BY DEF ChainMoves
  <2> QED  BY <1>1, <2>1 DEF IsWhole, loc_link2d
<1> QED  BY <1>2, <1>3 DEF Commands

(* A command writes all of the output.                                     *)
LEMMA CommandWrites ==
  ASSUME BuffersTypeOK, NEW c \in Commands, NEW o \in Out
  PROVE  /\ \E i \in DOMAIN c : o \in Writes(c[i])
         /\ c # << >> /\ Head(c).op = "init"
<1> DEFINE all == Moves1d(out, 0, Size)
           cells == Moves2d(out, 1, 0, 1, 1, Size)
<1>1. DOMAIN all = Out /\ DOMAIN cells = Out /\ 0 \in Channels
  BY CommandMoves, Moves2dStraight, BufferConsts
<1>2. Reset.op = "init"
  BY DEF Reset
<1> HIDE DEF all, cells
<1>3. Writes(Copy(0, all)) = Out /\ Writes(Copy(0, cells)) = Out
  BY <1>1, Ops DEF Writes
<1>4. CASE c = loc_copy1d
  <2>1. 2 \in DOMAIN c /\ c[2] = Copy(0, all) /\ c # << >> /\ Head(c) = Reset
    BY <1>4, Literal DEF loc_copy1d, all
  <2> QED  BY <1>2, <1>3, <2>1
<1>5. CASE c = loc_copy2d
  <2>1. 2 \in DOMAIN c /\ c[2] = Copy(0, cells) /\ c # << >> /\ Head(c) = Reset
    BY <1>5, Literal DEF loc_copy2d, cells
  <2> QED  BY <1>2, <1>3, <2>1
<1>6. CASE IsWhole(c)
  <2>1. PICK moves \in ChainMoves : c = <<Reset>> \o LinkedFrom(moves, Len(moves) - 1)
    BY <1>6 DEF IsWhole
  <2>2. PICK n \in Nat : n = Len(moves) /\ n >= 2
    BY ChainFact
  <2>3. PICK m : m = n - 1
    OBVIOUS
  <2>4. m \in -1 .. n - 1
    BY <2>2, <2>3
  <2>5. PICK t : t = LinkedFrom(moves, m)
    OBVIOUS
  <2>6. /\ t \in Seq({Linked(moves, i) : i \in 0 .. n - 1} \cup {Wait(1)})
        /\ DOMAIN t = 1 .. m + 2 /\ \A k \in 1 .. m + 1 : t[k] = Linked(moves, m + 1 - k)
    BY <2>2, <2>4, <2>5, LinkedFromFact
  <2>7. Splits(c, Reset, t)
    BY <2>1, <2>2, <2>3, <2>5, <2>6, ConsSplits
  <2>8. PICK j \in 1 .. n : o \in DOMAIN moves[j]
    BY <2>2, ChainFact
  <2>9. /\ n - j + 1 \in 1 .. m + 1 /\ n - j + 1 \in 1 .. m + 2
        /\ m + 1 - (n - j + 1) = j - 1 /\ j - 1 \in 0 .. n - 1 /\ (j - 1) + 1 = j
    BY <2>2, <2>3, <2>8
  <2>10. t[n - j + 1] = Linked(moves, j - 1)
    BY <2>6, <2>9
  <2>11. Linked(moves, j - 1).op = "link" /\ Linked(moves, j - 1).moves = moves[j]
    BY <2>2, <2>9, LinkedFact
  <2>12. o \in Writes(t[n - j + 1])
    BY <2>8, <2>10, <2>11 DEF Writes, Chain
  <2>13. PICK i \in DOMAIN c : c[i] = t[n - j + 1]
    BY <2>6, <2>7, <2>9 DEF Splits
  <2> QED  BY <1>2, <2>7, <2>12, <2>13 DEF Splits
<1> QED  BY <1>4, <1>5, <1>6, CommandKinds

LEMMA SendKeeps ==
  ASSUME BInv, NEW c \in Commands, Send(c)
  PROVE  BInv'
<1>1. /\ BuffersTypeOK /\ Dma /\ Coherent /\ NeighboursKept /\ InputKept /\ OutputClean
      /\ ParamsOK /\ Events
  BY DEF BInv, Dma
<1>2. /\ stage = "written" /\ stage' = "sent" /\ prog' = c /\ want' = [w \in In |-> ArmSees(w)]
      /\ UNCHANGED <<type, mem, state, data, qdma, out, mine, shared>>
      /\ UNCHANGED <<b_running, param, queue, IPR, QDMAQNUM>> /\ Out' = Out /\ Mine' = Mine
  BY DEF Send, cache, qdma, Out, Mine
<1>3. \A w \in In : w \in Words /\ LineOf(w) \in Lines
  BY <1>1, Others, WordHasLine
<1>4. \A w \in In : ArmSees(w) = mem[w] /\ (state[LineOf(w)] # "no" => data[w] = mem[w])
  BY <1>1, <1>2 DEF InputKept, ArmSees
<1>5. BuffersTypeOK'
  <2>1. want' \in [In -> Vals]
    BY <1>1, <1>2, <1>3, <1>4 DEF BuffersTypeOK
  <2> QED  BY <1>1, <1>2, <2>1 DEF BuffersTypeOK
<1>6. Coherent' /\ NeighboursKept'
  BY <1>1, <1>2 DEF Coherent, NeighboursKept, Cached, WritesBack, ArmSees
<1>7. InputKept' /\ OutputClean'
  BY <1>1, <1>2, <1>4 DEF InputKept, OutputClean
<1>8. prog = << >>
  BY <1>1, <1>2 DEF Dma
<1>9. \A q \in Channels : /\ ~ b_running[q] /\ q \notin IPR /\ ~ Queued(q)
                          /\ \A k \in EventQueues : queue[k] # <<q>>
  BY <1>8, NothingComing
<1>10. Events'
  BY <1>1, <1>2, <1>9 DEF Events, Queued
<1>11. ParamsOK'
  BY <1>1, <1>2 DEF ParamsOK, Straight
<1>12. Dma'
  <2>1. Plain' = Plain /\ ChainMoves' = ChainMoves
    BY <1>2, SameOut
  <2>2. c \in Plain \/ IsWhole(c)
    BY CommandKinds DEF Plain
  <2>3. IsSuffix(prog)'
    BY <1>2, <2>1, <2>2 DEF IsSuffix, IsWhole
  <2>4. Head(c).op = "init"
    <3>1. out \in Out
      BY <1>1, BufferPlaces, BufferConsts DEF Out
    <3> QED  BY <1>1, <3>1, CommandWrites
  <2>5. Linking'
    BY <1>2, <2>4 DEF Linking
  <2> QED  BY <1>2, <1>10, <1>11, <2>3, <2>5 DEF Dma
<1>13. ASSUME NEW o \in Out PROVE Coming(o)'
  <2>1. \A x : Writes(x)' = Writes(x)
    BY <1>1, <1>2, SameSets
  <2> QED  BY <1>1, <1>2, <2>1, CommandWrites DEF Coming
<1>14. \A w \in In : Coming(out + w)'
  <2>1. \A w \in In : out + w \in Out
    BY <1>1, Others
  <2> QED  BY <1>2, <1>13, <2>1
<1>15. OutputThere'
  BY <1>2, <1>14 DEF OutputThere
<1> QED  BY <1>5, <1>6, <1>7, <1>12, <1>15 DEF BInv

(* The DSP and the DMA.                                                    *)
LEMMA ExecKeeps ==
  ASSUME BInv, Exec
  PROVE  BInv'
<1>1. /\ BuffersTypeOK /\ Coherent /\ NeighboursKept /\ InputKept /\ OutputClean /\ OutputThere
  BY DEF BInv
<1>2. /\ Dma' /\ stage = "sent" /\ \A o \in Out : Coming(o) => Coming(o)'
      /\ b_running' \in [Channels -> BOOLEAN] /\ IPR' \subseteq Channels
      /\ QDMAQNUM' = QueueNumbers
  BY ExecDma
<1>3. /\ UNCHANGED <<type, data, state, mem, out, shared, stage, want, mine>>
      /\ Out' = Out /\ Mine' = Mine
  BY ExecDma DEF Untouched, Out, Mine
<1>4. BuffersTypeOK'
  BY <1>1, <1>2, <1>3 DEF BuffersTypeOK
<1>5. Coherent' /\ NeighboursKept'
  BY <1>1, <1>3 DEF Coherent, NeighboursKept, Cached, WritesBack, ArmSees
<1>6. InputKept' /\ OutputClean'
  BY <1>1, <1>3 DEF InputKept, OutputClean
<1>7. \A w \in In : Coming(out + w) => Coming(out + w)'
  <2>1. \A w \in In : out + w \in Out
    BY <1>1, Others
  <2> QED  BY <1>2, <1>3, <2>1
<1>8. OutputThere'
  BY <1>1, <1>2, <1>3, <1>7 DEF OutputThere
<1> QED  BY <1>2, <1>4, <1>5, <1>6, <1>8 DEF BInv

LEMMA MoveKeeps ==
  ASSUME BInv, NEW k \in EventQueues, Move(k)
  PROVE  BInv'
<1>1. /\ BuffersTypeOK /\ Coherent /\ NeighboursKept /\ InputKept /\ OutputClean /\ OutputThere
  BY DEF BInv
<1>2. /\ Dma' /\ stage = "sent"
      /\ b_running' \in [Channels -> BOOLEAN] /\ IPR' \subseteq Channels
      /\ QDMAQNUM' = QueueNumbers
      /\ mem' = [w \in Words |-> mem'[w]] /\ \A w \in Words : mem'[w] \in Vals
      /\ \A w \in Words \ Out : mem'[w] = mem[w]
      /\ \A w \in In : \/ mem'[out + w] = mem[w]
                       \/ mem'[out + w] = mem[out + w] /\ (Coming(out + w) => Coming(out + w)')
  BY MoveDma
<1>3. /\ UNCHANGED <<type, data, state, out, shared, stage, want, mine>>
      /\ Out' = Out /\ Mine' = Mine
  BY DEF Move, call, Out, Mine
<1>4. BuffersTypeOK'
  <2>1. mem' \in [Words -> Vals]
    BY <1>2
  <2> QED  BY <1>1, <1>2, <1>3, <2>1 DEF BuffersTypeOK
<1>5. In \cup Mine = Words \ Out
  BY <1>1, Others
<1>6. Coherent'
  BY <1>1, <1>2, <1>3, <1>5 DEF Coherent, Cached, WritesBack
<1>7. NeighboursKept'
  BY <1>1, <1>2, <1>3, <1>5 DEF NeighboursKept, ArmSees
<1>8. InputKept' /\ OutputClean'
  BY <1>1, <1>2, <1>3, <1>5 DEF InputKept, OutputClean
<1>9. OutputThere'
  <2>1. \A w \in In : mem[w] = want[w]
    BY <1>1, <1>2 DEF InputKept
  <2>2. ASSUME ~ shared, NEW w \in In PROVE mem'[out + w] = want[w] \/ Coming(out + w)'
    BY <1>1, <1>2, <2>1, <2>2 DEF OutputThere
  <2> QED  BY <1>2, <1>3, <2>2 DEF OutputThere
<1> QED  BY <1>2, <1>4, <1>6, <1>7, <1>8, <1>9 DEF BInv
-----------------------------------------------------------------------------
(* The invariant holds at first and after every step.                      *)
LEMMA BufferStarts ==
  ASSUME BuffersInit
  PROVE  BInv
<1>1. /\ type \in CacheTypes /\ mem = [w \in Words |-> 0] /\ data = [w \in Words |-> 0]
      /\ state = [l \in Lines |-> "no"] /\ out \in Outs /\ stage = "own" /\ prog = << >>
      /\ want = [w \in In |-> 0] /\ mine = [w \in Words |-> 0] /\ shared = FALSE
      /\ b_running = [q \in Channels |-> FALSE] /\ param = [i \in Params |-> NoTransfer]
      /\ queue = [k \in EventQueues |-> << >>] /\ IPR = {} /\ QDMAQNUM = QueueNumbers
  BY CacheAssumption DEF BuffersInit, CacheInit, QdmaInit
<1>2. BuffersTypeOK
  BY <1>1, BufferConsts DEF BuffersTypeOK
<1>3. \A w \in Words : LineOf(w) \in Lines
  BY WordHasLine
<1>4. In \cup Mine = Words \ Out
  BY <1>2, Others
<1>5. Coherent /\ NeighboursKept
  BY <1>1, <1>3, <1>4 DEF Coherent, NeighboursKept, ArmSees
<1>6. InputKept /\ OutputClean /\ OutputThere
  BY <1>1 DEF InputKept, OutputClean, OutputThere
<1>7. ParamsOK
  <2>1. /\ NoTransfer.moves = << >> /\ DOMAIN << >> = {} /\ NoTransfer.link = NoLink
        /\ NoTransfer.tcint = FALSE
    BY Literal DEF NoTransfer
  <2>2. NoLink \notin Sets /\ Sets \subseteq Params
    BY BufferConsts
  <2> QED  BY <1>1, <2>1, <2>2 DEF ParamsOK, Straight
<1>8. Events
  <2>1. \A q \in Channels : ~ Queued(q) /\ ~ b_running[q] /\ q \notin IPR
    BY <1>1 DEF Queued, QueueNumbers, EventQueues
  <2> QED  BY <1>1, <2>1 DEF Events
<1>9. Dma
  BY <1>1, <1>7, <1>8, Literal DEF Dma, IsSuffix, Plain, Linking
<1> QED  BY <1>2, <1>5, <1>6, <1>9 DEF BInv

LEMMA BufferSteps ==
  ASSUME BInv, [BuffersNext]_buffersVars
  PROVE  BInv'
<1>1. CASE Exec
  BY <1>1, ExecKeeps
<1>2. CASE Answer
  BY <1>2, AnswerKeeps
<1>3. ASSUME NEW k \in EventQueues, Move(k) PROVE BInv'
  BY <1>3, MoveKeeps
<1>4. CASE HandOver
  BY <1>4, HandOverKeeps
<1>5. CASE TakeBack
  BY <1>5, TakeBackKeeps
<1>6. CASE Done
  BY <1>6, DoneKeeps
<1>7. ASSUME NEW c \in Commands, Send(c) PROVE BInv'
  BY <1>7, SendKeeps
<1>8. ASSUME NEW w \in Words, NEW v \in Vals, Fill(w, v) PROVE BInv'
  BY <1>8, FillKeeps
<1>9. ASSUME NEW w \in Words, NEW v \in Vals, WriteMine(w, v) PROVE BInv'
  BY <1>9, WriteMineKeeps
<1>10. ASSUME NEW l \in Lines, Fetch(l), UNCHANGED <<qdma, call>> PROVE BInv'
  BY <1>10, FetchKeeps
<1>11. ASSUME NEW l \in Lines, Evict(l), UNCHANGED <<qdma, call>> PROVE BInv'
  BY <1>11, EvictKeeps
<1>12. CASE UNCHANGED buffersVars
  <2>1. UNCHANGED cache /\ UNCHANGED <<qdma, out, prog, want, mine, shared>> /\ stage' = stage
    BY <1>12 DEF buffersVars, call
  <2>2. Synced({}, {})
    BY <2>1, SameIsSynced DEF BInv
  <2> QED  BY <2>1, <2>2, SyncedKeeps
<1> QED  BY <1>1, <1>2, <1>3, <1>4, <1>5, <1>6, <1>7, <1>8, <1>9, <1>10, <1>11, <1>12
         DEF BuffersNext, Dsp

LEMMA BufferInvariance ==
  BuffersSpec => []BInv
<1>1. BuffersInit => BInv
  BY BufferStarts
<1>2. BInv /\ [BuffersNext]_buffersVars => BInv'
  BY BufferSteps
<1> QED  BY <1>1, <1>2, PTL DEF BuffersSpec

(* For blocks, buffers and cache lines of any size, any cache type, any    *)
(* place of the output and however the cache fetches and evicts: the       *)
(* application reads in the output what it has sent in the input.          *)
THEOREM AlwaysDelivered ==
  BuffersSpec => []Delivered
<1>1. ASSUME BInv, stage = "read", ~ shared, NEW w \in In PROVE ArmSees(out + w) = want[w]
  BY <1>1 DEF BInv, OutputThere, ArmSees
<1>2. BInv => Delivered
  BY <1>1 DEF Delivered
<1> QED  BY <1>2, BufferInvariance, PTL

(* ... and the words it has next to the buffers, in lines that it shares   *)
(* with them, too, keep what it has written last.                          *)
THEOREM AlwaysNeighboursKept ==
  BuffersSpec => []NeighboursKept
<1>1. BInv => NeighboursKept
  BY DEF BInv
<1> QED  BY <1>1, BufferInvariance, PTL

(* The interrupt qdma_wait() polls for comes: it is pending, or the event  *)
(* of the channel is queued, and its transfer, or the chain of sets that   *)
(* it goes on with, ends with one that signals.                            *)
Served(q) ==
  b_running[q] => q \in IPR \/ (queue[QDMAQNUM[q]] = <<q>> /\ Signals(q))

(* No channel runs, whichever command the component has come to, however   *)
(* long its chain and however far the DMA is, without an interrupt that is *)
(* on its way.                                                             *)
THEOREM AlwaysServed ==
  BuffersSpec => [](\A q \in Channels : Served(q))
<1>1. ASSUME BInv, NEW q \in Channels, b_running[q], q \notin IPR
      PROVE  queue[QDMAQNUM[q]] = <<q>> /\ Signals(q)
  <2>1. Events /\ QDMAQNUM = QueueNumbers
    BY <1>1 DEF BInv, Dma, BuffersTypeOK
  <2>2. Queued(q)
    BY <1>1, <2>1 DEF Events
  <2> QED  BY <2>1, <2>2 DEF Events, Queued
<1>2. BInv => \A q \in Channels : Served(q)
  BY <1>1 DEF Served
<1> QED  BY <1>2, BufferInvariance, PTL
=============================================================================

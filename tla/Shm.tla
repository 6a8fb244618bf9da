-------------------------------- MODULE Shm ---------------------------------
(***************************************************************************)
(* Shared memory and the address spaces it appears in: dsp_open ..         *)
(* dsp_close, dsp_shm_alloc / dsp_shm_free and the address translation of  *)
(* libc64/dsp.c, with the ioctls, fops__mmap and fops__release of          *)
(* kmod/dev.c behind them.                                                 *)
(*                                                                         *)
(* Four tables must agree on where a page is: the process's own            *)
(* (shared_mem, hugetlb_page_phys_addr, the l1sram / l2sram / logbuf       *)
(* regions), the driver's (shm and fshm of its dev_client_t), the page     *)
(* tables of the process (vma), and the allocator of physical memory,      *)
(* which is what no client holds.  An address is counted in pages of 4 kB  *)
(* and a huge page is HugePage of them; 0 is NULL and FAILED the 32 bit    *)
(* value of MAP_FAILED, at the top of an address space of Space pages.     *)
(* One step is one system call, with the code of the library up to the     *)
(* next.                                                                   *)
(***************************************************************************)
EXTENDS Integers, FiniteSets, FiniteSetsExt

CONSTANTS
  Procs,       \* processes, each with a dev_client_t of its own
  NumContig,   \* NUM_CONTIG_DSP_CACHE_TYPES
  Cma,         \* physical pages dma_alloc_coherent() takes from
  HugeBases,   \* first physical pages of the reserved huge pages
  L1, L2, LOG, \* DSP_L1SRAM_FSHM_BASE_GPP, DSP_L2SRAM_FSHM_BASE_GPP, DSP_LOGBUF_BASE_GPP
  HugePage,    \* pages of 4 kB in a huge page
  MaxPages,    \* DSP_HUGETLB_MAXPAGES
  Sizes,       \* sizes that are asked for, in pages
  Virt,        \* virtual pages of a process that mmap() may use
  Space,       \* pages in the 32 bit address space
  MaxFaults,   \* bound on the failures of mmap()
  ResumeFails  \* may dsp_resume() fail in dsp_open() with an error but EBUSY

HUGE == NumContig            \* DSP_CACHE_HUGETLB
FAILED == Space - 1
Contig == 0 .. NumContig - 1
Types == 0 .. HUGE           \* dsp_cache_t, NUM_DSP_CACHE_TYPES of them
Areas == {L1, L2, LOG}       \* named by their physical address, a page each
HugeFrames == UNION {b .. b + HugePage - 1 : b \in HugeBases}

ASSUME ShmAssumption ==
  /\ NumContig \in Nat \ {0} /\ HugePage \in Nat \ {0} /\ MaxPages \in Nat \ {0}
  /\ Space \in Nat /\ HugeBases \subseteq Nat
  /\ Cardinality(Areas) = 3
  /\ Sizes \subseteq 1 .. HugePage * MaxPages
     \* RAM begins at 0x80000000, and mmap() keeps off the lowest addresses:
     \* a table entry with address 0 and a size covers neither
  /\ Cma \cup HugeFrames \cup Areas \cup Virt \subseteq HugePage * MaxPages .. FAILED - 1
  /\ Cma \cap HugeFrames = {} /\ Areas \cap (Cma \cup HugeFrames) = {}
     \* huge pages do not overlap
  /\ \A b, c \in HugeBases : b < c => b + HugePage <= c
  /\ MaxFaults \in Nat /\ ResumeFails \in BOOLEAN

VARIABLES
  pc,          \* pc[p]: what the library does next
  req,         \* req[p]: type of the allocation under way, or page or type of a loop
  shared_mem,  \* shared_mem[p][t].shm_alloc_req.mem
  hugetlb_page_phys_addr,
  area,        \* area[p][a]: l1sram_fshm, l2sram_fshm, logbuf of the process
  fd,          \* fd[p]: c64_fd is open
  client,      \* client[p]: the driver's dev_client_t is in use
  shm,         \* shm[p][t]: cl->shm[t].dsp
  fshm,        \* fshm[p][a]: cl->l1sram_fshm, l2sram_fshm, logbuf .virt_addr
  vma,         \* vma[p][v]: physical page behind a virtual one, 0 if none
  faults

lib == <<shared_mem, hugetlb_page_phys_addr, area>>
driver == <<client, shm, fshm>>
vars == <<pc, req, lib, fd, driver, vma, faults>>

NoMem == [phys |-> 0, virt |-> 0, size |-> 0]

Init ==
  /\ pc = [p \in Procs |-> "closed"]
  /\ req = [p \in Procs |-> 0]
  /\ shared_mem = [p \in Procs |-> [t \in Types |-> NoMem]]
  /\ hugetlb_page_phys_addr = [p \in Procs |-> [i \in 0 .. MaxPages - 1 |-> 0]]
  /\ area = [p \in Procs |-> [a \in Areas |-> NoMem]]
  /\ fd = [p \in Procs |-> FALSE]
  /\ client = [p \in Procs |-> FALSE]
  /\ shm = [p \in Procs |-> [t \in Types |-> NoMem]]
  /\ fshm = [p \in Procs |-> [a \in Areas |-> 0]]
  /\ vma = [p \in Procs |-> [v \in Virt |-> 0]]
  /\ faults = 0
-----------------------------------------------------------------------------
(* Address ranges: the comparisons the sources make, where base + size     *)
(* wraps around.                                                           *)
InRange(a, m, base) == a >= base /\ a < (base + m.size) % Space
AtVirt(v, m) == InRange(v, m, m.virt)
AtPhys(f, m) == InRange(f, m, m.phys)

Pages(base, n) == base .. base + n - 1

(* dsp_virt_to_phys                                                        *)
dsp_virt_to_phys(p, v) ==
  LET sram == {a \in {L1, L2} : AtVirt(v, area[p][a])}
      hit == {t \in Types : AtVirt(v, shared_mem[p][t])}
      m == shared_mem[p][Min(hit)]
  IN  IF sram # {} THEN v - area[p][Min(sram)].virt + area[p][Min(sram)].phys
      ELSE IF hit = {} THEN 0
      ELSE IF Min(hit) # HUGE THEN v - m.virt + m.phys
      ELSE hugetlb_page_phys_addr[p][(v - m.virt) \div HugePage] + ((v - m.virt) % HugePage)

(* Mutant: a huge page is looked for before the contiguous blocks, whether *)
(* or not huge pages are allocated, and among all pages ever seen from the *)
(* last to the first.                                                      *)
HugeHits_Stale(p, f) ==
  LET pages == {i \in 0 .. MaxPages - 1 :
                  f \in Pages(hugetlb_page_phys_addr[p][i], HugePage)}
  IN  IF pages = {} THEN {} ELSE {Max(pages)}

(* Huge pages of the table that hold a physical address, in the order of   *)
(* the table; entries behind the last of the present region are old ones.  *)
HugeHits(p, f) ==
  LET pages == {i \in 0 .. MaxPages - 1 :
                  f \in Pages(hugetlb_page_phys_addr[p][i], HugePage)}
  IN  IF pages = {} \/ shared_mem[p][HUGE].phys = 0 THEN {} ELSE {Min(pages)}

dsp_phys_to_virt(p, f) ==
  LET sram == {a \in {L1, L2} : AtPhys(f, area[p][a])}
      hit == {t \in Contig : AtPhys(f, shared_mem[p][t])}
      m == shared_mem[p][Min(hit)]
      i == Min(HugeHits(p, f))
  IN  IF sram # {} THEN f - Min(sram) + area[p][Min(sram)].virt
      ELSE IF hit # {} THEN f - m.phys + m.virt
      ELSE IF HugeHits(p, f) = {} THEN 0
      ELSE shared_mem[p][HUGE].virt + i * HugePage + f - hugetlb_page_phys_addr[p][i]

(* The type dsp_shm_free takes a region for: the first one whose physical  *)
(* address is the same, which for a region that was not allocated is the   *)
(* first type that is free.                                                *)
loc_get_cache_type_by_mem(p, f) == {t \in Types : shared_mem[p][t].phys = f}

(* Virtual start addresses at which the driver maintains the cache for a   *)
(* physical range (loc_ioctl_cache) and for a virtual one                  *)
(* (loc_ioctl_cache_virt); none is -EFAULT.                                *)
loc_ioctl_cache(p, f, n) ==
  {shm[p][t].virt + f - shm[p][t].phys : t \in
     {s \in Contig : shm[p][s].virt # 0 /\ AtPhys(f, shm[p][s])
                     /\ f + n <= shm[p][s].phys + shm[p][s].size}}

(* Mutant: only the start of the range is tested.                          *)
loc_ioctl_cache_virt_Start(p, v, n) ==
  {v : t \in {s \in Types : shm[p][s].virt # 0 /\ AtVirt(v, shm[p][s])}}

loc_ioctl_cache_virt(p, v, n) ==
  {v : t \in {s \in Types : shm[p][s].virt # 0 /\ AtVirt(v, shm[p][s])
                            /\ v + n <= shm[p][s].virt + shm[p][s].size}}
-----------------------------------------------------------------------------
(* Linux: physical pages nobody has, the address mmap() returns (the first *)
(* hole that is large enough), and the page tables after munmap(), which   *)
(* refuses MAP_FAILED.                                                     *)
Taken == UNION {Pages(shm[p][t].phys, shm[p][t].size) : p \in Procs, t \in Contig}
FreeHuge == {b \in HugeBases : \A p \in Procs, v \in Virt : vma[p][v] # b}

Holes(p, n) == {v \in Virt : \A w \in Pages(v, n) : w \in Virt /\ vma[p][w] = 0}

Munmap(p, ms) ==
  [v \in Virt |-> IF \E m \in ms : m.virt # 0 /\ AtVirt(v, m) THEN 0 ELSE vma[p][v]]

DeviceVmas(p) == {v \in Virt : vma[p][v] \notin HugeFrames \cup {0}}

(* A block or an area is mapped once, and not beyond its size.             *)
MapsOnce(p, f, n) ==
  IF \E t \in Contig : shm[p][t].phys = f
    THEN LET m == shm[p][Min({t \in Contig : shm[p][t].phys = f})]
         IN  m.virt = 0 /\ n <= m.size
    ELSE f \in Areas /\ fshm[p][f] = 0 /\ n <= 1

(* fops__mmap for n pages at the physical address f, placed at v: the      *)
(* block or the area is found by its exact address, and is mapped once.    *)
fops__mmap(p, f, n, v) ==
  LET hit == {t \in Contig : shm[p][t].phys = f}
  IN  /\ MapsOnce(p, f, n)
      /\ IF hit # {}
           THEN /\ shm' = [shm EXCEPT ![p][Min(hit)].virt = v]
                /\ UNCHANGED fshm
           ELSE /\ fshm' = [fshm EXCEPT ![p][f] = v]
                /\ UNCHANGED shm
      /\ vma' = [vma EXCEPT ![p] =
                   [w \in Virt |-> IF w \in Pages(v, n) THEN f + w - v ELSE vma[p][w]]]
      /\ UNCHANGED client
-----------------------------------------------------------------------------
Goto(p, label) == pc' = [pc EXCEPT ![p] = label]

(* Start of dsp_open: the tables are cleared and the device opened.        *)
dsp_open(p) ==
  /\ pc[p] = "closed" /\ ~client[p]
  /\ Goto(p, "map")
  /\ req' = [req EXCEPT ![p] = L1]
  /\ fd' = [fd EXCEPT ![p] = TRUE]
  /\ client' = [client EXCEPT ![p] = TRUE]
  /\ shared_mem' = [shared_mem EXCEPT ![p] = [t \in Types |-> NoMem]]
  /\ hugetlb_page_phys_addr' = [hugetlb_page_phys_addr EXCEPT ![p] = [i \in DOMAIN @ |-> 0]]
  /\ area' = [area EXCEPT ![p] = [a \in Areas |-> NoMem]]
  /\ UNCHANGED <<shm, fshm, vma, faults>>

(* loc_l1sram_fshm_map, loc_l2sram_fshm_map, loc_logbuf_map                *)
MapArea(p) ==
  LET a == req[p]
  IN  /\ pc[p] = "map"
      /\ Holes(p, 1) # {}
      /\ LET v == Min(Holes(p, 1))
         IN  /\ fops__mmap(p, a, 1, v)
             /\ area' = [area EXCEPT ![p][a] = [phys |-> a, virt |-> v, size |-> 1]]
      /\ Goto(p, IF a = LOG THEN "resume" ELSE "map")
      /\ req' = [req EXCEPT ![p] = IF a = L1 THEN L2 ELSE LOG]
      /\ UNCHANGED <<shared_mem, hugetlb_page_phys_addr, fd, faults>>

(* Areas a failed dsp_open unmaps, by the area whose mmap() has failed, or *)
(* 0 when it was dsp_resume(), which leaves the log buffer mapped.         *)
(* Mutant: the L2SRAM is forgotten when the log buffer cannot be mapped.   *)
Unmapped_NoL2(a) == IF a = LOG THEN {L1} ELSE IF a = 0 THEN {L1, L2} ELSE {b \in {L1} : a = L2}
Unmapped(a) == IF a \in {LOG, 0} THEN {L1, L2} ELSE {b \in {L1} : a = L2}

(* Unmap some of the areas and close the device: a region keeps its        *)
(* physical address and size and loses its virtual address.                *)
CloseDevice(p, as) ==
  /\ vma' = [vma EXCEPT ![p] = Munmap(p, {area[p][a] : a \in as})]
  /\ area' = [area EXCEPT ![p] =
                [a \in Areas |-> IF a \in as /\ @[a].virt # FAILED
                                   THEN [@[a] EXCEPT !.virt = 0] ELSE @[a]]]
  /\ fd' = [fd EXCEPT ![p] = FALSE]
  /\ Goto(p, "closed")

(* mmap() fails, or dsp_resume() does: dsp_open gives up.                  *)
OpenFails(p) ==
  /\ pc[p] \in {"map"} \cup {s \in {"resume"} : ResumeFails}
  /\ faults < MaxFaults
  /\ faults' = faults + 1
  /\ CloseDevice(p, Unmapped(IF pc[p] = "resume" THEN 0 ELSE req[p]))
  /\ UNCHANGED <<req, shared_mem, hugetlb_page_phys_addr, driver>>

(* End of dsp_open: dsp_resume() (module Boot) and the start of the log.   *)
OpenEnds(p) ==
  /\ pc[p] = "resume"
  /\ Goto(p, "open")
  /\ UNCHANGED <<req, lib, fd, driver, vma, faults>>
-----------------------------------------------------------------------------
(* Size of an allocation, rounded to the page size of its type.            *)
Rounded(t, n) == IF t = HUGE THEN ((n + HugePage - 1) \div HugePage) * HugePage ELSE n

(* dsp_shm_alloc_at, up to its first system call; a type that is allocated *)
(* is refused.                                                             *)
dsp_shm_alloc_at(p, t, n) ==
  /\ pc[p] = "open"
  /\ shared_mem[p][t].phys = 0
  /\ shared_mem' = [shared_mem EXCEPT ![p][t].size = Rounded(t, n)]
  /\ req' = [req EXCEPT ![p] = t]
  /\ Goto(p, IF t = HUGE THEN "mmap_huge" ELSE "ioctl_alloc")
  /\ UNCHANGED <<hugetlb_page_phys_addr, area, fd, driver, vma, faults>>

(* mmap(MAP_HUGETLB): any free huge pages, in any order.                   *)
MmapHuge(p) ==
  LET n == shared_mem[p][HUGE].size
      holes == {v \in Holes(p, n) : v % HugePage = 0}
  IN  /\ pc[p] = "mmap_huge"
      /\ holes # {}
      /\ \E frames \in [0 .. n \div HugePage - 1 -> FreeHuge] :
           /\ \A i, j \in DOMAIN frames : frames[i] = frames[j] => i = j
           /\ LET v == Min(holes)
              IN  /\ shared_mem' = [shared_mem EXCEPT ![p][HUGE].virt = v]
                  /\ vma' = [vma EXCEPT ![p] = [w \in Virt |->
                       IF w \in Pages(v, n)
                         THEN frames[(w - v) \div HugePage] + ((w - v) % HugePage)
                         ELSE vma[p][w]]]
      /\ Goto(p, "ioctl_alloc")
      /\ UNCHANGED <<req, hugetlb_page_phys_addr, area, fd, driver, faults>>

MmapHugeFails(p) ==
  /\ pc[p] = "mmap_huge"
  /\ \/ faults < MaxFaults /\ faults' = faults + 1
     \/ /\ Cardinality(FreeHuge) * HugePage < shared_mem[p][HUGE].size
        /\ UNCHANGED faults
  /\ shared_mem' = [shared_mem EXCEPT ![p][HUGE].virt = FAILED]
  /\ Goto(p, "open")
  /\ UNCHANGED <<req, hugetlb_page_phys_addr, area, fd, driver, vma>>

(* Physical address of a virtual one, from the page tables.                *)
loc_hugetlb_virt_to_phys(p, v) == vma[p][v]

(* C64_IOCTL_SHM_ALLOC of a contiguous type (loc_shm_alloc): the driver    *)
(* returns its own record, whose virtual address is 0 until fops__mmap.    *)
SHM_ALLOC(p) ==
  LET t == req[p]
      n == shared_mem[p][t].size
      m(f) == [phys |-> f, virt |-> 0, size |-> n]
  IN  /\ pc[p] = "ioctl_alloc" /\ t # HUGE
      /\ shm[p][t].phys = 0
      /\ \E f \in Cma :
           /\ Pages(f, n) \subseteq Cma \ Taken
           /\ shm' = [shm EXCEPT ![p][t] = m(f)]
           /\ shared_mem' = [shared_mem EXCEPT ![p][t] = m(f)]
      /\ Goto(p, "mmap")
      /\ UNCHANGED <<req, hugetlb_page_phys_addr, area, fd, client, fshm, vma, faults>>

(* -ENOMEM: no contiguous memory of that size, or the client has a block   *)
(* of the type.                                                            *)
SHM_ALLOC_Fails(p) ==
  LET t == req[p]
  IN  /\ pc[p] = "ioctl_alloc" /\ t # HUGE
      /\ \/ shm[p][t].phys # 0
         \/ \A f \in Cma : ~(Pages(f, shared_mem[p][t].size) \subseteq Cma \ Taken)
      /\ Goto(p, "open")
      /\ UNCHANGED <<req, lib, fd, driver, vma, faults>>

(* ... and of huge pages, which are the process's: the driver notes the    *)
(* physical address of the first one (loc_hugetlb_virt_to_phys).  It only  *)
(* refuses what is no huge page, and then so does HUGETLB_V2P; the library *)
(* asks for pages that mmap() has just given it as huge pages and that it  *)
(* has cleared, so that neither can fail.                                  *)
SHM_ALLOC_HUGE(p) ==
  LET m == [shared_mem[p][HUGE] EXCEPT !.phys =
                 loc_hugetlb_virt_to_phys(p, shared_mem[p][HUGE].virt)]
  IN  /\ pc[p] = "ioctl_alloc" /\ req[p] = HUGE
      /\ shm' = [shm EXCEPT ![p][HUGE] = m]
      /\ shared_mem' = [shared_mem EXCEPT ![p][HUGE] = m]
      /\ req' = [req EXCEPT ![p] = 0]
      /\ Goto(p, "v2p")
      /\ UNCHANGED <<hugetlb_page_phys_addr, area, fd, client, fshm, vma, faults>>

(* C64_IOCTL_HUGETLB_V2P, page by page.                                    *)
HUGETLB_V2P(p) ==
  LET m == shared_mem[p][HUGE]
      i == req[p]
  IN  /\ pc[p] = "v2p"
      /\ hugetlb_page_phys_addr' =
           [hugetlb_page_phys_addr EXCEPT ![p][i] =
              loc_hugetlb_virt_to_phys(p, m.virt + i * HugePage)]
      /\ req' = [req EXCEPT ![p] = i + 1]
      /\ Goto(p, IF (i + 1) * HugePage < m.size THEN "v2p" ELSE "open")
      /\ UNCHANGED <<shared_mem, area, fd, driver, vma, faults>>

(* mmap() of the block that SHM_ALLOC has returned.                        *)
MmapBlock(p) ==
  LET t == req[p]
      m == shared_mem[p][t]
  IN  /\ pc[p] = "mmap"
      /\ Holes(p, m.size) # {}
      /\ LET v == Min(Holes(p, m.size))
         IN  /\ fops__mmap(p, m.phys, m.size, v)
             /\ shared_mem' = [shared_mem EXCEPT ![p][t].virt = v]
      /\ Goto(p, "open")
      /\ UNCHANGED <<req, hugetlb_page_phys_addr, area, fd, faults>>

(* It fails: the caller gets no region, the driver keeps the block.        *)
MmapBlockFails(p) ==
  /\ pc[p] = "mmap" /\ faults < MaxFaults
  /\ faults' = faults + 1
  /\ shared_mem' = [shared_mem EXCEPT ![p][req[p]].virt = FAILED]
  /\ Goto(p, "open")
  /\ UNCHANGED <<req, hugetlb_page_phys_addr, area, fd, driver, vma>>
-----------------------------------------------------------------------------
(* dsp_shm_free of a region (of one that was not allocated, too): the      *)
(* mapping goes first ...                                                  *)
(* Mutant: the mapping stays until the driver has freed the block.         *)
Unmap_Later(p, t) == UNCHANGED vma
Unmap(p, t) == vma' = [vma EXCEPT ![p] = Munmap(p, {shared_mem[p][t]})]

dsp_shm_free(p, f) ==
  LET hit == loc_get_cache_type_by_mem(p, f)
  IN  /\ pc[p] = "open" /\ hit # {}
      /\ Unmap(p, Min(hit))
      /\ req' = [req EXCEPT ![p] = Min(hit)]
      /\ Goto(p, "ioctl_free")
      /\ UNCHANGED <<lib, fd, driver, faults>>

(* ... then the block (C64_IOCTL_SHM_FREE, loc_shm_free), then the entry   *)
(* of the table.                                                           *)
SHM_FREE(p, t) ==
  /\ shm' = [shm EXCEPT ![p][t] = NoMem]
  /\ shared_mem' = [shared_mem EXCEPT ![p][t] = NoMem]
  /\ UNCHANGED <<hugetlb_page_phys_addr, area, fd, client, fshm, faults>>

FreeEnds(p) ==
  /\ pc[p] = "ioctl_free"
  /\ SHM_FREE(p, req[p])
  /\ Goto(p, "open")
  /\ UNCHANGED <<req, vma>>

(* dsp_close: dsp_shm_free for each type in turn, also for those that are  *)
(* not allocated, ...                                                      *)
dsp_close(p) ==
  /\ pc[p] = "open"
  /\ Goto(p, "close")
  /\ req' = [req EXCEPT ![p] = 0]
  /\ UNCHANGED <<lib, fd, driver, vma, faults>>

CloseFrees(p) ==
  LET t == Min(loc_get_cache_type_by_mem(p, shared_mem[p][req[p]].phys))
  IN  /\ pc[p] = "close" /\ req[p] \in Types
      /\ Unmap(p, t)
      /\ SHM_FREE(p, t)
      /\ req' = [req EXCEPT ![p] = @ + 1]
      /\ UNCHANGED pc

(* ... then the log buffer, L2SRAM, L1SRAM and the device.                 *)
CloseEnds(p) ==
  /\ pc[p] = "close" /\ req[p] \notin Types
  /\ CloseDevice(p, Areas)
  /\ req' = [req EXCEPT ![p] = 0]
  /\ UNCHANGED <<shared_mem, hugetlb_page_phys_addr, driver, faults>>

(* The process dies: Linux takes down its mappings and closes its files.   *)
Killed(p) ==
  /\ pc[p] # "closed"
  /\ Goto(p, "closed")
  /\ req' = [req EXCEPT ![p] = 0]
  /\ fd' = [fd EXCEPT ![p] = FALSE]
  /\ vma' = [vma EXCEPT ![p] = [v \in Virt |-> 0]]
  /\ shared_mem' = [shared_mem EXCEPT ![p] = [t \in Types |-> NoMem]]
  /\ hugetlb_page_phys_addr' = [hugetlb_page_phys_addr EXCEPT ![p] = [i \in DOMAIN @ |-> 0]]
  /\ area' = [area EXCEPT ![p] = [a \in Areas |-> NoMem]]
  /\ UNCHANGED <<driver, faults>>

(* Mutant: the blocks of the client are not freed.                         *)
Released_Kept(p) == [t \in Types |-> shm[p][t]]
Released(p) == [t \in Types |-> IF shm[p][t].phys # 0 THEN NoMem ELSE shm[p][t]]

(* fops__release, when the file is closed and no mapping refers to it: the *)
(* driver frees what the client has forgotten.                             *)
fops__release(p) ==
  /\ client[p] /\ ~fd[p] /\ DeviceVmas(p) = {}
  /\ client' = [client EXCEPT ![p] = FALSE]
  /\ shm' = [shm EXCEPT ![p] = Released(p)]
  /\ fshm' = [fshm EXCEPT ![p] = [a \in Areas |-> 0]]
  /\ UNCHANGED <<pc, req, lib, fd, vma, faults>>

Calls(p) ==
  \/ MapArea(p) \/ OpenFails(p) \/ OpenEnds(p)
  \/ MmapHuge(p) \/ MmapHugeFails(p)
  \/ SHM_ALLOC(p) \/ SHM_ALLOC_Fails(p) \/ SHM_ALLOC_HUGE(p) \/ HUGETLB_V2P(p)
  \/ MmapBlock(p) \/ MmapBlockFails(p)
  \/ FreeEnds(p) \/ CloseFrees(p) \/ CloseEnds(p) \/ fops__release(p)

Next == \E p \in Procs :
  \/ dsp_open(p)
  \/ \E t \in Types, n \in Sizes : dsp_shm_alloc_at(p, t, n)
  \/ \E f \in {shared_mem[p][t].phys : t \in Types} : dsp_shm_free(p, f)
  \/ dsp_close(p) \/ Killed(p)
  \/ Calls(p)

Spec == Init /\ [][Next]_vars

(* A system call returns; the kernel releases a file nobody refers to.     *)
FairSpec == Spec /\ \A p \in Procs : WF_vars(Calls(p))
-----------------------------------------------------------------------------
(* Virtual pages of the regions a process may use now: the on-chip memory  *)
(* of an open device and what dsp_shm_alloc has returned.                  *)
Returned(p) ==
  {t \in Types : /\ shared_mem[p][t].phys # 0 /\ shared_mem[p][t].virt # FAILED
                 /\ pc[p] \in {"mmap", "v2p", "ioctl_free"} =>
                      t # (IF pc[p] = "v2p" THEN HUGE ELSE req[p])}
Region(p, t) == Pages(shared_mem[p][t].virt, shared_mem[p][t].size)
Usable(p) ==
  IF pc[p] \in {"closed", "map", "resume", "close"} THEN {}
    ELSE (UNION {Region(p, t) : t \in Returned(p)}) \cup {area[p][L1].virt, area[p][L2].virt}

(* Every page a process may use is translated to the physical page that is *)
(* really behind it, which is what the DSP is told, and back again: through *)
(* allocations, frees and failures in any order, with blocks at addresses  *)
(* other ones had before, and with old entries in the table of huge pages. *)
RoundTrip ==
  \A p \in Procs : \A v \in Usable(p) :
    /\ vma[p][v] # 0
    /\ dsp_virt_to_phys(p, v) = vma[p][v]
    /\ dsp_phys_to_virt(p, vma[p][v]) = v

(* A cache operation on any part of a region the process has works on just *)
(* that part, by physical address (contiguous types) and by virtual        *)
(* address, and one that reaches outside a region is refused.              *)
CacheFindsRegion ==
  \A p \in Procs : pc[p] = "open" =>
    \A v \in Virt, n \in 1 .. HugePage * MaxPages :
      LET within(t) == v \in Region(p, t) /\ v + n - 1 \in Region(p, t)
          f == vma[p][v]
      IN  /\ loc_ioctl_cache_virt(p, v, n) = {v : t \in {s \in Returned(p) : within(s)}}
          /\ f \in Cma =>
               loc_ioctl_cache(p, f, n) = {v : t \in {s \in Returned(p) \ {HUGE} : within(s)}}

(* No process sees memory that is not its own: a page of contiguous memory *)
(* in its page tables belongs to a block of its client, and a huge page is *)
(* behind one page of one process only.                                    *)
MappedIsOwned ==
  \A p \in Procs, v \in Virt :
    /\ vma[p][v] \in Cma => \E t \in Contig : vma[p][v] \in Pages(shm[p][t].phys, shm[p][t].size)
    /\ vma[p][v] \in HugeFrames =>
         \A q \in Procs, w \in Virt : vma[q][w] = vma[p][v] => <<q, w>> = <<p, v>>

(* A process that has closed the device, in dsp_close or because dsp_open  *)
(* has failed, gets its client and all its physical memory released, and   *)
(* keeps no page of either kind (include/dsp.h:41).                        *)
ClosedIsReleased ==
  \A p \in Procs :
    /\ [](pc[p] = "closed" => \A v \in Virt : vma[p][v] = 0)
    /\ pc[p] = "closed" ~> (~client[p] /\ \A t \in Types : shm[p][t] = NoMem)
=============================================================================

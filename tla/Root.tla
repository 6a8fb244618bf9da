--------------------------------- MODULE Root ---------------------------------
(***************************************************************************)
(* A program that accesses physical memory (libc64/dsp.c, osal_linux.c):   *)
(* dsp_init_root opens /dev/mem and maps the DSP's memory and the SCM and  *)
(* PRM registers once (fast_mmap); dsp_copy_to, dsp_memset and dsp_reg_*   *)
(* map what they access, but for addresses in these two, which they find   *)
(* there; programs map what they like with dsp_mmap.                       *)
(*                                                                         *)
(* vm maps the pages of the process to physical pages; mmap takes the      *)
(* first hole.  Page 0 is never mapped: virtual address 0 is NULL.         *)
(***************************************************************************)
EXTENDS Naturals, Sequences, FiniteSets, FiniteSetsExt

CONSTANTS
  PAGESIZE,
  NumPages,    \* pages of the process
  fast_mmap,   \* the two regions, records of phys_addr and size
  Registers,   \* the addresses of the registers it accesses
  Blocks,      \* the blocks it copies to: pairs of address and length
  MapFails,    \* may mmap fail
  NULL

ASSUME RootAssumption ==
  /\ PAGESIZE \in Nat \ {0} /\ NumPages \in Nat
  /\ fast_mmap \in Seq([phys_addr : Nat, size : Nat \ {0}]) /\ fast_mmap # << >>
  /\ \A i \in DOMAIN fast_mmap :
       fast_mmap[i].phys_addr % PAGESIZE = 0 /\ fast_mmap[i].size % PAGESIZE = 0
  /\ Registers \subseteq Nat /\ Blocks \subseteq Nat \X (Nat \ {0})
  /\ NULL \notin Nat /\ NULL \notin [phys : Nat, size : Nat, virt : Nat]

VARIABLES
  at,              \* "down", "mapping", "up", "failed": dsp_init_root has failed,
                   \* "ended": and the program with it
  fd_mem,          \* /dev/mem is open
  virt_addr,       \* where the regions of fast_mmap are mapped (0: not)
  b_skip_dsp_open,
  vm,
  held, op         \* a mapping of the program, the access under way

rootVars == <<at, fd_mem, virt_addr, b_skip_dsp_open, vm, held, op>>

Pages == 1 .. NumPages
Unmapped == [p \in Pages |-> NULL]
Regions == DOMAIN fast_mmap

RootInit ==
  /\ at = "down"
  /\ fd_mem = FALSE
  /\ virt_addr = [i \in Regions |-> 0]
  /\ b_skip_dsp_open \in BOOLEAN
  /\ vm = Unmapped
  /\ held = NULL
  /\ op = NULL
-----------------------------------------------------------------------------
(* Pages that n bytes, DSP_PAGESIZE_ROUNDed, take.                         *)
Round(n) == (n + PAGESIZE - 1) \div PAGESIZE

(* The pages of n bytes at an address, DSP_PAGESIZE_ALIGNed.               *)
PagesAt(virt, n) == virt \div PAGESIZE .. virt \div PAGESIZE + Round(n) - 1

Holes(map, n) ==
  { v \in Pages : v + Round(n) - 1 <= NumPages /\ \A i \in v .. v + Round(n) - 1 : map[i] = NULL }

(* mmap of n bytes from the page of phys on; the page it is mapped at.     *)
osal_mmap(map, phys, n) ==
  [p \in Pages |-> IF p \in Min(Holes(map, n)) .. Min(Holes(map, n)) + Round(n) - 1
                   THEN phys \div PAGESIZE + (p - Min(Holes(map, n))) ELSE map[p]]

osal_munmap(map, virt, n) ==
  [p \in Pages |-> IF p \in PagesAt(virt, n) THEN NULL ELSE map[p]]

(* The region of fast_mmap an address is in.                               *)
OfPhys(phys) ==
  { i \in Regions : phys >= fast_mmap[i].phys_addr
                  /\ phys < fast_mmap[i].phys_addr + fast_mmap[i].size }

OfVirt(virt) ==
  { i \in Regions : virt >= virt_addr[i] /\ virt < virt_addr[i] + fast_mmap[i].size }

(* dsp_mmap: the virtual address, and the address space afterwards.        *)
dsp_mmap(phys, n) ==
  IF OfPhys(phys) # {}
  THEN LET i == Min(OfPhys(phys))
       IN  [virt |-> phys - fast_mmap[i].phys_addr + virt_addr[i], map |-> vm]
  ELSE [virt |-> Min(Holes(vm, n)) * PAGESIZE + (phys % PAGESIZE), map |-> osal_mmap(vm, phys, n)]

(* Mutant: what fast_mmap has mapped is unmapped like anything else.       *)
dsp_munmap_All(map, virt, n) == osal_munmap(map, virt, n)

dsp_munmap(map, virt, n) ==
  IF OfVirt(virt) # {} THEN map ELSE osal_munmap(map, virt, n)
-----------------------------------------------------------------------------
(* dsp_init_root, when osal_init and dsp_open (unless b_skip_dsp_open)     *)
(* have succeeded ...                                                      *)
dsp_init_root ==
  /\ at = "down"
  /\ fd_mem' = TRUE
  /\ virt_addr' = [i \in Regions |-> 0]
  /\ at' = "mapping"
  /\ UNCHANGED <<b_skip_dsp_open, vm, held, op>>

(* ... maps the regions, b_dsp_mmap_force_real, until mmap fails.          *)
NextFast == Min({ i \in Regions : virt_addr[i] = 0 })

MapFast ==
  /\ at = "mapping"
  /\ LET i == NextFast
         r == fast_mmap[i]
     IN  \/ /\ Holes(vm, r.size) # {}
            /\ virt_addr' = [virt_addr EXCEPT ![i] = PAGESIZE * Min(Holes(vm, r.size))]
            /\ vm' = osal_mmap(vm, r.phys_addr, r.size)
            /\ at' = IF i = Len(fast_mmap) THEN "up" ELSE "mapping"
         \/ /\ Holes(vm, r.size) # {} => MapFails
            /\ at' = "failed"
            /\ UNCHANGED <<virt_addr, vm>>
  /\ UNCHANGED <<fd_mem, b_skip_dsp_open, held, op>>

(* What is to be accessed is mapped first ...                              *)
Map(phys, n) ==
  /\ at = "up"
  /\ op = NULL
  /\ OfPhys(phys) # {} \/ Holes(vm, n) # {}
  /\ vm' = dsp_mmap(phys, n).map
  /\ op' = [phys |-> phys, size |-> n, virt |-> dsp_mmap(phys, n).virt]
  /\ UNCHANGED <<at, fd_mem, virt_addr, b_skip_dsp_open, held>>

(* dsp_reg_read_32, write_32, bit_set, bit_clear: a register never crosses *)
(* a page, one address stands for it.                                      *)
dsp_reg(phys) == Map(phys, 1)

(* dsp_copy_to and dsp_memset.                                             *)
dsp_copy_to(phys, n) == Map(phys, n)

(* ... and unmap.                                                          *)
CopyEnds ==
  /\ op # NULL
  /\ vm' = dsp_munmap(vm, op.virt, op.size)
  /\ op' = NULL
  /\ UNCHANGED <<at, fd_mem, virt_addr, b_skip_dsp_open, held>>

(* dsp_mmap called by a program, which keeps the mapping for a while.      *)
Hold(phys, n) ==
  /\ at = "up"
  /\ op = NULL /\ held = NULL
  /\ OfPhys(phys) # {} \/ Holes(vm, n) # {}
  /\ vm' = dsp_mmap(phys, n).map
  /\ held' = [phys |-> phys, size |-> n, virt |-> dsp_mmap(phys, n).virt]
  /\ UNCHANGED <<at, fd_mem, virt_addr, b_skip_dsp_open, op>>

Unhold ==
  /\ op = NULL /\ held # NULL
  /\ vm' = dsp_munmap(vm, held.virt, held.size)
  /\ held' = NULL
  /\ UNCHANGED <<at, fd_mem, virt_addr, b_skip_dsp_open, op>>

(* Mutant: fast mappings are not unmapped for real.                        *)
dsp_exit_root_Fast ==
  /\ at = "up"
  /\ op = NULL /\ held = NULL
  /\ fd_mem' = FALSE
  /\ at' = "down"
  /\ UNCHANGED <<virt_addr, b_skip_dsp_open, vm, held, op>>

(* dsp_exit_root, b_dsp_mmap_force_real.                                   *)
dsp_exit_root ==
  /\ at = "up"
  /\ op = NULL /\ held = NULL
  /\ vm' = [p \in Pages |->
              IF \E i \in Regions : p \in PagesAt(virt_addr[i], fast_mmap[i].size)
                THEN NULL ELSE vm[p]]
  /\ fd_mem' = FALSE
  /\ at' = "down"
  /\ UNCHANGED <<virt_addr, b_skip_dsp_open, held, op>>

(* Nobody calls dsp_exit_root after a dsp_init_root that failed: what it   *)
(* has opened and mapped stays until the program ends, which it then does. *)
Exit ==
  /\ at = "failed"
  /\ at' = "ended"
  /\ UNCHANGED <<fd_mem, virt_addr, b_skip_dsp_open, vm, held, op>>
-----------------------------------------------------------------------------
Lands(a) ==
  a # NULL =>
    \A i \in 0 .. a.size - 1 :
      LET page == (a.virt + i) \div PAGESIZE
      IN  page \in Pages /\ vm[page] = (a.phys + i) \div PAGESIZE

(* Every byte that is accessed is the physical one that is meant, whatever *)
(* is mapped and unmapped besides, and the fast regions stay mapped.       *)
LandsWhereMeant ==
  /\ Lands(op)
  /\ Lands(held)
  /\ at = "up" => \A i \in Regions :
       Lands([phys |-> fast_mmap[i].phys_addr, size |-> fast_mmap[i].size, virt |-> virt_addr[i]])

(* Before dsp_init_root and after dsp_exit_root, which finds every region  *)
(* again by where dsp_init_root noted it, nothing is mapped and /dev/mem   *)
(* is closed.                                                              *)
DownLeavesNothing == at = "down" => vm = Unmapped /\ ~ fd_mem
=============================================================================

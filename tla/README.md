# TLA+ models of c64_tools

c64_tools lets programs on the ARM ("GPP") of a DM3730 call functions on its
C64+ DSP. This directory models the parts of it whose correctness depends on
the order in which several actors act, on failures half way, or on long
sequences of legal calls; checks the models with TLC; and proves what matters
most with TLAPS. Paths below are relative to `src/`.

## 1. The system

| Part | Source | State it keeps | Operations | Modules |
|---|---|---|---|---|
| Device clients, RPC layer | `kmod/dev.c` | `clients[]` (`at_state`, `dsp_msg`, section flags, memory), `current_client`, `at_num_open`, `client_powerstate_mask` | open, release, read, write, ioctls, mmap; `dev_handle_reply` called by the mailbox interrupt | `Dev`, `Rpc` |
| Mailbox driver | `kmod/mlb.c` | `at_b_ready_to_send`, `msg_serial`, mailbox registers, message area in L1DSRAM | `mlb_send_to_dsp`, `irq_handler__mlb`, `mlb_fastcall_end` | `Dev`, `Fastcall` |
| DSP task | `dsp/libc64_dsp/src/mlb.c` | `num_irqs`, `oldMsgSerial`, `components[]` | interrupt handler, message loop, core commands, fastcalls, log | `Dev`, `Fastcall`, `Overlay`, `Logbuf`, `Boot` |
| Fastcalls | `libc64/dsp.c`, both `mlb.c` | two control words, command and result words in L1DSRAM | begin, call, end; the kernel's end of a dead client's sequence | `Fastcall` |
| Overlays | `libc64/dsp.c`, `kmod/dev.c`, DSP `mlb.c` | section flags per client, `components[]` with reference counts, libc64's table | find, load, register, share, unregister, emergency unload | `Overlay` |
| Images | `src/coff.c`, `src/coff_overlay.c`, `c64_load/main.c` | the sections of a file; DSP memory | read, place, initialise, link | `Coff`, `Boot` |
| Power | `kmod/dsp_c64.c` | `at_dsp_state`, `dsp_entry_point`, PRCM registers | power on and reset, start, suspend, resume, power off | `Boot` (registers), `Dev` (states) |
| On-chip memory | `kmod/minim.c` | blocks of two pools (L1DSRAM, L2SRAM) | init, alloc, free, free by client | `Blocks`, `Pool`, `Minim` |
| Shared memory, mmap | `kmod/dev.c`, `libc64/dsp.c` | one area per process and cache type, in four tables | open, close, SHM_ALLOC, SHM_FREE, mmap, address translation, CACHE ranges | `Shm` |
| Caches, QDMA | `kmod/dev.c`, DSP `dma.c` | cache lines; parameter sets, channel map, pending bits | clean and invalidate a range; init, transfer, link, start, wait | `Cache`, `Qdma`, `Buffers` |
| Log buffer | DSP `mlb.c`, `libc64/dsp.c` | ring in shared memory | append on the DSP, synchronise and print on the GPP | `Logbuf` |
| Kernel module | `kmod/kmod.c`, `dev_init`, `mlb_init` | what the kernel has given to the module | insmod and rmmod, with refusals | `Kmod` |
| Root access | `libc64/dsp.c`, `src/osal/linux` | `fast_mmap`, the page tables | `dsp_init_root`, `dsp_mmap`, register and block access | `Root` |

How they interact. A program calls libc64, which writes a 12 byte message to
`/dev/c64`. `fops__write` reserves the channel (`current_client`), and
`mlb_send_to_dsp` writes serial and message to L1DSRAM and a word to the
mailbox, which interrupts the DSP. The task there notices that `num_irqs` has
changed and that the serial is new, executes the command, leaves the results in
L1DSRAM and writes to the other mailbox, which interrupts the GPP.
`irq_handler__mlb` sets `at_b_ready_to_send` and calls `dev_handle_reply`, which
copies the results to the client and releases the channel; `read` fetches them.
A fastcall sequence is one such message: until it is answered the two CPUs talk
through two control words in L1DSRAM and busy-wait for each other. Loading an
overlay is a fastcall sequence with kernel ioctls in between. The first client
resumes the DSP, the last one to leave suspends it; c64_load resets and starts
it. Bulk data go through memory that both CPUs map, which the GPP caches and
the DSP's QDMA does not.

What is hard. The interrupt handlers run between any two steps of a file
operation; `read` and some ioctls take no mutex; clients die or give up while a
reply is owed, while they hold the channel, a section or memory; the hardware
sends spurious interrupts, which the serial has to tell from real ones; the DSP
forgets the serial when it is powered off while the driver does not; both sides
of a fastcall busy-wait; `fops__release` waits for the channel with the mutex
held while the client that holds the channel may need the mutex; a reference
count on the DSP, a flag in the kernel and a table in libc64 have to agree on
every overlay; four tables have to agree on where a page is; power switches time
out; the log has a writer and a reader and no shared read offset; and every
resource a client can leave behind has its own clean-up loop.

What makes each part correct:
- RPC layer and mailbox: one message under way at a time; each reply reaches the
  client whose message it answers; every message is answered; the channel always
  becomes free again; the DSP is not switched off under a waiting client.
- Fastcalls: neither side waits for ever; results are those of the call; the DSP
  executes nothing its caller does not wait for.
- Overlays: what a program was given stays callable until it closes; reference
  counts are the number of users; nothing is left behind; no load holds the DSP
  for ever.
- Images and power: the DSP runs whole images only; a switch that goes through
  brings driver and hardware back together; overlays are linked before they are
  called; `dsp_open` returns.
- minim: runs handed out are disjoint, an allocation fails only if no free run
  is long enough, only the owner frees, a closed client leaves nothing.
- Shared memory: a translation leads there and back; cache operations find the
  region; what is mapped is owned; closing gives everything back.
- Buffers: the output that is read is the input that was sent; neighbours survive.
- Log buffer: every line printed, once, in order, and never stopping early.
- Kernel module: what was taken is given back, whatever was refused; the
  interrupt finds its handler ready. Root access: an access lands where meant.

`PROJECT.json` lists the hazards line by line with the properties aimed at them.

## 2. Plan

| Step | Module | What it says | Status |
|---|---|---|---|
| 1 | `Blocks`, `Pool`, `Minim` | allocator, its abstract specification, refinement, proofs | done |
| 2 | `Rpc`, `Dev` | message channel, power and section flags, abstract RPC, refinement, proofs | done |
| 3 | `Fastcall` | the control word handshake with its time-outs and deaths, proofs | done |
| 4 | `Overlay` | load, share, free, die; proofs that references are exact and components callable | done |
| 5 | `Logbuf` | the ring, character by character on the reader's side, proofs | done |
| 6 | `Coff`, `Boot` | images and power switches that time out; composes c64_load, clients, kernel, DSP | done |
| 7 | `Shm` | the four tables of shared memory, translations, cache ranges | done |
| 8 | `Cache`, `Qdma`, `Buffers` | a remote call with buffers: composes cache and DMA | done |
| 9 | `Kmod`, `Root`, `Host` | insmod and rmmod with a program with root rights | done |
| 10 | `HostProofs` | the module's resources are given back whatever is refused, for any program | done |
| 11 | `ShmProofs` | what is mapped is owned, the tables agree page by page; for any number of processes | done |
| 12 | `HostProofs` (root access), `BootProofs` | accesses land, nothing stays mapped; whole images, driver and hardware, overlays | done |
| 13 | `ShmProofs` | proofs about `Buffers`: output is delivered, neighbours survive and waits are served, for buffers of any length | done |
| 14 | `DevProofs`, `FastcallProofs`, `LogbufProofs` | as `AlwaysServed`: the safety half of the liveness properties, that what is waited for is on its way | left |

What the modules compose. `Dev` abstracts from `Fastcall` (a sequence is one
message), from `Boot` (switches succeed) and from `Overlay` (sections only). `Overlay`
abstracts from `Fastcall` and `Dev`: a load's sequence is a lock on the channel.
`Boot` EXTENDS `Coff`; `Buffers` EXTENDS `Cache` and `Qdma`; `Host` EXTENDS
`Kmod` and `Root`. `Minim` implements `Pool`, `Dev` implements `Rpc`.

## 3. The modules

### Blocks, Pool, Minim, MinimProofs

`Minim` is `kmod/minim.c` operation by operation: `alloc_count`, `free_count`
and `owner` are the fields of `minim_block_t` as functions of the block number.
`dev.c` calls it with `mtx_clients` held, so every entry point is one step,
except `minim_free_by_client`, whose loop body is one step (`ScanFree`,
`ScanSkipOther`, `ScanSkipFree`, `ScanEnd`), because whether that loop ends is a
question. The search loop of `minim_alloc` is stated by its result
(`BestMatch`: the smallest run that fits, the first of these), and the joins of
`loc_minim_free_by_idx` by their effect on the three functions. A request that
rounds to 0 blocks returns an uninitialised structure: any region (`Garbage`).
The rounding is done modulo the machine word.

`Pool` is what clients are promised: a set of disjoint runs `held`. `Minim`
implements it (`ImplementsPool`) with `held` read off the superblocks.

### Rpc, Dev, DevProofs

`Dev` composes `kmod/dev.c` (open, write, read, release, power and overlay
ioctls, the reply handler), `kmod/mlb.c` (send and interrupt), the states of
`kmod/dsp_c64.c`, and the interrupt handler and message loop of the DSP. One
action per handler; where the interrupt or the DSP can see an operation of a
mutex holder half done it is cut, and `pc`/`who` say where the holder stands:

| Code | Actions |
|---|---|
| `fops__write` | `fops__write` (reserve), `WriteSend` or `WriteFail` (test of `at_b_ready_to_send`, reset of the mailbox, serial), `Post` (message, mailbox word) |
| 4 byte write | `testmsg`, `Post` |
| `fops__release` | `fops__release`, for every section left behind `UnloadBegin`, then `UnloadSend`, `Post` or `UnloadTimeout`; `ReleaseEnd` (power off if last) |
| `irq_handler__mlb` + `dev_handle_reply` | `irq_handler__mlb` |
| DSP `mlb_irq_handler`, loop of `mlb_task__entry` | `mlb_irq_handler`, `InterruptSpam`, `Wake`, `Execute` |
| ioctls | `PWR_ON_RST`, `START`, `PWR_OFF`, `RESUME`, `OVERLAY_ALLOC`, `OVERLAY_FREE`, `OVERLAY_REF` |

A message stands for itself: its result is written with the message's own name
(`ret = req` means "the result of this call"). `"unload"` is the emergency
message of `fops__release`. Between `current_client = cl` and the store to
`at_state` in `fops__write` an interrupt has the effect it has just before, so
the two are one step.

What `Dev` assumes of its environment, and where that comes from:
- A client is one thread, sends only after it has resumed the DSP (`dsp_open`
  does), and the loader starts the DSP without overlays of its own.
- A client that is not in `Killable` waits for its reply before it goes on
  (`dsp_rpc_recv`) and frees its overlays before it closes (`dsp_close`). One in
  `Killable` may close, or write again, at any time: a killed process, or one
  whose `dsp_rpc_recv` has given up after 5 seconds.
- Only clients in `Debuggers` write 4 byte test messages.
- `TornPosts` says whether the DSP may look at the message area while it is
  being written, which takes an interrupt of the previous message that late.
- No message begins a fastcall sequence (`Fastcall`), and power switches succeed
  (`Boot`). An `InterruptSpam` needs a message since boot.
- GPP interrupts are enabled exactly while a reply is awaited (`IRQENABLE_0`), and
  the mailbox reset empties both FIFOs, so "FIFO full" cannot happen.

`Rpc` is the promise to the clients: at most one call under way, and each is
answered with its own result (anything, if nobody could execute it). `Dev`
implements it for orderly clients through `call`.

### Fastcall, FastcallProofs

The variables are the two control words (`todsp_ctl`, `togpp_ctl`), the command
and result words beside them, the message channel as far as INITIATE needs it
(`current_client`, `ready`, `msg`, `avail`), the place of every client (`pc`)
and of the DSP's task (`task`). Every store to and every test of a control word
is a step of its own. A call is its caller and its number; a result is the call
it belongs to. All waits can give up: the GPP's if the DSP is stuck, or executes a
call of a client in `Slow`; the DSP's, minutes long, only once no client is in a
sequence. A client in `Mortal` is killed anywhere, and `mlb_fastcall_end` ends
its sequence from `fops__release` as the code does, time-outs included. Programs
take turns (`MayBegin`); those in `Overlap` do not.

### Overlay, OverlayProofs

`components` is the DSP's table, `code` what is in each section; `used`, `flags`
and `mtx` are the kernel's section flags and mutex; `overlays`, `want`, `sec`
and `pc` are libc64's table and place. `lock` is the client whose fastcall
sequence holds the channel and the DSP; `unload` the section the emergency
message is about. The steps of `dsp_component_load` are those of the code: `LoadBegin` (INITIATE),
`FindKnown`/`FindUnknown`, `OVERLAY_REF`, `OVERLAY_ALLOC`/`AllocFails`,
`coff_load_overlay`/`LoadFails`, registering, which runs `init()` and may
register a second component, or failing to (`InitFails`: the whole section is unregistered
again), `Unwind`, `LoadEnd`; those of `dsp_close` are
`OVERLAY_UNREGISTER` and `OVERLAY_FREE` for one section after the other. A client may be killed
at the places in `Mortal`; `fops__release` then unloads, waiting for the channel
with the mutex held, or gives up (`UnloadTimeout`; the section is noted in `lost`, a
history variable).

A lookup finds any component of the table, those an `init()` has registered (`Second`)
included, and raises that one's count; an unregistration lowers the count of every
component of the section. A program may load what it has already (`dsp.h:278`): it gets
another reference, and as `overlays[]` has one entry for a section, closing gives one
back. Such references, and those of clients that die before OVERLAY_REF or whose unload
was given up, are counted in the history `leaked`; `MaxLeaked` bounds them at repeated
loads. `Wanted` are the names that programs ask for: neither the resident core component
nor, in the run and the theorems, a component that another image's `init()` registers.

### Logbuf, LogbufProofs

`buf` holds for every offset the number of the character written there (0 ends
a line), so that old characters are told from new ones. `loc_logbuf_addline` is
one step, wrapping around as the code does; the reader's loops
(`loc_logbuf_startup_sync`, `dsp_logbuf_print`) take one step per turn, with the
budget `cntMax` counted down where the code does. Nothing in the code makes the writer
wait for the reader, or keeps a client from opening the device while the DSP writes.
What programs do is assumed in two conjuncts of `Next`: `MayLog` (between the ends of two
prints the DSP writes `Burst` characters at most) and `MayOpen` (with `AnyStart` at any time,
without it while the log is quiet).

### Coff, Boot, BootProofs

`Coff` is `coff.c` and its two users as operators on an abstract file: which
files are accepted, which sections are placed (by where they begin, as in the code), what an
overlay leaves in memory if any of its reads fails, and how `.cinit` is then applied to
whatever memory holds. `Boot` puts
c64_load, programs that open, suspend, resume, load an overlay and close, the
register steps and waits of every switch in `dsp_c64.c`, and the start of the
DSP's own software together. Any wait of any switch may time out;
START and resume may find the reset vector not mapped (`NoMapping`), and
wait for the DSP with the mutex held (`who`).

### Shm, ShmProofs

The four tables that must agree on a page: libc64's (`shared_mem`,
`hugetlb_page_phys_addr`, `area`), the driver's (`shm`, `fshm`), the page tables
(`vma`), and the allocator, which is what no client holds. One step per system
call, with the code of the library up to the next one, every failure included but for
the two ioctls about huge pages: these fail if a page is not mapped
(`loc_hugetlb_virt_to_phys`, `dev.c:330`), and the pages are those `mmap` has just
given and the library has cleared.

### Cache, Qdma, Buffers

`Cache` is a block of memory and the GPP's cache lines, dirty or clean, which
the cache may fetch or write back at any time, and what
`c64_v7_dma_*_range` do to the lines at the edges of a range. `Qdma` is `dma.c` over the parameter
sets, the event queues and the pending bits. `Buffers` is a call with an input
and an output buffer: the GPP hands over, a command of `test_qdma` copies (in one or two
dimensions, or by a chain of linked transfers in one or two), the GPP takes back. `Chains`
are the chains the application sends, of any length from two on: with a single transfer
`loc_link1d` links the channel's parameter set to set 7, another channel's, and with none
the counter of its loop wraps around. The ranges of the
hand-over are the application's choice; here it hands over all of the block, the output too,
as lines left dirty over it could be written back over what the DSP writes.
The cache maintenance instructions and the DMA hardware are not in `src/`: they
are modelled from how the code uses them and marked external. The proofs about
them are the last part of `ShmProofs`, which extends `Buffers` and `Shm`; so the
names of the two do not overlap (`BuffersSpec`, `stage`, `BlockTypes`).

### Kmod, Root, Host, HostProofs

`Kmod` counts how often each thing has been taken from the kernel and given
back; insmod may be refused anything in `Fails`, for the two builds of
`kmod.c` (with a platform driver and without). `dsp_init()` returns true always; `c64_init`'s
branch for its failure is checked all the same (`"enable"`). `Root` keeps the page tables of a
program that maps physical memory. After a `dsp_init_root` that failed half-way nobody
calls `dsp_exit_root`, and the program ends (`Exit`).
`Host` is both, with the program opening the device or skipping that.

## 4. Runs

| Run | Question | Instance |
|---|---|---|
| `minim` | shape of the pool, closing, refinement of `Pool` | 2 clients, 5 blocks of 2 bytes, 4 bit word; 113 k states |
| `dev` | is each client given its own result, is every call answered (serial 0 excepted), over power cycles; refinement of `Rpc` | fair; 2 orderly clients, 2 messages, one of them unknown to the DSP, serials 0..2, 1 section; 130 k states |
| `dev_killed` | one message under way, no reservation left behind, every call answered, the channel always freed, if clients die | fair; all clients killable, the message unknown to the DSP, serials 0..1, the DSP stays on; 109 k states |
| `dev_debug` | the channel with test messages; no switch off under a waiting client | as `dev`, all clients send them; 2 M states |
| `fastcall` | own results, no request without its caller, the DSP and every call come to an end | fair; 2 clients that may be slow and die anywhere, call numbers modulo 3; 42 k states |
| `overlay` | what is held is callable, references exact, nothing left behind, no load holds the DSP for ever | fair; 2 clients, an image for each area and a name without a file, 2 slots, 1 kill, 1 leaked reference; 171 k states |
| `logbuf` | the reader never stops early, prints in order, prints everything | fair; ring of 10, bursts of 5, lines of 2, 3 and 5, 42 characters; 10 k states |
| `boot` | whole images only, driver and hardware agree, components initialised, overlays linked, calls return | fair; a loader that may be killed, 2 programs, 4 images, 2 overlays, any number of faults and opens; 266 k states |
| `shm` | translations, cache ranges, ownership, release | fair; 1 process, 2 contiguous types and huge pages of 2 pages, 1 failed call; 111 k states |
| `buffers` | what is read is what was sent, neighbours survive, calls are answered | fair; 6 words, lines of 2, chains of 2 and 3, 2 channels, 4 parameter sets; 654 k states |
| `host` | taken and given back, handler ready, accesses land | both builds, any refusal `c64_init`, `dev_init` and `mlb_init` handle, pages of 4 bytes; 5986 states |
| `minim_close` | a violation: `minim_free_by_client` loops for ever after it has joined a run to its left neighbour | 3 blocks |

Bounds, and why they are enough.
- Two clients suffice for the conflicts here: the channel, a section, a run
  of blocks, an overlay's reference, the power each have one holder and another
  who wants it or dies, and the code treats all other clients alike.
- Five blocks hold a run with a neighbour on both sides and a run beyond; the
  requests include 0, partial blocks and one that wraps.
- `SerialSize` 2 or 3 makes serials wrap many times; on the target it is 2^32.
- `MaxOpens` (`Dev`) bounds the count of opens, which leaks. `OpenFails` needs both
  slots in use, so `MaxOpens` is 3 in `dev`.
- `NumCalls` 3 tells a call from the one before and the one after it.
- `MaxKills` 1 lets either client of `Overlay` die at any place, and open the device again;
  `MaxLeaked` 1 lets it load twice. `NumSlots` 2 is full when an image
  has registered its second component. One section in each area makes two users of an area always meet.
- `MaxChars` 42 takes the ring of 10 around four times, with lines whose lengths
  end at every offset; a line of 5 is longer than what is left after one of 5.
- `MaxFaults` 1 in `Shm`: any one call fails, and what follows succeeds. `Boot` bounds neither
  faults nor opens.
- `Burst` 5 is half of the ring, the most for which the theorem holds.
- Three pages of contiguous memory and sizes 1 and 3 give neighbours, the same
  address used again and a refusal; two huge bases the same for huge pages.
- Six words with buffers of two at `Outs` 2 and 3 put the output on lines of its own,
  and on lines it shares with the words beside it.
- Symmetry of the clients is used in `dev_debug`, which checks invariants only.
The theorems hold for all values of these constants.

Deadlock is checked in every run.

Fairness, where a run has liveness properties; none is assumed of what
programs choose to do (read, write, close, print).
- `Minim`: the loop runs with a mutex held and never sleeps.
- `Dev`: the holder of the mutex goes on (its loops are bounded by counters), both
  CPUs take their interrupts, the DSP's task runs; that it leaves IDLE is due to
  BIOS' timer tick, as an interrupt may arrive between its test and IDLE.
- `Fastcall`: the DSP's task runs (weak); a client that is inside of libc64 or of
  `fops__release` goes on (strong, as the mutex and the channel are handed on),
  and a program does not make calls for ever (strong, on the choice to end).
- `Overlay`: a load that has begun, and a release, go on (strong, for the same
  reason); the DSP serves the emergency message (weak).
- `Logbuf`: the reader is called again and again. `Boot`: the DSP runs when it is
  released, waits end, the mutex is handed to its waiters in turn. `Shm`: system
  calls return. `Buffers`: the DSP and its DMA run.

## 5. What is proved

With TLAPS, for any finite set of clients and any value of the other constants,
from the named assumptions of the modules and what the theorems state.

`MinimProofs`: `TypeCorrect`, `AlwaysTiled`, `AlwaysCoalesced`, `CloseFreesAll`,
`MinimImplementsPool`. The shape of the array is stated once for a function
`L` of run lengths (`Tiles`), with two lemmas on cutting and joining runs; the
inductive invariant `IInv` adds the types, `Owned`, `Coalesced` and `PassedOwnNothing`.
`Tiling` alone is not inductive for the close: that it leaves nothing behind
needs that joining never moves something of the client to the left of the
cursor, which is `PassedOwnNothing`, which in turn needs that the runs tile.

`DevProofs`, whatever clients do: `DevTypeCorrect`, `AlwaysReservedIsPending`.
Without test messages: `AlwaysCurrentIsPending`; if moreover messages are not
seen half written: `AlwaysOneInFlight`. If clients wait for their replies:
`AlwaysPendingPowered`. If all of that holds (`Orderly`): `AlwaysAnswersOwn`,
`DevImplementsRpc`. `IInv` is `TypeOK` with `Counted` (`at_num_open` is at least
the number of open slots, without which its type is not inductive) and `Holder`
(what `pc` says of `who`). `AnswersOwn` is not inductive: `Served` says for every place
a message or result can be in (`outgoing`, the message area, `exec`, the result
area) that it belongs to the client the channel is reserved for.

`FastcallProofs`: `FastcallTypeCorrect` always; `AlwaysOwnResult` and
`AlwaysServesTheCaller` if programs take turns (`Overlap = {}`), however slow
calls are and wherever clients are killed. The invariant says that one client
is in a sequence (`Alone`), what each place of a client tells of the control words
(`Tells`), when there is no request (`NoRequest`), whose request it is
(`Requested`), and that a result stays until it is read (`Kept`), though it is
read after the DSP has been let go on.

`LogbufProofs`: `LogbufTypeCorrect`, `AlwaysNeverStuck`, `AlwaysInOrder` for rings and
lines of any length, if the DSP writes no more than half of the ring between the ends of
two prints and the device is opened while the log is quiet (`Quietly`). Half, because a call of
`dsp_logbuf_print` takes no more: both the turn and the loop's condition count down. The invariant relates every offset of
the ring to the number of the character in it (`Ring`), and the reader's place to the
numbers it has passed (`Reads`); the work is in the wrap around.

`OverlayProofs`: `OverlayTypeCorrect`, wherever clients are killed, with who has the lock
(`Locked`) and where the load stands (`Placed`); `AlwaysCallable`,
`AlwaysRefsExact` and `AlwaysNothingLeftBehind`, if an area has one image, nobody asks by name
for a component that the `init()` of another one registers, and nobody is killed between
UNREGISTER and OVERLAY_FREE (`Careful`). Counts are exact with `leaked` added, and are
those of the components that were registered with their image: what an `init()` has added
starts with a count of 1 that lookups of the first component do not raise, and is gone
before it. The argument: what is in
the table is what is in the section, once (`Table`, `Unique`, `Added`), what a
client has found out stays true until it acts on it (`Progress`), the kernel's
flags of a living client are what it has (`Flagged`, `UsedHas`), a sequence and
an emergency message exclude each other (`Channel`), and, by cardinalities, the
references of a component are its users with the unload under way (`Counted`);
`Owed` says the same of the dead, whose flags are all that is left of them.

`BootProofs`, whichever switches time out, loads fail and programs open, suspend or
close: `AlwaysRunsWholeImage`, `AlwaysStateTellsHardware`, `AlwaysServesItsImage`,
`AlwaysOverlayLinked`. Three hypotheses. `CinitIsRead`: reading an overlay does not fail before
its `.cinit` section is in memory (section 6). `LoadedOnce`: c64_load runs once (two of them, or
one with a program that closes meanwhile, disagree: section 6). `FilesFit`: the sections
of a file do not overlap and lie in the area they are linked for, the image's away from the
overlays', and the values of an overlay's `.cinit` lie in its `.bss`; that is what the linker
scripts see to, as the loader looks at most at where a section begins. Among what is invariant: how far the register steps of a
switch have come and what the registers are then (the steps are folds over short
lists, unrolled once each by a lemma), what c64_load has placed so far, section by
section, that nothing of the image is touched by what is placed for overlays, and,
of the DSP's own software, what its variables hold at each state.

`HostProofs`: `AlwaysOutLeavesNothing` and `AlwaysHandlerReady`, in both builds and for any
program, if insmod is refused only what the code cleans up after (`CleanedUp`). The
invariant says at each place what insmod has taken (`Loads`), that what is still to
be given back, on the way out or after a refusal, is exactly the rest of the list
(`Undoes`), and that what the interrupt handler uses outlives it (`Used`).
Of root access: `AlwaysDownLeavesNothing` for every list of regions (before `dsp_init_root` and
after `dsp_exit_root`), and `AlwaysLandsWhereMeant`
for every page size if the pages `dsp_mmap` rounds to hold the block (`BlocksFit`,
which says no more than that the rounding of section 6 loses nothing). What has to be invariant is
the page table as a whole: what is mapped is exactly the regions of `fast_mmap` up to
the one `dsp_init_root` has come to, and the block under way, none over another.

`ShmProofs`, for any number of processes (the run has one), any number of cache types and pages,
wherever calls fail and processes are killed, from the assumptions of `Shm` on what
Linux does: huge pages do not overlap, no memory lies at the lowest addresses, and no address
is as low as an area is long.
- `AlwaysMappedIsOwned` and `AlwaysNeverShared`. `MappedIsOwned` is not inductive: that freeing takes just
  the pages of what is freed needs that the library's table and the driver's agree
  (`Agree`, `Empty`), that every page of a region is backed by that region (`Backed`,
  `Covered`), that huge pages are mapped in one region and as a whole (`HugeIn`,
  `Whole`), and, between processes, that blocks are disjoint (`Disjoint`).
- `AlwaysRoundTrip` and `AlwaysCacheFindsRegion`. These need more (`ExactInvariance`): that regions lie in what is
  mapped (`Inside`) and have a size the table of huge pages can hold (`Sized`); that
  the driver has the very region the library has (`Finished`, `HugeNoted`); that huge pages lie
  in the region one after the other, each whole (`Laid`), and that the table says of each of
  them where it is, as far as the loop of V2P has come (`Listed`); that L1DSRAM and L2SRAM
  are where `area` says (`OnChip`); and that what is being freed is mapped no more (`Gone`).
  A translation there and back then comes to the page it began with, as a page is mapped once. That
  both searches find the entry they are meant to (the first match of a loop is a least
  element) is shown with the well-foundedness of the natural numbers.
- Its last part is about `Buffers`: `AlwaysDelivered` and `AlwaysNeighboursKept`, for blocks, buffers,
  cache lines and numbers of channels of any size, every cache type, every command of `test_qdma`
  with chains of any length from two on, and every place of the output, in
  the middle of a line too; and `AlwaysServed`, the half of `Answered` that is a safety property.
  Invariant (`BInv`) is, at each stage of a call, which copies of a word agree. Of the input:
  after the hand-over memory has it, and a line over it nothing else (`InputKept`). Of the output: no
  line over it is dirty (`OutputClean`), and each word is right in memory or still to be written
  by a set that is queued, linked to one that is, or named in the rest of the command
  (`OutputThere`, `Coming`). Of the DMA: a channel that runs is one the rest of the command waits for,
  and is queued or pending, not both (`Events`), so nothing is coming when the command is through. The
  three cache routines are one step for this purpose (`Synced`): it is harmless if a line dropped
  that holds other words is written back first, and that invalidation does so at the two
  ends, and covers every line of the output in between, is `OutputLines`. The
  theorem keeps the hypothesis of the property: the application writes to no line of the output
  while the call runs (`shared`).

The hypotheses about programs and failures are needed: see the next section. Only in proofs: `TypeOK` of
each module, `Owned` and `PassedOwnNothing`. The least element of a set of numbers, which `WellFoundedInduction`
gives for any set, stands in for the induction over data that the installed provers cannot
instantiate.

Only model-checked: all liveness, which is out of the prover's reach. Every other property of
the passing runs is a theorem.

## 6. Known disagreements

Places where the code does not do what its comments, headers or callers expect.
`minim_close` is kept as a run. For the others it is said how the passing runs and
the theorems leave the behaviour out: by the value of the constant named (with the other
value TLC shows it), by an exception in the property named, or by the
two assumptions on programs in `Logbuf`. What has none of these is not modelled.

Device and mailbox
- A refused open stays counted (`dev.c:775`; the loader, alone, is told EBUSY).
- The reply owed to a client that closed goes to the next writer (`dev.c:846`): `Killable`.
- A call to an unknown component returns what an earlier call left
  (DSP `mlb.c:1178`): `Rpc` allows any result there.
- The DSP can see the new serial with the old message (`mlb.c:267`): `TornPosts`.
- PWR_OFF loses the reply under way, nobody can send any more (`dev.c:2062`):
  `Killable` with `c64_pwroff`.
- A message with serial 0 after a resume is never answered (DSP `mlb.c:920`):
  excepted in `AnsweredUnlessWrapped`.
- A write that fails with EAGAIN drops a reply not read yet (`dev.c:1161`); `read`,
  OVERLAY_REF and the shared memory ioctls take no mutex (`dev.c:1013`), which matters
  to programs with several threads.

Fastcalls
- `dsp_rpc_send` tests `TOGPP_CTL`, then stores `TODSP_CTL`, while another
  program's sequence may have begun (`dsp.c:2382`, against `dsp.h:396`): `Overlap`.

Overlays
- OVERLAY_FREE of a shared section gives it away under its other users
  (`dev.c:1790`, against `dsp.h:285`): two images for one area, `Area3 = {}`.
- A lookup by the name of a component that an `init()` has registered raises that one's
  count only, an unregistration lowers all of the section (DSP `mlb.c:171`): c1 loads `a`, c2 asks
  for `x`, which came with it, either closes, and `a` is gone under the other:
  `x` in `Wanted`.
- A client killed between UNREGISTER and OVERLAY_FREE has its sections
  unregistered twice: `"unregistered"` in `Mortal`.
- A program that loads what it has (`dsp.h:278`) takes a reference that is never
  given back, a client killed between the lookup and OVERLAY_REF leaves one too: the
  component stays registered, with its section marked unused. In the run and
  the theorems; counted in `leaked`, which `RefsExact` and `NothingLeftBehind` take into account.
  The entry of `overlays[]` is overwritten then, and the section's mapping never unmapped.
- The counts of components that an `init()` has added are not those of their users: `RefsExact`
  is about the others.
- `fops__release` waits for the channel with the mutex held, and the client that
  has the channel waits for the mutex: only the time-out resolves it, and
  the section stays registered (`UnloadTimeout`).

Log
- If the DSP logs more than half of the ring between two prints, the reader's count may stop
  it at the end of a line, where it finds a 0 from then on: `Burst` above `Size / 2`.
- Opened while the DSP logs, or when a line ends at offset 0, the reader may start
  inside of a line: `AnyStart`.

Images and power
- c64_load has no bit in `client_powerstate_mask` while it loads (`dev.c:955`, against
  `c64_load/main.c:525`); a program that closes powers off and on and runs half an image: `Reload`.
- A start given up leaves the entry point noted (`dsp_c64.c:380`), and the next
  resume runs what never began: excepted in `ServesItsImage` by `late`.
- A switch that times out leaves `at_dsp_state` behind (`dsp_c64.c:517`), a failed power on
  leaves the domain on: excepted in `StateTellsHardware` by `faulty`.
- `.cinit` is applied although reading a section failed (`coff_overlay.c:320`). If that
  was before `.cinit` itself was read, what memory held is taken for
  initialisation records, which may lie anywhere: `CinitUnread`.
- A section that begins inside of an overlay's area and ends outside of it is copied
  (`coff_overlay.c:207`, `:252`), and c64_load copies text and data wherever they are linked for
  (`c64_load/main.c:330`): in the model; the theorems assume `FilesFit`.

Shared memory
- `dsp_open` takes EBUSY of the resume for success without noting that it is
  open (`dsp.c:676`): `ResumeFails`.
- A failed mmap keeps the block until the file is closed; physical addresses of huge pages
  outlive the area (`dsp.c:1613`); ranges of huge pages have to be given
  by virtual address, `loc_ioctl_cache` refuses them; an invalidation of 0
  bytes throws away the line it points to, as its loop ends with its test; a range
  that begins inside of a region and wraps at 2^32 is accepted (`dev.c:1465`).

QDMA
- A chain of one transfer is linked to set 7 and does not signal its end, and `qdma_wait` does not
  return; with none the loop's counter wraps around (`test_qdma.c:82`): `Chains` has two or more.
- One `QDMAQNUM` write per channel replaces the one before (`dma.c:116`); counts
  are 16 bits wide (`dma.c:195`): `CountSpace`; a second start without a wait
  in between loses the first one's completion. Invalidating a buffer that shares
  a line with other data loses that data unless it is cleaned, which may
  overwrite what the DSP has written: `shared` in `Buffers`.

Kernel module and root access
- `c64_init` does not unregister the platform driver when a later step fails
  (`kmod.c:192`), and `failed_clk_get` gives the cdev back twice
  (`dev.c:3176`): `Fails`. `device_create` and `clk_get` return an error pointer
  where NULL is tested.
- `dsp_mmap` rounds address and length separately (`dsp.c:3471`): a block that
  is not aligned and crosses a page is a page short: `Blocks`.

## 7. What is not modelled

- `select` and `/proc`, which only read; the debug ioctls; the commands of the DSP that copy
  or print single words, and its table of system calls.
- `dl_malloc.c` (vendored) and the wrappers `dsp_mspace_*`; the
  wrappers of the L1DSRAM and L2SRAM ioctls, whose kernel side is `Minim`.
- QDMA's fast variants, as far as they only skip checks.
- Register access (`reg.c`: single loads and stores), sleeping, time, logging and output; the command
  lines of the tools; `dsp_dm3730.c`, which is disabled code.
- Tests, benchmarks and demo components, but for `test_qdma`'s commands; generated
  code of BIOS; `nops.c`, a table.
- A second process in the run of `Shm`, as two page tables together are beyond TLC: what
  two of them share is the pool of physical pages, of which another process takes
  as a failed allocation does. The theorems are about any number of them.
- Hazards without a property have a note in `PROJECT.json`.

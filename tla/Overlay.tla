------------------------------- MODULE Overlay ------------------------------
(***************************************************************************)
(* Overlays: components a client loads into a section of DSP memory        *)
(* (dsp_component_load and dsp_close in libc64/dsp.c), the allocation      *)
(* flags of the sections in the kernel (kmod/dev.c) and the reference      *)
(* counts on the DSP (dsp/libc64_dsp/src/mlb.c).                           *)
(*                                                                         *)
(* A load is one fastcall sequence: from INITIATE to dsp_fastcall_end the  *)
(* DSP serves nobody else, and the message channel stays reserved (lock).  *)
(* fops__release works with mtx_clients held (mtx) and needs the channel   *)
(* to unload what its client has left behind.                              *)
(*                                                                         *)
(* A program may load what it has already, and may ask for a component     *)
(* that the init() of another one has registered; leaked counts, as a      *)
(* history of the references, those that nobody will ever give back.       *)
(*                                                                         *)
(* The core component, which is resident, is not asked for by its name.    *)
(* Left to other modules: the handshake of a fastcall (Fastcall), messages *)
(* and power (Dev), what a COFF file looks like (Coff).                    *)
(***************************************************************************)
EXTENDS Naturals, FiniteSets, FiniteSetsExt

CONSTANTS
  Clients,
  Images,     \* component names; also what the code in a section can be
  Wanted,     \* the names programs ask for
  NoFile,     \* the images that have no .out file
  Area3,      \* the images linked for area 3; the others are for area 2
  Second,     \* the name of the component the init() of an image registers
  Flaky,      \* the images whose load or init() may fail
  AREA3,      \* MLB_COM_SECTIONIDX_AREA3: sections below are area 2
  NumSlots,   \* MLB_MAX_OVERLAY_COMPONENTS
  Mortal,     \* places (values of pc) at which a client may be killed
  MaxKills,   \* bound on the number of kills: lost sections keep references
  MaxLeaked,  \* bound on leaked[s] at loads of what the program has
  NULL

Sections == 0 .. AREA3
Slots == 0 .. NumSlots - 1

ASSUME OverlayAssumption ==
  /\ IsFiniteSet(Clients)
  /\ NULL \notin Clients \cup Images \cup Sections \cup Slots
  /\ AREA3 \in Nat \ {0}
  /\ NumSlots \in Nat \ {0}
  /\ MaxKills \in Nat
  /\ MaxLeaked \in Nat
  /\ Wanted \cup NoFile \cup Area3 \cup Flaky \subseteq Images
  /\ Second \in [DOMAIN Second -> Images]
  /\ Mortal \cap {"closed", "dead", "release"} = {}

VARIABLES
  components, \* mlb.c: components[] from MLB_MAX_CORE_COMPONENTS on
  code,       \* what the memory of a section holds
  used,       \* dev.c: b_overlay_section_allocflags
  flags,      \* dev.c: the clients' own b_overlay_section_allocflags
  overlays,   \* dsp.c: overlays[] of each client
  pc, want, sec, \* where a client is, the component it loads, its section
  lock,       \* the client whose fastcall sequence holds the DSP
  unload,     \* the section of the emergency message under way
  mtx,        \* the client whose fops__release holds mtx_clients
  lost,       \* sections an unload gave up
  leaked,     \* history: references to a section that nobody gives back
  kills       \* clients killed so far

kernel == <<used, flags, mtx, lost, leaked, kills>>
vars == <<components, code, used, flags, overlays, pc, want, sec, lock,
          unload, mtx, lost, leaked, kills>>

NoOverlay == [compid |-> NULL, mem |-> FALSE]
Free == [name |-> NULL, added |-> FALSE, section |-> NULL, ref_count |-> 0]

Registered == {i \in Slots : components[i] # Free}
Named(n) == {i \in Registered : components[i].name = n}
FirstFree(i) == components[i] = Free /\ \A j \in 0 .. i - 1 : components[j] # Free
ChannelFree == lock = NULL /\ unload = NULL

Init ==
  /\ components = [i \in Slots |-> Free]
  /\ code = [s \in Sections |-> NULL]
  /\ used = {}
  /\ flags = [c \in Clients |-> {}]
  /\ overlays = [c \in Clients |-> [s \in Sections |-> NoOverlay]]
  /\ pc = [c \in Clients |-> "closed"]
  /\ want = [c \in Clients |-> NULL]
  /\ sec = [c \in Clients |-> NULL]
  /\ lock = NULL
  /\ unload = NULL
  /\ mtx = NULL
  /\ lost = {}
  /\ leaked = [s \in Sections |-> 0]
  /\ kills = 0

Goto(c, from, to) == pc[c] = from /\ pc' = [pc EXCEPT ![c] = to]
-----------------------------------------------------------------------------
(* The DSP's core commands, on the component table.                        *)

Component(n, added, s) ==
  [name |-> n, added |-> added, section |-> s, ref_count |-> 1]

(* Mutant: the lookup takes no reference.                                  *)
loc_component_find_by_name_NoRef(n) == UNCHANGED components

(* The first component of that name, which alone gets a reference.         *)
loc_component_find_by_name(n) ==
  components' = [components EXCEPT ![Min(Named(n))].ref_count = @ + 1]

(* Every component of the section loses a reference.                       *)
loc_mlb_overlay_unregister(table, s) ==
  [i \in Slots |->
     IF table[i] = Free \/ table[i].section # s THEN table[i]
     ELSE IF table[i].ref_count = 1 THEN Free
     ELSE [table[i] EXCEPT !.ref_count = @ - 1]]

(* mlb_syscall_component_register, called by init(), which ignores what it *)
(* returns: without a free slot there is no second component.              *)
mlb_syscall_component_register(table, n, s) ==
  LET free == {i \in Slots : table[i] = Free}
  IN  IF free = {} THEN table
      ELSE [table EXCEPT ![Min(free)] = Component(n, TRUE, s)]

(* loc_mlb_overlay_register: the first free slot takes the component at    *)
(* the start of the section, then its init() runs.                         *)
loc_mlb_overlay_register(i, s) ==
  LET table == [components EXCEPT ![i] = Component(code[s], FALSE, s)]
  IN  IF code[s] \in DOMAIN Second
      THEN mlb_syscall_component_register(table, Second[code[s]], s)
      ELSE table

(* init() fails, before it has registered its second component or after:   *)
(* the slot is put back, and the section is unregistered.                  *)
InitFails(i, s) ==
  \E table \in {components, loc_mlb_overlay_register(i, s)} :
    components' = loc_mlb_overlay_unregister([table EXCEPT ![i] = Free], s)
-----------------------------------------------------------------------------
(* dsp_open, and a program that wants to use component n, which it may     *)
(* have already: it gets another reference then, of which its overlays[]   *)
(* know nothing.                                                           *)
dsp_open(c) ==
  /\ mtx = NULL
  /\ Goto(c, "closed", "open")
  /\ UNCHANGED <<components, code, overlays, kernel, want, sec, lock, unload>>

(* dsp_component_load: loc_overlay_component_register_begin.               *)
LoadBegin(c, n) ==
  /\ Goto(c, "open", "find")
  /\ mtx = NULL
  /\ ChannelFree
  /\ \A s \in Sections : overlays[c][s].compid \in Named(n) => leaked[s] < MaxLeaked
  /\ lock' = c
  /\ want' = [want EXCEPT ![c] = n]
  /\ UNCHANGED <<components, code, overlays, kernel, sec, unload>>

(* dsp_component_id_find_by_name: it is there, and gets a reference ...    *)
FindKnown(c) ==
  /\ Goto(c, "find", "ref")
  /\ Named(want[c]) # {}
  /\ loc_component_find_by_name(want[c])
  /\ LET i == Min(Named(want[c]))
         s == components[i].section
     IN  /\ sec' = [sec EXCEPT ![c] = s]
         /\ overlays' = [overlays EXCEPT ![c][s] = [compid |-> i, mem |-> TRUE]]
         /\ leaked' = IF overlays[c][s].compid = NULL THEN leaked
                      ELSE [leaked EXCEPT ![s] = @ + 1]
  /\ UNCHANGED <<code, used, flags, want, lock, unload, mtx, lost, kills>>

(* ... or it is not, and has a file or none.                               *)
FindUnknown(c) ==
  /\ Goto(c, "find", IF want[c] \in NoFile THEN "end" ELSE "alloc")
  /\ Named(want[c]) = {}
  /\ UNCHANGED <<components, code, overlays, kernel, want, sec, lock, unload>>

(* OVERLAY_REF takes no mutex.                                             *)
OVERLAY_REF(c) ==
  /\ Goto(c, "ref", "end")
  /\ flags' = [flags EXCEPT ![c] = @ \cup {sec[c]}]
  /\ UNCHANGED <<components, code, used, overlays, want, sec, lock, unload, mtx, lost, leaked, kills>>

Candidates(n) == (IF n \in Area3 THEN {AREA3} ELSE 0 .. AREA3 - 1) \ used

(* The first free section of the area, if there is one.                    *)
OVERLAY_ALLOC(c) ==
  /\ mtx = NULL
  /\ Goto(c, "alloc", "map")
  /\ Candidates(want[c]) # {}
  /\ LET s == Min(Candidates(want[c]))
     IN  /\ used' = used \cup {s}
         /\ flags' = [flags EXCEPT ![c] = @ \cup {s}]
         /\ sec' = [sec EXCEPT ![c] = s]
         /\ overlays' = [overlays EXCEPT ![c][s].mem = TRUE]
  /\ UNCHANGED <<components, code, want, lock, unload, mtx, lost, leaked, kills>>

AllocFails(c) ==
  /\ mtx = NULL
  /\ Goto(c, "alloc", "end")
  /\ Candidates(want[c]) = {}
  /\ UNCHANGED <<components, code, overlays, kernel, want, sec, lock, unload>>

(* mmap of the section, which is still what another has left there, and    *)
(* coff_load_overlay.                                                      *)
coff_load_overlay(c) ==
  /\ mtx = NULL
  /\ Goto(c, "map", "register")
  /\ code' = [code EXCEPT ![sec[c]] = want[c]]
  /\ UNCHANGED <<components, overlays, kernel, want, sec, lock, unload>>

(* mmap fails, or coff_load_overlay, with part of the image written.       *)
LoadFails(c) ==
  /\ mtx = NULL
  /\ Goto(c, "map", "unwind")
  /\ want[c] \in Flaky
  /\ \E left \in {code[sec[c]], NULL} : code' = [code EXCEPT ![sec[c]] = left]
  /\ overlays' = [overlays EXCEPT ![c][sec[c]].mem = FALSE]
  /\ UNCHANGED <<components, kernel, want, sec, lock, unload>>

loc_overlay_component_register_new(c) ==
  /\ Goto(c, "register", "end")
  /\ \E i \in Slots :
       /\ FirstFree(i)
       /\ components' = loc_mlb_overlay_register(i, sec[c])
       /\ overlays' = [overlays EXCEPT ![c][sec[c]].compid = i]
  /\ UNCHANGED <<code, kernel, want, sec, lock, unload>>

(* CORE_ERR_COM_ALLUSED, or CORE_ERR_COM_INIT.                             *)
RegisterFails(c) ==
  /\ Goto(c, "register", "unwind")
  /\ \/ Registered = Slots /\ UNCHANGED components
     \/ /\ want[c] \in Flaky
        /\ \E i \in Slots : FirstFree(i) /\ InitFails(i, sec[c])
  /\ overlays' = [overlays EXCEPT ![c][sec[c]].mem = FALSE]
  /\ UNCHANGED <<code, kernel, want, sec, lock, unload>>

(* Mutant: the failed load keeps its section.                              *)
Unwind_Keeps(c) ==
  /\ mtx = NULL
  /\ Goto(c, "unwind", "end")
  /\ flags' = [flags EXCEPT ![c] = @ \ {sec[c]}]
  /\ UNCHANGED <<components, code, used, overlays, want, sec, lock, unload, mtx, lost, leaked, kills>>

(* The failed load gives its section back (OVERLAY_FREE).                  *)
Unwind(c) ==
  /\ mtx = NULL
  /\ Goto(c, "unwind", "end")
  /\ used' = used \ {sec[c]}
  /\ flags' = [flags EXCEPT ![c] = @ \ {sec[c]}]
  /\ UNCHANGED <<components, code, overlays, want, sec, lock, unload, mtx, lost, leaked, kills>>

(* dsp_fastcall_end.                                                       *)
LoadEnd(c) ==
  /\ Goto(c, "end", "open")
  /\ lock' = NULL
  /\ want' = [want EXCEPT ![c] = NULL]
  /\ sec' = [sec EXCEPT ![c] = NULL]
  /\ UNCHANGED <<components, code, overlays, kernel, unload>>
-----------------------------------------------------------------------------
(* dsp_close: loc_overlays_free unregisters and frees section by section.  *)
dsp_close(c) ==
  /\ Goto(c, "open", "closing")
  /\ UNCHANGED <<components, code, overlays, kernel, want, sec, lock, unload>>

(* A sequence of its own around the UNREGISTER.                            *)
OVERLAY_UNREGISTER(c) ==
  /\ Goto(c, "closing", "unregistered")
  /\ mtx = NULL
  /\ ChannelFree
  /\ \E s \in Sections :
       /\ overlays[c][s].compid # NULL
       /\ \A r \in 0 .. s - 1 : overlays[c][r] = NoOverlay
       /\ components' = loc_mlb_overlay_unregister(components, s)
       /\ overlays' = [overlays EXCEPT ![c][s].compid = NULL]
       /\ sec' = [sec EXCEPT ![c] = s]
  /\ UNCHANGED <<code, kernel, want, lock, unload>>

(* What others still use the section is not asked.                         *)
OVERLAY_FREE(c) ==
  /\ mtx = NULL
  /\ Goto(c, "unregistered", "closing")
  /\ used' = used \ {sec[c]}
  /\ flags' = [flags EXCEPT ![c] = @ \ {sec[c]}]
  /\ overlays' = [overlays EXCEPT ![c][sec[c]] = NoOverlay]
  /\ sec' = [sec EXCEPT ![c] = NULL]
  /\ UNCHANGED <<components, code, want, lock, unload, mtx, lost, leaked, kills>>

Close(c) ==
  /\ mtx = NULL
  /\ Goto(c, "closing", "closed")
  /\ \A s \in Sections : overlays[c][s] = NoOverlay
  /\ UNCHANGED <<components, code, overlays, kernel, want, sec, lock, unload>>
-----------------------------------------------------------------------------
(* The process is gone, and the kernel closes its file.  The kernel does   *)
(* not know of a reference it had not yet told it of.                      *)
Kill(c) ==
  /\ pc[c] \in Mortal
  /\ kills < MaxKills
  /\ kills' = kills + 1
  /\ pc' = [pc EXCEPT ![c] = "dead"]
  /\ overlays' = [overlays EXCEPT ![c] = [s \in Sections |-> NoOverlay]]
  /\ want' = [want EXCEPT ![c] = NULL]
  /\ sec' = [sec EXCEPT ![c] = NULL]
  /\ leaked' = IF pc[c] = "ref" /\ sec[c] \notin flags[c]
               THEN [leaked EXCEPT ![sec[c]] = @ + 1] ELSE leaked
  /\ UNCHANGED <<components, code, used, flags, mtx, lost, lock, unload>>

(* Its sequence is ended (mlb_fastcall_end) ...                            *)
fops__release(c) ==
  /\ mtx = NULL
  /\ Goto(c, "dead", "release")
  /\ mtx' = c
  /\ lock' = IF lock = c THEN NULL ELSE lock
  /\ UNCHANGED <<components, code, used, flags, overlays, want, sec, unload, lost, leaked, kills>>

(* Mutant: the section is marked unused, the message is not sent.          *)
EMERGENCY_UNLOAD_Silent(c) ==
  /\ Goto(c, "release", "release")
  /\ flags[c] # {}
  /\ ChannelFree
  /\ LET s == Min(flags[c])
     IN  /\ flags' = [flags EXCEPT ![c] = @ \ {s}]
         /\ used' = used \ {s}
  /\ UNCHANGED <<components, code, overlays, want, sec, lock, unload, mtx, lost, leaked, kills>>

(* ... a message is sent for every section it left behind, which is marked *)
(* unused at once ...                                                      *)
EMERGENCY_UNLOAD(c) ==
  /\ Goto(c, "release", "release")
  /\ flags[c] # {}
  /\ ChannelFree
  /\ LET s == Min(flags[c])
     IN  /\ unload' = s
         /\ flags' = [flags EXCEPT ![c] = @ \ {s}]
         /\ used' = used \ {s}
  /\ UNCHANGED <<components, code, overlays, want, sec, lock, mtx, lost, leaked, kills>>

(* Mutant: the loop has no timeout.                                        *)
UnloadTimeout_Never(c) == FALSE /\ UNCHANGED vars

(* ... unless another client's sequence outlasts the wait, as it must if   *)
(* that client is waiting for mtx_clients.                                 *)
UnloadTimeout(c) ==
  /\ Goto(c, "release", "release")
  /\ flags[c] # {}
  /\ lock # NULL
  /\ LET s == Min(flags[c])
     IN  /\ lost' = lost \cup {s}
         /\ leaked' = [leaked EXCEPT ![s] = @ + 1]
         /\ flags' = [flags EXCEPT ![c] = @ \ {s}]
  /\ UNCHANGED <<components, code, used, overlays, want, sec, lock, unload, mtx, kills>>

ReleaseEnd(c) ==
  /\ Goto(c, "release", "closed")
  /\ flags[c] = {}
  /\ mtx' = NULL
  /\ UNCHANGED <<components, code, used, flags, overlays, want, sec, lock, unload, lost, leaked, kills>>

(* The DSP executes the emergency message.                                 *)
loc_mlb_exec ==
  /\ unload # NULL
  /\ components' = loc_mlb_overlay_unregister(components, unload)
  /\ unload' = NULL
  /\ UNCHANGED <<code, overlays, kernel, pc, want, sec, lock>>
-----------------------------------------------------------------------------
dsp_component_load(c) ==
  \/ FindKnown(c) \/ FindUnknown(c) \/ OVERLAY_REF(c)
  \/ OVERLAY_ALLOC(c) \/ AllocFails(c)
  \/ coff_load_overlay(c) \/ LoadFails(c)
  \/ loc_overlay_component_register_new(c) \/ RegisterFails(c)
  \/ Unwind(c) \/ LoadEnd(c)

Release(c) ==
  \/ fops__release(c) \/ EMERGENCY_UNLOAD(c) \/ UnloadTimeout(c) \/ ReleaseEnd(c)

Next ==
  \/ \E c \in Clients :
       \/ dsp_open(c)
       \/ \E n \in Wanted : LoadBegin(c, n)
       \/ dsp_component_load(c)
       \/ dsp_close(c) \/ OVERLAY_UNREGISTER(c) \/ OVERLAY_FREE(c) \/ Close(c)
       \/ Kill(c)
       \/ Release(c)
  \/ loc_mlb_exec

Spec == Init /\ [][Next]_vars

(* A load and a release go on, and get the mutex if that is free again and *)
(* again (a kernel mutex queues its waiters); the DSP goes on.             *)
FairSpec ==
  /\ Spec
  /\ \A c \in Clients : SF_vars(dsp_component_load(c)) /\ SF_vars(Release(c))
  /\ WF_vars(loc_mlb_exec)
-----------------------------------------------------------------------------
Pcs == {"closed", "open", "find", "ref", "alloc", "map", "register", "unwind",
        "end", "closing", "unregistered", "dead", "release"}

Loading == {"find", "ref", "alloc", "map", "register", "unwind", "end"}

Entry ==
  {Free} \cup
  [name : Images, added : BOOLEAN, section : Sections, ref_count : Nat \ {0}]

Held == [compid : Slots \cup {NULL}, mem : BOOLEAN]

(* Types; a component in the table has a reference.                        *)
TypeOK ==
  /\ components \in [Slots -> Entry]
  /\ code \in [Sections -> Images \cup {NULL}]
  /\ used \subseteq Sections
  /\ flags \in [Clients -> SUBSET Sections]
  /\ overlays \in [Clients -> [Sections -> Held]]
  /\ pc \in [Clients -> Pcs]
  /\ want \in [Clients -> Images \cup {NULL}]
  /\ sec \in [Clients -> Sections \cup {NULL}]
  /\ lock \in Clients \cup {NULL}
  /\ unload \in Sections \cup {NULL}
  /\ mtx \in Clients \cup {NULL}
  /\ lost \subseteq Sections
  /\ leaked \in [Sections -> Nat]
  /\ kills \in 0 .. MaxKills

(* The names of the components that come with an image.                    *)
Provided(image) == {image} \cup (IF image \in DOMAIN Second THEN {Second[image]} ELSE {})

(* A component that dsp_component_load has returned to a program stays     *)
(* callable until the program closes: the DSP's table has it, in the       *)
(* section the program knows, and the section holds its code, whatever     *)
(* other users of the section, dying ones included, do meanwhile.          *)
HeldIsCallable ==
  \A c \in Clients, s \in Sections :
    LET i == overlays[c][s].compid
    IN  i # NULL =>
          /\ components[i].section = s
          /\ components[i].name \in Provided(code[s])

Holds(c, i, s) ==
  \/ overlays[c][s].compid = i
  \/ pc[c] \in {"dead", "release"} /\ s \in flags[c]

(* The reference count the DSP keeps for the component an image was        *)
(* registered with is the number of clients it has been given to, the dead *)
(* ones whose sections have not been unloaded yet and the message that     *)
(* unloads one included, and of the references nobody gives back: those of *)
(* a load of what the program had already, of a death before OVERLAY_REF   *)
(* and of an emergency unload that was given up.  (The count of what an    *)
(* init() has added is another: lookups of the first one do not raise it,  *)
(* and unregistrations lower both.)                                        *)
RefsExact ==
  \A i \in Registered :
    LET s == components[i].section
    IN  ~ components[i].added =>
          components[i].ref_count =
            Cardinality({c \in Clients : Holds(c, i, s)})
              + (IF unload = s THEN 1 ELSE 0) + leaked[s]

(* When nobody is left, no section is marked used but those whose          *)
(* emergency unload was given up, and no component is registered but in    *)
(* sections with references nobody gives back.                             *)
NothingLeftBehind ==
  (\A c \in Clients : pc[c] = "closed") /\ unload = NULL =>
    /\ used \subseteq lost
    /\ \A i \in Registered : leaked[components[i].section] # 0

(* A load that holds the DSP does not hold it for ever, though it may wait *)
(* for the mutex of a fops__release that waits for the DSP.                *)
SequenceEnds == \A c \in Clients : lock = c ~> lock # c
=============================================================================

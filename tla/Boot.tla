--------------------------------- MODULE Boot ---------------------------------
(***************************************************************************)
(* Loading, starting, suspending and resuming the DSP: c64_load            *)
(* (c64_load/main.c), the programs that open a connection (libc64/dsp.c),  *)
(* the power switches of the kernel module (kmod/dsp_c64.c) and the start  *)
(* of the DSP's own software (dsp/core/main.c, libc64_dsp/src/mlb.c).      *)
(*                                                                         *)
(* A power switch holds a spinlock and is one step.  It is a sequence of   *)
(* register writes and of waits for the hardware; any wait may time out,   *)
(* and then the switch gives up where it is.  START holds mtx_clients while*)
(* it waits for the DSP: who is the client.                                *)
(*                                                                         *)
(* pc of c64_load                      pc of another program               *)
(*   "parsed"  the file's headers read   "resuming" /dev/c64 is open       *)
(*   "opened"  /dev/c64 is open          "open"     dsp_open has returned  *)
(*   "load"    copying section sec       "suspended"                       *)
(*   "start"   the image is copied                                         *)
(*   "starting" START waits                                                *)
(*   "check"   the DSP is started, "ok": it wrote the expected values      *)
(*   "exit"    dsp_close is to resume the DSP, "closing": and to close     *)
(***************************************************************************)
EXTENDS Coff

CONSTANTS
  Loaders, Clients, \* programs: runs of c64_load, others
  Images,           \* the DSP image files, complete or not
  Overlays,         \* the overlay image files
  Resident,         \* the addresses of the DSP image (dsp_config.ram)
  OverlayArea,      \* those of the overlay section
  ResetVector,      \* the address the DSP boots at; L1DSRAM is below it
  NULL,
  Reload,           \* is c64_load run again after it started the DSP
  SlowStart,        \* may START give up on a DSP that is still starting
  NoMapping,        \* may the reset vector not be mapped (ioremap_nocache)
  CinitUnread,      \* may reading an overlay fail before its .cinit section
  Mortal            \* programs that may be killed

ASSUME BootAssumption ==
  /\ Loaders \cap Clients = {}
  /\ Mortal \subseteq Loaders \cup Clients
  /\ NULL \notin Images \cup Loaders \cup Clients
  /\ {Reload, SlowStart, NoMapping, CinitUnread} \subseteq BOOLEAN
  /\ Resident \cup OverlayArea \subseteq Nat /\ ResetVector \in Nat

VARIABLES
  hw,               \* the registers of the IVA2 domain
  faulty, late,     \* the last switch has timed out, a start has
  at_dsp_state, dsp_entry_point, bootflag, \* dsp_c64.c, mlb.c
  mask, who,        \* dev.c: client_powerstate_mask, who is in START
  pc, file, sec,    \* the programs: the image c64_load loads, its next section
  mem, alive,       \* the DSP's memory, the area loc_check_dsp_activity reads
  core, comps,      \* the DSP: how far it has come, what its components are of
  linked            \* the overlay that was linked last

power == <<hw, faulty, at_dsp_state, bootflag, core>>
driver == <<dsp_entry_point, mask, who, late>>
programs == <<pc, file, sec>>
memory == <<mem, alive, comps, linked>>
vars == <<hw, faulty, late, at_dsp_state, dsp_entry_point, bootflag, mask, who,
          pc, file, sec, mem, alive, core, comps, linked>>

Programs == Loaders \cup Clients

(* Open file descriptors of /dev/c64 (at_num_open).                        *)
Opened == { p \in Programs : pc[p] \notin {"idle", "parsed"} }

Init ==
  /\ hw = [pw |-> FALSE, next |-> FALSE, ctl |-> 0, fclk |-> FALSE,
           rst |-> {1, 2, 3}, direct |-> FALSE]
  /\ faulty = FALSE
  /\ late = FALSE
  /\ at_dsp_state = "OFF"
  /\ dsp_entry_point = NULL
  /\ bootflag = "junk"
  /\ mask = {}
  /\ who = NULL
  /\ pc = [p \in Programs |-> "idle"]
  /\ file = [p \in Loaders |-> NULL]
  /\ sec = [p \in Loaders |-> 1]
  /\ mem = [a \in Resident \cup OverlayArea |-> Junk]
  /\ alive = "junk"
  /\ core = "held"
  /\ comps = NULL
  /\ linked = NULL
-----------------------------------------------------------------------------
(* The hardware.  pw: the power domain is on; next: the state it is to go  *)
(* to; ctl: CLKSTCTRL (1 sleep, 2 wake up, 3 automatic); fclk: its clock;  *)
(* rst: the resets asserted; direct: boot at BOOTADDR, not into idle.      *)
Reaches(h, wait) ==
  CASE wait = "on"     -> h.next /\ h.ctl = 2
    [] wait = "rst2"   -> h.pw /\ h.fclk /\ 2 \notin h.rst
    [] wait = "active" -> h.pw /\ h.fclk /\ 2 \notin h.rst
    [] wait = "idle"   -> ~ h.fclk
    [] wait = "rst1"   -> h.pw /\ h.fclk /\ 1 \notin h.rst
    [] wait = "off"    -> ~ h.next /\ IF h.ctl = 1 THEN ~ h.fclk
                                      ELSE h.ctl = 3 /\ (1 \notin h.rst => ~ h.direct)

Reached(h, wait) ==
  IF wait \in {"on", "off"} THEN [h EXCEPT !.pw = (wait = "on")] ELSE h

(* The DSP runs from BOOTADDR when it has power, a clock and no reset.     *)
Released(h) ==
  IF h.pw /\ h.fclk /\ h.rst \cap {1, 2} = {} /\ h.direct THEN "boot" ELSE "held"

(* The registers a step writes before it waits, in the order of the code.  *)
WakeUp(h) == [h EXCEPT !.fclk = FALSE, !.rst = {1, 2, 3}, !.next = TRUE, !.ctl = 2]
ReleaseRST2(h) == [h EXCEPT !.ctl = 0, !.fclk = TRUE, !.rst = @ \ {2}]
Gate(h) == [h EXCEPT !.fclk = FALSE, !.rst = @ \cup {2}]
Sleep(h) == [h EXCEPT !.next = FALSE, !.ctl = 1]
WakeAgain(h) == [h EXCEPT !.next = TRUE, !.ctl = 2]
ReleaseRST1(h) == [h EXCEPT !.direct = FALSE, !.ctl = 3, !.next = FALSE, !.rst = @ \ {1}]
AllowAutomatic(h) == [h EXCEPT !.ctl = 3]
AssertResets(h) == [h EXCEPT !.rst = {1, 2, 3}, !.ctl = 0, !.fclk = FALSE]
(* dsp_start, to the release of RST1.                                      *)
ReleaseDsp(h) == [h EXCEPT !.direct = TRUE, !.rst = @ \ {1}]

(* The steps of a switch: what is written by each, what it then waits for. *)
Write(step, h) ==
  CASE step = "wake up" -> WakeUp(h)
    [] step = "rst2"    -> ReleaseRST2(h)
    [] step = "gate"    -> Gate(h)
    [] step = "sleep"   -> Sleep(h)
    [] step = "wake again" -> WakeAgain(h)
    [] step = "rst1"    -> ReleaseRST1(h)
    [] step = "automatic" -> AllowAutomatic(h)
    [] step = "restart" -> ReleaseDsp(AllowAutomatic(h))
    [] step = "resets"  -> AssertResets(h)
    [] OTHER            -> h

Awaited(step) ==
  CASE step \in {"wake up", "wake again"} -> "on"
    [] step = "gate"  -> "idle"
    [] step = "sleep" -> "off"
    [] OTHER          -> step

PowerOnSteps == <<"wake up", "rst2", "active">>

PowerOffToIdle == PowerOnSteps \o <<"gate", "sleep">>

(* Mutant: the domain is said to be off before it is.                      *)
PowerOffSteps_NoWait == PowerOffToIdle \o <<"wake again", "rst2", "active", "rst1">>

PowerOffSteps == PowerOffToIdle \o <<"wake again", "rst2", "active", "rst1", "off">>

(* The hardware after the first n steps have gone well.                    *)
Done(step, h) == Reached(Write(step, h), Awaited(step))

AfterSteps(steps, n) ==
  LET after[i \in 0 .. Len(steps)] == IF i = 0 THEN hw ELSE Done(steps[i], after[i - 1])
  IN  after[n]

(* Step n sees what it waits for.                                          *)
GoesWell(steps, n) == Reaches(Write(steps[n], AfterSteps(steps, n - 1)), Awaited(steps[n]))

(* It fails: step n does not see what it waits for.                        *)
SwitchFails(steps) ==
  \E n \in DOMAIN steps :
    LET h == Write(steps[n], AfterSteps(steps, n - 1))
    IN  /\ \A i \in 1 .. (n - 1) : GoesWell(steps, i)
        /\ hw' = h
        /\ faulty' = TRUE
        /\ core' = "held"

SwitchSucceeds(steps, last) ==
  /\ \A i \in DOMAIN steps : GoesWell(steps, i)
  /\ hw' = Write(last, AfterSteps(steps, Len(steps)))
  /\ faulty' = FALSE
  /\ core' = Released(hw')
-----------------------------------------------------------------------------
(* The switches.                                                           *)
PowerOnFails ==
  /\ at_dsp_state = "OFF"
  /\ SwitchFails(PowerOnSteps)
  /\ UNCHANGED <<at_dsp_state, bootflag>>

(* flag: "REBOOT", which dsp_resume replaces at once.  last: what is still *)
(* written when the waits are over.                                        *)
PowersOn(flag, last) ==
  /\ at_dsp_state = "OFF"
  /\ SwitchSucceeds(PowerOnSteps, last)
  /\ bootflag' = flag
  /\ at_dsp_state' = "RESET"

PowerOffSucceeds ==
  /\ at_dsp_state # "OFF"
  /\ SwitchSucceeds(PowerOffSteps, "resets")
  /\ at_dsp_state' = "OFF"
  /\ UNCHANGED bootflag

PowerOffFails ==
  /\ at_dsp_state # "OFF"
  /\ SwitchFails(PowerOffSteps)
  /\ UNCHANGED <<at_dsp_state, bootflag>>

dsp_poweroff ==
  \/ PowerOffSucceeds
  \/ PowerOffFails
  \/ at_dsp_state = "OFF" /\ UNCHANGED power

(* Mutant: the wait of dsp_start has no end.                               *)
GivesUp_Never == FALSE

(* The end of dsp_start's wait for the DSP.                                *)
GivesUp == bootflag # "RUNNING" /\ (SlowStart \/ core = "held")
-----------------------------------------------------------------------------
(* c64_load.                                                               *)
Finish(p, at) == pc' = [pc EXCEPT ![p] = at] /\ UNCHANGED <<file, sec>>

Acceptable(f) == coff_open(f) /\ b_coff_bios_5xx(f) /\ coff_max_raw_data_size(f) > 0

main(l, f) ==
  /\ pc[l] = "idle"
  /\ Reload \/ dsp_entry_point = NULL
  /\ Acceptable(f)
  /\ pc' = [pc EXCEPT ![l] = "parsed"]
  /\ file' = [file EXCEPT ![l] = f]
  /\ sec' = [sec EXCEPT ![l] = 1]
  /\ UNCHANGED <<power, driver, memory>>

dsp_init_root(l) ==
  /\ pc[l] = "parsed"
  /\ who = NULL
  /\ Finish(l, "opened")
  /\ UNCHANGED <<power, driver, memory>>

(* The ioctl dsp_power_on_and_reset.  A DSP that is RUNNING is refused.    *)
PWR_ON_RST(l) ==
  /\ pc[l] = "opened"
  /\ who = NULL
  /\ \/ Opened = {l} /\ PowersOn("REBOOT", "automatic") /\ Finish(l, "load")
     \/ Opened = {l} /\ PowerOnFails /\ Finish(l, "exit")
     \/ Opened = {l} /\ at_dsp_state = "RESET" /\ Finish(l, "load") /\ UNCHANGED power
     \/ /\ Opened # {l} \/ at_dsp_state = "RUNNING"
        /\ Finish(l, "exit")
        /\ UNCHANGED power
  /\ UNCHANGED <<driver, memory>>

(* What may be cleared.  Data are copied to wherever they are linked for.  *)
Clearable == { a \in DOMAIN mem : a >= ResetVector }

(* loc_read_sections: the vector is cleared first, then section by section *)
(* until one cannot be read.                                               *)
loc_read_sections(l) ==
  LET f == file[l]
      s == f.secs[sec[l]]
  IN  /\ pc[l] = "load"
      /\ alive' = IF sec[l] = 1 THEN "cleared" ELSE alive
      /\ \/ /\ Readable(f, s)
            /\ mem' = LoadSection(f, s, Clearable, DOMAIN mem, mem)
            /\ sec' = [sec EXCEPT ![l] = @ + 1]
            /\ pc' = [pc EXCEPT ![l] = IF sec[l] = Len(f.secs) THEN "start" ELSE @]
         \/ /\ HasRaw(s)
            /\ pc' = [pc EXCEPT ![l] = "exit"]
            /\ UNCHANGED <<mem, sec>>
      /\ UNCHANGED <<power, driver, file, comps, linked>>

(* The only client, in RESET, with an entry point inside of the image.     *)
MayStart(l) == Opened = {l} /\ at_dsp_state = "RESET" /\ file[l].entry \in Resident

START(l) ==
  /\ pc[l] = "start"
  /\ who = NULL
  /\ \/ /\ MayStart(l)
        /\ hw' = ReleaseDsp(hw)
        /\ core' = Released(ReleaseDsp(hw))
        /\ dsp_entry_point' = file[l]
        /\ who' = l
        /\ Finish(l, "starting")
        /\ UNCHANGED <<faulty, at_dsp_state, bootflag>>
     \/ /\ NoMapping \/ ~ MayStart(l)
        /\ Finish(l, "exit")
        /\ UNCHANGED <<power, dsp_entry_point, who>>
  /\ UNCHANGED <<mask, late, memory>>

StartReturns(p, ok, failed) ==
  /\ who = p
  /\ who' = NULL
  /\ \/ /\ bootflag = "RUNNING"
        /\ at_dsp_state' = "RUNNING"
        /\ Finish(p, ok)
        /\ UNCHANGED late
     \/ /\ GivesUp
        /\ late' = TRUE
        /\ Finish(p, failed)
        /\ UNCHANGED at_dsp_state
  /\ UNCHANGED <<hw, faulty, bootflag, core>>
  /\ UNCHANGED <<dsp_entry_point, mask, memory>>

StartEnds(l) == pc[l] = "starting" /\ StartReturns(l, "check", "exit")

(* 250 ms later the DSP's cache has been written back.                     *)
loc_check_dsp_activity(l) ==
  /\ pc[l] = "check"
  /\ core # "signalled"
  /\ Finish(l, IF alive = "alive" THEN "ok" ELSE "exit")
  /\ UNCHANGED <<power, driver, memory>>

Succeeded(l) ==
  /\ pc[l] = "ok"
  /\ Finish(l, "exit")
  /\ UNCHANGED <<power, driver, memory>>
-----------------------------------------------------------------------------
(* Other programs.                                                         *)
dsp_open(c) ==
  /\ pc[c] = "idle"
  /\ who = NULL
  /\ Finish(c, "resuming")
  /\ UNCHANGED <<power, driver, memory>>

(* The ioctl RESUME in a state where the switch need not or cannot be used.*)
ResumeAtOnce(p, ok, failed) ==
  /\ \/ at_dsp_state = "RUNNING" /\ Finish(p, ok)
     \/ at_dsp_state = "RESET" /\ Finish(p, failed)
     \/ at_dsp_state = "OFF" /\ dsp_entry_point = NULL /\ Finish(p, failed)
  /\ UNCHANGED <<power, who>>

(* A program that resumes the DSP goes on at ok; when that fails, at       *)
(* failed, or at busy when it is the DSP or its power that fails: dsp_open *)
(* takes EBUSY for a DSP that is already running.  With no mapping of the  *)
(* reset vector the DSP has power by then, and stays in reset.             *)
Resume(p, ok, failed, busy) ==
  /\ who = NULL
  /\ mask' = mask \cup {p}
  /\ \/ /\ dsp_entry_point # NULL
        /\ PowersOn("RESUME", "restart")
        /\ who' = p
        /\ UNCHANGED programs
     \/ /\ dsp_entry_point # NULL
        /\ NoMapping
        /\ PowersOn("RESUME", "automatic")
        /\ Finish(p, failed)
        /\ UNCHANGED who
     \/ /\ dsp_entry_point # NULL
        /\ PowerOnFails
        /\ Finish(p, busy)
        /\ UNCHANGED who
     \/ ResumeAtOnce(p, ok, failed)
  /\ UNCHANGED <<dsp_entry_point, late, memory>>

OpenResumes(c) == pc[c] = "resuming" /\ Resume(c, "open", "closing", "open")

ResumeEnds(p) ==
  \/ pc[p] = "exit" /\ StartReturns(p, "closing", "closing")
  \/ pc[p] = "resuming" /\ StartReturns(p, "open", "open")
  \/ pc[p] = "suspended" /\ StartReturns(p, "open", "suspended")

(* The ioctl PWR_OFF: only the last program that uses the DSP switches.    *)
dsp_suspend(c) ==
  /\ pc[c] = "open"
  /\ who = NULL
  /\ mask' = mask \ {c}
  /\ IF mask' = {} THEN dsp_poweroff ELSE UNCHANGED power
  /\ Finish(c, "suspended")
  /\ UNCHANGED <<dsp_entry_point, late, who, memory>>

dsp_resume(c) == pc[c] = "suspended" /\ Resume(c, "open", "suspended", "suspended")

(* dsp_close of a program that has used the DSP, and of c64_load.          *)
dsp_close(p) ==
  \/ pc[p] \in {"open", "suspended"} /\ Finish(p, "exit")
     /\ UNCHANGED <<power, driver, memory>>
  \/ pc[p] = "exit" /\ Resume(p, "closing", "closing", "closing")

fops__release(p) ==
  /\ pc[p] = "closing"
  /\ who = NULL
  /\ mask' = mask \ {p}
  /\ IF mask' = {} THEN dsp_poweroff ELSE UNCHANGED power
  /\ Finish(p, "idle")
  /\ UNCHANGED <<dsp_entry_point, late, who, memory>>

(* A program that is killed closes its files, but not in the middle of a   *)
(* START, which it waits for.                                              *)
Kill(p) ==
  /\ p \in Opened \cap Mortal
  /\ who # p
  /\ Finish(p, "closing")
  /\ UNCHANGED <<power, driver, memory>>

(* An overlay, into the area of a section the program has allocated.  One  *)
(* that cannot be read to its end is given up, wherever it is by then.     *)
LoadOverlay(c, f) ==
  /\ pc[c] = "open"
  /\ at_dsp_state = "RUNNING"
  /\ coff_open(f) /\ coff_max_raw_data_size(f) > 0
  /\ \E n \in 0 .. Len(f.secs) :
       /\ ReadEnds(f, n)
       /\ CinitUnread \/ CinitRead(f, n)
       /\ mem' = coff_load_overlay(f, OverlayArea, n, mem)
       /\ linked' = IF n = Len(f.secs) THEN f ELSE NULL
  /\ UNCHANGED <<power, driver, programs, alive, comps>>
-----------------------------------------------------------------------------
(* The DSP.  The image in its memory, if it is a whole one.                *)
Present == { f \in Images : IsLoaded(f, mem) }

(* Mutant: the DSP takes every start for a resume.                         *)
MustInit_Never == FALSE

(* mlb_resume                                                              *)
MustInit == bootflag # "RESUME"

mlb_task__entry ==
  /\ core = "boot"
  /\ core' = "init"
  /\ comps' = IF MustInit THEN dsp_entry_point ELSE comps
  /\ UNCHANGED <<hw, faulty, at_dsp_state, bootflag, driver, programs>>
  /\ UNCHANGED <<mem, alive, linked>>

loc_its_alive ==
  /\ core = "init"
  /\ core' = "signalled"
  /\ bootflag' = "RUNNING"
  /\ UNCHANGED <<hw, faulty, at_dsp_state, driver, programs, memory>>

(* The values it wrote leave its cache.                                    *)
BCACHE_wbAll ==
  /\ core = "signalled"
  /\ core' = "up"
  /\ alive' = "alive"
  /\ UNCHANGED <<hw, faulty, at_dsp_state, bootflag, driver, programs>>
  /\ UNCHANGED <<mem, comps, linked>>
-----------------------------------------------------------------------------
LoaderStep(l) ==
  \/ \E f \in Images : main(l, f)
  \/ dsp_init_root(l)
  \/ PWR_ON_RST(l)
  \/ loc_read_sections(l)
  \/ START(l)
  \/ StartEnds(l)
  \/ loc_check_dsp_activity(l)
  \/ Succeeded(l)

ClientStep(c) ==
  \/ dsp_open(c)
  \/ OpenResumes(c)
  \/ dsp_suspend(c)
  \/ dsp_resume(c)
  \/ \E f \in Overlays : LoadOverlay(c, f)

DspStep == mlb_task__entry \/ loc_its_alive \/ BCACHE_wbAll

Next ==
  \/ \E l \in Loaders : LoaderStep(l)
  \/ \E c \in Clients : ClientStep(c)
  \/ \E p \in Programs : dsp_close(p) \/ ResumeEnds(p) \/ fops__release(p) \/ Kill(p)
  \/ DspStep

Spec == Init /\ [][Next]_vars

(* The DSP runs when it is released and the wait of START ends.  mtx_clients*)
(* is handed to its waiters in turn, so a program that resumes again and   *)
(* again does not keep another from it: strong fairness.                   *)
FairSpec ==
  /\ Spec
  /\ WF_vars(DspStep)
  /\ \A p \in Programs : WF_vars(ResumeEnds(p))
  /\ \A l \in Loaders : WF_vars(StartEnds(l))
  /\ \A c \in Clients : SF_vars(OpenResumes(c))
-----------------------------------------------------------------------------
(* The DSP never runs an image that is not there from end to end, whatever *)
(* c64_load and other programs do at the same time, and wherever c64_load  *)
(* is killed.                                                              *)
RunsWholeImage == core # "held" => dsp_entry_point \in Present

(* When the last switch went through, the driver's state and the hardware  *)
(* agree, however earlier switches ended.                                  *)
StateTellsHardware ==
  ~ faulty =>
    CASE at_dsp_state = "OFF"     -> ~ hw.pw /\ core = "held"
      [] at_dsp_state = "RUNNING" -> core \in {"signalled", "up"}
      [] at_dsp_state = "RESET"   -> hw.pw /\ (core = "held" \/ who # NULL \/ late)

(* A DSP that says it is RUNNING has initialised its components, and those *)
(* of the image it runs, unless a start was given up: dsp_start has noted  *)
(* the entry point by then, and the next program resumes what never began. *)
ServesItsImage ==
  bootflag = "RUNNING" /\ core # "held" /\ ~ late => comps = dsp_entry_point

(* The overlay that was linked last is in its area as the linker placed    *)
(* it, with its variables set and none of its predecessor's left, and the  *)
(* resident image is untouched, by an overlay that could not be read to    *)
(* its end as well.                                                        *)
OverlayLinked ==
  /\ linked # NULL => IsLinked(linked, mem)
  /\ at_dsp_state = "RUNNING" => dsp_entry_point \in Present

(* A program that opens a connection, or starts the DSP, gets an answer,   *)
(* even when the DSP does not come up.                                     *)
CallsReturn ==
  \A p \in Programs :
    pc[p] \in {"resuming", "starting"} ~> pc[p] \notin {"resuming", "starting"}
===============================================================================

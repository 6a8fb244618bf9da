------------------------------ MODULE BootProofs ------------------------------
(***************************************************************************)
(* Proofs about loading, starting, suspending and resuming the DSP, for    *)
(* any images and overlays that fit the memory they are linked for, any    *)
(* number of programs, and waits for the hardware that time out anywhere.  *)
(***************************************************************************)
EXTENDS Boot, SequenceTheorems, WellFoundedInduction, TLAPS

(* c64_load is run by one user at a time, and not again once it has        *)
(* started the DSP: neither the program nor the driver refuses it.         *)
LoadedOnce == ~ Reload /\ \A l, m \in Loaders : l = m

(* What the linker makes of a file: its sections do not overlap, lie in    *)
(* the area they are linked for, and are cleared or have raw data.         *)
FitsArea(f, area) ==
  /\ Len(f.secs) \in Nat /\ DOMAIN f.secs = 1 .. Len(f.secs)
  /\ \A i, j \in DOMAIN f.secs : i # j => f.secs[i].at \cap f.secs[j].at = {}
  /\ \A i \in DOMAIN f.secs :
       /\ f.secs[i].at \subseteq area
       /\ f.secs[i].at # {} => IsBSS(f.secs[i]) \/ HasRaw(f.secs[i])

(* An overlay's .cinit section has data, about the overlay's own variables.*)
CinitFits(f) ==
  /\ \A i \in DOMAIN f.secs : f.secs[i].at \cap coff_cinit(f) # {} => HasRaw(f.secs[i])
  /\ \A c \in coff_cinit(f) : f.cinit[c] \in Cells(f)

FilesFit ==
  /\ Resident \cap OverlayArea = {}
  /\ \A a \in Resident : a >= ResetVector
  /\ \A f \in Images : FitsArea(f, Resident)
  /\ \A f \in Overlays : FitsArea(f, OverlayArea) /\ CinitFits(f)

(* No read of an overlay fails before its .cinit section is in memory.     *)
CinitIsRead == ~ CinitUnread

-----------------------------------------------------------------------------
Hardware ==
  [pw : BOOLEAN, next : BOOLEAN, ctl : Nat, fclk : BOOLEAN,
   rst : SUBSET {1, 2, 3}, direct : BOOLEAN]

Placed == sec \in [Loaders -> Nat] /\ DOMAIN file = Loaders /\ DOMAIN pc = Programs

TypeOK ==
  /\ hw \in Hardware
  /\ faulty \in BOOLEAN /\ late \in BOOLEAN
  /\ at_dsp_state \in {"OFF", "RESET", "RUNNING"}
  /\ core \in {"held", "boot", "init", "signalled", "up"}
  /\ bootflag \in {"junk", "REBOOT", "RESUME", "RUNNING"}
  /\ who \in Programs \cup {NULL}
  /\ Placed
  /\ DOMAIN mem = Resident \cup OverlayArea

(* The first n sections of a file are in memory.                           *)
FirstLoaded(f, n) == \A i \in 1 .. n : \A a \in f.secs[i].at : mem[a] = Holds(f, a)

(* c64_load is at work only while there is nothing to resume.              *)
Busy == {"parsed", "opened", "load", "start"}

Loading ==
  \A l \in Loaders : pc[l] \in Busy =>
    /\ dsp_entry_point = NULL
    /\ file[l] \in Images /\ b_coff_bios_5xx(file[l])
    /\ pc[l] \in {"parsed", "opened"} => sec[l] = 1
    /\ pc[l] = "load" => sec[l] \in 1 .. Len(file[l].secs) /\ FirstLoaded(file[l], sec[l] - 1)
    /\ pc[l] = "start" => FirstLoaded(file[l], Len(file[l].secs))

(* Nothing has happened without an image, and the image stays.             *)
Nothing ==
  dsp_entry_point = NULL =>
    /\ bootflag \in {"junk", "REBOOT"}
    /\ at_dsp_state # "RUNNING" /\ core = "held" /\ who = NULL /\ linked = NULL

Image == dsp_entry_point # NULL => dsp_entry_point \in Present

(* Who waits in START waits for a DSP that can only come up.               *)
Waits == who # NULL /\ bootflag = "RUNNING" /\ ~ faulty => core \in {"signalled", "up"}

(* The components are those of the image, from their initialisation on.    *)
Components ==
  ~ late /\ dsp_entry_point # NULL =>
    \/ comps = dsp_entry_point
    \/ who # NULL /\ bootflag \in {"junk", "REBOOT"} /\ core \in {"held", "boot"}

Linked == linked # NULL => IsLinked(linked, mem)

IInv ==
  /\ TypeOK /\ Loading /\ Nothing /\ Image
  /\ StateTellsHardware /\ Waits /\ Components /\ Linked
-----------------------------------------------------------------------------
(* A set of numbers has a smallest one.                                    *)
LEMMA Least ==
  ASSUME NEW S \in SUBSET Nat, S # {}
  PROVE  \E x \in S : \A y \in S : x <= y
<1>1. PICK x \in S : \A y \in S : <<y, x>> \notin OpToRel(<, Nat)
  BY WFMin, NatLessThanWellFounded, Zenon
<1>2. \A y \in S : ~ (y < x)
  <2>1. \A y \in S : y \in Nat /\ x \in Nat
    OBVIOUS
  <2> QED  BY <1>1, <2>1, Zenon DEF OpToRel
<1> QED  BY <1>2

(* The hardware step by step.                                              *)
LEMMA AfterFact ==
  ASSUME NEW steps, Len(steps) \in Nat
  PROVE  /\ AfterSteps(steps, 0) = hw
         /\ \A i \in 1 .. Len(steps) :
              AfterSteps(steps, i) = Done(steps[i], AfterSteps(steps, i - 1))
<1> DEFINE Next1(h, i) == IF i = 0 THEN hw ELSE Done(steps[i], h[i - 1])
           Is(h, n) == h = [i \in 0 .. n |-> Next1(h, i)]
           S == { n \in Nat : ~ \E h : Is(h, n) }
<1>1. S = {}
  <2> SUFFICES ASSUME S # {} PROVE FALSE
    OBVIOUS
  <2>1. PICK m \in S : \A n \in S : m <= n
    BY Least
  <2>2. m # 0
    <3>1. Is([i \in 0 .. 0 |-> hw], 0)
      OBVIOUS
    <3>2. 0 \notin S
      BY <3>1
    <3> QED  BY <2>1, <3>2
  <2>3. m \in Nat \ {0} /\ m - 1 \in Nat /\ m - 1 \notin S
    <3>1. m \in Nat
      OBVIOUS
    <3> HIDE DEF S
    <3> QED  BY <2>1, <2>2, <3>1
  <2>4. PICK h : Is(h, m - 1)
    BY <2>3
  <2> DEFINE g == [i \in 0 .. m |-> IF i = m THEN Done(steps[m], h[m - 1]) ELSE h[i]]
  <2>5. \A i \in 0 .. m : g[i] = Next1(g, i)
    <3> SUFFICES ASSUME NEW i \in 0 .. m PROVE g[i] = Next1(g, i)
      OBVIOUS
    <3>1. CASE i = m
      <4>1. g[m - 1] = h[m - 1] /\ g[m] = Done(steps[m], h[m - 1])
        BY <2>3
      <4> QED  BY <2>3, <3>1, <4>1
    <3>2. CASE i # m
      <4>1. i \in 0 .. m - 1
        BY <2>3, <3>2
      <4>2. g[i] = h[i] /\ h[i] = Next1(h, i)
        BY <2>3, <2>4, <3>2, <4>1
      <4>3. i # 0 => g[i - 1] = h[i - 1]
        BY <2>3, <4>1
      <4> QED  BY <4>2, <4>3
    <3> QED  BY <3>1, <3>2
  <2>6. Is(g, m)
    BY <2>5
  <2> QED  BY <2>1, <2>6
<1> DEFINE f == CHOOSE h : Is(h, Len(steps))
<1>2. Is(f, Len(steps))
  BY <1>1
<1>3. \A n : AfterSteps(steps, n) = f[n]
  BY DEF AfterSteps
<1> HIDE DEF f
<1>4. \A i \in 0 .. Len(steps) : f[i] = IF i = 0 THEN hw ELSE Done(steps[i], f[i - 1])
  BY <1>2
<1>5. 0 \in 0 .. Len(steps) /\ \A i \in 1 .. Len(steps) : i \in 0 .. Len(steps) /\ i # 0
  OBVIOUS
<1> QED  BY <1>3, <1>4, <1>5

(* A file's sections, one after the other: each address of the file holds  *)
(* what is its own, and others keep what they had.                         *)
LEMMA SectionFact ==
  ASSUME NEW f, NEW area \in SUBSET Nat, FitsArea(f, area), NEW i \in DOMAIN f.secs, NEW m,
         NEW clear, NEW copy, area \subseteq clear, area \subseteq copy
  PROVE  LoadSection(f, f.secs[i], clear, copy, m)
           = [a \in DOMAIN m |-> IF a \in f.secs[i].at THEN Holds(f, a) ELSE m[a]]
<1>1. f.secs[i].at \subseteq area
  BY DEF FitsArea
<1>2. ASSUME NEW a \in f.secs[i].at
      PROVE  /\ IsBSS(f.secs[i]) => Holds(f, a) = Zero
             /\ ~ IsBSS(f.secs[i]) => HasRaw(f.secs[i]) /\ Holds(f, a) = Raw(f, a)
  <2>1. \A j \in DOMAIN f.secs : a \in f.secs[j].at => j = i
    BY DEF FitsArea
  <2>2. IsBSS(f.secs[i]) \/ HasRaw(f.secs[i])
    BY DEF FitsArea
  <2> QED  BY <2>1, <2>2 DEF Holds
<1>3. f.secs[i].at # {} => Min(f.secs[i].at) \in clear \cap copy
  <2>1. \A S \in SUBSET Nat : S # {} => Min(S) \in S
    BY Least DEF Min
  <2> QED  BY <1>1, <2>1
<1> QED  BY <1>2, <1>3 DEF LoadSection

LEMMA SectionHere ==
  ASSUME NEW f, NEW area \in SUBSET Nat, FitsArea(f, area), NEW i \in DOMAIN f.secs, NEW m
  PROVE  LoadSection(f, f.secs[i], area, area, m)
           = [a \in DOMAIN m |-> IF a \in f.secs[i].at THEN Holds(f, a) ELSE m[a]]
<1>1. area \subseteq area
  OBVIOUS
<1> QED  BY <1>1, SectionFact

CellsOf(f, n) == UNION { f.secs[i].at : i \in 1 .. n }

LEMMA SectionsFact ==
  ASSUME NEW f, NEW area \in SUBSET Nat, FitsArea(f, area), NEW m,
         NEW last \in 0 .. Len(f.secs)
  PROVE  /\ DOMAIN LoadSections(f, area, last, m) = DOMAIN m
         /\ \A a \in DOMAIN m : LoadSections(f, area, last, m)[a]
                                  = IF a \in CellsOf(f, last) THEN Holds(f, a) ELSE m[a]
<1>1. Len(f.secs) \in Nat /\ DOMAIN f.secs = 1 .. Len(f.secs)
  BY DEF FitsArea
<1> DEFINE Next1(h, i) == IF i = 0 THEN m ELSE LoadSection(f, f.secs[i], area, area, h[i - 1])
           Is(h, n) == h = [i \in 0 .. n |-> Next1(h, i)]
           S == { n \in Nat : ~ \E h : Is(h, n) }
<1>2. S = {}
  <2> SUFFICES ASSUME S # {} PROVE FALSE
    OBVIOUS
  <2>1. PICK k \in S : \A n \in S : k <= n
    BY Least
  <2>2. k # 0
    <3>1. Is([i \in 0 .. 0 |-> m], 0)
      OBVIOUS
    <3>2. 0 \notin S
      BY <3>1
    <3> QED  BY <2>1, <3>2
  <2>3. k \in Nat \ {0} /\ k - 1 \in Nat /\ k - 1 \notin S
    <3>1. k \in Nat
      OBVIOUS
    <3> HIDE DEF S
    <3> QED  BY <2>1, <2>2, <3>1
  <2>4. PICK h : Is(h, k - 1)
    BY <2>3
  <2> DEFINE g == [i \in 0 .. k |-> IF i = k THEN LoadSection(f, f.secs[k], area, area, h[k - 1])
                                     ELSE h[i]]
  <2>5. \A i \in 0 .. k : g[i] = Next1(g, i)
    <3> SUFFICES ASSUME NEW i \in 0 .. k PROVE g[i] = Next1(g, i)
      OBVIOUS
    <3>1. CASE i = k
      <4>1. g[k - 1] = h[k - 1] /\ g[k] = LoadSection(f, f.secs[k], area, area, h[k - 1])
        BY <2>3
      <4> QED  BY <2>3, <3>1, <4>1
    <3>2. CASE i # k
      <4>1. i \in 0 .. k - 1
        BY <2>3, <3>2
      <4>2. g[i] = h[i] /\ h[i] = Next1(h, i)
        BY <2>3, <2>4, <3>2, <4>1
      <4>3. i # 0 => g[i - 1] = h[i - 1]
        BY <2>3, <4>1
      <4> QED  BY <4>2, <4>3
    <3> QED  BY <3>1, <3>2
  <2>6. Is(g, k)
    BY <2>5
  <2> QED  BY <2>1, <2>6
<1> DEFINE after == CHOOSE h : Is(h, last)
<1>3. Is(after, last)
  <2>1. last \in Nat
    BY <1>1
  <2>2. last \notin S
    BY <1>2
  <2> QED  BY <2>1, <2>2
<1>4. LoadSections(f, area, last, m) = after[last]
  BY DEF LoadSections
<1> HIDE DEF after
<1>5. \A i \in 0 .. last :
        after[i] = IF i = 0 THEN m ELSE LoadSection(f, f.secs[i], area, area, after[i - 1])
  BY <1>3
<1> DEFINE In(n, a) == \E i \in 1 .. n : a \in f.secs[i].at
           Ok(n) == /\ DOMAIN after[n] = DOMAIN m
                    /\ \A a \in DOMAIN m : after[n][a] = IF In(n, a) THEN Holds(f, a) ELSE m[a]
           T == { n \in Nat : n <= last /\ ~ Ok(n) }
<1>6. T = {}
  <2> SUFFICES ASSUME T # {} PROVE FALSE
    OBVIOUS
  <2>1. PICK k \in T : \A n \in T : k <= n
    BY Least
  <2>2. Ok(0)
    BY <1>1, <1>5
  <2>3. k \in 1 .. last /\ k \in 1 .. Len(f.secs) /\ k - 1 \in Nat /\ Ok(k - 1)
    <3>1. k \in Nat /\ k <= last /\ k # 0
      BY <2>2
    <3>2. k - 1 \in Nat /\ k - 1 <= last /\ k - 1 \notin T
      <4> HIDE DEF T
      <4> QED  BY <1>1, <2>1, <3>1
    <3>3. Ok(k - 1)
      BY <3>2
    <3> QED  BY <1>1, <3>1, <3>2, <3>3
  <2>4. after[k] = LoadSection(f, f.secs[k], area, area, after[k - 1])
    BY <1>5, <2>3
  <2>5. DOMAIN after[k] = DOMAIN m
        /\ \A a \in DOMAIN m : after[k][a]
                                 = IF a \in f.secs[k].at THEN Holds(f, a) ELSE after[k - 1][a]
    <3>1. PICK p : p = after[k - 1]
      OBVIOUS
    <3>2. k \in DOMAIN f.secs /\ DOMAIN p = DOMAIN m
      BY <1>1, <2>3, <3>1
    <3>3. after[k] = LoadSection(f, f.secs[k], area, area, p)
      BY <2>4, <3>1
    <3>4. LoadSection(f, f.secs[k], area, area, p)
            = [a \in DOMAIN p |-> IF a \in f.secs[k].at THEN Holds(f, a) ELSE p[a]]
      BY <3>2, SectionHere
    <3> QED  BY <3>1, <3>2, <3>3, <3>4
  <2>6. \A a : In(k, a) <=> In(k - 1, a) \/ a \in f.secs[k].at
    <3>1. 1 .. k = 1 .. k - 1 \cup {k}
      BY <2>3
    <3> QED  BY <3>1
  <2>7. Ok(k)
    <3> HIDE DEF In
    <3> QED  BY <2>3, <2>5, <2>6
  <2> QED  BY <2>7
<1>7. Ok(last)
  BY <1>1, <1>6
<1>8. \A a : In(last, a) <=> a \in CellsOf(f, last)
  BY DEF CellsOf
<1> QED  BY <1>4, <1>7, <1>8

(* An overlay of which n sections could be read, .cinit among them: its    *)
(* own part of memory is as linked if that is all, the rest as it was.     *)
LEMMA OverlayFact ==
  ASSUME NEW f, NEW area \in SUBSET Nat, FitsArea(f, area), CinitFits(f),
         NEW m, area \subseteq DOMAIN m, NEW n \in 0 .. Len(f.secs), CinitRead(f, n)
  PROVE  /\ n = Len(f.secs) => IsLinked(f, coff_load_overlay(f, area, n, m))
         /\ DOMAIN coff_load_overlay(f, area, n, m) = DOMAIN m
         /\ \A a \in DOMAIN m \ area : coff_load_overlay(f, area, n, m)[a] = m[a]
<1>1. PICK k : k = LoadSections(f, area, n, m)
  OBVIOUS
<1>2. DOMAIN k = DOMAIN m
      /\ \A a \in DOMAIN m : k[a] = IF a \in CellsOf(f, n) THEN Holds(f, a) ELSE m[a]
  BY <1>1, SectionsFact
<1>3. /\ Len(f.secs) \in Nat /\ DOMAIN f.secs = 1 .. Len(f.secs) /\ Cells(f) \subseteq area
      /\ CellsOf(f, n) \subseteq Cells(f) /\ CellsOf(f, Len(f.secs)) = Cells(f)
  BY DEF FitsArea, Cells, CellsOf
<1>4. ASSUME NEW c \in coff_cinit(f)
      PROVE  c \in CellsOf(f, n) /\ Holds(f, c) = Raw(f, c)
  <2>1. c \in CellsOf(f, n)
    BY DEF CinitRead, CellsOf
  <2>2. PICK i \in DOMAIN f.secs : c \in f.secs[i].at
    BY <1>3, <2>1 DEF Cells
  <2>3. HasRaw(f.secs[i])
    BY <2>2 DEF CinitFits
  <2>4. \A j \in DOMAIN f.secs : c \in f.secs[j].at => j = i
    BY <2>2 DEF FitsArea
  <2> QED  BY <2>1, <2>2, <2>3, <2>4 DEF Holds, HasRaw, IsBSS
<1>5. \A c \in coff_cinit(f) : k[c] = Raw(f, c)
  BY <1>2, <1>3, <1>4
<1> DEFINE variables == { f.cinit[c] : c \in coff_cinit(f) }
<1>6. { f.cinit[c] : c \in { d \in coff_cinit(f) : k[d] = Raw(f, d) } } = variables
  BY <1>5
<1>7. variables \subseteq Cells(f)
  BY DEF CinitFits
<1>8. ApplyCinit(f, k) = [a \in DOMAIN k |-> IF a \in variables THEN Start(f, a) ELSE k[a]]
  BY <1>5, <1>6 DEF ApplyCinit
<1>9. coff_load_overlay(f, area, n, m) = ApplyCinit(f, k)
  BY <1>1 DEF coff_load_overlay
<1>10. n = Len(f.secs) =>
         \A a \in Cells(f) : ApplyCinit(f, k)[a] = IF a \in variables THEN Start(f, a) ELSE Holds(f, a)
  BY <1>2, <1>3, <1>8
<1> QED  BY <1>2, <1>3, <1>7, <1>8, <1>9, <1>10 DEF IsLinked
-----------------------------------------------------------------------------
(* The registers, whatever is written and waited for.                      *)
LEMMA WriteFact ==
  ASSUME NEW h \in Hardware, NEW step
  PROVE  Write(step, h) \in Hardware
<1>1. /\ WakeUp(h) \in Hardware /\ ReleaseRST2(h) \in Hardware /\ Gate(h) \in Hardware
      /\ Sleep(h) \in Hardware /\ WakeAgain(h) \in Hardware
  BY DEF Hardware, WakeUp, ReleaseRST2, Gate, Sleep, WakeAgain
<1>2. /\ ReleaseRST1(h) \in Hardware /\ AllowAutomatic(h) \in Hardware
      /\ AssertResets(h) \in Hardware
  BY DEF Hardware, ReleaseRST1, AllowAutomatic, AssertResets
<1>3. ReleaseDsp(AllowAutomatic(h)) \in Hardware
  BY <1>2 DEF Hardware, ReleaseDsp
<1> QED  BY <1>1, <1>2, <1>3 DEF Write

LEMMA DoneFact ==
  ASSUME NEW h \in Hardware, NEW step
  PROVE  Done(step, h) \in Hardware
<1>1. Write(step, h) \in Hardware
  BY WriteFact
<1> QED  BY <1>1 DEF Done, Reached, Hardware

LEMMA AfterType ==
  ASSUME hw \in Hardware, NEW steps, Len(steps) \in Nat, NEW n \in 0 .. Len(steps)
  PROVE  AfterSteps(steps, n) \in Hardware
<1> DEFINE S == { k \in Nat : k <= Len(steps) /\ AfterSteps(steps, k) \notin Hardware }
<1>1. S = {}
  <2> SUFFICES ASSUME S # {} PROVE FALSE
    OBVIOUS
  <2>1. PICK k \in S : \A j \in S : k <= j
    BY Least
  <2>2. k \in Nat /\ k <= Len(steps) /\ k # 0
    BY AfterFact
  <2>3. k \in 1 .. Len(steps) /\ k - 1 \in Nat /\ k - 1 <= Len(steps) /\ k - 1 \notin S
    <3> HIDE DEF S
    <3> QED  BY <2>1, <2>2
  <2>4. AfterSteps(steps, k - 1) \in Hardware
    BY <2>3
  <2>5. AfterSteps(steps, k) = Done(steps[k], AfterSteps(steps, k - 1))
    BY <2>3, AfterFact
  <2> QED  BY <2>4, <2>5, DoneFact
<1> QED  BY <1>1

(* A switch that fails leaves the DSP held.                                *)
LEMMA FailsFact ==
  ASSUME hw \in Hardware, NEW steps, Len(steps) \in Nat, DOMAIN steps = 1 .. Len(steps),
         SwitchFails(steps)
  PROVE  hw' \in Hardware /\ faulty' = TRUE /\ core' = "held"
<1>1. PICK n \in 1 .. Len(steps) : hw' = Write(steps[n], AfterSteps(steps, n - 1))
  BY DEF SwitchFails
<1>2. n - 1 \in 0 .. Len(steps)
  OBVIOUS
<1>3. AfterSteps(steps, n - 1) \in Hardware
  BY <1>2, AfterType
<1>4. faulty' = TRUE /\ core' = "held"
  BY DEF SwitchFails
<1> QED  BY <1>1, <1>3, <1>4, WriteFact

(* The lists of steps.                                                     *)
Listed ==
  {"wake up", "rst2", "active", "gate", "sleep", "wake again", "rst1", "off"}

LEMMA OnList ==
  /\ PowerOnSteps \in Seq(Listed) /\ Len(PowerOnSteps) = 3 /\ DOMAIN PowerOnSteps = 1 .. 3
  /\ PowerOnSteps[1] = "wake up" /\ PowerOnSteps[2] = "rst2" /\ PowerOnSteps[3] = "active"
<1>1. PowerOnSteps \in Seq(Listed)
  BY DEF PowerOnSteps, Listed
<1>2. Len(PowerOnSteps) = 3
  BY DEF PowerOnSteps
<1>3. PowerOnSteps[1] = "wake up" /\ PowerOnSteps[2] = "rst2" /\ PowerOnSteps[3] = "active"
  BY DEF PowerOnSteps
<1>4. DOMAIN PowerOnSteps = 1 .. Len(PowerOnSteps)
  BY <1>1, LenProperties
<1> QED  BY <1>1, <1>2, <1>3, <1>4, Zenon

LEMMA Joined ==
  ASSUME NEW S, NEW a \in Seq(S), NEW b \in Seq(S)
  PROVE  /\ a \o b \in Seq(S) /\ Len(a \o b) = Len(a) + Len(b)
         /\ Len(b) # 0 => (a \o b)[Len(a) + Len(b)] = b[Len(b)]
<1>1. Len(a) \in Nat /\ Len(b) \in Nat
  BY LenProperties
<1>2. Len(a \o b) = Len(a) + Len(b) /\ a \o b \in Seq(S)
  BY ConcatProperties
<1>3. ASSUME Len(b) # 0 PROVE (a \o b)[Len(a) + Len(b)] = b[Len(b)]
  <2>1. Len(a) + Len(b) \in 1 .. Len(a) + Len(b) /\ ~ (Len(a) + Len(b) <= Len(a))
        /\ (Len(a) + Len(b)) - Len(a) = Len(b)
    BY <1>1, <1>3
  <2> QED  BY <2>1, ConcatProperties
<1> QED  BY <1>2, <1>3

LEMMA OffList ==
  Len(PowerOffSteps) = 10 /\ DOMAIN PowerOffSteps = 1 .. 10 /\ PowerOffSteps[10] = "off"
<1> DEFINE s == <<"gate", "sleep">>
           t == <<"wake again", "rst2", "active", "rst1", "off">>
<1>1. s \in Seq(Listed) /\ Len(s) = 2
  <2>1. s \in Seq(Listed)
    BY DEF Listed
  <2>2. Len(s) = 2
    OBVIOUS
  <2> QED  BY <2>1, <2>2, Zenon
<1>2. t \in Seq(Listed) /\ Len(t) = 5 /\ t[5] = "off"
  <2>1. t \in Seq(Listed)
    BY DEF Listed
  <2>2. Len(t) = 5
    OBVIOUS
  <2>3. t[5] = "off"
    OBVIOUS
  <2> QED  BY <2>1, <2>2, <2>3, Zenon
<1>3. PowerOffSteps = (PowerOnSteps \o s) \o t
  BY Zenon DEF PowerOffSteps, PowerOffToIdle
<1> HIDE DEF s, t
<1>4. PowerOnSteps \o s \in Seq(Listed) /\ Len(PowerOnSteps \o s) = 5
  <2>1. PowerOnSteps \in Seq(Listed) /\ Len(PowerOnSteps) = 3
    BY OnList
  <2>2. /\ PowerOnSteps \o s \in Seq(Listed)
        /\ Len(PowerOnSteps \o s) = Len(PowerOnSteps) + Len(s)
    BY <1>1, <2>1, Joined, Zenon
  <2> QED  BY <1>1, <2>1, <2>2
<1>5. PowerOffSteps \in Seq(Listed) /\ Len(PowerOffSteps) = 10 /\ PowerOffSteps[10] = t[5]
  <2>1. PICK l \in Seq(Listed) : l = PowerOnSteps \o s /\ Len(l) = 5
    BY <1>4
  <2>2. /\ l \o t \in Seq(Listed) /\ Len(l \o t) = Len(l) + Len(t)
        /\ Len(t) # 0 => (l \o t)[Len(l) + Len(t)] = t[Len(t)]
    BY <1>2, Joined, Zenon
  <2> QED  BY <1>2, <1>3, <2>1, <2>2
<1>6. DOMAIN PowerOffSteps = 1 .. Len(PowerOffSteps)
  BY <1>5, LenProperties
<1> QED  BY <1>2, <1>5, <1>6

(* Power on: it is on, and the DSP is held but when it is restarted.       *)
LEMMA OnFact ==
  ASSUME hw \in Hardware, NEW last \in {"automatic", "restart"},
         SwitchSucceeds(PowerOnSteps, last)
  PROVE  /\ hw' \in Hardware /\ hw'.pw = TRUE /\ faulty' = FALSE
         /\ core' \in {"held", "boot"} /\ (last = "automatic" => core' = "held")
<1>1. PICK h1 : h1 = Reached(WakeUp(hw), "on")
  OBVIOUS
<1>2. h1 \in Hardware /\ h1.pw = TRUE /\ h1.rst = {1, 2, 3}
  BY <1>1 DEF Reached, WakeUp, Hardware
<1>3. PICK h2 : h2 = ReleaseRST2(h1)
  OBVIOUS
<1>4. h2 \in Hardware /\ h2.pw = TRUE /\ 1 \in h2.rst
  <2>1. h2 = [h1 EXCEPT !.ctl = 0, !.fclk = TRUE, !.rst = h1.rst \ {2}]
    BY <1>3 DEF ReleaseRST2
  <2>2. h1.rst \ {2} = {1, 3}
    BY <1>2
  <2> QED  BY <1>2, <2>1, <2>2 DEF Hardware
<1>5. AfterSteps(PowerOnSteps, 3) = h2
  <2>1. /\ AfterSteps(PowerOnSteps, 0) = hw
        /\ AfterSteps(PowerOnSteps, 1) = Done(PowerOnSteps[1], AfterSteps(PowerOnSteps, 0))
        /\ AfterSteps(PowerOnSteps, 2) = Done(PowerOnSteps[2], AfterSteps(PowerOnSteps, 1))
        /\ AfterSteps(PowerOnSteps, 3) = Done(PowerOnSteps[3], AfterSteps(PowerOnSteps, 2))
    <3>1. PICK s : s = PowerOnSteps
      OBVIOUS
    <3>2. Len(s) = 3 /\ Len(s) \in Nat
      <4>1. Len(s) = 3
        BY <3>1, OnList, Zenon
      <4> QED  BY <4>1
    <3>3. AfterSteps(s, 0) = hw
          /\ \A i \in 1 .. Len(s) : AfterSteps(s, i) = Done(s[i], AfterSteps(s, i - 1))
      BY <3>2, AfterFact, Zenon
    <3>4. 1 \in 1 .. Len(s) /\ 2 \in 1 .. Len(s) /\ 3 \in 1 .. Len(s)
          /\ 1 - 1 = 0 /\ 2 - 1 = 1 /\ 3 - 1 = 2
      BY <3>2
    <3>5. /\ AfterSteps(s, 1) = Done(s[1], AfterSteps(s, 1 - 1))
          /\ AfterSteps(s, 2) = Done(s[2], AfterSteps(s, 2 - 1))
          /\ AfterSteps(s, 3) = Done(s[3], AfterSteps(s, 3 - 1))
      BY <3>3, <3>4, Zenon
    <3>6. /\ AfterSteps(s, 1) = Done(s[1], AfterSteps(s, 0))
          /\ AfterSteps(s, 2) = Done(s[2], AfterSteps(s, 1))
          /\ AfterSteps(s, 3) = Done(s[3], AfterSteps(s, 2))
      BY <3>4, <3>5
    <3> QED  BY <3>1, <3>3, <3>6, Zenon
  <2>2. AfterSteps(PowerOnSteps, 1) = h1
    <3>1. AfterSteps(PowerOnSteps, 1) = Done(PowerOnSteps[1], hw)
      BY <2>1
    <3> QED  BY <1>1, <3>1, OnList DEF Done, Write, Awaited
  <2>3. AfterSteps(PowerOnSteps, 2) = h2
    <3>1. AfterSteps(PowerOnSteps, 2) = Done(PowerOnSteps[2], h1)
      BY <2>1, <2>2
    <3> QED  BY <1>3, <3>1, OnList DEF Done, Write, Reached, Awaited
  <2>4. AfterSteps(PowerOnSteps, 3) = Done(PowerOnSteps[3], h2)
    BY <2>1, <2>3
  <2> QED  BY <2>4, OnList DEF Done, Write, Reached, Awaited
<1>6. hw' = Write(last, h2) /\ faulty' = FALSE /\ core' = Released(hw')
  BY <1>5, OnList DEF SwitchSucceeds
<1>7. hw' \in Hardware /\ hw'.pw = TRUE
  <2>1. Write(last, h2) \in Hardware
    BY <1>4, WriteFact
  <2>2. Write(last, h2) \in {AllowAutomatic(h2), ReleaseDsp(AllowAutomatic(h2))}
    BY DEF Write
  <2>3. AllowAutomatic(h2).pw = TRUE /\ ReleaseDsp(AllowAutomatic(h2)).pw = TRUE
    BY <1>4 DEF AllowAutomatic, ReleaseDsp, Hardware
  <2> QED  BY <1>6, <2>1, <2>2, <2>3
<1>8. last = "automatic" => 1 \in hw'.rst
  <2>1. AllowAutomatic(h2).rst = h2.rst
    BY <1>4 DEF AllowAutomatic, Hardware
  <2> QED  BY <1>4, <1>6, <2>1 DEF Write
<1> QED  BY <1>6, <1>7, <1>8 DEF Released

(* Power off: it is off.                                                   *)
LEMMA OffFact ==
  ASSUME hw \in Hardware, SwitchSucceeds(PowerOffSteps, "resets")
  PROVE  hw' \in Hardware /\ hw'.pw = FALSE /\ faulty' = FALSE /\ core' = "held"
<1>1. PICK h : h = AfterSteps(PowerOffSteps, 9)
  OBVIOUS
<1>2. h \in Hardware
  <2>1. Len(PowerOffSteps) \in Nat /\ 9 \in 0 .. Len(PowerOffSteps)
    BY OffList
  <2> QED  BY <1>1, <2>1, AfterType, Zenon
<1>3. AfterSteps(PowerOffSteps, 10) = Reached(h, "off")
  <2>1. AfterSteps(PowerOffSteps, 10) = Done(PowerOffSteps[10], h)
    <3>1. Len(PowerOffSteps) \in Nat /\ 10 \in 1 .. Len(PowerOffSteps) /\ 10 - 1 = 9
      BY OffList
    <3>2. AfterSteps(PowerOffSteps, 10) = Done(PowerOffSteps[10], AfterSteps(PowerOffSteps, 10 - 1))
      BY <3>1, AfterFact, Zenon
    <3> QED  BY <1>1, <3>1, <3>2
  <2> QED  BY <2>1, OffList DEF Done, Write, Awaited
<1>4. PICK k : k = Reached(h, "off")
  OBVIOUS
<1>5. k \in Hardware /\ k.pw = FALSE
  BY <1>2, <1>4 DEF Reached, Hardware
<1>6. hw' = AssertResets(k) /\ faulty' = FALSE /\ core' = Released(hw')
  BY <1>3, <1>4, OffList DEF SwitchSucceeds, Write
<1>7. hw' \in Hardware /\ hw'.pw = FALSE
  BY <1>5, <1>6 DEF AssertResets, Hardware
<1> QED  BY <1>6, <1>7 DEF Released
-----------------------------------------------------------------------------
(* What does not change memory changes nothing that is in it.              *)
LEMMA MemKept ==
  ASSUME mem' = mem
  PROVE  /\ \A f, n : FirstLoaded(f, n)' <=> FirstLoaded(f, n)
         /\ Present' = Present
         /\ \A f : IsLinked(f, mem') <=> IsLinked(f, mem)
<1>1. \A f, n : FirstLoaded(f, n)' <=> FirstLoaded(f, n)
  BY DEF FirstLoaded
<1>2. Present' = Present
  BY DEF Present
<1>3. \A f : IsLinked(f, mem') <=> IsLinked(f, mem)
  OBVIOUS
<1> QED  BY <1>1, <1>2, <1>3

LEMMA FinishFact ==
  ASSUME Placed, NEW p \in Programs, NEW at, Finish(p, at)
  PROVE  /\ Placed' /\ UNCHANGED <<file, sec>>
         /\ pc'[p] = at /\ \A q \in Programs : q # p => pc'[q] = pc[q]
BY DEF Placed, Finish

(* A program that goes on, and not with loading.                           *)
LEMMA LoadingKept ==
  ASSUME Loading, UNCHANGED <<dsp_entry_point, file, sec, mem>>,
         \A l \in Loaders : pc'[l] \in Busy => pc'[l] = pc[l]
  PROVE  Loading'
<1>1. \A f, n : FirstLoaded(f, n)' <=> FirstLoaded(f, n)
  BY MemKept
<1> SUFFICES ASSUME NEW l \in Loaders, pc'[l] \in Busy
    PROVE  /\ dsp_entry_point' = NULL
           /\ file'[l] \in Images /\ b_coff_bios_5xx(file'[l])
           /\ pc'[l] \in {"parsed", "opened"} => sec'[l] = 1
           /\ pc'[l] = "load" => /\ sec'[l] \in 1 .. Len(file'[l].secs)
                                 /\ FirstLoaded(file[l], sec[l] - 1)'
           /\ pc'[l] = "start" => FirstLoaded(file[l], Len(file[l].secs))'
  BY DEF Loading
<1>2. pc'[l] = pc[l] /\ pc[l] \in Busy
  OBVIOUS
<1>3. /\ dsp_entry_point = NULL
      /\ file[l] \in Images /\ b_coff_bios_5xx(file[l])
      /\ pc[l] \in {"parsed", "opened"} => sec[l] = 1
      /\ pc[l] = "load" => sec[l] \in 1 .. Len(file[l].secs) /\ FirstLoaded(file[l], sec[l] - 1)
      /\ pc[l] = "start" => FirstLoaded(file[l], Len(file[l].secs))
  BY <1>2 DEF Loading
<1>4. /\ FirstLoaded(file[l], sec[l] - 1)' <=> FirstLoaded(file[l], sec[l] - 1)
      /\ FirstLoaded(file[l], Len(file[l].secs))' <=> FirstLoaded(file[l], Len(file[l].secs))
  BY <1>1 DEF FirstLoaded
<1> QED  BY <1>2, <1>3, <1>4

LEMMA Moves ==
  ASSUME IInv, NEW p \in Programs, NEW at, at \notin Busy, Finish(p, at),
         UNCHANGED <<dsp_entry_point, mem>>
  PROVE  Loading' /\ Placed'
<1>1. Placed /\ Loading
  BY DEF IInv, TypeOK
<1>2. /\ Placed' /\ UNCHANGED <<file, sec>>
      /\ pc'[p] = at /\ \A q \in Programs : q # p => pc'[q] = pc[q]
  BY <1>1, FinishFact
<1>3. \A l \in Loaders : pc'[l] \in Busy => pc'[l] = pc[l]
  BY <1>2 DEF Programs
<1> QED  BY <1>1, <1>2, <1>3, LoadingKept

(* A step of a program that neither the DSP nor the driver notices.        *)
LEMMA Kept ==
  ASSUME IInv, Loading', Placed',
         UNCHANGED <<power, dsp_entry_point, late, who, mem, comps, linked>>
  PROVE  IInv'
<1>1. Present' = Present /\ \A f : IsLinked(f, mem') <=> IsLinked(f, mem)
  BY MemKept
<1>2. TypeOK'
  BY DEF IInv, TypeOK, power
<1>3. Nothing' /\ Waits' /\ Components' /\ StateTellsHardware'
  BY DEF IInv, Nothing, Waits, Components, StateTellsHardware, power
<1>4. Image' /\ Linked'
  BY <1>1 DEF IInv, Image, Linked
<1> QED  BY <1>2, <1>3, <1>4 DEF IInv

(* A switch that fails where nobody waits in START.                        *)
LEMMA Failing ==
  ASSUME IInv, Loading', Placed', who = NULL,
         NEW steps, SwitchFails(steps), Len(steps) \in Nat, DOMAIN steps = 1 .. Len(steps),
         UNCHANGED <<at_dsp_state, bootflag, dsp_entry_point, late, who, mem, comps, linked>>
  PROVE  IInv'
<1>1. Present' = Present /\ \A f : IsLinked(f, mem') <=> IsLinked(f, mem)
  BY MemKept
<1>2. hw' \in Hardware /\ faulty' = TRUE /\ core' = "held"
  BY FailsFact DEF IInv, TypeOK
<1>3. TypeOK'
  BY <1>2 DEF IInv, TypeOK
<1>4. Nothing' /\ Waits' /\ Components' /\ StateTellsHardware'
  BY <1>2 DEF IInv, Nothing, Waits, Components, StateTellsHardware
<1>5. Image' /\ Linked'
  BY <1>1 DEF IInv, Image, Linked
<1> QED  BY <1>3, <1>4, <1>5 DEF IInv

(* The last program that uses the DSP switches it off.                     *)
LEMMA PowerOffStep ==
  ASSUME IInv, Loading', Placed', who = NULL, dsp_poweroff,
         UNCHANGED <<dsp_entry_point, late, who, mem, comps, linked>>
  PROVE  IInv'
<1>1. CASE PowerOffSucceeds
  <2>1. Present' = Present /\ \A f : IsLinked(f, mem') <=> IsLinked(f, mem)
    BY MemKept
  <2>2. /\ hw' \in Hardware /\ hw'.pw = FALSE /\ faulty' = FALSE /\ core' = "held"
        /\ at_dsp_state' = "OFF" /\ bootflag' = bootflag
    BY <1>1, OffFact DEF PowerOffSucceeds, IInv, TypeOK
  <2>3. TypeOK'
    BY <2>2 DEF IInv, TypeOK
  <2>4. Nothing' /\ Waits' /\ Components' /\ StateTellsHardware'
    BY <2>2 DEF IInv, Nothing, Waits, Components, StateTellsHardware
  <2>5. Image' /\ Linked'
    BY <2>1 DEF IInv, Image, Linked
  <2> QED  BY <2>3, <2>4, <2>5 DEF IInv
<1>2. CASE PowerOffFails
  <2>1. Len(PowerOffSteps) \in Nat /\ DOMAIN PowerOffSteps = 1 .. Len(PowerOffSteps)
    BY OffList
  <2> QED  BY <1>2, <2>1, Failing DEF PowerOffFails
<1>3. CASE UNCHANGED power
  BY <1>3, Kept
<1> QED  BY <1>1, <1>2, <1>3 DEF dsp_poweroff

LEMMA PowerOnFailsStep ==
  ASSUME IInv, Loading', Placed', who = NULL, PowerOnFails,
         UNCHANGED <<dsp_entry_point, late, who, mem, comps, linked>>
  PROVE  IInv'
<1>1. Len(PowerOnSteps) = 3 /\ DOMAIN PowerOnSteps = 1 .. 3
  BY OnList, Zenon
<1>2. Len(PowerOnSteps) \in Nat /\ DOMAIN PowerOnSteps = 1 .. Len(PowerOnSteps)
  BY <1>1
<1> QED  BY <1>2, Failing DEF PowerOnFails
-----------------------------------------------------------------------------
(* What is loaded when START comes is the image, from end to end.          *)
LEMMA WholeFact ==
  ASSUME FilesFit, NEW f \in Images, FirstLoaded(f, Len(f.secs))
  PROVE  f \in Present
<1>1. DOMAIN f.secs = 1 .. Len(f.secs)
  BY DEF FilesFit, FitsArea
<1>2. IsLoaded(f, mem)
  BY <1>1 DEF FirstLoaded, IsLoaded, Cells
<1> QED  BY <1>2 DEF Present

LEMMA MainStep ==
  ASSUME IInv, LoadedOnce, NEW l \in Loaders, NEW f \in Images, main(l, f)
  PROVE  IInv'
<1>1. /\ dsp_entry_point = NULL /\ b_coff_bios_5xx(f)
      /\ UNCHANGED <<power, dsp_entry_point, late, who, mem, comps, linked>>
      /\ pc' = [pc EXCEPT ![l] = "parsed"] /\ file' = [file EXCEPT ![l] = f]
      /\ sec' = [sec EXCEPT ![l] = 1]
  BY DEF main, LoadedOnce, Acceptable, driver, memory
<1>2. Placed /\ Loading
  BY DEF IInv, TypeOK
<1>3. Placed'
  BY <1>1, <1>2 DEF Placed
<1>4. /\ pc'[l] = "parsed" /\ file'[l] = f /\ sec'[l] = 1
      /\ \A k \in Loaders : k = l
  BY <1>1, <1>2 DEF Placed, LoadedOnce, Programs
<1>5. Loading'
  BY <1>1, <1>4 DEF Loading
<1> QED  BY <1>1, <1>3, <1>5, Kept

LEMMA OpenStep ==
  ASSUME IInv, NEW l \in Loaders, dsp_init_root(l)
  PROVE  IInv'
<1>1. /\ UNCHANGED <<power, dsp_entry_point, late, who, mem, comps, linked>>
      /\ pc[l] = "parsed" /\ Finish(l, "opened")
  BY DEF dsp_init_root, driver, memory
<1>2. Placed /\ Loading /\ l \in Programs
  BY DEF IInv, TypeOK, Programs
<1>3. /\ Placed' /\ UNCHANGED <<file, sec>>
      /\ pc'[l] = "opened" /\ \A q \in Programs : q # l => pc'[q] = pc[q]
  BY <1>1, <1>2, FinishFact
<1>4. \A f, n : FirstLoaded(f, n)' <=> FirstLoaded(f, n)
  BY <1>1, MemKept
<1>5. Loading'
  <2> SUFFICES ASSUME NEW k \in Loaders, pc'[k] \in Busy
      PROVE  /\ dsp_entry_point' = NULL
             /\ file'[k] \in Images /\ b_coff_bios_5xx(file'[k])
             /\ pc'[k] \in {"parsed", "opened"} => sec'[k] = 1
             /\ pc'[k] = "load" => /\ sec'[k] \in 1 .. Len(file'[k].secs)
                                   /\ FirstLoaded(file[k], sec[k] - 1)'
             /\ pc'[k] = "start" => FirstLoaded(file[k], Len(file[k].secs))'
    BY DEF Loading
  <2>1. k \in Programs /\ pc[k] \in Busy
    BY <1>1, <1>3 DEF Programs, Busy
  <2>2. /\ dsp_entry_point = NULL
        /\ file[k] \in Images /\ b_coff_bios_5xx(file[k])
        /\ pc[k] \in {"parsed", "opened"} => sec[k] = 1
        /\ pc[k] = "load" => sec[k] \in 1 .. Len(file[k].secs) /\ FirstLoaded(file[k], sec[k] - 1)
        /\ pc[k] = "start" => FirstLoaded(file[k], Len(file[k].secs))
    BY <1>2, <2>1 DEF Loading
  <2>3. /\ FirstLoaded(file[k], sec[k] - 1)' <=> FirstLoaded(file[k], sec[k] - 1)
        /\ FirstLoaded(file[k], Len(file[k].secs))' <=> FirstLoaded(file[k], Len(file[k].secs))
    <3>1. file'[k] = file[k] /\ sec'[k] = sec[k] /\ mem' = mem
      BY <1>1, <1>3
    <3> QED  BY <3>1 DEF FirstLoaded
  <2>4. CASE k = l
    BY <1>1, <1>3, <2>2, <2>4
  <2>5. CASE k # l
    BY <1>1, <1>3, <2>1, <2>2, <2>3, <2>5
  <2> QED  BY <2>4, <2>5
<1> QED  BY <1>1, <1>3, <1>5, Kept

(* The first section can be loaded: there is one.                          *)
LEMMA BeginsLoading ==
  ASSUME IInv, LoadedOnce, FilesFit, NEW l \in Loaders, pc[l] = "opened", Finish(l, "load"),
         UNCHANGED <<dsp_entry_point, mem>>
  PROVE  Loading' /\ Placed' /\ dsp_entry_point = NULL
<1>1. Placed /\ Loading /\ l \in Programs /\ pc[l] \in Busy
  BY DEF IInv, TypeOK, Programs, Busy
<1>2. /\ Placed' /\ UNCHANGED <<file, sec>> /\ pc'[l] = "load"
      /\ \A k \in Loaders : k = l
  BY <1>1, FinishFact DEF LoadedOnce
<1>3. /\ dsp_entry_point = NULL /\ sec[l] = 1
      /\ file[l] \in Images /\ b_coff_bios_5xx(file[l])
  BY <1>1 DEF Loading
<1>4. 1 \in 1 .. Len(file[l].secs)
  <2>1. DOMAIN file[l].secs # {}
    BY <1>3 DEF b_coff_bios_5xx, ShortNamed
  <2>2. Len(file[l].secs) \in Nat /\ DOMAIN file[l].secs = 1 .. Len(file[l].secs)
    BY <1>3 DEF FilesFit, FitsArea
  <2> QED  BY <2>1, <2>2
<1>5. FirstLoaded(file[l], sec[l] - 1)'
  BY <1>2, <1>3 DEF FirstLoaded
<1> QED  BY <1>2, <1>3, <1>4, <1>5 DEF Loading

LEMMA PowerOnStep ==
  ASSUME IInv, LoadedOnce, FilesFit, NEW l \in Loaders, PWR_ON_RST(l)
  PROVE  IInv'
<1>1. /\ UNCHANGED <<dsp_entry_point, late, who, mem, comps, linked>>
      /\ pc[l] = "opened" /\ who = NULL
  BY DEF PWR_ON_RST, driver, memory
<1>2. l \in Programs /\ "exit" \notin Busy
  BY DEF Programs, Busy
<1>3. CASE PowersOn("REBOOT", "automatic") /\ Finish(l, "load")
  <2>1. Loading' /\ Placed' /\ dsp_entry_point = NULL
    BY <1>1, <1>3, BeginsLoading
  <2>2. /\ hw' \in Hardware /\ hw'.pw = TRUE /\ faulty' = FALSE /\ core' = "held"
        /\ at_dsp_state' = "RESET" /\ bootflag' = "REBOOT"
    BY <1>3, OnFact DEF PowersOn, IInv, TypeOK
  <2>3. TypeOK'
    BY <1>1, <2>1, <2>2 DEF IInv, TypeOK
  <2>4. Nothing' /\ Waits' /\ Components' /\ StateTellsHardware'
    BY <1>1, <2>1, <2>2 DEF IInv, Nothing, Waits, Components, StateTellsHardware
  <2>5. Image' /\ Linked'
    BY <1>1, <2>1, MemKept DEF IInv, Image, Linked
  <2> QED  BY <2>1, <2>3, <2>4, <2>5 DEF IInv
<1>4. CASE PowerOnFails /\ Finish(l, "exit")
  BY <1>1, <1>2, <1>4, Moves, PowerOnFailsStep
<1>5. CASE Finish(l, "load") /\ UNCHANGED power
  BY <1>1, <1>5, BeginsLoading, Kept
<1>6. CASE Finish(l, "exit") /\ UNCHANGED power
  BY <1>1, <1>2, <1>6, Moves, Kept
<1> QED  BY <1>3, <1>4, <1>5, <1>6 DEF PWR_ON_RST

(* The next section is copied: those before it stay.                       *)
LEMMA SectionStep ==
  ASSUME IInv, LoadedOnce, FilesFit, NEW l \in Loaders, loc_read_sections(l)
  PROVE  IInv'
<1>1. /\ UNCHANGED <<power, dsp_entry_point, late, who, comps, linked, file>>
      /\ pc[l] = "load" /\ l \in Programs /\ pc[l] \in Busy
  BY DEF loc_read_sections, driver, Programs, Busy
<1>2. Placed /\ Loading /\ \A k \in Loaders : k = l
  BY DEF IInv, TypeOK, LoadedOnce
<1>3. CASE pc' = [pc EXCEPT ![l] = "exit"] /\ UNCHANGED <<mem, sec>>
  <2>1. Finish(l, "exit") /\ "exit" \notin Busy
    BY <1>1, <1>3 DEF Finish, Busy
  <2> QED  BY <1>1, <1>3, <2>1, Moves, Kept
<1>4. ASSUME NEW f, f = file[l], NEW i, i = sec[l],
             mem' = LoadSection(f, f.secs[i], Clearable, DOMAIN mem, mem),
             sec' = [sec EXCEPT ![l] = i + 1],
             pc' = [pc EXCEPT ![l] = IF i = Len(f.secs) THEN "start" ELSE pc[l]]
      PROVE  IInv'
  <2>1. /\ dsp_entry_point = NULL /\ f \in Images /\ b_coff_bios_5xx(f)
        /\ i \in 1 .. Len(f.secs) /\ FirstLoaded(f, i - 1)
    BY <1>1, <1>2, <1>4 DEF Loading
  <2>2. /\ FitsArea(f, Resident)
        /\ Len(f.secs) \in Nat /\ DOMAIN f.secs = 1 .. Len(f.secs)
    BY <2>1 DEF FilesFit, FitsArea
  <2>3. /\ DOMAIN mem' = DOMAIN mem
        /\ \A a \in DOMAIN mem : mem'[a] = IF a \in f.secs[i].at THEN Holds(f, a) ELSE mem[a]
    <3>1. Resident \in SUBSET Nat /\ Resident \subseteq DOMAIN mem
      BY BootAssumption DEF IInv, TypeOK
    <3>2. Resident \subseteq Clearable
      BY <3>1 DEF Clearable, FilesFit
    <3>3. PICK clear, copy : clear = Clearable /\ copy = DOMAIN mem
      OBVIOUS
    <3>4. LoadSection(f, f.secs[i], clear, copy, mem)
            = [a \in DOMAIN mem |-> IF a \in f.secs[i].at THEN Holds(f, a) ELSE mem[a]]
      <4>1. /\ Resident \in SUBSET Nat /\ FitsArea(f, Resident) /\ i \in DOMAIN f.secs
            /\ Resident \subseteq clear /\ Resident \subseteq copy
        BY <2>1, <2>2, <3>1, <3>2, <3>3
      <4> QED  BY <4>1, SectionFact
    <3> QED  BY <1>4, <3>3, <3>4
  <2>4. FirstLoaded(f, i)'
    <3> SUFFICES ASSUME NEW j \in 1 .. i, NEW a \in f.secs[j].at
                 PROVE  mem'[a] = Holds(f, a)
      BY DEF FirstLoaded
    <3>1. j \in DOMAIN f.secs /\ (j = i \/ j \in 1 .. i - 1)
      BY <2>1, <2>2
    <3>2. a \in DOMAIN mem
      BY <2>2, <3>1 DEF FitsArea, IInv, TypeOK
    <3>3. j # i => mem[a] = Holds(f, a)
      BY <2>1, <3>1 DEF FirstLoaded
    <3> QED  BY <2>3, <3>2, <3>3
  <2>5. /\ sec'[l] = i + 1 /\ pc'[l] = IF i = Len(f.secs) THEN "start" ELSE "load"
        /\ file'[l] = f
    BY <1>1, <1>2, <1>4 DEF Placed
  <2>6. Placed'
    BY <1>1, <1>2, <1>4, <2>1 DEF Placed
  <2>7. Loading'
    <3>1. i # Len(f.secs) => i + 1 \in 1 .. Len(f.secs)
      BY <2>1, <2>2
    <3>2. (i + 1) - 1 = i
      BY <2>1
    <3>3. FirstLoaded(file[l], sec[l] - 1)' <=> FirstLoaded(f, i)'
      BY <2>5, <3>2 DEF FirstLoaded
    <3>4. i = Len(f.secs) => (FirstLoaded(file[l], Len(file[l].secs))' <=> FirstLoaded(f, i)')
      BY <2>5 DEF FirstLoaded
    <3> QED  BY <1>1, <1>2, <2>1, <2>4, <2>5, <3>1, <3>3, <3>4 DEF Loading
  <2>8. linked = NULL /\ dsp_entry_point' = NULL /\ linked' = NULL
    BY <1>1, <2>1 DEF IInv, Nothing
  <2>9. TypeOK'
    BY <1>1, <2>3, <2>6 DEF IInv, TypeOK, power
  <2>10. Nothing' /\ Waits' /\ Components' /\ StateTellsHardware'
    BY <1>1 DEF IInv, Nothing, Waits, Components, StateTellsHardware, power
  <2>11. Image' /\ Linked'
    BY <2>8 DEF Image, Linked
  <2> QED  BY <2>7, <2>9, <2>10, <2>11 DEF IInv
<1> QED  BY <1>3, <1>4 DEF loc_read_sections

(* START takes the image that has just been loaded.                        *)
LEMMA StartStep ==
  ASSUME IInv, LoadedOnce, FilesFit, NEW l \in Loaders, START(l)
  PROVE  IInv'
<1>1. /\ UNCHANGED <<late, mem, comps, linked>> /\ pc[l] = "start" /\ who = NULL
      /\ l \in Programs /\ pc[l] \in Busy
      /\ "exit" \notin Busy /\ "starting" \notin Busy
  BY DEF START, memory, Programs, Busy
<1>2. CASE Finish(l, "exit") /\ UNCHANGED <<power, dsp_entry_point, who>>
  BY <1>1, <1>2, Moves, Kept
<1>3. ASSUME MayStart(l), hw' = ReleaseDsp(hw), core' = Released(ReleaseDsp(hw)),
             dsp_entry_point' = file[l], who' = l, Finish(l, "starting"),
             UNCHANGED <<faulty, at_dsp_state, bootflag>>
      PROVE  IInv'
  <2>1. Placed /\ Loading /\ hw \in Hardware /\ \A k \in Loaders : k = l
    BY DEF IInv, TypeOK, LoadedOnce
  <2>2. /\ dsp_entry_point = NULL /\ file[l] \in Images
        /\ FirstLoaded(file[l], Len(file[l].secs))
    BY <1>1, <2>1 DEF Loading
  <2>3. Placed' /\ UNCHANGED <<file, sec>> /\ pc'[l] = "starting"
    BY <1>1, <1>3, <2>1, FinishFact
  <2>4. Loading'
    BY <1>1, <2>1, <2>3 DEF Loading
  <2>5. hw' \in Hardware /\ hw'.pw = hw.pw /\ core' \in {"held", "boot"}
    BY <1>3, <2>1 DEF ReleaseDsp, Hardware, Released
  <2>6. at_dsp_state = "RESET" /\ who' # NULL /\ dsp_entry_point' # NULL
    BY <1>1, <1>3, <2>2, BootAssumption DEF MayStart, Programs
  <2>7. bootflag \in {"junk", "REBOOT"} /\ linked = NULL
    BY <2>2 DEF IInv, Nothing
  <2>8. dsp_entry_point' \in Present'
    BY <1>1, <1>3, <2>2, WholeFact, MemKept
  <2>9. TypeOK'
    BY <1>1, <1>3, <2>3, <2>5 DEF IInv, TypeOK
  <2>10. Nothing' /\ Waits' /\ Components' /\ StateTellsHardware'
    BY <1>1, <1>3, <2>5, <2>6, <2>7
    DEF IInv, Nothing, Waits, Components, StateTellsHardware
  <2>11. Image' /\ Linked'
    BY <1>1, <2>7, <2>8 DEF Image, Linked
  <2> QED  BY <2>4, <2>9, <2>10, <2>11 DEF IInv
<1> QED  BY <1>2, <1>3 DEF START

LEMMA ReturnStep ==
  ASSUME IInv, NEW p \in Programs, NEW ok, NEW failed, ok \notin Busy, failed \notin Busy,
         StartReturns(p, ok, failed)
  PROVE  IInv'
<1>1. /\ who = p /\ who' = NULL
      /\ UNCHANGED <<hw, faulty, bootflag, core, dsp_entry_point, mem, comps, linked>>
      /\ Finish(p, ok) \/ Finish(p, failed)
      /\ \/ bootflag = "RUNNING" /\ at_dsp_state' = "RUNNING" /\ late' = late
         \/ late' = TRUE /\ at_dsp_state' = at_dsp_state
  BY DEF StartReturns, memory
<1>2. Loading' /\ Placed'
  BY <1>1, Moves
<1>3. who # NULL /\ dsp_entry_point # NULL
  BY <1>1, BootAssumption DEF Programs, IInv, Nothing
<1>4. TypeOK'
  BY <1>1, <1>2 DEF IInv, TypeOK
<1>5. Nothing' /\ Waits'
  BY <1>1, <1>3 DEF IInv, Nothing, Waits
<1>6. Components'
  BY <1>1, <1>3 DEF IInv, Components
<1>7. StateTellsHardware'
  BY <1>1, <1>3 DEF IInv, TypeOK, StateTellsHardware, Waits
<1>8. Image' /\ Linked'
  BY <1>1, MemKept DEF IInv, Image, Linked
<1> QED  BY <1>2, <1>4, <1>5, <1>6, <1>7, <1>8 DEF IInv

LEMMA ResumeStep ==
  ASSUME IInv, NEW p \in Programs, pc[p] \notin Busy, NEW ok, NEW failed, NEW busy,
         {ok, failed, busy} \cap Busy = {}, Resume(p, ok, failed, busy)
  PROVE  IInv'
<1>1. who = NULL /\ UNCHANGED <<dsp_entry_point, late, mem, comps, linked>>
  BY DEF Resume, memory
<1>2. CASE dsp_entry_point # NULL /\ PowersOn("RESUME", "restart") /\ who' = p /\ UNCHANGED programs
  <2>1. Placed' /\ Loading'
    BY <1>1, <1>2, LoadingKept DEF IInv, TypeOK, Placed, programs
  <2>2. /\ hw' \in Hardware /\ hw'.pw = TRUE /\ faulty' = FALSE /\ core' \in {"held", "boot"}
        /\ at_dsp_state' = "RESET" /\ bootflag' = "RESUME"
    BY <1>2, OnFact DEF PowersOn, IInv, TypeOK
  <2>3. who' # NULL
    BY <1>2, BootAssumption DEF Programs
  <2>4. TypeOK'
    BY <1>1, <1>2, <2>1, <2>2 DEF IInv, TypeOK
  <2>5. Nothing' /\ Waits' /\ Components' /\ StateTellsHardware'
    BY <1>1, <1>2, <2>2, <2>3 DEF IInv, Nothing, Waits, Components, StateTellsHardware
  <2>6. Image' /\ Linked'
    BY <1>1, MemKept DEF IInv, Image, Linked
  <2> QED  BY <2>1, <2>4, <2>5, <2>6 DEF IInv
<1>3. CASE /\ dsp_entry_point # NULL /\ PowersOn("RESUME", "automatic")
           /\ Finish(p, failed) /\ UNCHANGED who
  <2>1. Placed' /\ Loading'
    BY <1>1, <1>3, Moves
  <2>2. /\ hw' \in Hardware /\ hw'.pw = TRUE /\ faulty' = FALSE /\ core' = "held"
        /\ at_dsp_state' = "RESET" /\ bootflag' = "RESUME"
    BY <1>3, OnFact DEF PowersOn, IInv, TypeOK
  <2>3. TypeOK'
    BY <1>1, <1>3, <2>1, <2>2 DEF IInv, TypeOK
  <2>4. Nothing' /\ Waits' /\ Components' /\ StateTellsHardware'
    BY <1>1, <1>3, <2>2 DEF IInv, Nothing, Waits, Components, StateTellsHardware
  <2>5. Image' /\ Linked'
    BY <1>1, MemKept DEF IInv, Image, Linked
  <2> QED  BY <2>1, <2>3, <2>4, <2>5 DEF IInv
<1>4. CASE PowerOnFails /\ Finish(p, busy) /\ UNCHANGED who
  BY <1>1, <1>4, Moves, PowerOnFailsStep
<1>5. CASE ResumeAtOnce(p, ok, failed)
  <2>1. /\ UNCHANGED <<power, who>>
        /\ Finish(p, ok) \/ Finish(p, failed)
    BY <1>5 DEF ResumeAtOnce
  <2> QED  BY <1>1, <2>1, Moves, Kept
<1> QED  BY <1>2, <1>3, <1>4, <1>5 DEF Resume

(* An overlay goes where the image is not.                                 *)
LEMMA OverlayStep ==
  ASSUME IInv, FilesFit, CinitIsRead, NEW c \in Clients, NEW f \in Overlays, LoadOverlay(c, f)
  PROVE  IInv'
<1> PICK n \in 0 .. Len(f.secs) :
      /\ CinitRead(f, n)
      /\ mem' = coff_load_overlay(f, OverlayArea, n, mem)
      /\ linked' = IF n = Len(f.secs) THEN f ELSE NULL
  BY DEF LoadOverlay, CinitIsRead
<1>1. /\ at_dsp_state = "RUNNING"
      /\ UNCHANGED <<power, dsp_entry_point, late, who, comps, pc, file, sec>>
  BY DEF LoadOverlay, driver, programs
<1>2. FitsArea(f, OverlayArea) /\ CinitFits(f) /\ DOMAIN mem = Resident \cup OverlayArea
      /\ Resident \cap OverlayArea = {}
  BY DEF FilesFit, IInv, TypeOK
<1>3. /\ n = Len(f.secs) => IsLinked(f, mem')
      /\ DOMAIN mem' = DOMAIN mem
      /\ \A a \in Resident : mem'[a] = mem[a]
  <2>1. OverlayArea \in SUBSET Nat
    BY BootAssumption
  <2> QED  BY <1>2, <2>1, OverlayFact
<1>4. dsp_entry_point # NULL
  BY <1>1 DEF IInv, Nothing
<1>5. Loading' /\ Placed'
  BY <1>1, <1>4 DEF IInv, TypeOK, Placed, Loading
<1>6. dsp_entry_point' \in Present'
  <2>1. PICK g \in Images : g = dsp_entry_point /\ IsLoaded(g, mem)
    BY <1>4 DEF IInv, Image, Present
  <2>2. Cells(g) \subseteq Resident
    BY DEF FilesFit, FitsArea, Cells
  <2>3. IsLoaded(g, mem')
    BY <1>3, <2>1, <2>2 DEF IsLoaded
  <2> QED  BY <1>1, <2>1, <2>3 DEF Present
<1>7. TypeOK'
  BY <1>1, <1>2, <1>3, <1>5 DEF IInv, TypeOK, power
<1>8. Nothing' /\ Waits' /\ Components' /\ StateTellsHardware'
  BY <1>1, <1>4 DEF IInv, Nothing, Waits, Components, StateTellsHardware, power
<1>9. Image' /\ Linked'
  BY <1>1, <1>3, <1>6 DEF Image, Linked
<1> QED  BY <1>5, <1>7, <1>8, <1>9 DEF IInv
-----------------------------------------------------------------------------
(* The DSP comes up, step by step.                                         *)
LEMMA DspSteps ==
  ASSUME IInv, DspStep
  PROVE  IInv'
<1>1. /\ core # "held" /\ dsp_entry_point # NULL
      /\ UNCHANGED <<hw, faulty, at_dsp_state, dsp_entry_point, late, who, mem, linked>>
      /\ UNCHANGED <<pc, file, sec>>
  BY DEF DspStep, mlb_task__entry, loc_its_alive, BCACHE_wbAll, driver, programs, memory,
         IInv, Nothing
<1>2. Loading' /\ Placed'
  BY <1>1, LoadingKept DEF IInv, TypeOK, Placed
<1>3. Image' /\ Linked'
  BY <1>1, MemKept DEF IInv, Image, Linked
<1>4. CASE mlb_task__entry
  <2>1. /\ core = "boot" /\ core' = "init" /\ bootflag' = bootflag
        /\ comps' = IF bootflag # "RESUME" THEN dsp_entry_point ELSE comps
    BY <1>4 DEF mlb_task__entry, MustInit
  <2>2. TypeOK'
    BY <1>1, <1>2, <2>1 DEF IInv, TypeOK
  <2>3. Nothing' /\ Waits'
    BY <1>1, <2>1 DEF IInv, Nothing, Waits
  <2>4. Components'
    BY <1>1, <2>1 DEF IInv, TypeOK, Components
  <2>5. StateTellsHardware'
    BY <1>1, <2>1 DEF IInv, TypeOK, StateTellsHardware
  <2> QED  BY <1>2, <1>3, <2>2, <2>3, <2>4, <2>5 DEF IInv
<1>5. CASE loc_its_alive
  <2>1. core = "init" /\ core' = "signalled" /\ bootflag' = "RUNNING" /\ comps' = comps
    BY <1>5 DEF loc_its_alive, memory
  <2>2. TypeOK'
    BY <1>1, <1>2, <2>1 DEF IInv, TypeOK
  <2>3. Nothing' /\ Waits'
    BY <1>1, <2>1 DEF IInv, Nothing, Waits
  <2>4. Components'
    BY <1>1, <2>1 DEF IInv, TypeOK, Components
  <2>5. StateTellsHardware'
    BY <1>1, <2>1 DEF IInv, TypeOK, StateTellsHardware
  <2> QED  BY <1>2, <1>3, <2>2, <2>3, <2>4, <2>5 DEF IInv
<1>6. CASE BCACHE_wbAll
  <2>1. core = "signalled" /\ core' = "up" /\ UNCHANGED <<bootflag, comps>>
    BY <1>6 DEF BCACHE_wbAll
  <2>2. TypeOK'
    BY <1>1, <1>2, <2>1 DEF IInv, TypeOK
  <2>3. Nothing' /\ Waits'
    BY <1>1, <2>1 DEF IInv, Nothing, Waits
  <2>4. Components'
    BY <1>1, <2>1 DEF IInv, TypeOK, Components
  <2>5. StateTellsHardware'
    BY <1>1, <2>1 DEF IInv, TypeOK, StateTellsHardware
  <2> QED  BY <1>2, <1>3, <2>2, <2>3, <2>4, <2>5 DEF IInv
<1> QED  BY <1>4, <1>5, <1>6 DEF DspStep

LEMMA LoaderSteps ==
  ASSUME IInv, LoadedOnce, FilesFit, NEW l \in Loaders, LoaderStep(l)
  PROVE  IInv'
<1>1. /\ l \in Programs
      /\ {"check", "ok", "exit"} \cap Busy = {}
  BY DEF Programs, Busy
<1>2. ASSUME StartEnds(l) PROVE IInv'
  BY <1>1, <1>2, ReturnStep DEF StartEnds
<1>3. ASSUME loc_check_dsp_activity(l) PROVE IInv'
  <2>1. /\ UNCHANGED <<power, dsp_entry_point, late, who, mem, comps, linked>>
        /\ Finish(l, "ok") \/ Finish(l, "exit")
    BY <1>3 DEF loc_check_dsp_activity, driver, memory
  <2> QED  BY <1>1, <2>1, Moves, Kept
<1>4. ASSUME Succeeded(l) PROVE IInv'
  <2>1. /\ UNCHANGED <<power, dsp_entry_point, late, who, mem, comps, linked>>
        /\ Finish(l, "exit")
    BY <1>4 DEF Succeeded, driver, memory
  <2> QED  BY <1>1, <2>1, Moves, Kept
<1> QED
  BY <1>2, <1>3, <1>4, MainStep, OpenStep, PowerOnStep, SectionStep, StartStep DEF LoaderStep

LEMMA ClientSteps ==
  ASSUME IInv, FilesFit, CinitIsRead, NEW c \in Clients, ClientStep(c)
  PROVE  IInv'
<1>1. /\ c \in Programs
      /\ {"resuming", "open", "closing", "suspended"} \cap Busy = {}
  BY DEF Programs, Busy
<1>2. ASSUME dsp_open(c) PROVE IInv'
  <2>1. /\ UNCHANGED <<power, dsp_entry_point, late, who, mem, comps, linked>>
        /\ Finish(c, "resuming")
    BY <1>2 DEF dsp_open, driver, memory
  <2> QED  BY <1>1, <2>1, Moves, Kept
<1>3. ASSUME OpenResumes(c) PROVE IInv'
  BY <1>1, <1>3, ResumeStep DEF OpenResumes
<1>4. ASSUME dsp_suspend(c) PROVE IInv'
  <2>1. /\ UNCHANGED <<dsp_entry_point, late, who, mem, comps, linked>>
        /\ who = NULL /\ Finish(c, "suspended") /\ (dsp_poweroff \/ UNCHANGED power)
    BY <1>4 DEF dsp_suspend, memory
  <2> QED  BY <1>1, <2>1, Moves, Kept, PowerOffStep
<1>5. ASSUME dsp_resume(c) PROVE IInv'
  BY <1>1, <1>5, ResumeStep DEF dsp_resume
<1> QED  BY <1>2, <1>3, <1>4, <1>5, OverlayStep DEF ClientStep

LEMMA ProgramSteps ==
  ASSUME IInv, NEW p \in Programs,
         dsp_close(p) \/ ResumeEnds(p) \/ fops__release(p) \/ Kill(p)
  PROVE  IInv'
<1>1. {"exit", "closing", "open", "suspended", "idle"} \cap Busy = {}
  BY DEF Busy
<1>2. ASSUME dsp_close(p) PROVE IInv'
  <2>1. CASE pc[p] = "exit" /\ Resume(p, "closing", "closing", "closing")
    BY <1>1, <2>1, ResumeStep
  <2>2. CASE Finish(p, "exit") /\ UNCHANGED <<power, driver, memory>>
    <3>1. UNCHANGED <<power, dsp_entry_point, late, who, mem, comps, linked>>
      BY <2>2 DEF driver, memory
    <3> QED  BY <1>1, <2>2, <3>1, Moves, Kept
  <2> QED  BY <1>2, <2>1, <2>2 DEF dsp_close
<1>3. ASSUME ResumeEnds(p) PROVE IInv'
  BY <1>1, <1>3, ReturnStep DEF ResumeEnds
<1>4. ASSUME fops__release(p) PROVE IInv'
  <2>1. /\ UNCHANGED <<dsp_entry_point, late, who, mem, comps, linked>>
        /\ who = NULL /\ Finish(p, "idle") /\ (dsp_poweroff \/ UNCHANGED power)
    BY <1>4 DEF fops__release, memory
  <2> QED  BY <1>1, <2>1, Moves, Kept, PowerOffStep
<1>5. ASSUME Kill(p) PROVE IInv'
  <2>1. /\ UNCHANGED <<power, dsp_entry_point, late, who, mem, comps, linked>>
        /\ Finish(p, "closing")
    BY <1>5 DEF Kill, driver, memory
  <2> QED  BY <1>1, <2>1, Moves, Kept
<1> QED  BY <1>2, <1>3, <1>4, <1>5

LEMMA Initially ==
  Init => IInv
<1> SUFFICES ASSUME Init PROVE IInv
  OBVIOUS
<1>1. TypeOK
  BY DEF Init, TypeOK, Placed, Hardware, Programs
<1>2. Loading
  BY DEF Init, Loading, Busy, Programs
<1>3. Nothing /\ Image /\ Waits /\ Components /\ Linked
  BY DEF Init, Nothing, Image, Waits, Components, Linked
<1>4. StateTellsHardware
  BY DEF Init, StateTellsHardware
<1> QED  BY <1>1, <1>2, <1>3, <1>4 DEF IInv

(* What every step keeps.                                                  *)
THEOREM BootInvariance ==
  ASSUME LoadedOnce, FilesFit, CinitIsRead PROVE Spec => []IInv
<1>1. ASSUME IInv, [Next]_vars PROVE IInv'
  <2>1. CASE UNCHANGED vars
    <3>1. UNCHANGED <<power, dsp_entry_point, late, who, mem, comps, linked>>
      BY <2>1 DEF vars, power
    <3>2. UNCHANGED <<pc, file, sec>>
      BY <2>1 DEF vars
    <3>3. Loading /\ Placed
      BY <1>1 DEF IInv, TypeOK
    <3>4. Loading' /\ Placed'
      BY <3>1, <3>2, <3>3, LoadingKept DEF Placed
    <3> QED  BY <1>1, <3>1, <3>4, Kept
  <2> QED
    BY <1>1, <2>1, LoaderSteps, ClientSteps, ProgramSteps, DspSteps DEF Next
<1>2. IInv /\ [Next]_vars => IInv'
  BY <1>1
<1> QED  BY <1>2, Initially, PTL DEF Spec

(* RunsWholeImage for every image and every interleaving: a DSP that is    *)
(* released has the whole image of the file in front of it.                *)
THEOREM AlwaysRunsWholeImage ==
  ASSUME LoadedOnce, FilesFit, CinitIsRead PROVE Spec => []RunsWholeImage
<1>1. IInv => RunsWholeImage
  BY DEF IInv, Nothing, Image, RunsWholeImage
<1> QED  BY <1>1, BootInvariance, PTL

(* StateTellsHardware wherever switches before the last one have failed.   *)
THEOREM AlwaysStateTellsHardware ==
  ASSUME LoadedOnce, FilesFit, CinitIsRead PROVE Spec => []StateTellsHardware
<1>1. IInv => StateTellsHardware
  BY DEF IInv
<1> QED  BY <1>1, BootInvariance, PTL

(* ServesItsImage: a DSP that has come up has initialised its components,  *)
(* or they are those it had before it was suspended.                       *)
THEOREM AlwaysServesItsImage ==
  ASSUME LoadedOnce, FilesFit, CinitIsRead PROVE Spec => []ServesItsImage
<1>1. IInv => ServesItsImage
  BY DEF IInv, Nothing, Components, ServesItsImage
<1> QED  BY <1>1, BootInvariance, PTL

(* OverlayLinked for every overlay that fits its area.                     *)
THEOREM AlwaysOverlayLinked ==
  ASSUME LoadedOnce, FilesFit, CinitIsRead PROVE Spec => []OverlayLinked
<1>1. IInv => OverlayLinked
  BY DEF IInv, Nothing, Image, Linked, OverlayLinked
<1> QED  BY <1>1, BootInvariance, PTL
=============================================================================

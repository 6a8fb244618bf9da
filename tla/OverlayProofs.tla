--------------------------- MODULE OverlayProofs ----------------------------
(***************************************************************************)
(* Proofs about overlays, for any number of clients, components, sections  *)
(* and slots, wherever clients are killed.  The second half is about the   *)
(* DSP's reference counts: a component stays callable for everybody who    *)
(* has it, but for the places where the code itself loses count.           *)
(***************************************************************************)
EXTENDS Overlay, FiniteSetTheorems, WellFoundedInduction, TLAPS

(* A load holds the DSP from its beginning to its end.                     *)
Locked == \A c \in Clients : pc[c] \in Loading => lock = c

(* What a client works on, where it needs it; between coff_load_overlay    *)
(* and the registration its section holds the code it has loaded.          *)
Placed ==
  \A c \in Clients :
    /\ pc[c] \in Loading => want[c] \in Wanted
    /\ pc[c] \in {"ref", "map", "register", "unwind", "unregistered"} => sec[c] \in Sections
    /\ pc[c] = "register" => code[sec[c]] = want[c]

IInv == TypeOK /\ Locked /\ Placed
-----------------------------------------------------------------------------
(* Min is what it is called.                                               *)
LEMMA MinFact ==
  ASSUME NEW S \in SUBSET Nat, S # {}
  PROVE  Min(S) \in S /\ \A y \in S : Min(S) <= y
<1>1. PICK x \in S : \A y \in S : <<y, x>> \notin OpToRel(<, Nat)
  BY WFMin, NatLessThanWellFounded, Zenon
<1>2. \A y \in S : ~ (y < x)
  <2>1. \A y \in S : y \in Nat /\ x \in Nat
    OBVIOUS
  <2> QED  BY <1>1, <2>1, Zenon DEF OpToRel
<1>3. \A y \in S : x <= y
  BY <1>2
<1> QED  BY <1>3 DEF Min

(* Slots and sections are numbers; names are those of images.              *)
LEMMA Numbers == Slots \subseteq Nat /\ Sections \subseteq Nat
BY OverlayAssumption DEF OverlayAssumption, Slots, Sections

LEMMA Names == Wanted \subseteq Images /\ \A m \in DOMAIN Second : Second[m] \in Images
BY OverlayAssumption DEF OverlayAssumption

(* A lookup keeps the table well formed.                                   *)
LEMMA FindTable ==
  ASSUME TypeOK, NEW n \in Images, Named(n) # {}, loc_component_find_by_name(n)
  PROVE  /\ components' \in [Slots -> Entry]
         /\ Min(Named(n)) \in Slots
         /\ components[Min(Named(n))].section \in Sections
<1>1. Named(n) \subseteq Slots /\ \A i \in Named(n) : components[i] # Free
  BY DEF Named, Registered
<1>2. Min(Named(n)) \in Named(n)
  BY <1>1, Numbers, MinFact
<1> DEFINE i == Min(Named(n))
<1>3. i \in Slots /\ components[i] \in Entry /\ components[i] # Free
  BY <1>1, <1>2 DEF TypeOK
<1> HIDE DEF i
<1>4. components[i] \in [name : Images, added : BOOLEAN, section : Sections, ref_count : Nat \ {0}]
  BY <1>3 DEF Entry
<1>5. [components[i] EXCEPT !.ref_count = @ + 1] \in Entry
  BY <1>4 DEF Entry
<1>6. components' = [components EXCEPT ![i] = [components[i] EXCEPT !.ref_count = @ + 1]]
  BY <1>3 DEF loc_component_find_by_name, i, TypeOK
<1> QED  BY <1>3, <1>4, <1>5, <1>6 DEF TypeOK, i

(* An unregistration keeps it well formed, ...                             *)
LEMMA UnregisterTable ==
  ASSUME NEW table \in [Slots -> Entry], NEW s \in Sections
  PROVE  loc_mlb_overlay_unregister(table, s) \in [Slots -> Entry]
<1> SUFFICES ASSUME NEW i \in Slots PROVE loc_mlb_overlay_unregister(table, s)[i] \in Entry
  BY DEF loc_mlb_overlay_unregister
<1>1. table[i] \in Entry /\ Free \in Entry
  BY DEF Entry
<1>2. ASSUME table[i] # Free, table[i].ref_count # 1
      PROVE  [table[i] EXCEPT !.ref_count = @ - 1] \in Entry
  <2>1. table[i] \in [name : Images, added : BOOLEAN, section : Sections, ref_count : Nat \ {0}]
    BY <1>1, <1>2 DEF Entry
  <2> QED  BY <1>2, <2>1 DEF Entry
<1> QED  BY <1>1, <1>2 DEF loc_mlb_overlay_unregister

(* ... a registration, too, ...                                            *)
LEMMA RegisterTable ==
  ASSUME TypeOK, NEW i \in Slots, NEW s \in Sections, code[s] \in Images
  PROVE  loc_mlb_overlay_register(i, s) \in [Slots -> Entry]
<1>1. \A n \in Images, added \in BOOLEAN : Component(n, added, s) \in Entry
  BY DEF Component, Entry
<1> DEFINE table == [components EXCEPT ![i] = Component(code[s], FALSE, s)]
           free == {j \in Slots : table[j] = Free}
<1>2. table \in [Slots -> Entry]
  BY <1>1 DEF TypeOK
<1> HIDE DEF table
<1>3. ASSUME NEW n \in Images
      PROVE  mlb_syscall_component_register(table, n, s) \in [Slots -> Entry]
  <2>1. CASE free = {}
    BY <1>2, <2>1 DEF mlb_syscall_component_register
  <2>2. CASE free # {}
    <3>1. Min(free) \in Slots
      BY <2>2, Numbers, MinFact
    <3>2. mlb_syscall_component_register(table, n, s)
            = [table EXCEPT ![Min(free)] = Component(n, TRUE, s)]
      BY <2>2 DEF mlb_syscall_component_register
    <3> QED  BY <1>1, <1>2, <3>1, <3>2
  <2> QED  BY <2>1, <2>2
<1> QED  BY <1>2, <1>3, Names DEF loc_mlb_overlay_register, table

(* ... and one whose init() fails.                                         *)
LEMMA InitFailsTable ==
  ASSUME TypeOK, NEW i \in Slots, NEW s \in Sections, code[s] \in Images, InitFails(i, s)
  PROVE  components' \in [Slots -> Entry]
<1>1. PICK table \in {components, loc_mlb_overlay_register(i, s)} :
        components' = loc_mlb_overlay_unregister([table EXCEPT ![i] = Free], s)
  BY DEF InitFails
<1>2. table \in [Slots -> Entry]
  BY RegisterTable DEF TypeOK
<1>3. [table EXCEPT ![i] = Free] \in [Slots -> Entry]
  BY <1>2 DEF Entry
<1> QED  BY <1>1, <1>3, UnregisterTable

(* One overlay of a client is changed.                                     *)
LEMMA HeldTypes ==
  ASSUME TypeOK, NEW c \in Clients, NEW s \in Sections
  PROVE  /\ \A e \in Held :
              [overlays EXCEPT ![c][s] = e] \in [Clients -> [Sections -> Held]]
         /\ \A b \in BOOLEAN :
              [overlays EXCEPT ![c][s].mem = b] \in [Clients -> [Sections -> Held]]
         /\ \A i \in Slots \cup {NULL} :
              [overlays EXCEPT ![c][s].compid = i] \in [Clients -> [Sections -> Held]]
<1>1. overlays[c][s] \in Held
  BY DEF TypeOK
<1>2. \A b \in BOOLEAN : [overlays[c][s] EXCEPT !.mem = b] \in Held
  BY <1>1 DEF Held
<1>3. \A i \in Slots \cup {NULL} : [overlays[c][s] EXCEPT !.compid = i] \in Held
  BY <1>1 DEF Held
<1>4. \A e \in Held : [overlays EXCEPT ![c][s] = e] \in [Clients -> [Sections -> Held]]
  BY DEF TypeOK
<1> QED  BY <1>2, <1>3, <1>4
-----------------------------------------------------------------------------
(* Every step keeps the types.                                             *)
LEMMA TypeStep ==
  ASSUME TypeOK, Placed, [Next]_vars
  PROVE  TypeOK'
<1> USE DEF TypeOK, Placed, Pcs, Loading, NoOverlay
<1>1. ASSUME NEW c \in Clients, dsp_open(c) PROVE TypeOK'
  BY <1>1 DEF dsp_open, Goto, kernel
<1>2. ASSUME NEW c \in Clients, FindKnown(c) PROVE TypeOK'
  <2>1. want[c] \in Images
    BY <1>2, Names DEF FindKnown, Goto
  <2>2. /\ components' \in [Slots -> Entry]
        /\ Min(Named(want[c])) \in Slots
        /\ components[Min(Named(want[c]))].section \in Sections
    BY <1>2, <2>1, FindTable DEF FindKnown
  <2>3. overlays' \in [Clients -> [Sections -> Held]]
    BY <1>2, <2>2, HeldTypes DEF FindKnown, Held
  <2>4. leaked' \in [Sections -> Nat]
    <3>1. PICK s \in Sections : leaked' = leaked \/ leaked' = [leaked EXCEPT ![s] = @ + 1]
      BY <1>2, <2>2 DEF FindKnown
    <3> QED  BY <3>1
  <2> QED  BY <1>2, <2>2, <2>3, <2>4 DEF FindKnown, Goto
<1>3. ASSUME NEW c \in Clients, FindUnknown(c) PROVE TypeOK'
  BY <1>3 DEF FindUnknown, Goto, kernel
<1>4. ASSUME NEW c \in Clients, OVERLAY_REF(c) PROVE TypeOK'
  BY <1>4 DEF OVERLAY_REF, Goto
<1>5. ASSUME NEW c \in Clients, OVERLAY_ALLOC(c) PROVE TypeOK'
  <2>1. Candidates(want[c]) \subseteq Sections
    BY OverlayAssumption DEF OverlayAssumption, Candidates, Sections
  <2>2. Min(Candidates(want[c])) \in Sections
    BY <1>5, <2>1, Numbers, MinFact DEF OVERLAY_ALLOC
  <2>3. overlays' \in [Clients -> [Sections -> Held]]
    BY <1>5, <2>2, HeldTypes DEF OVERLAY_ALLOC
  <2> QED  BY <1>5, <2>2, <2>3 DEF OVERLAY_ALLOC, Goto, kernel
<1>6. ASSUME NEW c \in Clients, AllocFails(c) PROVE TypeOK'
  BY <1>6 DEF AllocFails, Goto, kernel
<1>7. ASSUME NEW c \in Clients, coff_load_overlay(c) PROVE TypeOK'
  BY <1>7 DEF coff_load_overlay, Goto, kernel
<1>8. ASSUME NEW c \in Clients, LoadFails(c) PROVE TypeOK'
  <2>1. sec[c] \in Sections
    BY <1>8 DEF LoadFails, Goto
  <2>2. overlays' \in [Clients -> [Sections -> Held]]
    BY <1>8, <2>1, HeldTypes DEF LoadFails, NoOverlay, Held
  <2> QED  BY <1>8, <2>1, <2>2 DEF LoadFails, Goto, kernel
<1>9. ASSUME NEW c \in Clients, loc_overlay_component_register_new(c) PROVE TypeOK'
  <2>1. sec[c] \in Sections /\ code[sec[c]] \in Images
    BY <1>9, Names DEF loc_overlay_component_register_new, Goto
  <2>2. PICK i \in Slots :
          /\ components' = loc_mlb_overlay_register(i, sec[c])
          /\ overlays' = [overlays EXCEPT ![c][sec[c]].compid = i]
    BY <1>9 DEF loc_overlay_component_register_new
  <2>3. components' \in [Slots -> Entry]
    BY <2>1, <2>2, RegisterTable
  <2>4. overlays' \in [Clients -> [Sections -> Held]]
    BY <2>1, <2>2, HeldTypes
  <2> QED
    BY <1>9, <2>1, <2>3, <2>4 DEF loc_overlay_component_register_new, Goto, kernel
<1>10. ASSUME NEW c \in Clients, RegisterFails(c) PROVE TypeOK'
  <2>1. sec[c] \in Sections
    BY <1>10 DEF RegisterFails, Goto
  <2>2. overlays' \in [Clients -> [Sections -> Held]]
    BY <1>10, <2>1, HeldTypes DEF RegisterFails, NoOverlay, Held
  <2>3. components' \in [Slots -> Entry]
    <3>1. code[sec[c]] \in Images
      BY <1>10, Names DEF RegisterFails, Goto
    <3> QED  BY <1>10, <2>1, <3>1, InitFailsTable DEF RegisterFails
  <2> QED  BY <1>10, <2>1, <2>2, <2>3 DEF RegisterFails, Goto, kernel
<1>11. ASSUME NEW c \in Clients, Unwind(c) PROVE TypeOK'
  BY <1>11 DEF Unwind, Goto
<1>12. ASSUME NEW c \in Clients, LoadEnd(c) PROVE TypeOK'
  BY <1>12 DEF LoadEnd, Goto, kernel
<1>13. ASSUME NEW c \in Clients, dsp_close(c) PROVE TypeOK'
  BY <1>13 DEF dsp_close, Goto, kernel
<1>14. ASSUME NEW c \in Clients, OVERLAY_UNREGISTER(c) PROVE TypeOK'
  <2>1. PICK s \in Sections :
          /\ components' = loc_mlb_overlay_unregister(components, s)
          /\ overlays' = [overlays EXCEPT ![c][s].compid = NULL]
          /\ sec' = [sec EXCEPT ![c] = s]
    BY <1>14 DEF OVERLAY_UNREGISTER
  <2>2. components' \in [Slots -> Entry]
    BY <2>1, UnregisterTable
  <2>3. overlays' \in [Clients -> [Sections -> Held]]
    BY <2>1, HeldTypes
  <2> QED  BY <1>14, <2>1, <2>2, <2>3 DEF OVERLAY_UNREGISTER, Goto, kernel
<1>15. ASSUME NEW c \in Clients, OVERLAY_FREE(c) PROVE TypeOK'
  <2>1. sec[c] \in Sections
    BY <1>15 DEF OVERLAY_FREE, Goto
  <2>2. overlays' \in [Clients -> [Sections -> Held]]
    BY <1>15, <2>1, HeldTypes DEF OVERLAY_FREE, NoOverlay, Held
  <2> QED  BY <1>15, <2>1, <2>2 DEF OVERLAY_FREE, Goto, kernel
<1>16. ASSUME NEW c \in Clients, Close(c) PROVE TypeOK'
  BY <1>16 DEF Close, Goto, kernel
<1>17. ASSUME NEW c \in Clients, Kill(c) PROVE TypeOK'
  <2>1. [s \in Sections |-> NoOverlay] \in [Sections -> Held]
    BY DEF NoOverlay, Held
  <2>2. kills' \in 0 .. MaxKills
    BY <1>17, OverlayAssumption DEF Kill, OverlayAssumption
  <2>3. leaked' \in [Sections -> Nat]
    BY <1>17 DEF Kill
  <2> QED  BY <1>17, <2>1, <2>2, <2>3 DEF Kill
<1>18. ASSUME NEW c \in Clients, fops__release(c) PROVE TypeOK'
  BY <1>18 DEF fops__release, Goto
<1>19. ASSUME NEW c \in Clients, EMERGENCY_UNLOAD(c) PROVE TypeOK'
  <2>1. flags[c] \subseteq Nat
    BY Numbers
  <2>2. Min(flags[c]) \in Sections
    BY <1>19, <2>1, MinFact DEF EMERGENCY_UNLOAD
  <2> QED  BY <1>19, <2>2 DEF EMERGENCY_UNLOAD, Goto, kernel
<1>20. ASSUME NEW c \in Clients, UnloadTimeout(c) PROVE TypeOK'
  <2>1. flags[c] \subseteq Nat
    BY Numbers
  <2>2. Min(flags[c]) \in Sections
    BY <1>20, <2>1, MinFact DEF UnloadTimeout
  <2>3. leaked' \in [Sections -> Nat]
    BY <1>20, <2>2 DEF UnloadTimeout
  <2> QED  BY <1>20, <2>2, <2>3 DEF UnloadTimeout, Goto, kernel
<1>21. ASSUME NEW c \in Clients, ReleaseEnd(c) PROVE TypeOK'
  BY <1>21 DEF ReleaseEnd, Goto
<1>22. ASSUME NEW c \in Clients, NEW n \in Wanted, LoadBegin(c, n) PROVE TypeOK'
  BY <1>22, Names DEF LoadBegin, Goto, kernel
<1>23. CASE loc_mlb_exec
  <2>1. components' \in [Slots -> Entry]
    BY <1>23, UnregisterTable DEF loc_mlb_exec
  <2> QED  BY <1>23, <2>1 DEF loc_mlb_exec, kernel
<1>24. CASE UNCHANGED vars
  BY <1>24 DEF vars
<1> QED
  BY <1>1, <1>2, <1>3, <1>4, <1>5, <1>6, <1>7, <1>8, <1>9, <1>10, <1>11,
     <1>12, <1>13, <1>14, <1>15, <1>16, <1>17, <1>18, <1>19, <1>20,
     <1>21, <1>22, <1>23, <1>24
  DEF Next, dsp_component_load, Release

(* A load begins when nobody holds the DSP.                                *)
LEMMA LockedStep ==
  ASSUME TypeOK, Locked, [Next]_vars
  PROVE  Locked'
<1> USE DEF TypeOK, Locked, Pcs, Loading, ChannelFree
<1>1. ASSUME NEW c \in Clients, dsp_open(c) PROVE Locked'
  BY <1>1 DEF dsp_open, Goto, kernel
<1>2. ASSUME NEW c \in Clients, FindKnown(c) PROVE Locked'
  BY <1>2 DEF FindKnown, Goto, kernel
<1>3. ASSUME NEW c \in Clients, FindUnknown(c) PROVE Locked'
  BY <1>3 DEF FindUnknown, Goto, kernel
<1>4. ASSUME NEW c \in Clients, OVERLAY_REF(c) PROVE Locked'
  BY <1>4 DEF OVERLAY_REF, Goto
<1>5. ASSUME NEW c \in Clients, OVERLAY_ALLOC(c) PROVE Locked'
  BY <1>5 DEF OVERLAY_ALLOC, Goto
<1>6. ASSUME NEW c \in Clients, AllocFails(c) PROVE Locked'
  BY <1>6 DEF AllocFails, Goto, kernel
<1>7. ASSUME NEW c \in Clients, coff_load_overlay(c) PROVE Locked'
  BY <1>7 DEF coff_load_overlay, Goto, kernel
<1>8. ASSUME NEW c \in Clients, LoadFails(c) PROVE Locked'
  BY <1>8 DEF LoadFails, Goto, kernel
<1>9. ASSUME NEW c \in Clients, loc_overlay_component_register_new(c) PROVE Locked'
  BY <1>9 DEF loc_overlay_component_register_new, Goto, kernel
<1>10. ASSUME NEW c \in Clients, RegisterFails(c) PROVE Locked'
  BY <1>10 DEF RegisterFails, Goto, kernel
<1>11. ASSUME NEW c \in Clients, Unwind(c) PROVE Locked'
  BY <1>11 DEF Unwind, Goto
<1>12. ASSUME NEW c \in Clients, LoadEnd(c) PROVE Locked'
  BY <1>12 DEF LoadEnd, Goto, kernel
<1>13. ASSUME NEW c \in Clients, dsp_close(c) PROVE Locked'
  BY <1>13 DEF dsp_close, Goto, kernel
<1>14. ASSUME NEW c \in Clients, OVERLAY_UNREGISTER(c) PROVE Locked'
  BY <1>14 DEF OVERLAY_UNREGISTER, Goto, kernel
<1>15. ASSUME NEW c \in Clients, OVERLAY_FREE(c) PROVE Locked'
  BY <1>15 DEF OVERLAY_FREE, Goto
<1>16. ASSUME NEW c \in Clients, Close(c) PROVE Locked'
  BY <1>16 DEF Close, Goto, kernel
<1>17. ASSUME NEW c \in Clients, Kill(c) PROVE Locked'
  BY <1>17 DEF Kill
<1>18. ASSUME NEW c \in Clients, fops__release(c) PROVE Locked'
  BY <1>18 DEF fops__release, Goto
<1>19. ASSUME NEW c \in Clients, EMERGENCY_UNLOAD(c) PROVE Locked'
  BY <1>19 DEF EMERGENCY_UNLOAD, Goto
<1>20. ASSUME NEW c \in Clients, UnloadTimeout(c) PROVE Locked'
  BY <1>20 DEF UnloadTimeout, Goto
<1>21. ASSUME NEW c \in Clients, ReleaseEnd(c) PROVE Locked'
  BY <1>21 DEF ReleaseEnd, Goto
<1>22. ASSUME NEW c \in Clients, NEW n \in Wanted, LoadBegin(c, n) PROVE Locked'
  BY <1>22, OverlayAssumption DEF OverlayAssumption, LoadBegin, Goto, kernel
<1>23. CASE loc_mlb_exec
  BY <1>23 DEF loc_mlb_exec, kernel
<1>24. CASE UNCHANGED vars
  BY <1>24 DEF vars
<1> QED
  BY <1>1, <1>2, <1>3, <1>4, <1>5, <1>6, <1>7, <1>8, <1>9, <1>10, <1>11,
     <1>12, <1>13, <1>14, <1>15, <1>16, <1>17, <1>18, <1>19, <1>20,
     <1>21, <1>22, <1>23, <1>24
  DEF Next, dsp_component_load, Release

(* One client at a time loads, so the code stays the one it has loaded.    *)
LEMMA PlacedStep ==
  ASSUME TypeOK, Locked, Placed, [Next]_vars
  PROVE  Placed'
<1> USE DEF TypeOK, Locked, Placed, Pcs, Loading, ChannelFree
<1>1. ASSUME NEW c \in Clients, dsp_open(c) PROVE Placed'
  BY <1>1 DEF dsp_open, Goto, kernel
<1>2. ASSUME NEW c \in Clients, FindKnown(c) PROVE Placed'
  <2>1. want[c] \in Images
    BY <1>2, Names DEF FindKnown, Goto
  <2>2. /\ components' \in [Slots -> Entry]
        /\ Min(Named(want[c])) \in Slots
        /\ components[Min(Named(want[c]))].section \in Sections
    BY <1>2, <2>1, FindTable DEF FindKnown
  <2> QED  BY <1>2, <2>2 DEF FindKnown, Goto, kernel
<1>3. ASSUME NEW c \in Clients, FindUnknown(c) PROVE Placed'
  BY <1>3 DEF FindUnknown, Goto, kernel
<1>4. ASSUME NEW c \in Clients, OVERLAY_REF(c) PROVE Placed'
  BY <1>4 DEF OVERLAY_REF, Goto
<1>5. ASSUME NEW c \in Clients, OVERLAY_ALLOC(c) PROVE Placed'
  <2>1. Candidates(want[c]) \subseteq Sections
    BY OverlayAssumption DEF OverlayAssumption, Candidates, Sections
  <2>2. Min(Candidates(want[c])) \in Sections
    BY <1>5, <2>1, Numbers, MinFact DEF OVERLAY_ALLOC
  <2> QED  BY <1>5, <2>2 DEF OVERLAY_ALLOC, Goto, kernel
<1>6. ASSUME NEW c \in Clients, AllocFails(c) PROVE Placed'
  BY <1>6 DEF AllocFails, Goto, kernel
<1>7. ASSUME NEW c \in Clients, coff_load_overlay(c) PROVE Placed'
  BY <1>7 DEF coff_load_overlay, Goto, kernel
<1>8. ASSUME NEW c \in Clients, LoadFails(c) PROVE Placed'
  BY <1>8 DEF LoadFails, Goto, kernel
<1>9. ASSUME NEW c \in Clients, loc_overlay_component_register_new(c) PROVE Placed'
  BY <1>9 DEF loc_overlay_component_register_new, Goto, kernel
<1>10. ASSUME NEW c \in Clients, RegisterFails(c) PROVE Placed'
  BY <1>10 DEF RegisterFails, Goto, kernel
<1>11. ASSUME NEW c \in Clients, Unwind(c) PROVE Placed'
  BY <1>11 DEF Unwind, Goto
<1>12. ASSUME NEW c \in Clients, LoadEnd(c) PROVE Placed'
  BY <1>12 DEF LoadEnd, Goto, kernel
<1>13. ASSUME NEW c \in Clients, dsp_close(c) PROVE Placed'
  BY <1>13 DEF dsp_close, Goto, kernel
<1>14. ASSUME NEW c \in Clients, OVERLAY_UNREGISTER(c) PROVE Placed'
  <2>1. PICK s \in Sections :
          /\ components' = loc_mlb_overlay_unregister(components, s)
          /\ overlays' = [overlays EXCEPT ![c][s].compid = NULL]
          /\ sec' = [sec EXCEPT ![c] = s]
    BY <1>14 DEF OVERLAY_UNREGISTER
  <2> QED  BY <1>14, <2>1 DEF OVERLAY_UNREGISTER, Goto, kernel
<1>15. ASSUME NEW c \in Clients, OVERLAY_FREE(c) PROVE Placed'
  BY <1>15 DEF OVERLAY_FREE, Goto
<1>16. ASSUME NEW c \in Clients, Close(c) PROVE Placed'
  BY <1>16 DEF Close, Goto, kernel
<1>17. ASSUME NEW c \in Clients, Kill(c) PROVE Placed'
  BY <1>17 DEF Kill
<1>18. ASSUME NEW c \in Clients, fops__release(c) PROVE Placed'
  BY <1>18 DEF fops__release, Goto
<1>19. ASSUME NEW c \in Clients, EMERGENCY_UNLOAD(c) PROVE Placed'
  BY <1>19 DEF EMERGENCY_UNLOAD, Goto
<1>20. ASSUME NEW c \in Clients, UnloadTimeout(c) PROVE Placed'
  BY <1>20 DEF UnloadTimeout, Goto
<1>21. ASSUME NEW c \in Clients, ReleaseEnd(c) PROVE Placed'
  BY <1>21 DEF ReleaseEnd, Goto
<1>22. ASSUME NEW c \in Clients, NEW n \in Wanted, LoadBegin(c, n) PROVE Placed'
  BY <1>22 DEF LoadBegin, Goto, kernel
<1>23. CASE loc_mlb_exec
  BY <1>23 DEF loc_mlb_exec, kernel
<1>24. CASE UNCHANGED vars
  BY <1>24 DEF vars
<1> QED
  BY <1>1, <1>2, <1>3, <1>4, <1>5, <1>6, <1>7, <1>8, <1>9, <1>10, <1>11,
     <1>12, <1>13, <1>14, <1>15, <1>16, <1>17, <1>18, <1>19, <1>20,
     <1>21, <1>22, <1>23, <1>24
  DEF Next, dsp_component_load, Release
-----------------------------------------------------------------------------
(* The inductive invariant.                                                *)
THEOREM OverlayInvariance == Spec => []IInv
<1>1. Init => IInv
  <2> SUFFICES ASSUME Init PROVE IInv
    OBVIOUS
  <2>1. 0 \in 0 .. MaxKills
    BY OverlayAssumption DEF OverlayAssumption
  <2>2. TypeOK
    BY <2>1 DEF Init, TypeOK, Entry, Held, NoOverlay, Pcs
  <2>3. Locked /\ Placed
    BY DEF Init, Locked, Placed, Loading
  <2> QED  BY <2>2, <2>3 DEF IInv
<1>2. IInv /\ [Next]_vars => IInv'
  BY TypeStep, LockedStep, PlacedStep DEF IInv
<1> QED  BY <1>1, <1>2, PTL DEF Spec

(* The type invariant, wherever clients are killed: the DSP's table has no *)
(* component without a reference or a name, whatever overlaps with a load. *)
THEOREM OverlayTypeCorrect == Spec => []TypeOK
<1>1. IInv => TypeOK
  BY DEF IInv
<1> QED  BY <1>1, OverlayInvariance, PTL
-----------------------------------------------------------------------------
(* An area has one image that programs ask for, as OVERLAY_FREE does not   *)
(* ask who else uses the section; no program asks for what an init() has   *)
(* registered, as a lookup raises the count of that alone and an           *)
(* unregistration lowers all; and no client is killed between UNREGISTER   *)
(* and its OVERLAY_FREE.                                                   *)
OneImage ==
  \A m, n \in Wanted \ NoFile : (m \in Area3 <=> n \in Area3) => m = n

Seconds == {Second[m] : m \in DOMAIN Second}

Careful == OneImage /\ Wanted \cap Seconds = {} /\ "unregistered" \notin Mortal

(* The components an image was registered with.                            *)
Mains == {i \in Registered : ~ components[i].added}

Fits(n, s) == s = AREA3 <=> n \in Area3

(* Who has a reference to a component; the references there are.           *)
Users(i) == {c \in Clients : Holds(c, i, components[i].section)}

Due(i) ==
  Cardinality(Users(i)) + (IF unload = components[i].section THEN 1 ELSE 0)
    + leaked[components[i].section]
-----------------------------------------------------------------------------
(* What is in the table is what is in the section, once.                   *)
Table ==
  \A i \in Mains :
    /\ components[i].name \in Wanted \ NoFile
    /\ Fits(components[i].name, components[i].section)
    /\ components[i].name = code[components[i].section]

Unique ==
  \A i, j \in Mains : components[i].name = components[j].name => i = j

(* What init() has registered does not outlive the component.              *)
Added ==
  \A j \in Registered : components[j].added =>
    /\ components[j].name \in Seconds
    /\ \E i \in Mains :
         /\ components[i].section = components[j].section
         /\ components[j].ref_count <= components[i].ref_count

(* What a client has found out stays so until it has acted on it.          *)
Progress ==
  \A c \in Clients :
    /\ pc[c] \in {"alloc", "map", "register", "unwind"} =>
         want[c] \notin NoFile /\ Named(want[c]) = {}
    /\ pc[c] \in {"map", "register", "unwind"} => Fits(want[c], sec[c])
    /\ pc[c] = "ref" => overlays[c][sec[c]].compid # NULL
    /\ pc[c] = "unregistered" => overlays[c][sec[c]].compid = NULL

(* The kernel's flags of a client that lives are what it has.              *)
Flagged ==
  \A c \in Clients :
    /\ pc[c] \in {"closed", "dead", "release"} =>
         \A s \in Sections : overlays[c][s].compid = NULL
    /\ pc[c] \in {"map", "register"} => sec[c] \in flags[c]
    /\ pc[c] \notin {"dead", "release"} =>
         \A s \in Sections :
           /\ s \in flags[c] =>
                \/ overlays[c][s].compid # NULL
                \/ pc[c] \in {"map", "register", "unwind", "unregistered"} /\ s = sec[c]
           /\ overlays[c][s].compid # NULL => s \in flags[c] \/ (pc[c] = "ref" /\ s = sec[c])

(* A section in use has a user.                                            *)
UsedHas == \A s \in used : s \in lost \/ \E c \in Clients : s \in flags[c]

(* A sequence and an emergency message exclude each other.                 *)
Channel ==
  /\ lock # NULL => unload = NULL
  /\ \A c \in Clients : pc[c] = "release" => mtx = c

(* What a client has is in the table ...                                   *)
Present ==
  \A c \in Clients, s \in Sections :
    LET i == overlays[c][s].compid
    IN  i # NULL => i \in Mains /\ components[i].section = s

(* ... with the references there are for it, ...                           *)
Counted == \A i \in Mains : components[i].ref_count = Due(i)

(* ... of which nobody leaks one to what is not there, ...                 *)
Leaks ==
  \A s \in Sections : leaked[s] # 0 => \E i \in Mains : components[i].section = s

(* ... and what a dead client has left is, too, unless it was killed while *)
(* it loaded, when nobody else can load until that is cleaned up.          *)
Owed ==
  \A c \in Clients, s \in Sections :
    pc[c] \in {"dead", "release"} /\ s \in flags[c] =>
      \/ \E i \in Mains : components[i].section = s
      \/ pc[c] = "dead" /\ lock = c
      \/ pc[c] = "release" /\ lock = NULL

RInv ==
  /\ IInv /\ Table /\ Unique /\ Added /\ Progress /\ Flagged /\ UsedHas
  /\ Channel /\ Present /\ Counted /\ Leaks /\ Owed
-----------------------------------------------------------------------------
(* The fields of an entry.                                                 *)
LEMMA Fields ==
  ASSUME TypeOK
  PROVE  /\ \A j \in Slots : j \in Registered <=> components[j].ref_count # 0
         /\ \A j \in Registered :
              /\ j \in Slots
              /\ components[j] \in [name : Images, added : BOOLEAN, section : Sections,
                                    ref_count : Nat \ {0}]
              /\ components[j].name \in Images
              /\ components[j].section \in Sections
              /\ components[j].ref_count \in Nat \ {0}
<1>1. \A j \in Slots : components[j] \in Entry
  BY DEF TypeOK
<1>2. \A e \in Entry : e # Free =>
        /\ e \in [name : Images, added : BOOLEAN, section : Sections, ref_count : Nat \ {0}]
        /\ e.name \in Images /\ e.section \in Sections /\ e.ref_count \in Nat \ {0}
  BY DEF Entry
<1>3. Free.ref_count = 0
  BY DEF Free
<1> QED  BY <1>1, <1>2, <1>3 DEF Registered

(* A lookup raises one count.                                              *)
LEMMA FindEffect ==
  ASSUME TypeOK, NEW n \in Images, Named(n) # {}, loc_component_find_by_name(n)
  PROVE  /\ Min(Named(n)) \in Named(n)
         /\ Registered' = Registered
         /\ \A j \in Registered :
              /\ components'[j].name = components[j].name
              /\ components'[j].added = components[j].added
              /\ components'[j].section = components[j].section
              /\ components'[j].ref_count =
                   components[j].ref_count + (IF j = Min(Named(n)) THEN 1 ELSE 0)
<1>1. Named(n) \subseteq Slots /\ Named(n) \subseteq Registered
  BY DEF Named, Registered
<1>2. Min(Named(n)) \in Named(n)
  BY <1>1, Numbers, MinFact
<1> DEFINE i == Min(Named(n))
<1>3. i \in Slots /\ i \in Registered
  BY <1>1, <1>2
<1>4. components' = [components EXCEPT ![i].ref_count = @ + 1]
  BY DEF loc_component_find_by_name
<1> HIDE DEF i
<1>5. \A j \in Slots : j # i => components'[j] = components[j]
  BY <1>4 DEF TypeOK
<1>6. components'[i] = [components[i] EXCEPT !.ref_count = @ + 1]
  BY <1>3, <1>4 DEF TypeOK
<1>7. /\ components'[i].name = components[i].name
      /\ components'[i].added = components[i].added
      /\ components'[i].section = components[i].section
      /\ components'[i].ref_count = components[i].ref_count + 1
  BY <1>3, <1>6, Fields
<1>8. components'[i] # Free
  BY <1>3, <1>7, Fields DEF Free
<1>9. Registered' = Registered
  BY <1>3, <1>5, <1>8 DEF Registered
<1>10. \A j \in Registered : components[j].ref_count + 0 = components[j].ref_count
  BY Fields
<1>11. i \in Named(n)
  BY <1>2 DEF i
<1> QED  BY <1>2, <1>5, <1>7, <1>9, <1>10, Fields DEF i

(* An unregistration lowers those of a section.                            *)
LEMMA UnregisterEffect ==
  ASSUME TypeOK, NEW s \in Sections, components' = loc_mlb_overlay_unregister(components, s)
  PROVE  /\ Registered' =
              {j \in Registered : components[j].section = s => components[j].ref_count # 1}
         /\ \A j \in Registered' :
              /\ components'[j].name = components[j].name
              /\ components'[j].added = components[j].added
              /\ components'[j].section = components[j].section
              /\ components'[j].ref_count =
                   components[j].ref_count - (IF components[j].section = s THEN 1 ELSE 0)
<1> DEFINE InSection == {j \in Registered : components[j].section = s}
<1>1. ASSUME NEW j \in Slots, j \notin InSection
      PROVE  components'[j] = components[j]
  BY <1>1 DEF loc_mlb_overlay_unregister, Registered
<1>2. ASSUME NEW j \in InSection, components[j].ref_count = 1
      PROVE  j \in Slots /\ components'[j] = Free
  BY <1>2 DEF loc_mlb_overlay_unregister, Registered
<1>3. ASSUME NEW j \in InSection, components[j].ref_count # 1
      PROVE  /\ j \in Slots
             /\ components'[j] # Free
             /\ components'[j].name = components[j].name
             /\ components'[j].added = components[j].added
             /\ components'[j].section = components[j].section
             /\ components'[j].ref_count = components[j].ref_count - 1
  <2>1. j \in Slots /\ j \in Registered
    BY <1>3 DEF Registered
  <2>2. components'[j] = [components[j] EXCEPT !.ref_count = @ - 1]
    BY <1>3, <2>1 DEF loc_mlb_overlay_unregister, Registered
  <2>3. /\ components'[j].name = components[j].name
        /\ components'[j].added = components[j].added
        /\ components'[j].section = components[j].section
        /\ components'[j].ref_count = components[j].ref_count - 1
    BY <2>1, <2>2, Fields
  <2>4. components'[j].ref_count # 0
    BY <1>3, <2>1, <2>3, Fields
  <2>5. Free.ref_count = 0
    BY DEF Free
  <2> QED  BY <2>1, <2>3, <2>4, <2>5
<1>4. \A j \in Registered : j \in InSection <=> components[j].section = s
  OBVIOUS
<1>5. InSection \subseteq Registered /\ Registered \subseteq Slots
  BY DEF Registered
<1> HIDE DEF InSection
<1>6. \A j \in Slots : j \in Registered' <=>
        j \in Registered /\ (components[j].section = s => components[j].ref_count # 1)
  BY <1>1, <1>2, <1>3, <1>4, <1>5 DEF Registered
<1>7. Registered' \subseteq Slots
  BY DEF Registered, Slots
<1>8. \A j \in Registered : components[j].ref_count - 0 = components[j].ref_count
  BY Fields
<1> QED  BY <1>1, <1>3, <1>4, <1>5, <1>6, <1>7, <1>8

(* A registration takes free slots.                                        *)
LEMMA RegisterEffect ==
  ASSUME TypeOK, NEW i \in Slots, components[i] = Free, NEW s \in Sections, code[s] \in Images
  PROVE  /\ loc_mlb_overlay_register(i, s)[i] = Component(code[s], FALSE, s)
         /\ \A j \in Slots \ {i} :
              \/ loc_mlb_overlay_register(i, s)[j] = components[j]
              \/ /\ components[j] = Free /\ code[s] \in DOMAIN Second
                 /\ loc_mlb_overlay_register(i, s)[j] = Component(Second[code[s]], TRUE, s)
<1>0. PICK next : next = loc_mlb_overlay_register(i, s)
  OBVIOUS
<1> DEFINE table == [components EXCEPT ![i] = Component(code[s], FALSE, s)]
           free == {j \in Slots : table[j] = Free}
           two == Component(Second[code[s]], TRUE, s)
<1>1. Component(code[s], FALSE, s) # Free
  BY DEF Component, Free
<1>2. /\ table \in [Slots -> Entry]
      /\ table[i] = Component(code[s], FALSE, s)
      /\ \A j \in Slots : j # i => table[j] = components[j]
  <2>1. Component(code[s], FALSE, s) \in Entry
    BY DEF Component, Entry
  <2> QED  BY <2>1 DEF TypeOK
<1>3. \/ next = table
      \/ /\ code[s] \in DOMAIN Second
         /\ \E k \in free : next = [table EXCEPT ![k] = two]
  <2>1. free # {} => Min(free) \in free
    BY Numbers, MinFact
  <2> QED
    BY <1>0, <2>1 DEF loc_mlb_overlay_register, mlb_syscall_component_register
<1> HIDE DEF table, two
<1>4. CASE next = table
  BY <1>0, <1>2, <1>4
<1>5. ASSUME code[s] \in DOMAIN Second, NEW k \in free, next = [table EXCEPT ![k] = two]
      PROVE  /\ next[i] = Component(code[s], FALSE, s)
             /\ \A j \in Slots \ {i} : \/ next[j] = components[j]
                                      \/ (components[j] = Free /\ next[j] = two)
  <2>1. k \in Slots /\ k # i /\ components[k] = Free
    BY <1>1, <1>2
  <2>2. next[k] = two /\ \A j \in Slots : j # k => next[j] = table[j]
    BY <1>2, <1>5, <2>1
  <2>3. next[i] = Component(code[s], FALSE, s)
    BY <1>2, <2>1, <2>2, Zenon
  <2>4. ASSUME NEW j \in Slots, j # i
        PROVE  next[j] = components[j] \/ (components[j] = Free /\ next[j] = two)
    BY <1>2, <2>1, <2>2, <2>4
  <2> QED  BY <2>3, <2>4
<1> QED  BY <1>0, <1>3, <1>4, <1>5 DEF two
-----------------------------------------------------------------------------
(* The section that is allocated is one of the candidates.                 *)
LEMMA AllocSection ==
  ASSUME NEW c \in Clients, OVERLAY_ALLOC(c)
  PROVE  /\ Min(Candidates(want[c])) \in Sections
         /\ Fits(want[c], Min(Candidates(want[c])))
<1>1. Candidates(want[c]) \subseteq Sections
  BY OverlayAssumption DEF OverlayAssumption, Candidates, Sections
<1>2. Min(Candidates(want[c])) \in Candidates(want[c])
  BY <1>1, Numbers, MinFact DEF OVERLAY_ALLOC
<1>3. \A s \in Candidates(want[c]) : Fits(want[c], s)
  BY OverlayAssumption DEF OverlayAssumption, Candidates, Fits
<1> QED  BY <1>1, <1>2, <1>3

(* A section has one component that is found by its name.                  *)
LEMMA OneMain ==
  ASSUME Table, Unique, NEW i \in Mains, NEW j \in Mains,
         components[i].section = components[j].section
  PROVE  i = j
BY DEF Table, Unique

(* Where a client loads to there is none.                                  *)
LEMMA NoneThere ==
  ASSUME Placed, OneImage, Table, Progress,
         NEW c \in Clients, pc[c] \in {"map", "register", "unwind"}, NEW i \in Mains
  PROVE  components[i].section # sec[c]
<1> SUFFICES ASSUME components[i].section = sec[c] PROVE FALSE
  OBVIOUS
<1>1. /\ components[i].name \in Wanted \ NoFile
      /\ Fits(components[i].name, sec[c])
  BY DEF Table
<1>2. want[c] \in Wanted \ NoFile /\ Fits(want[c], sec[c]) /\ Named(want[c]) = {}
  BY DEF Placed, Loading, Progress
<1>3. components[i].name = want[c]
  BY <1>1, <1>2 DEF OneImage, Fits
<1>4. i \in Named(want[c])
  BY <1>3 DEF Named, Mains
<1> QED  BY <1>2, <1>4

(* A registration that fails takes back what it had put there.             *)
LEMMA RegisterFailsKeeps ==
  ASSUME TypeOK, Placed, Careful, Table, Added, Progress, NEW c \in Clients, RegisterFails(c)
  PROVE  components' = components
<1> DEFINE s == sec[c]
<1>1. s \in Sections /\ code[s] \in Images /\ pc[c] = "register"
  BY Names DEF RegisterFails, Goto, Placed, Loading
<1>2. \A j \in Registered : components[j].section # s
  <2>1. \A j \in Mains : components[j].section # s
    BY <1>1, NoneThere DEF Careful
  <2> QED  BY <2>1 DEF Added, Mains
<1> HIDE DEF s
<1>3. ASSUME NEW i \in Slots, components[i] = Free, InitFails(i, s)
      PROVE  components' = components
  <2>1. PICK table \in {components, loc_mlb_overlay_register(i, s)} :
          components' = loc_mlb_overlay_unregister([table EXCEPT ![i] = Free], s)
    BY <1>3 DEF InitFails
  <2>2. table \in [Slots -> Entry]
    BY <1>1, RegisterTable DEF TypeOK
  <2> DEFINE two == Component(Second[code[s]], TRUE, s)
             left == [table EXCEPT ![i] = Free]
  <2>3. \A j \in Slots \ {i} : table[j] = components[j] \/ (components[j] = Free /\ table[j] = two)
    <3> DEFINE next == loc_mlb_overlay_register(i, s)
    <3>1. \A j \in Slots \ {i} : next[j] = components[j] \/ (components[j] = Free /\ next[j] = two)
      BY <1>1, <1>3, RegisterEffect
    <3> HIDE DEF next, two
    <3> QED  BY <2>1, <3>1 DEF next
  <2>4. two.section = s /\ two.ref_count = 1
    BY DEF Component
  <2> HIDE DEF two
  <2>5. left[i] = Free /\ \A j \in Slots \ {i} : left[j] = table[j]
    BY <2>2
  <2> HIDE DEF left
  <2>6. \A j \in Slots : components'[j] =
          IF left[j] = Free \/ left[j].section # s THEN left[j]
          ELSE IF left[j].ref_count = 1 THEN Free
          ELSE [left[j] EXCEPT !.ref_count = @ - 1]
    BY <2>1 DEF loc_mlb_overlay_unregister, left
  <2>7. ASSUME NEW j \in Slots PROVE components'[j] = components[j]
    <3>1. CASE left[j] = components[j]
      BY <1>2, <2>6, <3>1 DEF Registered
    <3>2. CASE components[j] = Free /\ left[j] = two
      BY <2>4, <2>6, <3>2
    <3> QED  BY <1>3, <2>3, <2>5, <3>1, <3>2
  <2>8. components' = [j \in Slots |-> components'[j]] /\ components = [j \in Slots |-> components[j]]
    BY <2>1 DEF loc_mlb_overlay_unregister, TypeOK
  <2> QED  BY <2>7, <2>8
<1> QED  BY <1>3 DEF RegisterFails, FirstFree, s

(* Which steps touch the table and the code.                               *)
LEMMA TableChanges ==
  ASSUME TypeOK, Placed, Careful, Table, Added, Progress, [Next]_vars
  PROVE  \/ UNCHANGED <<components, code>>
         \/ \E c \in Clients :
              \/ FindKnown(c) \/ coff_load_overlay(c) \/ LoadFails(c)
              \/ loc_overlay_component_register_new(c) \/ OVERLAY_UNREGISTER(c)
         \/ loc_mlb_exec
<1>1. ASSUME NEW c \in Clients, RegisterFails(c) PROVE UNCHANGED <<components, code>>
  BY <1>1, RegisterFailsKeeps DEF RegisterFails
<1> QED
  BY <1>1 DEF Next, vars, dsp_open, LoadBegin, dsp_component_load, FindUnknown, OVERLAY_REF,
    OVERLAY_ALLOC, AllocFails, Unwind, LoadEnd, dsp_close, OVERLAY_FREE,
    Close, Kill, Release, fops__release, EMERGENCY_UNLOAD, UnloadTimeout, ReleaseEnd

(* What programs ask for is what an image was registered with.             *)
LEMMA WantedMains ==
  ASSUME Careful, Added, NEW n \in Wanted
  PROVE  Named(n) \subseteq Mains
BY DEF Careful, Added, Named, Mains

(* What the three commands do to the components found by their names.      *)
LEMMA FindMains ==
  ASSUME TypeOK, NEW c \in Clients, FindKnown(c), Placed, Careful, Added
  PROVE  /\ Mains' = Mains
         /\ Min(Named(want[c])) \in Mains
         /\ \A j \in Registered :
              /\ components'[j].name = components[j].name
              /\ components'[j].section = components[j].section
              /\ components'[j].ref_count =
                   components[j].ref_count + (IF j = Min(Named(want[c])) THEN 1 ELSE 0)
<1>1. want[c] \in Wanted /\ want[c] \in Images
  BY Names DEF FindKnown, Goto, Placed, Loading
<1> DEFINE m == Min(Named(want[c]))
<1>2. /\ m \in Named(want[c])
      /\ Registered' = Registered
      /\ \A j \in Registered :
           /\ components'[j].name = components[j].name
           /\ components'[j].added = components[j].added
           /\ components'[j].section = components[j].section
           /\ components'[j].ref_count =
                components[j].ref_count + (IF j = m THEN 1 ELSE 0)
  BY <1>1, FindEffect DEF FindKnown
<1> HIDE DEF m
<1>3. Mains' = Mains
  BY <1>2 DEF Mains
<1>4. m \in Mains
  BY <1>1, <1>2, WantedMains
<1> QED  BY <1>2, <1>3, <1>4 DEF m

(* ... an unregistration, lowering those of the section by one, ...        *)
LEMMA UnregisterMains ==
  ASSUME TypeOK, NEW s \in Sections, components' = loc_mlb_overlay_unregister(components, s)
  PROVE  /\ Mains' = {j \in Mains : components[j].section = s => components[j].ref_count # 1}
         /\ \A j \in Mains' :
              /\ components'[j].name = components[j].name
              /\ components'[j].section = components[j].section
              /\ components'[j].ref_count =
                   components[j].ref_count - (IF components[j].section = s THEN 1 ELSE 0)
<1>1. Mains' = {j \in Mains : components[j].section = s => components[j].ref_count # 1}
  BY UnregisterEffect DEF Mains
<1>2. Mains' \subseteq Registered'
  BY DEF Mains
<1> QED  BY <1>1, <1>2, UnregisterEffect

(* ... and a registration, adding one with one reference.                  *)
LEMMA RegisterMains ==
  ASSUME TypeOK, Placed, NEW c \in Clients, loc_overlay_component_register_new(c)
  PROVE  \E i \in Slots :
           /\ i \notin Registered
           /\ Mains' = Mains \cup {i}
           /\ overlays' = [overlays EXCEPT ![c][sec[c]].compid = i]
           /\ \A j \in Registered : components'[j] = components[j]
           /\ components'[i] = Component(want[c], FALSE, sec[c])
           /\ Registered \cup {i} \subseteq Registered'
           /\ \A j \in Registered' \ (Registered \cup {i}) :
                /\ want[c] \in DOMAIN Second
                /\ components'[j] = Component(Second[want[c]], TRUE, sec[c])
<1> DEFINE s == sec[c]
           two == Component(Second[code[s]], TRUE, s)
<1>1. s \in Sections /\ code[s] = want[c] /\ code[s] \in Images
  BY Names DEF loc_overlay_component_register_new, Goto, Placed, Loading
<1>2. PICK i \in Slots :
        /\ components[i] = Free
        /\ components' = loc_mlb_overlay_register(i, s)
        /\ overlays' = [overlays EXCEPT ![c][sec[c]].compid = i]
  BY DEF loc_overlay_component_register_new, FirstFree
<1>3. /\ components'[i] = Component(code[s], FALSE, s)
      /\ \A j \in Slots \ {i} :
           \/ components'[j] = components[j]
           \/ /\ components[j] = Free /\ code[s] \in DOMAIN Second
              /\ components'[j] = two
  <2> HIDE DEF s
  <2>1. components[i] = Free /\ s \in Sections /\ code[s] \in Images
    BY <1>1, <1>2
  <2> QED  BY <1>2, <2>1, RegisterEffect
<1>4. /\ two.added /\ two # Free
      /\ ~ components'[i].added /\ components'[i] # Free
  BY <1>3 DEF Component, Free
<1> HIDE DEF s, two
<1>5. /\ i \notin Registered
      /\ \A j \in Registered : components'[j] = components[j]
      /\ Registered \cup {i} \subseteq Registered'
      /\ \A j \in Registered' \ (Registered \cup {i}) :
           code[s] \in DOMAIN Second /\ components'[j] = two
  BY <1>2, <1>3, <1>4 DEF Registered
<1>6. Mains' = Mains \cup {i}
  BY <1>4, <1>5 DEF Mains
<1>7. \A j \in Registered' \ (Registered \cup {i}) :
        /\ want[c] \in DOMAIN Second
        /\ components'[j] = Component(Second[want[c]], TRUE, sec[c])
  BY <1>1, <1>5 DEF two, s
<1>8. components'[i] = Component(want[c], FALSE, sec[c])
  BY <1>1, <1>3 DEF s
<1> QED  BY <1>2, <1>5, <1>6, <1>7, <1>8
-----------------------------------------------------------------------------
(* The table and the code go together.                                     *)
LEMMA TableStep ==
  ASSUME TypeOK, Placed, Careful, Table, Unique, Added, Progress, [Next]_vars
  PROVE  Table' /\ Unique'
<1>0. Mains \subseteq Registered
  BY DEF Mains
<1>1. CASE UNCHANGED <<components, code>>
  BY <1>1 DEF Table, Unique, Mains, Registered
<1>2. ASSUME NEW c \in Clients, FindKnown(c) PROVE Table' /\ Unique'
  <2>1. /\ Mains' = Mains /\ code' = code
        /\ \A j \in Mains : /\ components'[j].name = components[j].name
                            /\ components'[j].section = components[j].section
    BY <1>0, <1>2, FindMains DEF FindKnown
  <2> QED  BY <2>1 DEF Table, Unique, Fits
<1>3. ASSUME NEW c \in Clients, coff_load_overlay(c) PROVE Table' /\ Unique'
  <2>1. /\ components' = components /\ Mains' = Mains
        /\ \A s \in Sections : s # sec[c] => code'[s] = code[s]
    BY <1>3 DEF coff_load_overlay, Mains, Registered, TypeOK
  <2>2. \A i \in Mains : components[i].section \in Sections /\ components[i].section # sec[c]
    BY <1>0, <1>3, NoneThere, Fields DEF coff_load_overlay, Goto, Careful
  <2> QED  BY <2>1, <2>2 DEF Table, Unique
<1>4. ASSUME NEW c \in Clients, LoadFails(c) PROVE Table' /\ Unique'
  <2>1. /\ components' = components /\ Mains' = Mains
        /\ \A s \in Sections : s # sec[c] => code'[s] = code[s]
    BY <1>4 DEF LoadFails, Mains, Registered, TypeOK
  <2>2. \A i \in Mains : components[i].section \in Sections /\ components[i].section # sec[c]
    BY <1>0, <1>4, NoneThere, Fields DEF LoadFails, Goto, Careful
  <2> QED  BY <2>1, <2>2 DEF Table, Unique
<1>5. ASSUME NEW c \in Clients, loc_overlay_component_register_new(c)
      PROVE  Table' /\ Unique'
  <2>1. PICK i \in Slots :
          /\ i \notin Registered
          /\ Mains' = Mains \cup {i}
          /\ \A j \in Registered : components'[j] = components[j]
          /\ components'[i] = Component(want[c], FALSE, sec[c])
    BY <1>5, RegisterMains
  <2>2. components'[i].name = want[c] /\ components'[i].section = sec[c]
    BY <2>1 DEF Component
  <2>3. /\ code' = code /\ code[sec[c]] = want[c]
        /\ want[c] \in Wanted \ NoFile /\ Fits(want[c], sec[c]) /\ Named(want[c]) = {}
    BY <1>5 DEF loc_overlay_component_register_new, Goto, Placed, Loading, Progress
  <2>4. \A j \in Mains : components[j].name # want[c]
    BY <2>3 DEF Named, Mains
  <2>5. \A j \in Mains : components'[j] = components[j]
    BY <1>0, <2>1
  <2>6. Table'
    <3> SUFFICES ASSUME NEW j \in Mains'
                 PROVE  /\ components'[j].name \in Wanted \ NoFile
                        /\ Fits(components'[j].name, components'[j].section)
                        /\ components'[j].name = code[components'[j].section]
      BY <2>3 DEF Table, Fits
    <3>1. CASE j \in Mains
      BY <2>5, <3>1 DEF Table
    <3>2. CASE j = i
      BY <2>2, <2>3, <3>2
    <3> QED  BY <2>1, <3>1, <3>2
  <2>7. Unique'
    <3> SUFFICES ASSUME NEW j \in Mains', NEW k \in Mains',
                        components'[j].name = components'[k].name
                 PROVE  j = k
      BY DEF Unique
    <3>1. CASE j \in Mains /\ k \in Mains
      BY <2>5, <3>1 DEF Unique
    <3>2. CASE j = i \/ k = i
      BY <2>1, <2>2, <2>4, <2>5, <3>2
    <3> QED  BY <2>1, <3>1, <3>2
  <2> QED  BY <2>6, <2>7
<1>6. ASSUME NEW s \in Sections, components' = loc_mlb_overlay_unregister(components, s), UNCHANGED code
      PROVE  Table' /\ Unique'
  <2>1. Mains' \subseteq Mains
    BY <1>6, UnregisterMains
  <2> QED  BY <1>6, <2>1, UnregisterMains DEF Table, Unique
<1>7. ASSUME NEW c \in Clients, OVERLAY_UNREGISTER(c) PROVE Table' /\ Unique'
  BY <1>6, <1>7 DEF OVERLAY_UNREGISTER
<1>8. CASE loc_mlb_exec
  <2>1. unload \in Sections /\ UNCHANGED code /\ components' = loc_mlb_overlay_unregister(components, unload)
    BY <1>8 DEF loc_mlb_exec, TypeOK
  <2> QED  BY <1>6, <2>1
<1> QED  BY <1>1, <1>2, <1>3, <1>4, <1>5, <1>7, <1>8, TableChanges

(* A second component comes with the first one, and goes before it.        *)
LEMMA AddedStep ==
  ASSUME TypeOK, Placed, Careful, Table, Added, Progress, [Next]_vars
  PROVE  Added'
<1>0. Mains \subseteq Registered
  BY DEF Mains
<1>1. CASE UNCHANGED <<components, code>>
  BY <1>1 DEF Added, Mains, Registered
<1>2. ASSUME NEW c \in Clients, FindKnown(c) PROVE Added'
  <2>1. want[c] \in Images /\ Named(want[c]) # {} /\ loc_component_find_by_name(want[c])
    BY <1>2, Names DEF FindKnown, Goto, Placed, Loading
  <2> DEFINE m == Min(Named(want[c]))
  <2>2. /\ Registered' = Registered /\ Mains' = Mains /\ m \in Mains
        /\ \A j \in Registered :
             /\ components'[j].name = components[j].name
             /\ components'[j].added = components[j].added
             /\ components'[j].section = components[j].section
             /\ components'[j].ref_count = components[j].ref_count + (IF j = m THEN 1 ELSE 0)
    BY <1>2, <2>1, FindEffect, FindMains
  <2> HIDE DEF m
  <2> SUFFICES ASSUME NEW j \in Registered, components[j].added
               PROVE  /\ components'[j].name \in Seconds
                      /\ \E i \in Mains : /\ components'[i].section = components'[j].section
                                          /\ components'[j].ref_count <= components'[i].ref_count
    BY <2>2 DEF Added
  <2>3. PICK i \in Mains : /\ components[i].section = components[j].section
                           /\ components[j].ref_count <= components[i].ref_count
    BY DEF Added
  <2>4. j # m
    BY <2>2 DEF Mains
  <2>5. i \in Registered
    BY <1>0
  <2>6. components'[j].ref_count <= components'[i].ref_count
    BY <2>2, <2>3, <2>4, <2>5, Fields
  <2>7. components'[j].name \in Seconds
    BY <2>2 DEF Added
  <2> QED  BY <2>2, <2>3, <2>5, <2>6, <2>7
<1>3. ASSUME NEW c \in Clients, coff_load_overlay(c) \/ LoadFails(c) PROVE Added'
  BY <1>3 DEF coff_load_overlay, LoadFails, Added, Mains, Registered
<1>4. ASSUME NEW c \in Clients, loc_overlay_component_register_new(c)
      PROVE  Added'
  <2>1. PICK i \in Slots :
          /\ Mains' = Mains \cup {i}
          /\ \A j \in Registered : components'[j] = components[j]
          /\ components'[i] = Component(want[c], FALSE, sec[c])
          /\ \A j \in Registered' \ (Registered \cup {i}) :
               /\ want[c] \in DOMAIN Second
               /\ components'[j] = Component(Second[want[c]], TRUE, sec[c])
    BY <1>4, RegisterMains
  <2>2. /\ ~ components'[i].added
        /\ components'[i].section = sec[c] /\ components'[i].ref_count = 1
    BY <2>1 DEF Component
  <2>3. \A j \in Registered' \ (Registered \cup {i}) :
          /\ components'[j].name \in Seconds
          /\ components'[j].section = sec[c] /\ components'[j].ref_count = 1
    BY <2>1 DEF Component, Seconds
  <2> SUFFICES ASSUME NEW j \in Registered', components'[j].added
               PROVE  /\ components'[j].name \in Seconds
                      /\ \E k \in Mains' : /\ components'[k].section = components'[j].section
                                           /\ components'[j].ref_count <= components'[k].ref_count
    BY DEF Added
  <2>4. CASE j \in Registered
    <3>1. components'[j] = components[j]
      BY <2>1, <2>4
    <3>2. PICK k \in Mains : /\ components[k].section = components[j].section
                             /\ components[j].ref_count <= components[k].ref_count
      BY <2>4, <3>1 DEF Added
    <3>3. k \in Mains' /\ components'[k] = components[k]
      BY <1>0, <2>1
    <3>4. components[j].name \in Seconds
      BY <2>4, <3>1 DEF Added
    <3> QED  BY <3>1, <3>2, <3>3, <3>4
  <2>5. CASE j \notin Registered
    <3>1. i \in Mains' /\ j # i
      BY <2>1, <2>2
    <3>2. /\ components'[j].name \in Seconds
          /\ components'[j].section = sec[c] /\ components'[j].ref_count = 1
      BY <2>3, <2>5, <3>1
    <3> QED  BY <2>2, <3>1, <3>2
  <2> QED  BY <2>4, <2>5
<1>5. ASSUME NEW s \in Sections, components' = loc_mlb_overlay_unregister(components, s)
      PROVE  Added'
  <2> SUFFICES ASSUME NEW j \in Registered', components'[j].added
               PROVE  /\ components'[j].name \in Seconds
                      /\ \E i \in Mains' : /\ components'[i].section = components'[j].section
                                           /\ components'[j].ref_count <= components'[i].ref_count
    BY DEF Added
  <2>1. /\ j \in Registered /\ components[j].added
        /\ components'[j].name = components[j].name
        /\ components[j].section = s => components[j].ref_count # 1
        /\ components'[j].section = components[j].section
        /\ components'[j].ref_count =
             components[j].ref_count - (IF components[j].section = s THEN 1 ELSE 0)
    BY <1>5, UnregisterEffect
  <2>2. PICK i \in Mains : /\ components[i].section = components[j].section
                           /\ components[j].ref_count <= components[i].ref_count
    BY <2>1 DEF Added
  <2>3. i \in Mains'
    <3>1. components[i].section = s => components[i].ref_count # 1
      BY <1>0, <2>1, <2>2, Fields
    <3> QED  BY <1>5, <3>1, UnregisterMains
  <2>4. /\ components'[i].section = components[i].section
        /\ components'[i].ref_count =
             components[i].ref_count - (IF components[i].section = s THEN 1 ELSE 0)
    BY <1>5, <2>3, UnregisterMains
  <2>5. components'[j].ref_count <= components'[i].ref_count
    BY <1>0, <2>1, <2>2, <2>4, Fields
  <2>6. components[j].name \in Seconds
    BY <2>1 DEF Added
  <2> QED  BY <2>1, <2>2, <2>3, <2>4, <2>5, <2>6
<1>6. ASSUME NEW c \in Clients, OVERLAY_UNREGISTER(c) PROVE Added'
  BY <1>5, <1>6 DEF OVERLAY_UNREGISTER
<1>7. CASE loc_mlb_exec
  <2>1. unload \in Sections /\ components' = loc_mlb_overlay_unregister(components, unload)
    BY <1>7 DEF loc_mlb_exec, TypeOK
  <2> QED  BY <1>5, <2>1
<1> QED  BY <1>1, <1>2, <1>3, <1>4, <1>6, <1>7, TableChanges
-----------------------------------------------------------------------------
(* Steps of a client, and what they leave alone of the others.             *)
Own(c) ==
  \/ dsp_open(c)
  \/ \E n \in Wanted : LoadBegin(c, n)
  \/ dsp_component_load(c)
  \/ dsp_close(c) \/ OVERLAY_UNREGISTER(c) \/ OVERLAY_FREE(c) \/ Close(c)
  \/ Kill(c)
  \/ Release(c)

Untouched(d) ==
  /\ pc'[d] = pc[d] /\ want'[d] = want[d] /\ sec'[d] = sec[d]
  /\ overlays'[d] = overlays[d] /\ flags'[d] = flags[d]

(* A client's own steps change nothing another client has.                 *)
LEMMA OthersUntouched ==
  ASSUME TypeOK, NEW c \in Clients, Own(c), NEW d \in Clients, d # c
  PROVE  Untouched(d)
<1> USE DEF TypeOK, Untouched
<1>1. CASE dsp_open(c)
  BY <1>1 DEF dsp_open, Goto, kernel
<1>2. CASE FindKnown(c)
  BY <1>2 DEF FindKnown, Goto, kernel
<1>3. CASE FindUnknown(c)
  BY <1>3 DEF FindUnknown, Goto, kernel
<1>4. CASE OVERLAY_REF(c)
  BY <1>4 DEF OVERLAY_REF, Goto
<1>5. CASE OVERLAY_ALLOC(c)
  BY <1>5 DEF OVERLAY_ALLOC, Goto
<1>6. CASE AllocFails(c)
  BY <1>6 DEF AllocFails, Goto, kernel
<1>7. CASE coff_load_overlay(c)
  BY <1>7 DEF coff_load_overlay, Goto, kernel
<1>8. CASE LoadFails(c)
  BY <1>8 DEF LoadFails, Goto, kernel
<1>9. CASE loc_overlay_component_register_new(c)
  BY <1>9 DEF loc_overlay_component_register_new, Goto, kernel
<1>10. CASE RegisterFails(c)
  BY <1>10 DEF RegisterFails, Goto, kernel
<1>11. CASE Unwind(c)
  BY <1>11 DEF Unwind, Goto
<1>12. CASE LoadEnd(c)
  BY <1>12 DEF LoadEnd, Goto, kernel
<1>13. CASE dsp_close(c)
  BY <1>13 DEF dsp_close, Goto, kernel
<1>14. CASE OVERLAY_UNREGISTER(c)
  BY <1>14 DEF OVERLAY_UNREGISTER, Goto, kernel
<1>15. CASE OVERLAY_FREE(c)
  BY <1>15 DEF OVERLAY_FREE, Goto
<1>16. CASE Close(c)
  BY <1>16 DEF Close, Goto, kernel
<1>17. CASE Kill(c)
  BY <1>17 DEF Kill
<1>18. CASE fops__release(c)
  BY <1>18 DEF fops__release, Goto
<1>19. CASE EMERGENCY_UNLOAD(c)
  BY <1>19 DEF EMERGENCY_UNLOAD, Goto, kernel
<1>20. CASE UnloadTimeout(c)
  BY <1>20 DEF UnloadTimeout, Goto
<1>21. CASE ReleaseEnd(c)
  BY <1>21 DEF ReleaseEnd, Goto
<1>22. ASSUME NEW n \in Wanted, LoadBegin(c, n) PROVE Untouched(d)
  BY <1>22 DEF LoadBegin, Goto, kernel
<1> QED
  BY <1>1, <1>2, <1>3, <1>4, <1>5, <1>6, <1>7, <1>8, <1>9, <1>10, <1>11,
     <1>12, <1>13, <1>14, <1>15, <1>16, <1>17, <1>18, <1>19, <1>20, <1>21,
     <1>22
  DEF Own, dsp_component_load, Release

(* Every step is a client's own one, Kill, loc_overlays_free or mlb_exec.  *)
LEMMA Mine ==
  ASSUME TypeOK, [Next]_vars, NEW d \in Clients
  PROVE  Untouched(d) \/ Own(d)
<1>1. ASSUME NEW c \in Clients, Own(c) PROVE Untouched(d) \/ Own(d)
  BY <1>1, OthersUntouched
<1>2. loc_mlb_exec => Untouched(d)
  BY DEF loc_mlb_exec, Untouched, kernel
<1>3. UNCHANGED vars => Untouched(d)
  BY DEF vars, Untouched
<1> QED  BY <1>1, <1>2, <1>3 DEF Next, Own

(* While a client looks and loads, the table changes by its own steps only.*)
LEMMA TableKept ==
  ASSUME TypeOK, Locked, Placed, Careful, Table, Added, Progress, Channel, [Next]_vars,
         NEW d \in Clients,
         pc[d] \in Loading, pc'[d] \in {"find", "alloc", "map", "register", "unwind"}
  PROVE  components' = components
<1>0. lock = d /\ lock # NULL /\ unload = NULL
  BY OverlayAssumption DEF OverlayAssumption, Locked, Channel
<1>1. ASSUME NEW c \in Clients, FindKnown(c) \/ loc_overlay_component_register_new(c)
      PROVE  FALSE
  BY <1>0, <1>1 DEF FindKnown, loc_overlay_component_register_new, Goto, Locked, Loading, TypeOK
<1>2. ASSUME NEW c \in Clients, coff_load_overlay(c) \/ LoadFails(c)
      PROVE  components' = components
  BY <1>2 DEF coff_load_overlay, LoadFails
<1>3. ASSUME NEW c \in Clients, OVERLAY_UNREGISTER(c) PROVE FALSE
  BY <1>0, <1>3 DEF OVERLAY_UNREGISTER, ChannelFree
<1>4. ASSUME loc_mlb_exec PROVE FALSE
  BY <1>0, <1>4 DEF loc_mlb_exec
<1> QED  BY <1>1, <1>2, <1>3, <1>4, TableChanges

(* What a client has found out.                                            *)
ProgressOf(c) ==
  /\ pc[c] \in {"alloc", "map", "register", "unwind"} =>
       want[c] \notin NoFile /\ Named(want[c]) = {}
  /\ pc[c] \in {"map", "register", "unwind"} => Fits(want[c], sec[c])
  /\ pc[c] = "ref" => overlays[c][sec[c]].compid # NULL
  /\ pc[c] = "unregistered" => overlays[c][sec[c]].compid = NULL

(* What a client has found out stays true in every step.                   *)
LEMMA ProgressStep ==
  ASSUME TypeOK, Locked, Placed, Careful, Table, Added, Progress, Channel, [Next]_vars
  PROVE  Progress'
<1> SUFFICES ASSUME NEW d \in Clients PROVE ProgressOf(d)'
  BY DEF Progress, ProgressOf
<1>a. ProgressOf(d)
  BY DEF Progress, ProgressOf
<1>b. /\ want[d] \in Images \cup {NULL}
      /\ pc[d] \in Loading /\ pc'[d] \in {"find", "alloc", "map", "register", "unwind"} =>
           \A n : Named(n)' = Named(n)
  BY TableKept DEF Named, Registered, TypeOK
<1> USE DEF TypeOK, ProgressOf, Loading
<1>c. CASE Untouched(d)
  BY <1>a, <1>b, <1>c DEF Untouched
<1>1. CASE dsp_open(d)
  BY <1>a, <1>b, <1>1 DEF dsp_open, Goto, kernel
<1>2. CASE FindKnown(d)
  <2>1. want[d] \in Images
    BY <1>2, Names DEF FindKnown, Goto, Placed
  <2>2. /\ Min(Named(want[d])) \in Slots
        /\ components[Min(Named(want[d]))].section \in Sections
    BY <1>2, <2>1, FindTable DEF FindKnown
  <2>3. overlays'[d][sec'[d]].compid # NULL
    BY <1>2, <2>2, OverlayAssumption DEF FindKnown, OverlayAssumption
  <2> QED  BY <1>2, <2>3 DEF FindKnown, Goto
<1>3. CASE FindUnknown(d)
  BY <1>a, <1>b, <1>3 DEF FindUnknown, Goto
<1>4. CASE OVERLAY_REF(d)
  BY <1>a, <1>b, <1>4 DEF OVERLAY_REF, Goto
<1>5. CASE OVERLAY_ALLOC(d)
  <2>1. Fits(want[d], sec'[d])
    BY <1>5, AllocSection DEF OVERLAY_ALLOC
  <2>2. Fits(want[d], sec[d])' <=> Fits(want[d], sec'[d])
    BY <1>5 DEF OVERLAY_ALLOC, Fits
  <2> QED  BY <1>a, <1>b, <1>5, <2>1, <2>2 DEF OVERLAY_ALLOC, Goto
<1>6. CASE AllocFails(d)
  BY <1>a, <1>b, <1>6 DEF AllocFails, Goto, kernel
<1>7. CASE coff_load_overlay(d)
  BY <1>a, <1>b, <1>7 DEF coff_load_overlay, Goto, kernel, Fits
<1>8. CASE LoadFails(d)
  BY <1>a, <1>b, <1>8 DEF LoadFails, Goto, kernel, Fits
<1>9. CASE loc_overlay_component_register_new(d)
  BY <1>a, <1>b, <1>9 DEF loc_overlay_component_register_new, Goto, kernel
<1>10. CASE RegisterFails(d)
  BY <1>a, <1>b, <1>10 DEF RegisterFails, Goto, kernel, Fits
<1>11. CASE Unwind(d)
  BY <1>a, <1>b, <1>11 DEF Unwind, Goto
<1>12. CASE LoadEnd(d)
  BY <1>a, <1>b, <1>12 DEF LoadEnd, Goto, kernel
<1>13. CASE dsp_close(d)
  BY <1>a, <1>b, <1>13 DEF dsp_close, Goto, kernel
<1>14. CASE OVERLAY_UNREGISTER(d)
  <2>1. PICK s \in Sections : /\ overlays' = [overlays EXCEPT ![d][s].compid = NULL]
                              /\ sec' = [sec EXCEPT ![d] = s]
    BY <1>14 DEF OVERLAY_UNREGISTER
  <2>2. overlays'[d][sec'[d]].compid = NULL
    BY <2>1 DEF Held
  <2> QED  BY <1>14, <2>2 DEF OVERLAY_UNREGISTER, Goto
<1>15. CASE OVERLAY_FREE(d)
  BY <1>a, <1>b, <1>15 DEF OVERLAY_FREE, Goto
<1>16. CASE Close(d)
  BY <1>a, <1>b, <1>16 DEF Close, Goto, kernel
<1>17. CASE Kill(d)
  BY <1>a, <1>b, <1>17 DEF Kill
<1>18. CASE fops__release(d)
  BY <1>a, <1>b, <1>18 DEF fops__release, Goto
<1>19. CASE EMERGENCY_UNLOAD(d)
  BY <1>a, <1>b, <1>19 DEF EMERGENCY_UNLOAD, Goto, kernel
<1>20. CASE UnloadTimeout(d)
  BY <1>a, <1>b, <1>20 DEF UnloadTimeout, Goto
<1>21. CASE ReleaseEnd(d)
  BY <1>a, <1>b, <1>21 DEF ReleaseEnd, Goto
<1>22. ASSUME NEW n \in Wanted, LoadBegin(d, n) PROVE ProgressOf(d)'
  BY <1>a, <1>22 DEF LoadBegin, Goto, kernel
<1> QED
  BY <1>1, <1>2, <1>3, <1>4, <1>5, <1>6, <1>7, <1>8, <1>9, <1>10, <1>11,
     <1>12, <1>13, <1>14, <1>15, <1>16, <1>17, <1>18, <1>19, <1>20, <1>21,
     <1>22, <1>c, Mine
  DEF Own, dsp_component_load, Release

(* What a client has, and the flags the kernel keeps for it.               *)
FlaggedOf(c) ==
  /\ pc[c] \in {"closed", "dead", "release"} =>
       \A s \in Sections : overlays[c][s].compid = NULL
  /\ pc[c] \in {"map", "register"} => sec[c] \in flags[c]
  /\ pc[c] \notin {"dead", "release"} =>
       \A s \in Sections :
         /\ s \in flags[c] =>
              \/ overlays[c][s].compid # NULL
              \/ pc[c] \in {"map", "register", "unwind", "unregistered"} /\ s = sec[c]
         /\ overlays[c][s].compid # NULL => s \in flags[c] \/ (pc[c] = "ref" /\ s = sec[c])

(* The kernel's flags follow what a client has.                            *)
LEMMA FlaggedStep ==
  ASSUME TypeOK, Placed, OneImage, Table, Progress, Present, Flagged, [Next]_vars
  PROVE  Flagged'
<1> SUFFICES ASSUME NEW d \in Clients PROVE FlaggedOf(d)'
  BY DEF Flagged, FlaggedOf
<1>a. FlaggedOf(d) /\ ProgressOf(d)
  BY DEF Flagged, FlaggedOf, Progress, ProgressOf
<1>b. pc[d] \in {"map", "register", "unwind"} =>
        sec[d] \in Sections /\ overlays[d][sec[d]].compid = NULL
  BY NoneThere DEF Placed, Present
<1>d. \A s \in Sections : overlays[d][s] \in Held
  BY DEF TypeOK
<1> USE DEF TypeOK, FlaggedOf
<1>c. CASE Untouched(d)
  BY <1>a, <1>c DEF Untouched
<1>1. CASE dsp_open(d)
  BY <1>a, <1>1 DEF dsp_open, Goto, kernel
<1>2. CASE FindKnown(d)
  <2>1. want[d] \in Images
    BY <1>2, Names DEF FindKnown, Goto, Placed, Loading
  <2> DEFINE i == Min(Named(want[d]))
             s == components[i].section
  <2>2. i \in Slots /\ i # NULL /\ s \in Sections
    BY <1>2, <2>1, FindTable, OverlayAssumption DEF FindKnown, OverlayAssumption
  <2>3. /\ sec' = [sec EXCEPT ![d] = s] /\ flags' = flags
        /\ overlays' = [overlays EXCEPT ![d][s] = [compid |-> i, mem |-> TRUE]]
    BY <1>2 DEF FindKnown, kernel
  <2> HIDE DEF i, s
  <2>4. /\ overlays'[d][s].compid = i
        /\ \A t \in Sections : t # s => overlays'[d][t] = overlays[d][t]
    BY <2>2, <2>3
  <2> QED  BY <1>a, <1>2, <2>2, <2>3, <2>4 DEF FindKnown, Goto
<1>3. CASE FindUnknown(d)
  BY <1>a, <1>3 DEF FindUnknown, Goto, kernel
<1>4. CASE OVERLAY_REF(d)
  BY <1>a, <1>b, <1>d, <1>4 DEF OVERLAY_REF, Goto, ProgressOf
<1>5. CASE OVERLAY_ALLOC(d)
  <2> DEFINE s == Min(Candidates(want[d]))
  <2>1. s \in Sections
    BY <1>5, AllocSection
  <2>2. /\ sec' = [sec EXCEPT ![d] = s]
        /\ flags' = [flags EXCEPT ![d] = @ \cup {s}]
        /\ overlays' = [overlays EXCEPT ![d][s].mem = TRUE]
    BY <1>5 DEF OVERLAY_ALLOC
  <2> HIDE DEF s
  <2>3. \A t \in Sections : overlays'[d][t].compid = overlays[d][t].compid
    BY <1>d, <2>1, <2>2 DEF Held
  <2> QED  BY <1>a, <1>5, <2>1, <2>2, <2>3 DEF OVERLAY_ALLOC, Goto
<1>6. CASE AllocFails(d)
  BY <1>a, <1>6 DEF AllocFails, Goto, kernel
<1>7. CASE coff_load_overlay(d)
  BY <1>a, <1>7 DEF coff_load_overlay, Goto, kernel
<1>8. CASE LoadFails(d)
  BY <1>a, <1>b, <1>d, <1>8 DEF LoadFails, Goto, kernel, Held
<1>9. CASE loc_overlay_component_register_new(d)
  <2>1. PICK i \in Slots : overlays' = [overlays EXCEPT ![d][sec[d]].compid = i]
    BY <1>9 DEF loc_overlay_component_register_new
  <2>2. sec[d] \in Sections /\ sec[d] \in flags[d] /\ i # NULL
    BY <1>a, <1>9, OverlayAssumption
    DEF loc_overlay_component_register_new, Goto, Placed, OverlayAssumption
  <2>3. /\ overlays'[d][sec[d]].compid = i
        /\ \A t \in Sections : t # sec[d] => overlays'[d][t] = overlays[d][t]
    BY <1>d, <2>1, <2>2 DEF Held
  <2> QED
    BY <1>a, <1>9, <2>2, <2>3 DEF loc_overlay_component_register_new, Goto, kernel
<1>10. CASE RegisterFails(d)
  BY <1>a, <1>b, <1>d, <1>10 DEF RegisterFails, Goto, kernel, Held
<1>11. CASE Unwind(d)
  BY <1>a, <1>b, <1>d, <1>11 DEF Unwind, Goto
<1>12. CASE LoadEnd(d)
  BY <1>a, <1>12 DEF LoadEnd, Goto, kernel
<1>13. CASE dsp_close(d)
  BY <1>a, <1>13 DEF dsp_close, Goto, kernel
<1>14. CASE OVERLAY_UNREGISTER(d)
  <2>1. PICK s \in Sections : /\ overlays' = [overlays EXCEPT ![d][s].compid = NULL]
                              /\ sec' = [sec EXCEPT ![d] = s]
    BY <1>14 DEF OVERLAY_UNREGISTER
  <2>2. /\ overlays'[d][s].compid = NULL
        /\ \A t \in Sections : t # s => overlays'[d][t] = overlays[d][t]
    BY <1>d, <2>1 DEF Held
  <2> QED  BY <1>a, <1>14, <2>1, <2>2 DEF OVERLAY_UNREGISTER, Goto, kernel
<1>15. CASE OVERLAY_FREE(d)
  BY <1>a, <1>b, <1>d, <1>15 DEF OVERLAY_FREE, Goto, ProgressOf, NoOverlay, Held
<1>16. CASE Close(d)
  BY <1>a, <1>b, <1>d, <1>16 DEF Close, Goto, kernel, NoOverlay
<1>17. CASE Kill(d)
  BY <1>a, <1>b, <1>d, <1>17 DEF Kill, NoOverlay
<1>18. CASE fops__release(d)
  BY <1>a, <1>18 DEF fops__release, Goto
<1>19. CASE EMERGENCY_UNLOAD(d)
  BY <1>a, <1>19 DEF EMERGENCY_UNLOAD, Goto, kernel
<1>20. CASE UnloadTimeout(d)
  BY <1>a, <1>20 DEF UnloadTimeout, Goto
<1>21. CASE ReleaseEnd(d)
  BY <1>a, <1>21 DEF ReleaseEnd, Goto
<1>22. ASSUME NEW n \in Wanted, LoadBegin(d, n) PROVE FlaggedOf(d)'
  BY <1>a, <1>22 DEF LoadBegin, Goto, kernel
<1> QED
  BY <1>1, <1>2, <1>3, <1>4, <1>5, <1>6, <1>7, <1>8, <1>9, <1>10, <1>11,
     <1>12, <1>13, <1>14, <1>15, <1>16, <1>17, <1>18, <1>19, <1>20, <1>21,
     <1>22, <1>c, Mine
  DEF Own, dsp_component_load, Release

(* Sequences begin, and messages are sent, when the channel is free.       *)
LEMMA ChannelStep ==
  ASSUME TypeOK, Channel, [Next]_vars
  PROVE  Channel'
<1> USE OverlayAssumption DEF TypeOK, Channel, ChannelFree, OverlayAssumption
<1>1. ASSUME NEW c \in Clients, dsp_open(c) PROVE Channel'
  BY <1>1 DEF dsp_open, Goto, kernel
<1>2. ASSUME NEW c \in Clients, FindKnown(c) PROVE Channel'
  BY <1>2 DEF FindKnown, Goto, kernel
<1>3. ASSUME NEW c \in Clients, FindUnknown(c) PROVE Channel'
  BY <1>3 DEF FindUnknown, Goto, kernel
<1>4. ASSUME NEW c \in Clients, OVERLAY_REF(c) PROVE Channel'
  BY <1>4 DEF OVERLAY_REF, Goto
<1>5. ASSUME NEW c \in Clients, OVERLAY_ALLOC(c) PROVE Channel'
  BY <1>5 DEF OVERLAY_ALLOC, Goto
<1>6. ASSUME NEW c \in Clients, AllocFails(c) PROVE Channel'
  BY <1>6 DEF AllocFails, Goto, kernel
<1>7. ASSUME NEW c \in Clients, coff_load_overlay(c) PROVE Channel'
  BY <1>7 DEF coff_load_overlay, Goto, kernel
<1>8. ASSUME NEW c \in Clients, LoadFails(c) PROVE Channel'
  BY <1>8 DEF LoadFails, Goto, kernel
<1>9. ASSUME NEW c \in Clients, loc_overlay_component_register_new(c) PROVE Channel'
  BY <1>9 DEF loc_overlay_component_register_new, Goto, kernel
<1>10. ASSUME NEW c \in Clients, RegisterFails(c) PROVE Channel'
  BY <1>10 DEF RegisterFails, Goto, kernel
<1>11. ASSUME NEW c \in Clients, Unwind(c) PROVE Channel'
  BY <1>11 DEF Unwind, Goto
<1>12. ASSUME NEW c \in Clients, LoadEnd(c) PROVE Channel'
  BY <1>12 DEF LoadEnd, Goto, kernel
<1>13. ASSUME NEW c \in Clients, dsp_close(c) PROVE Channel'
  BY <1>13 DEF dsp_close, Goto, kernel
<1>14. ASSUME NEW c \in Clients, OVERLAY_UNREGISTER(c) PROVE Channel'
  BY <1>14 DEF OVERLAY_UNREGISTER, Goto, kernel
<1>15. ASSUME NEW c \in Clients, OVERLAY_FREE(c) PROVE Channel'
  BY <1>15 DEF OVERLAY_FREE, Goto
<1>16. ASSUME NEW c \in Clients, Close(c) PROVE Channel'
  BY <1>16 DEF Close, Goto, kernel
<1>17. ASSUME NEW c \in Clients, Kill(c) PROVE Channel'
  BY <1>17 DEF Kill
<1>18. ASSUME NEW c \in Clients, fops__release(c) PROVE Channel'
  BY <1>18 DEF fops__release, Goto
<1>19. ASSUME NEW c \in Clients, EMERGENCY_UNLOAD(c) PROVE Channel'
  BY <1>19 DEF EMERGENCY_UNLOAD, Goto, kernel
<1>20. ASSUME NEW c \in Clients, UnloadTimeout(c) PROVE Channel'
  BY <1>20 DEF UnloadTimeout, Goto
<1>21. ASSUME NEW c \in Clients, ReleaseEnd(c) PROVE Channel'
  BY <1>21 DEF ReleaseEnd, Goto
<1>22. ASSUME NEW c \in Clients, NEW n \in Wanted, LoadBegin(c, n) PROVE Channel'
  BY <1>22 DEF LoadBegin, Goto, kernel
<1>23. CASE loc_mlb_exec
  BY <1>23 DEF loc_mlb_exec, kernel
<1>24. CASE UNCHANGED vars
  BY <1>24 DEF vars
<1> QED
  BY <1>1, <1>2, <1>3, <1>4, <1>5, <1>6, <1>7, <1>8, <1>9, <1>10, <1>11,
     <1>12, <1>13, <1>14, <1>15, <1>16, <1>17, <1>18, <1>19, <1>20, <1>21,
     <1>22, <1>23, <1>24
  DEF Next, dsp_component_load, Release

(* A section is freed together with its user's flag.                       *)
LEMMA UsedStep ==
  ASSUME TypeOK, Placed, UsedHas, [Next]_vars
  PROVE  UsedHas'
<1>1. CASE UNCHANGED <<used, flags, lost>>
  BY <1>1 DEF UsedHas
<1>2. ASSUME NEW c \in Clients, OVERLAY_REF(c) PROVE UsedHas'
  BY <1>2 DEF UsedHas, OVERLAY_REF, TypeOK
<1>3. ASSUME NEW c \in Clients, OVERLAY_ALLOC(c) PROVE UsedHas'
  BY <1>3 DEF UsedHas, OVERLAY_ALLOC, TypeOK
<1>4. ASSUME NEW c \in Clients, Unwind(c) \/ OVERLAY_FREE(c) PROVE UsedHas'
  BY <1>4 DEF UsedHas, Unwind, OVERLAY_FREE, TypeOK
<1>5. ASSUME NEW c \in Clients, EMERGENCY_UNLOAD(c) PROVE UsedHas'
  BY <1>5 DEF UsedHas, EMERGENCY_UNLOAD, TypeOK
<1>6. ASSUME NEW c \in Clients, UnloadTimeout(c) PROVE UsedHas'
  BY <1>6 DEF UsedHas, UnloadTimeout, TypeOK
<1>7. \/ UNCHANGED <<used, flags, lost>>
      \/ \E c \in Clients : \/ OVERLAY_REF(c) \/ OVERLAY_ALLOC(c) \/ Unwind(c)
                            \/ OVERLAY_FREE(c) \/ EMERGENCY_UNLOAD(c) \/ UnloadTimeout(c)
  BY DEF Next, vars, kernel, dsp_open, LoadBegin, dsp_component_load, FindKnown, FindUnknown,
         AllocFails, coff_load_overlay, LoadFails, loc_overlay_component_register_new,
         RegisterFails, LoadEnd, dsp_close, OVERLAY_UNREGISTER, Close, Kill, Release,
         fops__release, ReleaseEnd, loc_mlb_exec
<1> QED  BY <1>1, <1>2, <1>3, <1>4, <1>5, <1>6, <1>7
-----------------------------------------------------------------------------
(* Counting users.                                                         *)
LEMMA UserCounts ==
  ASSUME NEW i \in Mains
  PROVE  /\ IsFiniteSet(Users(i)) /\ Cardinality(Users(i)) \in Nat
         /\ \A c \in Users(i) : Cardinality(Users(i)) >= 1
         /\ \A c, d \in Users(i) : c # d => Cardinality(Users(i)) >= 2
<1>1. IsFiniteSet(Users(i))
  <2>1. Users(i) \subseteq Clients /\ IsFiniteSet(Clients)
    BY OverlayAssumption DEF OverlayAssumption, Users
  <2> QED  BY <2>1, FS_Subset
<1>2. Cardinality(Users(i)) \in Nat
  BY <1>1, FS_CardinalityType
<1>3. ASSUME NEW c \in Users(i) PROVE Cardinality(Users(i)) >= 1
  BY <1>1, <1>2, FS_EmptySet
<1>4. ASSUME NEW c \in Users(i), NEW d \in Users(i), c # d
      PROVE  Cardinality(Users(i)) >= 2
  <2>1. Cardinality(Users(i)) # 1
    <3> SUFFICES ASSUME Cardinality(Users(i)) = 1 PROVE FALSE
      OBVIOUS
    <3>1. PICK x : Users(i) = {x}
      BY <1>1, FS_Singleton
    <3> QED  BY <1>4, <3>1
  <2> QED  BY <1>2, <1>3, <2>1
<1> QED  BY <1>1, <1>2, <1>3, <1>4

(* Who has lock and what becomes of it.                                    *)
LEMMA LockChanges ==
  ASSUME [Next]_vars
  PROVE  \/ lock' = lock
         \/ \E c \in Clients : LoadEnd(c) \/ fops__release(c) \/ \E n \in Wanted : LoadBegin(c, n)
BY DEF Next, vars, kernel, dsp_open, dsp_component_load, FindKnown, FindUnknown, OVERLAY_REF,
       OVERLAY_ALLOC, AllocFails, coff_load_overlay, LoadFails,
       loc_overlay_component_register_new, RegisterFails, Unwind, dsp_close,
       OVERLAY_UNREGISTER, OVERLAY_FREE, Close, Kill, Release, EMERGENCY_UNLOAD,
       UnloadTimeout, ReleaseEnd, loc_mlb_exec

(* An unregistration takes the reference of one user away, so that a       *)
(* component that has another is kept.                                     *)
LEMMA UnregisterKeeps ==
  ASSUME TypeOK, Table, Unique, Present, Counted,
         NEW c \in Clients, OVERLAY_UNREGISTER(c), NEW i \in Mains, NEW e \in Users(i), e # c
  PROVE  i \in Mains' /\ components'[i].section = components[i].section
<1>1. PICK s \in Sections : /\ overlays[c][s].compid # NULL
                            /\ components' = loc_mlb_overlay_unregister(components, s)
  BY DEF OVERLAY_UNREGISTER
<1>2. CASE components[i].section # s
  BY <1>1, <1>2, UnregisterMains
<1>3. CASE components[i].section = s
  <2>1. overlays[c][s].compid = i
    BY <1>1, <1>3, OneMain DEF Present
  <2>2. c \in Users(i)
    BY <1>3, <2>1 DEF Users, Holds
  <2>3. Cardinality(Users(i)) \in Nat /\ Cardinality(Users(i)) >= 2
    BY <2>2, UserCounts
  <2>4. leaked[s] \in Nat
    BY DEF TypeOK
  <2>5. components[i].ref_count # 1
    BY <1>3, <2>3, <2>4 DEF Counted, Due
  <2> QED  BY <1>1, <2>5, UnregisterMains
<1> QED  BY <1>2, <1>3

(* So does the emergency message.                                          *)
LEMMA UnloadKeeps ==
  ASSUME TypeOK, Counted, loc_mlb_exec, NEW i \in Mains, NEW e \in Users(i)
  PROVE  i \in Mains' /\ components'[i].section = components[i].section
<1>1. unload \in Sections /\ components' = loc_mlb_overlay_unregister(components, unload)
  BY DEF loc_mlb_exec, TypeOK
<1>2. CASE components[i].section # unload
  BY <1>1, <1>2, UnregisterMains
<1>3. CASE components[i].section = unload
  <2>1. Cardinality(Users(i)) \in Nat /\ Cardinality(Users(i)) >= 1
    BY UserCounts
  <2>2. leaked[unload] \in Nat
    BY <1>1 DEF TypeOK
  <2>3. components[i].ref_count # 1
    BY <1>3, <2>1, <2>2 DEF Counted, Due
  <2> QED  BY <1>1, <2>3, UnregisterMains
<1> QED  BY <1>2, <1>3

(* A component stays while it has a user that does not unregister it.      *)
LEMMA MainKept ==
  ASSUME TypeOK, Placed, Careful, Table, Unique, Added, Progress, Present, Counted,
         [Next]_vars, NEW i \in Mains, NEW e \in Users(i), ~ OVERLAY_UNREGISTER(e)
  PROVE  i \in Mains' /\ components'[i].section = components[i].section
<1>0. Mains \subseteq Registered
  BY DEF Mains
<1>1. CASE components' = components
  BY <1>1 DEF Mains, Registered
<1>2. ASSUME NEW c \in Clients, FindKnown(c)
      PROVE  i \in Mains' /\ components'[i].section = components[i].section
  BY <1>0, <1>2, FindMains
<1>3. ASSUME NEW c \in Clients, loc_overlay_component_register_new(c)
      PROVE  i \in Mains' /\ components'[i].section = components[i].section
  BY <1>0, <1>3, RegisterMains
<1>4. ASSUME NEW c \in Clients, OVERLAY_UNREGISTER(c)
      PROVE  i \in Mains' /\ components'[i].section = components[i].section
  <2>1. e # c
    BY <1>4
  <2> QED  BY <1>4, <2>1, UnregisterKeeps
<1>5. CASE loc_mlb_exec
  BY <1>5, UnloadKeeps
<1>6. ASSUME NEW c \in Clients, coff_load_overlay(c) \/ LoadFails(c)
      PROVE  components' = components
  BY <1>6 DEF coff_load_overlay, LoadFails
<1> QED  BY <1>1, <1>2, <1>3, <1>4, <1>5, <1>6, TableChanges
-----------------------------------------------------------------------------
(* A client gets what it has by a lookup or a registration.                *)
LEMMA Shrinks ==
  ASSUME TypeOK, Placed, [Next]_vars, NEW d \in Clients, NEW s \in Sections
  PROVE  \/ overlays'[d][s].compid \in {overlays[d][s].compid, NULL}
         \/ FindKnown(d) \/ loc_overlay_component_register_new(d)
<1> USE DEF TypeOK, Placed, Held
<1>a. overlays[d][s] \in Held
  OBVIOUS
<1>c. CASE Untouched(d)
  BY <1>c DEF Untouched
<1>1. CASE dsp_open(d)
  BY <1>a, <1>1 DEF dsp_open, Goto, kernel
<1>2. CASE FindUnknown(d)
  BY <1>a, <1>2 DEF FindUnknown, Goto, kernel
<1>3. CASE OVERLAY_REF(d)
  BY <1>a, <1>3 DEF OVERLAY_REF, Goto
<1>4. CASE OVERLAY_ALLOC(d)
  <2> DEFINE t == Min(Candidates(want[d]))
  <2>1. t \in Sections /\ overlays' = [overlays EXCEPT ![d][t].mem = TRUE]
    BY <1>4, AllocSection DEF OVERLAY_ALLOC
  <2> HIDE DEF t
  <2>2. overlays'[d][s].compid = overlays[d][s].compid
    BY <1>a, <2>1
  <2> QED  BY <2>2
<1>5. CASE AllocFails(d)
  BY <1>a, <1>5 DEF AllocFails, Goto, kernel
<1>6. CASE coff_load_overlay(d)
  BY <1>a, <1>6 DEF coff_load_overlay, Goto, kernel
<1>7. CASE LoadFails(d)
  BY <1>a, <1>7 DEF LoadFails, Goto, kernel
<1>8. CASE RegisterFails(d)
  BY <1>a, <1>8 DEF RegisterFails, Goto, kernel
<1>9. CASE Unwind(d)
  BY <1>a, <1>9 DEF Unwind, Goto
<1>10. CASE LoadEnd(d)
  BY <1>a, <1>10 DEF LoadEnd, Goto, kernel
<1>11. CASE dsp_close(d)
  BY <1>a, <1>11 DEF dsp_close, Goto, kernel
<1>12. CASE OVERLAY_UNREGISTER(d)
  BY <1>a, <1>12 DEF OVERLAY_UNREGISTER, Goto, kernel
<1>13. CASE OVERLAY_FREE(d)
  BY <1>a, <1>13 DEF OVERLAY_FREE, Goto, NoOverlay
<1>14. CASE Close(d)
  BY <1>a, <1>14 DEF Close, Goto, kernel
<1>15. CASE Kill(d)
  BY <1>a, <1>15 DEF Kill, NoOverlay
<1>16. CASE fops__release(d)
  BY <1>a, <1>16 DEF fops__release, Goto
<1>17. CASE EMERGENCY_UNLOAD(d)
  BY <1>a, <1>17 DEF EMERGENCY_UNLOAD, Goto, kernel
<1>18. CASE UnloadTimeout(d)
  BY <1>a, <1>18 DEF UnloadTimeout, Goto
<1>19. CASE ReleaseEnd(d)
  BY <1>a, <1>19 DEF ReleaseEnd, Goto
<1>20. ASSUME NEW n \in Wanted, LoadBegin(d, n) PROVE overlays'[d][s].compid \in {overlays[d][s].compid, NULL}
  BY <1>a, <1>20 DEF LoadBegin
<1> QED
  BY <1>1, <1>2, <1>3, <1>4, <1>5, <1>6, <1>7, <1>8, <1>9, <1>10, <1>11,
     <1>12, <1>13, <1>14, <1>15, <1>16, <1>17, <1>18, <1>19, <1>20, <1>c,
     Mine
  DEF Own, dsp_component_load, Release

(* What a client has is in the table.                                      *)
LEMMA PresentStep ==
  ASSUME TypeOK, Placed, Careful, Table, Unique, Added, Progress, Present, Counted,
         [Next]_vars
  PROVE  Present'
<1> SUFFICES ASSUME NEW d \in Clients, NEW s \in Sections, overlays'[d][s].compid # NULL
             PROVE  /\ overlays'[d][s].compid \in Mains'
                    /\ components'[overlays'[d][s].compid].section = s
  BY DEF Present
<1> DEFINE i == overlays[d][s].compid
<1>1. CASE overlays'[d][s].compid = i
  <2>1. i \in Mains /\ components[i].section = s
    BY <1>1 DEF Present
  <2>2. d \in Users(i)
    BY <2>1 DEF Users, Holds
  <2>3. CASE ~ OVERLAY_UNREGISTER(d)
    BY <1>1, <2>1, <2>2, <2>3, MainKept
  <2>4. CASE OVERLAY_UNREGISTER(d)
    <3>1. PICK t \in Sections : /\ components' = loc_mlb_overlay_unregister(components, t)
                                /\ overlays' = [overlays EXCEPT ![d][t].compid = NULL]
      BY <2>4 DEF OVERLAY_UNREGISTER
    <3>2. t # s
      BY <3>1 DEF TypeOK, Held
    <3> QED  BY <1>1, <2>1, <3>1, <3>2, UnregisterMains
  <2> QED  BY <2>3, <2>4
<1>2. CASE overlays'[d][s].compid # i /\ FindKnown(d)
  <2> DEFINE m == Min(Named(want[d]))
             t == components[m].section
  <2>1. /\ Mains' = Mains /\ m \in Mains /\ components'[m].section = t
        /\ t \in Sections
    BY <1>2, FindMains, Fields DEF Mains
  <2>2. overlays' = [overlays EXCEPT ![d][t] = [compid |-> m, mem |-> TRUE]]
    BY <1>2 DEF FindKnown
  <2> HIDE DEF m, t
  <2>3. /\ overlays'[d][t].compid = m
        /\ \A u \in Sections : u # t => overlays'[d][u] = overlays[d][u]
    BY <2>1, <2>2 DEF TypeOK
  <2> QED  BY <1>2, <2>1, <2>3
<1>3. CASE overlays'[d][s].compid # i /\ loc_overlay_component_register_new(d)
  <2>1. PICK j \in Slots :
          /\ Mains' = Mains \cup {j}
          /\ overlays' = [overlays EXCEPT ![d][sec[d]].compid = j]
          /\ components'[j] = Component(want[d], FALSE, sec[d])
    BY <1>3, RegisterMains
  <2>2. sec[d] \in Sections
    BY <1>3 DEF Placed, loc_overlay_component_register_new, Goto
  <2>3. /\ overlays'[d][sec[d]].compid = j
        /\ \A u \in Sections : u # sec[d] => overlays'[d][u] = overlays[d][u]
    BY <2>1, <2>2 DEF TypeOK, Held
  <2>4. components'[j].section = sec[d]
    BY <2>1 DEF Component
  <2>5. s = sec[d]
    BY <1>3, <2>3
  <2>6. overlays'[d][s].compid = j
    BY <2>3, <2>5
  <2>7. j \in Mains'
    BY <2>1
  <2> QED  BY <2>4, <2>5, <2>6, <2>7, Zenon
<1> QED  BY <1>1, <1>2, <1>3, Shrinks

(* A client dies by Kill, and its flags only go.                            *)
LEMMA Dying ==
  ASSUME TypeOK, [Next]_vars, NEW e \in Clients, pc'[e] \in {"dead", "release"}
  PROVE  \/ Kill(e)
         \/ /\ pc[e] \in {"dead", "release"} /\ flags'[e] \subseteq flags[e]
            /\ pc'[e] = pc[e] \/ fops__release(e)
<1> USE DEF TypeOK
<1>c. CASE Untouched(e)
  BY <1>c DEF Untouched
<1>1. CASE dsp_open(e)
  BY <1>1 DEF dsp_open, Goto, kernel
<1>2. CASE FindKnown(e)
  BY <1>2 DEF FindKnown, Goto, kernel
<1>3. CASE FindUnknown(e)
  BY <1>3 DEF FindUnknown, Goto, kernel
<1>4. CASE OVERLAY_REF(e)
  BY <1>4 DEF OVERLAY_REF, Goto
<1>5. CASE OVERLAY_ALLOC(e)
  BY <1>5 DEF OVERLAY_ALLOC, Goto
<1>6. CASE AllocFails(e)
  BY <1>6 DEF AllocFails, Goto, kernel
<1>7. CASE coff_load_overlay(e)
  BY <1>7 DEF coff_load_overlay, Goto, kernel
<1>8. CASE LoadFails(e)
  BY <1>8 DEF LoadFails, Goto, kernel
<1>9. CASE loc_overlay_component_register_new(e)
  BY <1>9 DEF loc_overlay_component_register_new, Goto, kernel
<1>10. CASE RegisterFails(e)
  BY <1>10 DEF RegisterFails, Goto, kernel
<1>11. CASE Unwind(e)
  BY <1>11 DEF Unwind, Goto
<1>12. CASE LoadEnd(e)
  BY <1>12 DEF LoadEnd, Goto, kernel
<1>13. CASE dsp_close(e)
  BY <1>13 DEF dsp_close, Goto, kernel
<1>14. CASE OVERLAY_UNREGISTER(e)
  BY <1>14 DEF OVERLAY_UNREGISTER, Goto, kernel
<1>15. CASE OVERLAY_FREE(e)
  BY <1>15 DEF OVERLAY_FREE, Goto
<1>16. CASE Close(e)
  BY <1>16 DEF Close, Goto, kernel
<1>17. CASE fops__release(e)
  BY <1>17 DEF fops__release, Goto
<1>18. CASE EMERGENCY_UNLOAD(e)
  BY <1>18 DEF EMERGENCY_UNLOAD, Goto, kernel
<1>19. CASE UnloadTimeout(e)
  BY <1>19 DEF UnloadTimeout, Goto
<1>20. CASE ReleaseEnd(e)
  BY <1>20 DEF ReleaseEnd, Goto
<1>21. ASSUME NEW n \in Wanted, LoadBegin(e, n) PROVE FALSE
  BY <1>21 DEF LoadBegin, Goto
<1> QED
  BY <1>1, <1>2, <1>3, <1>4, <1>5, <1>6, <1>7, <1>8, <1>9, <1>10, <1>11,
     <1>12, <1>13, <1>14, <1>15, <1>16, <1>17, <1>18, <1>19, <1>20, <1>21,
     <1>c, Mine
  DEF Own, dsp_component_load, Release

(* A dead client's sections are counted or locked.                         *)
LEMMA OwedStep ==
  ASSUME TypeOK, Locked, Placed, Careful, Table, Unique, Added, Progress, Flagged, Channel,
         Present, Counted, Owed, [Next]_vars
  PROVE  Owed'
<1> SUFFICES ASSUME NEW e \in Clients, NEW s \in Sections,
                    pc'[e] \in {"dead", "release"}, s \in flags'[e]
             PROVE  \/ \E i \in Mains' : components'[i].section = s
                    \/ pc'[e] = "dead" /\ lock' = e
                    \/ pc'[e] = "release" /\ lock' = NULL
  BY DEF Owed
<1>1. ASSUME pc[e] \in {"dead", "release"}, s \in flags[e],
             NEW i \in Mains, components[i].section = s
      PROVE  \E j \in Mains' : components'[j].section = s
  <2>1. e \in Users(i)
    BY <1>1 DEF Users, Holds
  <2>2. ~ OVERLAY_UNREGISTER(e)
    BY <1>1 DEF OVERLAY_UNREGISTER, Goto
  <2> QED  BY <1>1, <2>1, <2>2, MainKept
<1>2. CASE Kill(e)
  <2>1. /\ pc[e] \notin {"dead", "release", "unregistered"} /\ flags'[e] = flags[e]
        /\ lock' = lock /\ components' = components /\ pc'[e] = "dead"
    BY <1>2, OverlayAssumption DEF Kill, TypeOK, Careful, OverlayAssumption
  <2>2. CASE overlays[e][s].compid # NULL
    BY <2>1, <2>2 DEF Present, Mains, Registered
  <2>3. CASE pc[e] \in {"map", "register", "unwind"}
    BY <2>1, <2>3 DEF Locked, Loading
  <2> QED  BY <2>1, <2>2, <2>3 DEF Flagged
<1>3. CASE pc[e] \in {"dead", "release"} /\ s \in flags[e]
  <2>1. CASE \E i \in Mains : components[i].section = s
    BY <1>1, <1>3, <2>1
  <2>2. ASSUME NEW c \in Clients, LoadEnd(c), lock \in {e, NULL}
        PROVE  FALSE
    BY <1>3, <2>2, OverlayAssumption DEF LoadEnd, Goto, Locked, Loading, OverlayAssumption
  <2>3. ASSUME NEW c \in Clients, fops__release(c), pc[e] = "release"
        PROVE  FALSE
    BY <2>3, OverlayAssumption DEF fops__release, Channel, OverlayAssumption
  <2>4. CASE pc[e] = "dead" /\ lock = e
    <3>1. ASSUME NEW c \in Clients, NEW n \in Wanted, LoadBegin(c, n) PROVE FALSE
      BY <2>4, <3>1, OverlayAssumption DEF LoadBegin, ChannelFree, OverlayAssumption
    <3>2. ASSUME NEW c \in Clients, fops__release(c), pc'[e] = "dead" PROVE lock' = e
      BY <2>4, <3>2 DEF fops__release, Goto, TypeOK
    <3>3. ASSUME pc'[e] = "release" PROVE lock' = NULL
      <4>1. fops__release(e)
        BY <2>4, <3>3, Dying DEF Kill, TypeOK
      <4> QED  BY <2>4, <4>1 DEF fops__release
    <3> QED  BY <2>2, <2>4, <3>1, <3>2, <3>3, LockChanges
  <2>5. CASE pc[e] = "release" /\ lock = NULL
    <3>1. ASSUME NEW c \in Clients, NEW n \in Wanted, LoadBegin(c, n) PROVE FALSE
      BY <2>5, <3>1, OverlayAssumption DEF LoadBegin, Channel, OverlayAssumption
    <3>2. lock' = NULL
      BY <2>2, <2>3, <2>5, <3>1, LockChanges
    <3>3. pc'[e] # "dead"
      BY <2>5, Dying, OverlayAssumption DEF Kill, fops__release, Goto, OverlayAssumption
    <3> QED  BY <3>2, <3>3
  <2> QED  BY <1>3, <2>1, <2>4, <2>5 DEF Owed
<1>4. (pc[e] \in {"dead", "release"} /\ s \in flags[e]) \/ Kill(e)
  BY Dying
<1> QED  BY <1>2, <1>3, <1>4
-----------------------------------------------------------------------------
(* The steps that change who has what.                                     *)
LEMMA HoldsChanges ==
  ASSUME TypeOK, Placed, Progress, Flagged, [Next]_vars,
         NEW d \in Clients, NEW i \in Slots, NEW s \in Sections
  PROVE  \/ Holds(d, i, s)' <=> Holds(d, i, s)
         \/ FindKnown(d) \/ loc_overlay_component_register_new(d) \/ OVERLAY_UNREGISTER(d)
         \/ Kill(d) \/ EMERGENCY_UNLOAD(d) \/ UnloadTimeout(d)
<1>a. ProgressOf(d) /\ FlaggedOf(d)
  BY DEF Progress, ProgressOf, Flagged, FlaggedOf
<1>b. i # NULL /\ overlays[d][s] \in Held /\ \A t \in Sections : overlays[d][t] \in Held
  BY OverlayAssumption DEF OverlayAssumption, TypeOK
<1> USE DEF TypeOK, Holds
<1>c. CASE Untouched(d)
  BY <1>c DEF Untouched
<1>1. CASE dsp_open(d)
  BY <1>a, <1>b, <1>1 DEF dsp_open, Goto, kernel
<1>2. CASE FindUnknown(d)
  BY <1>a, <1>b, <1>2 DEF FindUnknown, Goto, kernel
<1>3. CASE OVERLAY_REF(d)
  BY <1>a, <1>b, <1>3 DEF OVERLAY_REF, Goto
<1>4. CASE OVERLAY_ALLOC(d)
  <2> DEFINE t == Min(Candidates(want[d]))
  <2>1. t \in Sections /\ overlays' = [overlays EXCEPT ![d][t].mem = TRUE]
    BY <1>4, AllocSection DEF OVERLAY_ALLOC
  <2> HIDE DEF t
  <2>2. overlays'[d][s].compid = overlays[d][s].compid
    BY <1>b, <2>1 DEF Held
  <2> QED  BY <1>4, <2>2 DEF OVERLAY_ALLOC, Goto
<1>5. CASE AllocFails(d)
  BY <1>a, <1>b, <1>5 DEF AllocFails, Goto, kernel
<1>6. CASE coff_load_overlay(d)
  BY <1>a, <1>b, <1>6 DEF coff_load_overlay, Goto, kernel
<1>7. CASE LoadFails(d)
  BY <1>b, <1>7 DEF LoadFails, Goto, kernel, Held
<1>8. CASE RegisterFails(d)
  BY <1>b, <1>8 DEF RegisterFails, Goto, kernel, Held
<1>9. CASE Unwind(d)
  BY <1>a, <1>b, <1>9 DEF Unwind, Goto
<1>10. CASE LoadEnd(d)
  BY <1>a, <1>b, <1>10 DEF LoadEnd, Goto, kernel
<1>11. CASE dsp_close(d)
  BY <1>a, <1>b, <1>11 DEF dsp_close, Goto, kernel
<1>12. CASE OVERLAY_FREE(d)
  BY <1>a, <1>b, <1>12 DEF OVERLAY_FREE, Goto, NoOverlay, ProgressOf
<1>13. CASE Close(d)
  BY <1>a, <1>b, <1>13 DEF Close, Goto, kernel
<1>14. CASE fops__release(d)
  BY <1>a, <1>b, <1>14 DEF fops__release, Goto
<1>15. CASE ReleaseEnd(d)
  BY <1>a, <1>b, <1>15 DEF ReleaseEnd, Goto
<1>16. ASSUME NEW n \in Wanted, LoadBegin(d, n) PROVE Holds(d, i, s)' <=> Holds(d, i, s)
  BY <1>a, <1>b, <1>16 DEF LoadBegin, Goto, kernel
<1> QED
  BY <1>1, <1>2, <1>3, <1>4, <1>5, <1>6, <1>7, <1>8, <1>9, <1>10, <1>11,
     <1>12, <1>13, <1>14, <1>15, <1>16, <1>c, Mine
  DEF Own, dsp_component_load, Release

(* An emergency message is sent by EMERGENCY_UNLOAD and ends by mlb_exec;  *)
(* three steps can lose count of a reference.                              *)
LEMMA UnloadChanges ==
  ASSUME [Next]_vars
  PROVE  \/ unload' = unload /\ leaked' = leaked
         \/ \E c \in Clients : FindKnown(c) \/ Kill(c) \/ EMERGENCY_UNLOAD(c) \/ UnloadTimeout(c)
         \/ loc_mlb_exec
BY DEF Next, vars, kernel, dsp_open, LoadBegin, dsp_component_load, FindUnknown,
       OVERLAY_REF, OVERLAY_ALLOC, AllocFails, coff_load_overlay, LoadFails,
       loc_overlay_component_register_new, RegisterFails, Unwind, LoadEnd, dsp_close,
       OVERLAY_UNREGISTER, OVERLAY_FREE, Close, Release, fops__release, ReleaseEnd

(* A client that gains or loses a component is counted once.               *)
LEMMA UserGained ==
  ASSUME NEW i \in Mains, NEW c \in Clients \ Users(i), Users(i)' = Users(i) \cup {c}
  PROVE  Cardinality(Users(i))' = Cardinality(Users(i)) + 1
BY UserCounts, FS_AddElement

(* ... and one that loses it, too.                                         *)
LEMMA UserLost ==
  ASSUME NEW i \in Mains, NEW c \in Users(i), Users(i)' = Users(i) \ {c}
  PROVE  Cardinality(Users(i))' = Cardinality(Users(i)) - 1
BY UserCounts, FS_RemoveElement

CountedOf(i) == components[i].ref_count = Due(i)

(* What a component is due, in numbers.                                    *)
LEMMA DueType ==
  ASSUME TypeOK, NEW i \in Mains
  PROVE  /\ components[i].section \in Sections /\ components[i].section # NULL
         /\ leaked[components[i].section] \in Nat
         /\ Due(i) \in Nat /\ Due(i) >= leaked[components[i].section]
<1>1. components[i].section \in Sections
  BY Fields DEF Mains
<1>2. leaked[components[i].section] \in Nat
  BY <1>1 DEF TypeOK
<1>3. Cardinality(Users(i)) \in Nat
  BY UserCounts
<1> QED  BY <1>1, <1>2, <1>3, OverlayAssumption DEF Due, OverlayAssumption

(* Nothing changes for a component.                                        *)
LEMMA SameCount ==
  ASSUME Counted, NEW i \in Mains, Users(i)' = Users(i),
         components'[i].section = components[i].section,
         components'[i].ref_count = components[i].ref_count,
         unload' = components[i].section <=> unload = components[i].section,
         leaked'[components[i].section] = leaked[components[i].section]
  PROVE  CountedOf(i)'
<1>1. Cardinality(Users(i))' = Cardinality(Users(i))
  OBVIOUS
<1>2. Due(i)' = Due(i)
  BY <1>1 DEF Due
<1> QED  BY <1>2 DEF CountedOf, Counted

(* Counted after a lookup that finds the component, ...                    *)
LEMMA CountedFind ==
  ASSUME TypeOK, Placed, Careful, Table, Unique, Added, Present, Counted,
         NEW c \in Clients, FindKnown(c), NEW i \in Mains
  PROVE  CountedOf(i)'
<1>0. PICK m \in Mains, t \in Sections :
        /\ m = Min(Named(want[c])) /\ t = components[m].section
        /\ m \in Named(want[c])
  <2>1. Named(want[c]) \subseteq Nat /\ Named(want[c]) # {}
    BY Numbers DEF FindKnown, Named, Registered
  <2> QED  BY <2>1, MinFact, FindMains, Fields DEF Mains
<1>1. /\ m \in Mains
      /\ t \in Sections
      /\ \A j \in Mains :
           /\ components[j].section \in Sections
           /\ components'[j].section = components[j].section
           /\ components[j].ref_count \in Nat
           /\ components'[j].ref_count = components[j].ref_count + (IF j = m THEN 1 ELSE 0)
  BY <1>0, FindMains, Fields DEF Mains
<1>2. m \in Named(want[c])
  BY <1>0
<1>3. /\ overlays' = [overlays EXCEPT ![c][t] = [compid |-> m, mem |-> TRUE]]
      /\ leaked' = IF overlays[c][t].compid = NULL THEN leaked ELSE [leaked EXCEPT ![t] = @ + 1]
      /\ unload' = unload /\ flags' = flags
      /\ pc[c] = "find" /\ pc' = [pc EXCEPT ![c] = "ref"]
  BY <1>0 DEF FindKnown, Goto
<1>4. /\ overlays'[c][t].compid = m
      /\ \A u \in Sections : u # t => overlays'[c][u] = overlays[c][u]
      /\ \A d \in Clients : d # c => overlays'[d] = overlays[d] /\ pc'[d] = pc[d]
      /\ pc'[c] = "ref"
  BY <1>1, <1>3 DEF TypeOK
<1>5. \A d \in Clients, s \in Sections :
        (d # c \/ s # t) => (Holds(d, i, s)' <=> Holds(d, i, s))
  BY <1>3, <1>4 DEF Holds
<1>6. CASE i # m
  <2>1. components[i].section # t
    BY <1>0, <1>1, <1>6, OneMain
  <2>2. Users(i)' = Users(i)
    BY <1>1, <1>5, <2>1 DEF Users
  <2>3. leaked'[components[i].section] = leaked[components[i].section]
    BY <1>1, <1>3, <2>1 DEF TypeOK
  <2> QED  BY <1>1, <1>3, <1>6, <2>2, <2>3, SameCount
<1>7. CASE i = m /\ overlays[c][t].compid = NULL
  <2>1. components[i].section = t
    BY <1>0, <1>7
  <2>2. c \notin Users(i)
    <3>1. i # NULL
      BY OverlayAssumption DEF OverlayAssumption, Mains, Registered
    <3> QED  BY <1>3, <1>7, <2>1, <3>1 DEF Users, Holds
  <2>3. Holds(c, i, t)'
    BY <1>4, <1>7 DEF Holds
  <2>4. Users(i)' = Users(i) \cup {c}
    BY <1>1, <1>5, <2>1, <2>3 DEF Users
  <2>5. Cardinality(Users(i))' = Cardinality(Users(i)) + 1 /\ Cardinality(Users(i)) \in Nat
    BY <2>2, <2>4, UserGained, UserCounts
  <2>6. Due(i)' = Due(i) + 1
    BY <1>1, <1>3, <1>7, <2>5, DueType DEF Due
  <2> QED  BY <1>1, <1>7, <2>6 DEF CountedOf, Counted
<1>8. CASE i = m /\ overlays[c][t].compid # NULL
  <2>1. components[i].section = t /\ overlays[c][t].compid = i
    BY <1>0, <1>8, OneMain DEF Present
  <2>2. Holds(c, i, t) /\ Holds(c, i, t)'
    BY <1>4, <1>8, <2>1 DEF Holds
  <2>3. Users(i)' = Users(i)
    BY <1>1, <1>5, <2>1, <2>2 DEF Users
  <2>4. Cardinality(Users(i))' = Cardinality(Users(i)) /\ Cardinality(Users(i)) \in Nat
    BY <2>3, UserCounts
  <2>5. leaked'[t] = leaked[t] + 1 /\ leaked[t] \in Nat
    BY <1>3, <1>8 DEF TypeOK
  <2>6. Due(i)' = Due(i) + 1
    BY <1>1, <1>3, <2>1, <2>4, <2>5 DEF Due
  <2> QED  BY <1>1, <1>8, <2>6 DEF CountedOf, Counted
<1> QED  BY <1>6, <1>7, <1>8

(* ... after a registration, ...                                           *)
LEMMA CountedRegister ==
  ASSUME TypeOK, Locked, Placed, Careful, Table, Unique, Progress, Channel, Present, Counted,
         Leaks, Owed, NEW c \in Clients, loc_overlay_component_register_new(c), NEW i \in Mains'
  PROVE  CountedOf(i)'
<1>1. PICK m \in Slots :
        /\ m \notin Registered
        /\ Mains' = Mains \cup {m}
        /\ overlays' = [overlays EXCEPT ![c][sec[c]].compid = m]
        /\ \A j \in Registered : components'[j] = components[j]
        /\ components'[m] = Component(want[c], FALSE, sec[c])
  BY RegisterMains
<1>0. PICK t \in Sections : t = sec[c]
  BY OverlayAssumption DEF loc_overlay_component_register_new, Goto, Placed, Loading, OverlayAssumption
<1>2. /\ t \in Sections /\ lock = c /\ unload = NULL /\ unload # t
      /\ unload' = unload /\ leaked' = leaked /\ flags' = flags
      /\ pc[c] = "register" /\ pc' = [pc EXCEPT ![c] = "end"]
  BY <1>0, OverlayAssumption DEF loc_overlay_component_register_new, Goto, kernel, Placed, Locked,
     Loading, Channel, OverlayAssumption
<1>3. /\ components'[m].section = t /\ components'[m].ref_count = 1
      /\ m \notin Mains
      /\ \A j \in Mains : /\ components'[j] = components[j]
                          /\ components[j].section \in Sections /\ components[j].section # t
  BY <1>0, <1>1, <1>2, NoneThere, Fields DEF Component, Mains, Careful
<1>4. /\ overlays'[c][t].compid = m
      /\ \A u \in Sections : u # t => overlays'[c][u] = overlays[c][u]
      /\ \A d \in Clients : d # c => overlays'[d] = overlays[d] /\ pc'[d] = pc[d]
      /\ pc'[c] = "end"
  BY <1>0, <1>1, <1>2 DEF TypeOK, Held
<1>5. CASE i \in Mains
  <2>1. \A d \in Clients, s \in Sections : s # t => (Holds(d, i, s)' <=> Holds(d, i, s))
    BY <1>2, <1>4 DEF Holds
  <2>2. Users(i)' = Users(i)
    BY <1>3, <1>5, <2>1 DEF Users
  <2> QED  BY <1>2, <1>3, <1>5, <2>2, SameCount
<1>6. CASE i = m
  <2>1. Holds(c, m, t)'
    BY <1>4 DEF Holds
  <2>2. ASSUME NEW d \in Clients, d # c, Holds(d, m, t)' PROVE FALSE
    <3>1. overlays[d][t].compid # m
      BY <1>2, <1>3, OverlayAssumption DEF Present, OverlayAssumption
    <3>2. pc[d] \in {"dead", "release"} /\ t \in flags[d]
      BY <1>2, <1>4, <2>2, <3>1 DEF Holds
    <3>3. lock # d /\ lock # NULL
      BY <1>2, <2>2, OverlayAssumption DEF OverlayAssumption
    <3> QED  BY <1>2, <1>3, <3>2, <3>3 DEF Owed
  <2>3. Users(m)' = {c}
    BY <1>3, <2>1, <2>2 DEF Users
  <2>4. Cardinality(Users(m))' = 1
    BY <2>3, FS_Singleton
  <2>5. leaked[t] = 0
    BY <1>2, <1>3 DEF Leaks
  <2>6. Due(m)' = 1
    BY <1>2, <1>3, <2>4, <2>5 DEF Due
  <2> QED  BY <1>3, <1>6, <2>6 DEF CountedOf
<1> QED  BY <1>1, <1>5, <1>6

(* ... after an unregistration, ...                                        *)
LEMMA CountedUnregister ==
  ASSUME TypeOK, Table, Unique, Channel, Present, Counted,
         NEW c \in Clients, OVERLAY_UNREGISTER(c), NEW i \in Mains'
  PROVE  CountedOf(i)'
<1>1. PICK t \in Sections :
        /\ overlays[c][t].compid # NULL
        /\ components' = loc_mlb_overlay_unregister(components, t)
        /\ overlays' = [overlays EXCEPT ![c][t].compid = NULL]
  BY DEF OVERLAY_UNREGISTER
<1>2. /\ unload = NULL /\ unload # t
      /\ unload' = unload /\ leaked' = leaked /\ flags' = flags
      /\ pc[c] = "closing" /\ pc' = [pc EXCEPT ![c] = "unregistered"]
  BY OverlayAssumption DEF OVERLAY_UNREGISTER, Goto, kernel, ChannelFree, OverlayAssumption
<1>3. /\ i \in Mains
      /\ components[i].section \in Sections /\ components[i].ref_count \in Nat \ {0}
      /\ components'[i].section = components[i].section
      /\ components'[i].ref_count =
           components[i].ref_count - (IF components[i].section = t THEN 1 ELSE 0)
  BY <1>1, UnregisterMains, Fields DEF Mains
<1>4. /\ overlays'[c][t].compid = NULL
      /\ \A u \in Sections : u # t => overlays'[c][u] = overlays[c][u]
      /\ \A d \in Clients : d # c => overlays'[d] = overlays[d] /\ pc'[d] = pc[d]
      /\ pc'[c] = "unregistered"
  BY <1>1, <1>2 DEF TypeOK, Held
<1>5. \A d \in Clients, s \in Sections :
        (d # c \/ s # t) => (Holds(d, i, s)' <=> Holds(d, i, s))
  BY <1>2, <1>4 DEF Holds
<1>6. CASE components[i].section # t
  <2>1. Users(i)' = Users(i)
    BY <1>3, <1>5, <1>6 DEF Users
  <2> QED  BY <1>2, <1>3, <1>6, <2>1, SameCount
<1>7. CASE components[i].section = t
  <2>1. overlays[c][t].compid = i
    BY <1>1, <1>3, <1>7, OneMain DEF Present
  <2>2. c \in Users(i)
    BY <1>7, <2>1 DEF Users, Holds
  <2>3. i # NULL
    BY <1>1, <2>1
  <2>4. ~ Holds(c, i, t)'
    BY <1>4, <2>3 DEF Holds
  <2>5. Users(i)' = Users(i) \ {c}
    BY <1>3, <1>5, <1>7, <2>4 DEF Users
  <2>6. Cardinality(Users(i))' = Cardinality(Users(i)) - 1 /\ Cardinality(Users(i)) \in Nat
    BY <1>3, <2>2, <2>5, UserLost, UserCounts
  <2>7. Due(i)' = Due(i) - 1
    BY <1>2, <1>3, <1>7, <2>6, DueType DEF Due
  <2> QED  BY <1>2, <1>3, <1>7, <2>7 DEF CountedOf, Counted
<1> QED  BY <1>6, <1>7

(* ... after an emergency message, ...                                     *)
LEMMA CountedExec ==
  ASSUME TypeOK, Counted, loc_mlb_exec, NEW i \in Mains'
  PROVE  CountedOf(i)'
<1>1. /\ unload \in Sections /\ components' = loc_mlb_overlay_unregister(components, unload)
      /\ unload' = NULL /\ leaked' = leaked /\ flags' = flags /\ pc' = pc /\ overlays' = overlays
  BY DEF loc_mlb_exec, kernel, TypeOK
<1>2. /\ i \in Mains
      /\ components[i].section \in Sections /\ components[i].ref_count \in Nat \ {0}
      /\ components'[i].section = components[i].section
      /\ components'[i].ref_count =
           components[i].ref_count - (IF components[i].section = unload THEN 1 ELSE 0)
  BY <1>1, UnregisterMains, Fields DEF Mains
<1>3. Users(i)' = Users(i)
  BY <1>1, <1>2 DEF Users, Holds
<1>4. components[i].section # NULL
  BY <1>2, OverlayAssumption DEF OverlayAssumption
<1>5. CASE components[i].section # unload
  BY <1>1, <1>2, <1>3, <1>4, <1>5, SameCount
<1>6. CASE components[i].section = unload
  <2>1. Cardinality(Users(i)) \in Nat
    BY <1>2, UserCounts
  <2>2. Cardinality(Users(i))' = Cardinality(Users(i))
    BY <1>3
  <2>3. Due(i)' = Due(i) - 1
    BY <1>1, <1>2, <1>4, <1>6, <2>1, <2>2, DueType DEF Due
  <2> QED  BY <1>2, <1>6, <2>3 DEF CountedOf, Counted
<1> QED  BY <1>5, <1>6

(* A client that dies keeps its references, but for the one it had not yet *)
(* told the kernel of.                                                     *)
LEMMA CountedKill ==
  ASSUME TypeOK, Placed, Careful, Table, Unique, Progress, Flagged, Present, Counted,
         NEW c \in Clients, Kill(c), NEW i \in Mains
  PROVE  CountedOf(i)'
<1> DEFINE t == components[i].section
<1>1. /\ pc[c] \notin {"closed", "dead", "release", "unregistered"}
      /\ unload' = unload /\ flags' = flags /\ components' = components
      /\ leaked' = IF pc[c] = "ref" /\ sec[c] \notin flags[c]
                   THEN [leaked EXCEPT ![sec[c]] = @ + 1] ELSE leaked
      /\ pc' = [pc EXCEPT ![c] = "dead"] /\ pc'[c] = "dead"
      /\ \A s \in Sections : overlays'[c][s].compid = NULL
      /\ \A d \in Clients : d # c => overlays'[d] = overlays[d] /\ pc'[d] = pc[d]
  BY OverlayAssumption DEF Kill, Careful, OverlayAssumption, TypeOK, NoOverlay
<1>2. t \in Sections /\ i # NULL /\ i \in Slots /\ components[i].ref_count \in Nat
  BY Fields, OverlayAssumption DEF Mains, OverlayAssumption
<1>3. \A d \in Clients : d # c => (Holds(d, i, t)' <=> Holds(d, i, t))
  BY <1>1 DEF Holds
<1>4. Holds(c, i, t) <=> overlays[c][t].compid = i
  BY <1>1 DEF Holds
<1>5. Holds(c, i, t)' <=> t \in flags[c]
  BY <1>1, <1>2 DEF Holds
<1>6. t \in flags[c] => overlays[c][t].compid = i
  <2>1. ASSUME t \in flags[c] PROVE overlays[c][t].compid # NULL
    <3>1. ASSUME pc[c] \in {"map", "register", "unwind"} PROVE t # sec[c]
      BY <3>1, NoneThere DEF Careful
    <3> QED  BY <1>1, <1>2, <2>1, <3>1 DEF Flagged
  <2> QED  BY <1>2, <2>1, OneMain DEF Present
<1>7. CASE ~ (pc[c] = "ref" /\ sec[c] \notin flags[c] /\ sec[c] = t)
  <2>1. overlays[c][t].compid = i => t \in flags[c]
    BY <1>1, <1>2, <1>7 DEF Flagged
  <2>2. Users(i)' = Users(i)
    BY <1>1, <1>3, <1>4, <1>5, <1>6, <2>1 DEF Users
  <2>3. leaked'[t] = leaked[t]
    BY <1>1, <1>2, <1>7 DEF TypeOK
  <2> QED  BY <1>1, <2>2, <2>3, SameCount
<1>8. CASE pc[c] = "ref" /\ sec[c] \notin flags[c] /\ sec[c] = t
  <2>1. overlays[c][t].compid = i
    BY <1>2, <1>8, OneMain DEF Progress, Present
  <2>2. c \in Users(i) /\ ~ Holds(c, i, t)'
    BY <1>4, <1>5, <1>8, <2>1 DEF Users
  <2>3. Users(i)' = Users(i) \ {c}
    BY <1>1, <1>3, <2>2 DEF Users
  <2>4. Cardinality(Users(i))' = Cardinality(Users(i)) - 1 /\ Cardinality(Users(i)) \in Nat
    BY <2>2, <2>3, UserLost, UserCounts
  <2>5. leaked'[t] = leaked[t] + 1 /\ leaked[t] \in Nat
    BY <1>1, <1>2, <1>8 DEF TypeOK
  <2>6. Due(i)' = Due(i)
    BY <1>1, <2>4, <2>5 DEF Due
  <2> QED  BY <1>1, <2>6 DEF CountedOf, Counted
<1> QED  BY <1>7, <1>8

(* The emergency message takes over the reference of a dead client; if the *)
(* wait for the channel is given up, nobody has it any more.               *)
LEMMA CountedUnload ==
  ASSUME TypeOK, Flagged, Counted, NEW c \in Clients, EMERGENCY_UNLOAD(c) \/ UnloadTimeout(c),
         NEW i \in Mains
  PROVE  CountedOf(i)'
<1> DEFINE t == Min(flags[c])
           s == components[i].section
<1>1. t \in flags[c] /\ t \in Sections
  <2>1. flags[c] \subseteq Nat /\ flags[c] # {}
    BY Numbers DEF TypeOK, EMERGENCY_UNLOAD, UnloadTimeout
  <2>2. t \in flags[c]
    BY <2>1, MinFact
  <2> QED  BY <2>2 DEF TypeOK
<1>2. /\ pc[c] = "release" /\ pc' = [pc EXCEPT ![c] = "release"]
      /\ flags' = [flags EXCEPT ![c] = @ \ {t}]
      /\ components' = components /\ overlays' = overlays
      /\ \/ unload = NULL /\ unload' = t /\ leaked' = leaked
         \/ unload' = unload /\ leaked' = [leaked EXCEPT ![t] = @ + 1]
  BY DEF EMERGENCY_UNLOAD, UnloadTimeout, Goto, ChannelFree
<1> HIDE DEF t
<1>3. s \in Sections /\ s # NULL /\ i # NULL /\ components[i].ref_count \in Nat
  BY Fields, OverlayAssumption DEF Mains, Registered, OverlayAssumption
<1>4. \A d \in Clients : d # c \/ s # t => (Holds(d, i, s)' <=> Holds(d, i, s))
  BY <1>2 DEF Holds, TypeOK
<1>5. CASE s # t
  <2>1. Users(i)' = Users(i)
    BY <1>2, <1>4, <1>5 DEF Users
  <2>2. leaked'[s] = leaked[s]
    BY <1>2, <1>3, <1>5 DEF TypeOK
  <2> QED  BY <1>2, <1>3, <1>5, <2>1, <2>2, SameCount
<1>6. CASE s = t
  <2>1. c \in Users(i)
    BY <1>1, <1>2, <1>6 DEF Users, Holds
  <2>2. ~ Holds(c, i, s)'
    BY <1>2, <1>3, <1>6 DEF Holds, Flagged, TypeOK
  <2>3. Users(i)' = Users(i) \ {c}
    BY <1>2, <1>4, <2>2 DEF Users
  <2>4. Cardinality(Users(i))' = Cardinality(Users(i)) - 1 /\ Cardinality(Users(i)) \in Nat
    BY <2>1, <2>3, UserLost, UserCounts
  <2>5. CASE unload = NULL /\ unload' = t /\ leaked' = leaked
    <3>1. Due(i)' = Due(i)
      BY <1>2, <1>3, <1>6, <2>4, <2>5, DueType DEF Due
    <3> QED  BY <1>2, <3>1 DEF CountedOf, Counted
  <2>6. CASE unload' = unload /\ leaked' = [leaked EXCEPT ![t] = @ + 1]
    <3>1. leaked'[s] = leaked[s] + 1 /\ leaked[s] \in Nat
      BY <1>3, <1>6, <2>6 DEF TypeOK
    <3>2. Due(i)' = Due(i)
      BY <1>2, <2>4, <2>6, <3>1 DEF Due
    <3> QED  BY <1>2, <3>2 DEF CountedOf, Counted
  <2> QED  BY <1>2, <2>5, <2>6
<1> QED  BY <1>5, <1>6

(* ... and after every step.                                               *)
LEMMA CountedStep ==
  ASSUME TypeOK, Locked, Placed, Careful, Table, Unique, Added, Progress, Flagged, Channel,
         Present, Counted, Leaks, Owed, [Next]_vars
  PROVE  Counted'
<1> SUFFICES ASSUME NEW i \in Mains' PROVE CountedOf(i)'
  BY DEF Counted, CountedOf
<1>1. ASSUME NEW c \in Clients, FindKnown(c) PROVE CountedOf(i)'
  BY <1>1, FindMains, CountedFind
<1>2. ASSUME NEW c \in Clients, loc_overlay_component_register_new(c) PROVE CountedOf(i)'
  BY <1>2, CountedRegister
<1>3. ASSUME NEW c \in Clients, OVERLAY_UNREGISTER(c) PROVE CountedOf(i)'
  BY <1>3, CountedUnregister
<1>4. ASSUME NEW c \in Clients, Kill(c) PROVE CountedOf(i)'
  <2>1. Mains' = Mains
    BY <1>4 DEF Kill, Mains, Registered
  <2> QED  BY <1>4, <2>1, CountedKill
<1>5. ASSUME NEW c \in Clients, EMERGENCY_UNLOAD(c) \/ UnloadTimeout(c) PROVE CountedOf(i)'
  <2>1. Mains' = Mains
    BY <1>5 DEF EMERGENCY_UNLOAD, UnloadTimeout, Mains, Registered
  <2> QED  BY <1>5, <2>1, CountedUnload
<1>6. CASE loc_mlb_exec
  BY <1>6, CountedExec
<1>7. ASSUME components' = components, unload' = unload, leaked' = leaked,
             \A d \in Clients, j \in Slots, s \in Sections : Holds(d, j, s)' <=> Holds(d, j, s)
      PROVE  CountedOf(i)'
  <2>1. i \in Mains /\ i \in Slots /\ components[i].section \in Sections
    BY <1>7, Fields DEF Mains, Registered
  <2>2. Users(i)' = Users(i)
    BY <1>7, <2>1 DEF Users
  <2> QED  BY <1>7, <2>1, <2>2, SameCount
<1>8. ASSUME NEW c \in Clients, coff_load_overlay(c) \/ LoadFails(c)
      PROVE  components' = components
  BY <1>8 DEF coff_load_overlay, LoadFails
<1> QED
  BY <1>1, <1>2, <1>3, <1>4, <1>5, <1>6, <1>7, <1>8, TableChanges, UnloadChanges, HoldsChanges

(* A component with a reference nobody gives back stays.                   *)
LEMMA LeakedStays ==
  ASSUME TypeOK, Placed, Careful, Table, Unique, Added, Progress, Present, Counted,
         [Next]_vars, NEW i \in Mains, leaked[components[i].section] # 0
  PROVE  i \in Mains' /\ components'[i].section = components[i].section
<1>0. Mains \subseteq Registered
  BY DEF Mains
<1>1. CASE components' = components
  BY <1>1 DEF Mains, Registered
<1>2. ASSUME NEW c \in Clients, FindKnown(c)
      PROVE  i \in Mains' /\ components'[i].section = components[i].section
  BY <1>0, <1>2, FindMains
<1>3. ASSUME NEW c \in Clients, loc_overlay_component_register_new(c)
      PROVE  i \in Mains' /\ components'[i].section = components[i].section
  BY <1>0, <1>3, RegisterMains
<1>4. ASSUME NEW c \in Clients, OVERLAY_UNREGISTER(c)
      PROVE  i \in Mains' /\ components'[i].section = components[i].section
  <2>1. PICK s \in Sections : /\ overlays[c][s].compid # NULL
                              /\ components' = loc_mlb_overlay_unregister(components, s)
    BY <1>4 DEF OVERLAY_UNREGISTER
  <2>2. ASSUME components[i].section = s PROVE components[i].ref_count # 1
    <3>1. overlays[c][s].compid = i
      BY <2>1, <2>2, OneMain DEF Present
    <3>2. c \in Users(i)
      BY <2>2, <3>1 DEF Users, Holds
    <3>3. Cardinality(Users(i)) \in Nat /\ Cardinality(Users(i)) >= 1
      BY <3>2, UserCounts
    <3> QED  BY <3>3, DueType DEF Counted, Due
  <2> QED  BY <2>1, <2>2, UnregisterMains
<1>5. CASE loc_mlb_exec
  <2>1. unload \in Sections /\ components' = loc_mlb_overlay_unregister(components, unload)
    BY <1>5 DEF loc_mlb_exec, TypeOK
  <2>2. ASSUME components[i].section = unload PROVE components[i].ref_count # 1
    BY <2>2, UserCounts, DueType DEF Counted, Due
  <2> QED  BY <2>1, <2>2, UnregisterMains
<1>6. ASSUME NEW c \in Clients, coff_load_overlay(c) \/ LoadFails(c)
      PROVE  components' = components
  BY <1>6 DEF coff_load_overlay, LoadFails
<1> QED  BY <1>1, <1>2, <1>3, <1>4, <1>5, <1>6, TableChanges

(* A reference is leaked by a client that has the component.               *)
LEMMA LeaksStep ==
  ASSUME TypeOK, Placed, Careful, Table, Unique, Added, Progress, Present, Counted, Leaks,
         Owed, [Next]_vars
  PROVE  Leaks'
<1> SUFFICES ASSUME NEW s \in Sections, leaked'[s] # 0
             PROVE  \E i \in Mains' : components'[i].section = s
  BY DEF Leaks
<1>1. CASE leaked[s] # 0
  BY <1>1, LeakedStays DEF Leaks
<1>2. ASSUME NEW c \in Clients, FindKnown(c), leaked[s] = 0
      PROVE  \E i \in Mains' : components'[i].section = s
  <2>1. PICK m \in Mains : m = Min(Named(want[c]))
    BY <1>2, FindMains
  <2>2. components[m].section = s
    BY <1>2, <2>1 DEF FindKnown, TypeOK
  <2> QED  BY <1>2, <2>1, <2>2, FindMains DEF Mains
<1>3. ASSUME NEW c \in Clients, Kill(c), leaked[s] = 0
      PROVE  \E i \in Mains' : components'[i].section = s
  <2>1. pc[c] = "ref" /\ s = sec[c] /\ components' = components
    BY <1>3 DEF Kill, TypeOK
  <2>2. overlays[c][s].compid \in Mains /\ components[overlays[c][s].compid].section = s
    BY <2>1 DEF Progress, Present
  <2> QED  BY <2>1, <2>2 DEF Mains, Registered
<1>4. ASSUME NEW c \in Clients, EMERGENCY_UNLOAD(c) \/ UnloadTimeout(c), leaked[s] = 0
      PROVE  \E i \in Mains' : components'[i].section = s
  <2>1. UnloadTimeout(c)
    BY <1>4 DEF EMERGENCY_UNLOAD
  <2>2. /\ pc[c] = "release" /\ lock # NULL /\ components' = components
        /\ s = Min(flags[c]) /\ flags[c] # {}
    BY <1>4, <2>1 DEF UnloadTimeout, Goto, TypeOK
  <2>3. s \in flags[c]
    <3>1. flags[c] \subseteq Nat
      BY Numbers DEF TypeOK
    <3> QED  BY <2>2, <3>1, MinFact
  <2>4. \E i \in Mains : components[i].section = s
    BY <2>2, <2>3 DEF Owed
  <2> QED  BY <2>2, <2>4 DEF Mains, Registered
<1>5. ASSUME loc_mlb_exec PROVE leaked' = leaked
  BY <1>5 DEF loc_mlb_exec, kernel
<1> QED  BY <1>1, <1>2, <1>3, <1>4, <1>5, UnloadChanges
-----------------------------------------------------------------------------
(* The inductive invariant.                                                *)
THEOREM RefsInvariance ==
  ASSUME Careful
  PROVE  Spec => []RInv
<1>1. Init => RInv
  <2> SUFFICES ASSUME Init PROVE RInv
    OBVIOUS
  <2>1. Registered = {} /\ Mains = {}
    BY DEF Init, Registered, Mains
  <2>2. 0 \in 0 .. MaxKills
    BY OverlayAssumption DEF OverlayAssumption
  <2>3. IInv
    BY <2>2 DEF Init, IInv, TypeOK, Locked, Placed, Loading, Entry, Held, NoOverlay, Pcs
  <2>4. Table /\ Unique /\ Added /\ Counted /\ Leaks
    BY <2>1 DEF Init, Table, Unique, Added, Counted, Leaks
  <2>5. Progress /\ Flagged /\ UsedHas /\ Channel /\ Present /\ Owed
    BY DEF Init, Progress, Flagged, UsedHas, Channel, Present, Owed, NoOverlay
  <2> QED  BY <2>3, <2>4, <2>5 DEF RInv
<1>2. RInv /\ [Next]_vars => RInv'
  <2> SUFFICES ASSUME RInv, [Next]_vars PROVE RInv'
    OBVIOUS
  <2> USE DEF RInv, IInv, Careful
  <2>1. IInv'
    BY TypeStep, LockedStep, PlacedStep
  <2>2. Table' /\ Unique' /\ Added' /\ Progress' /\ Flagged'
    BY TableStep, AddedStep, ProgressStep, FlaggedStep
  <2>3. UsedHas' /\ Channel' /\ Present' /\ Counted' /\ Leaks' /\ Owed'
    BY UsedStep, ChannelStep, PresentStep, CountedStep, LeaksStep, OwedStep
  <2> QED  BY <2>1, <2>2, <2>3
<1> QED  BY <1>1, <1>2, PTL DEF Spec

(* What dsp_component_load has returned to a program stays callable until  *)
(* the program closes, whatever other users of the section, dying ones     *)
(* included, do meanwhile, if an area has one image that programs ask for, *)
(* none asks for what an init() has registered, and no client is killed    *)
(* between UNREGISTER and OVERLAY_FREE.                                    *)
THEOREM AlwaysCallable ==
  ASSUME Careful
  PROVE  Spec => []HeldIsCallable
<1>1. RInv => HeldIsCallable
  BY DEF RInv, HeldIsCallable, Present, Table, Provided
<1> QED  BY <1>1, RefsInvariance, PTL

(* Under these conditions the DSP's count of what an image was registered  *)
(* with is the number of its users, the message that unloads it included,  *)
(* and of the references that nobody gives back: loads of what a program   *)
(* had, deaths before OVERLAY_REF, emergency unloads that were given up.   *)
THEOREM AlwaysRefsExact ==
  ASSUME Careful
  PROVE  Spec => []RefsExact
<1>1. RInv => RefsExact
  <2> SUFFICES ASSUME RInv, NEW i \in Registered, ~ components[i].added
               PROVE  components[i].ref_count = Due(i)
    BY DEF RefsExact, Due, Users
  <2> QED  BY DEF RInv, Counted, Mains
<1> QED  BY <1>1, RefsInvariance, PTL

(* When the last client is gone the kernel's table has no section but      *)
(* those whose emergency unload was given up, and the DSP has components   *)
(* only in sections with references that nobody gives back.                *)
THEOREM AlwaysNothingLeftBehind ==
  ASSUME Careful
  PROVE  Spec => []NothingLeftBehind
<1>1. RInv => NothingLeftBehind
  <2> SUFFICES ASSUME RInv, \A c \in Clients : pc[c] = "closed", unload = NULL
               PROVE  /\ used \subseteq lost
                      /\ \A i \in Registered : leaked[components[i].section] # 0
    BY DEF NothingLeftBehind
  <2> USE DEF RInv, IInv
  <2>1. \A c \in Clients : \A s \in Sections : overlays[c][s].compid = NULL /\ s \notin flags[c]
    BY DEF Flagged
  <2>2. used \subseteq lost
    BY <2>1 DEF UsedHas, TypeOK
  <2>3. ASSUME NEW i \in Mains PROVE leaked[components[i].section] # 0
    <3>1. /\ components[i].section \in Sections /\ components[i].section # NULL
          /\ components[i].ref_count # 0 /\ i # NULL
      BY Fields, OverlayAssumption DEF Mains, OverlayAssumption
    <3>2. Users(i) = {}
      BY <2>1, <3>1 DEF Users, Holds
    <3>3. Cardinality(Users(i)) = 0
      BY <3>2, FS_EmptySet
    <3>4. Due(i) = leaked[components[i].section]
      BY <3>1, <3>3, DueType DEF Due
    <3> QED  BY <3>1, <3>4 DEF Counted
  <2>4. \A i \in Registered : leaked[components[i].section] # 0
    BY <2>3 DEF Added, Mains
  <2> QED  BY <2>2, <2>4
<1> QED  BY <1>1, RefsInvariance, PTL
=============================================================================

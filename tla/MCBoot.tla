-------------------------------- MODULE MCBoot --------------------------------
(* DSP images, one of them without DSP/BIOS, one cut short, one that would *)
(* be entered outside of itself, and two overlays that share their area,   *)
(* one with data past its end: addresses 1..3 are resident, 4..6 the       *)
(* overlay's.                                                              *)
EXTENDS Boot, TLC

Sec(name, kind, at, off) ==
  [name |-> name, long |-> FALSE, kind |-> kind, at |-> at, off |-> off]

CoreSecs ==
  << Sec(".bios", "text", {1}, 6), Sec(".data", "data", {2}, 7), Sec(".bss", "bss", {3}, 0) >>

Core == [name |-> "core", valid |-> TRUE, entry |-> 1, secs |-> CoreSecs, strtab |-> 8,
         strings |-> 2, size |-> 10, cinit |-> <<>>]
Cut == [Core EXCEPT !.name = "cut", !.size = 9]
Astray == [Core EXCEPT !.entry = 4]
Plain == [Core EXCEPT !.name = "plain", !.secs = Tail(CoreSecs)]

Overlay1 ==
  [name |-> "o1", valid |-> TRUE, entry |-> 0, strtab |-> 8, strings |-> 1, size |-> 9,
   secs |-> << Sec(".text", "text", {4}, 6), Sec(".cinit", "data", {5}, 7),
               Sec(".bss", "bss", {6}, 0) >>,
   cinit |-> [c \in {5} |-> 6]]
Overlay2 ==
  [name |-> "o2", valid |-> TRUE, entry |-> 0, strtab |-> 8, strings |-> 1, size |-> 9,
   secs |-> << Sec(".bss", "bss", {4}, 0), Sec(".cinit", "data", {6}, 7),
               Sec(".text", "text", {5}, 9) >>,
   cinit |-> [c \in {6} |-> 4]]

Update == [Core EXCEPT !.name = "update"]

Updates == {Core, Update}
ImageFiles == {Core, Cut, Plain, Astray}
OverlayFiles == {Overlay1, Overlay2}
Low == 1..3
High == 4..6
===============================================================================

------------------------------- MODULE Logbuf -------------------------------
(***************************************************************************)
(* The log buffer: a ring in shared memory to which the DSP appends lines  *)
(* (loc_logbuf_addline in dsp/libc64_dsp/src/mlb.c) and which a client     *)
(* prints (dsp_logbuf_print in libc64/dsp.c).  There is no read offset in  *)
(* shared memory: a line ends with 0, and a second 0 behind the last line  *)
(* marks the end.  The reader goes on from where it has stopped, and finds *)
(* its first position when it opens the device (loc_logbuf_startup_sync).  *)
(*                                                                         *)
(* A character is the number it has among all that were ever written, so   *)
(* that stale ones are told from new ones.  One step of the reader is one  *)
(* turn of its loop; the DSP may append between any two.  What it appends  *)
(* becomes visible at once: that its cache is written back line by line is *)
(* left out.                                                               *)
(*                                                                         *)
(* Nothing in the code makes the writer wait for the reader.  How much it  *)
(* logs, and when a client opens the device, is up to the programs: MayLog *)
(* and MayOpen, conjuncts of Next, are what is assumed of them.            *)
(***************************************************************************)
EXTENDS Integers

CONSTANTS
  Size,      \* DSP_LOGBUF_SIZE
  Lengths,   \* lengths of lines, the final 0 included
  MaxChars,  \* bound on the characters written in all
  Burst,     \* the most the DSP writes from the end of one print to that of the next
  AnyStart   \* may a client open the device while the DSP logs, or when a line
             \* ends at offset 0

ASSUME LogbufAssumption ==
  /\ Size \in Nat \ {0}
  /\ Lengths \subseteq 2 .. Size - 1
  /\ MaxChars \in Nat
  /\ Burst \in Nat
  /\ AnyStart \in BOOLEAN

VARIABLES
  buf, writep, written,     \* mlb_logbuf, *mlb_logbuf_offset_writep, characters so far
  pc, off, cntMax, bLZ,     \* the reader and its locals; off is logbuf_offset_read
  consumed,                 \* characters it has passed
  mark                      \* history: characters written when it last stopped

writer == <<buf, writep, written>>
reader == <<pc, off, cntMax, bLZ, consumed, mark>>
vars == <<buf, writep, written, pc, off, cntMax, bLZ, consumed, mark>>

Offsets == 0 .. Size - 1

(* The core has cleared the buffer; no client yet.                         *)
Init ==
  /\ buf = [i \in Offsets |-> 0]
  /\ writep = 0
  /\ written = 0
  /\ pc = "closed"
  /\ off = 0
  /\ cntMax = 0
  /\ bLZ = FALSE
  /\ consumed = 0
  /\ mark = 0
-----------------------------------------------------------------------------
(* Character number k + 1 of a line of n.                                  *)
Char(k, n) == IF k = n - 1 THEN 0 ELSE written + k + 1

(* How far offset i lies behind the write offset, around the ring.         *)
Behind(i) == IF i >= writep THEN i - writep ELSE i - writep + Size

(* Mutant: no end marker is written.                                       *)
Append_NoMarker(n) ==
  [i \in Offsets |->
     LET k == Behind(i)
     IN  IF k < n THEN Char(k, n) ELSE buf[i]]

(* A line of n characters at writep, wrapped around, and the end marker.   *)
Append(n) ==
  [i \in Offsets |->
     LET k == Behind(i)
     IN  IF k < n THEN Char(k, n) ELSE IF k = n THEN 0 ELSE buf[i]]

Advance(o, n) == IF o + n >= Size THEN o + n - Size ELSE o + n

loc_logbuf_addline(n) ==
  /\ n < Size
  /\ written + n <= MaxChars
  /\ buf' = Append(n)
  /\ writep' = Advance(writep, n)
  /\ written' = written + n
  /\ UNCHANGED reader
-----------------------------------------------------------------------------
Stops == IF pc' = "idle" THEN mark' = written ELSE mark' = mark

(* dsp_open maps the buffer and looks for the end.  The characters found   *)
(* there are not printed.                                                  *)
loc_logbuf_map ==
  /\ pc = "closed"
  /\ off' = 0
  /\ cntMax' = Size
  /\ bLZ' = FALSE
  /\ consumed' = IF buf[0] = 0 THEN written ELSE consumed
  /\ pc' = IF buf[0] = 0 THEN "idle" ELSE "sync"
  /\ Stops
  /\ UNCHANGED writer

(* One turn.  Without a marker in the whole buffer: offset 0.              *)
loc_logbuf_startup_sync ==
  /\ pc = "sync"
  /\ IF buf[off] = 0 /\ bLZ
     THEN pc' = "idle" /\ UNCHANGED <<off, cntMax, bLZ>>
     ELSE /\ bLZ' = (buf[off] = 0)
          /\ cntMax' = cntMax - 1
          /\ pc' = IF cntMax' > 0 THEN "sync" ELSE "idle"
          /\ off' = IF off + 1 = Size THEN 0 ELSE off + 1
  /\ consumed' = IF pc' = "idle" THEN written ELSE consumed
  /\ Stops
  /\ UNCHANGED writer

(* Mutant: the loop's count is not set again for another call.             *)
dsp_logbuf_print_OldCount ==
  /\ pc = "idle"
  /\ buf[off] # 0
  /\ bLZ' = FALSE
  /\ pc' = "print"
  /\ UNCHANGED <<writer, off, cntMax, consumed, mark>>

(* dsp_logbuf_print: nothing is printed if there is a 0 at the offset.     *)
dsp_logbuf_print ==
  /\ pc = "idle"
  /\ buf[off] # 0
  /\ cntMax' = Size
  /\ bLZ' = FALSE
  /\ pc' = "print"
  /\ UNCHANGED <<writer, off, consumed, mark>>

(* Two zeros in a row: the end.                                            *)
PrintEnd ==
  /\ pc = "print"
  /\ buf[off] = 0 /\ bLZ
  /\ pc' = "idle"
  /\ Stops
  /\ UNCHANGED <<writer, off, cntMax, bLZ, consumed>>

(* Mutant: the marker is passed over.                                      *)
PrintChar_PastMarker ==
  /\ pc = "print"
  /\ off' = Advance(off, 1)
  /\ bLZ' = (buf[off] = 0)
  /\ cntMax' = cntMax - 2
  /\ pc' = IF cntMax' > 0 THEN "print" ELSE "idle"
  /\ consumed' = consumed + 1
  /\ Stops
  /\ UNCHANGED writer

(* A turn that does not end the loop prints the character if it is not 0.  *)
(* Both the turn and the loop's condition count cntMax down: a call takes  *)
(* half of Size characters at most.                                        *)
PrintChar ==
  /\ pc = "print"
  /\ ~ (buf[off] = 0 /\ bLZ)
  /\ off' = Advance(off, 1)
  /\ bLZ' = (buf[off] = 0)
  /\ cntMax' = cntMax - 2
  /\ pc' = IF cntMax' > 0 THEN "print" ELSE "idle"
  /\ consumed' = consumed + 1
  /\ Stops
  /\ UNCHANGED writer

Reader ==
  loc_logbuf_startup_sync \/ dsp_logbuf_print \/ PrintEnd \/ PrintChar

(* The log is idle.                                                        *)
Quiet == pc \in {"closed", "idle"} /\ UNCHANGED vars

(* Assumed of the programs, not of this code: what they log from the end   *)
(* of one print to the end of the next, and when one opens the device.     *)
MayLog(n) ==
  /\ pc # "closed" => (written - mark) + n <= Burst
  /\ pc = "sync" => AnyStart

MayOpen == AnyStart \/ buf[0] # 0 \/ writep = 0

Next ==
  \/ \E n \in Lengths : MayLog(n) /\ loc_logbuf_addline(n)
  \/ MayOpen /\ loc_logbuf_map
  \/ Reader
  \/ Quiet

Spec == Init /\ [][Next]_vars

(* The client prints again and again, and its loops go on.                 *)
FairSpec == Spec /\ WF_vars(Reader)
-----------------------------------------------------------------------------
(* Types.                                                                  *)
TypeOK ==
  /\ buf \in [Offsets -> Nat]
  /\ writep \in Offsets
  /\ written \in 0 .. MaxChars
  /\ off \in Offsets
  /\ pc \in {"closed", "sync", "idle", "print"}
  /\ cntMax \in -1 .. Size
  /\ bLZ \in BOOLEAN
  /\ consumed \in Nat
  /\ mark \in Nat

(* What is printed is what was written, in the order it was written.       *)
InOrder ==
  [][PrintChar => buf[off] \in {0, consumed'}]_vars

(* A reader with lines to print does not take the end of a line for the    *)
(* end of the log: its loop, which may be stopped by its count before it   *)
(* comes to the marker, never leaves off at the final 0 of a line, as long *)
(* as the DSP has written no more than Burst.                              *)
NeverStuck == pc = "idle" /\ consumed # written => buf[off] # 0

(* Every line is printed.                                                  *)
AllPrinted == pc # "closed" ~> consumed = written
=============================================================================

---------------------------- MODULE LogbufProofs ----------------------------
(***************************************************************************)
(* Proofs about the log buffer, for rings and lines of any length, if from *)
(* the end of one print to the end of the next the DSP writes half of the  *)
(* ring at most, and the device is opened while the log is quiet.          *)
(***************************************************************************)
EXTENDS Logbuf, TLAPS

Quietly == 2 * Burst <= Size /\ ~ AnyStart

(* Where character k is: the last one written is before the write offset.  *)
At(k) ==
  IF writep > written - k THEN writep - (written - k) - 1
  ELSE writep - (written - k) - 1 + Size

(* The characters that have not been overwritten, by the marker neither.   *)
Window == {k \in 1 .. written : written - k <= Size - 2}

(* The marker, the characters before it, the ends of lines.                *)
Ring ==
  /\ writep <= written
  /\ written > 0 => Size >= 3
  /\ buf[writep] = 0
  /\ \A k \in Window : buf[At(k)] \in {0, k}
  /\ \A k \in Window : k + 1 \in Window => buf[At(k)] # 0 \/ buf[At(k + 1)] # 0
  /\ 1 \in Window => buf[At(1)] # 0
  /\ written > 0 => buf[At(written)] = 0

(* The reader is behind by n characters at most, and stands at the first   *)
(* of them.                                                                *)
Follows(n) ==
  /\ consumed <= written
  /\ 2 * (written - consumed) <= n
  /\ off = At(consumed + 1)

(* The last character it has passed ends a line.                           *)
LineEnd == consumed > 0 /\ buf[At(consumed)] = 0

Syncs ==
  /\ 1 <= writep /\ off <= writep
  /\ cntMax = Size - off
  /\ bLZ <=> off > 0 /\ buf[off - 1] = 0

Idles ==
  /\ Follows(Size)
  /\ consumed > 0 => LineEnd
  /\ mark = consumed /\ written - mark <= Burst

Prints ==
  /\ cntMax > 0 /\ written > 0
  /\ Follows(cntMax)
  /\ cntMax = Size - 2 * (consumed - mark) /\ written - mark <= Burst
  /\ (bLZ <=> LineEnd) \/ (~ bLZ /\ buf[off] # 0)

Reads ==
  /\ pc = "sync" => Syncs
  /\ pc = "idle" => Idles
  /\ pc = "print" => Prints

IInv == TypeOK /\ Ring /\ Reads
-----------------------------------------------------------------------------
(* A line of n characters: where the older ones are does not change, the   *)
(* new ones follow them, and the marker follows these.                     *)
LEMMA Places ==
  ASSUME TypeOK, NEW n \in 2 .. Size - 1, loc_logbuf_addline(n)
  PROVE  /\ \A k \in 1 .. written + 1 :
              written + n - k <= Size - 2 =>
                /\ At(k)' = At(k)
                /\ At(k) \in Offsets
                /\ k <= written => Behind(At(k)) > n
         /\ \A k \in written + 1 .. written + n :
              /\ At(k)' \in Offsets
              /\ Behind(At(k)') = k - written - 1
         /\ writep' \in Offsets /\ Behind(writep') = n
<1>1. /\ Size \in Nat \ {0} /\ writep \in 0 .. Size - 1 /\ written \in Nat
      /\ n \in Nat /\ 2 <= n /\ n < Size
  BY LogbufAssumption DEF LogbufAssumption, TypeOK, Offsets
<1>2. /\ written' = written + n
      /\ writep' = IF writep + n >= Size THEN writep + n - Size ELSE writep + n
  BY DEF loc_logbuf_addline, Advance
<1>3. ASSUME NEW k \in 1 .. written + 1, written + n - k <= Size - 2
      PROVE  /\ At(k)' = At(k)
             /\ At(k) \in Offsets
             /\ k <= written => Behind(At(k)) > n
  BY <1>1, <1>2, <1>3 DEF At, Behind, Offsets
<1>4. ASSUME NEW k \in written + 1 .. written + n
      PROVE  At(k)' \in Offsets /\ Behind(At(k)') = k - written - 1
  BY <1>1, <1>2, <1>4 DEF At, Behind, Offsets
<1>5. writep' \in Offsets /\ Behind(writep') = n
  BY <1>1, <1>2 DEF Behind, Offsets
<1> QED  BY <1>3, <1>4, <1>5

(* What is there then.                                                     *)
LEMMA Contents ==
  ASSUME TypeOK, NEW n \in 2 .. Size - 1, loc_logbuf_addline(n)
  PROVE  /\ \A k \in 1 .. written :
              written + n - k <= Size - 2 => buf'[At(k)] = buf[At(k)]
         /\ \A k \in written + 1 .. written + n :
              buf'[At(k)'] = IF k = written + n THEN 0 ELSE k
         /\ buf'[writep'] = 0
<1>1. \A i \in Offsets :
        buf'[i] = IF Behind(i) < n THEN Char(Behind(i), n)
                  ELSE IF Behind(i) = n THEN 0 ELSE buf[i]
  BY DEF loc_logbuf_addline, Append
<1>2. n \in Nat /\ written \in Nat
  BY DEF TypeOK
<1>3. ASSUME NEW k \in 1 .. written, written + n - k <= Size - 2
      PROVE  buf'[At(k)] = buf[At(k)]
  <2>1. k \in 1 .. written + 1 /\ k <= written
    BY <1>2
  <2>2. At(k) \in Offsets /\ Behind(At(k)) > n
    BY <1>3, <2>1, Places
  <2>3. Behind(At(k)) \in Int
    BY <2>2, LogbufAssumption DEF LogbufAssumption, Behind, Offsets, TypeOK
  <2>4. ~ (Behind(At(k)) < n) /\ Behind(At(k)) # n
    BY <1>2, <2>2, <2>3
  <2> QED  BY <1>1, <2>2, <2>4
<1>4. ASSUME NEW k \in written + 1 .. written + n
      PROVE  buf'[At(k)'] = IF k = written + n THEN 0 ELSE k
  <2>1. At(k)' \in Offsets /\ Behind(At(k)') = k - written - 1
    BY Places
  <2>2. buf'[At(k)'] = Char(k - written - 1, n)
    BY <1>1, <1>2, <2>1
  <2> QED  BY <1>2, <2>2 DEF Char
<1>5. buf'[writep'] = 0
  BY <1>1, <1>2, Places
<1> QED  BY <1>3, <1>4, <1>5

(* The ring stays what it is.                                              *)
LEMMA RingAppend ==
  ASSUME TypeOK, Ring, NEW n \in 2 .. Size - 1, loc_logbuf_addline(n)
  PROVE  Ring'
<1>1. n \in Nat /\ written \in Nat /\ Size \in Nat /\ 2 <= n /\ n < Size
  BY LogbufAssumption DEF LogbufAssumption, TypeOK
<1>2. written' = written + n
  BY DEF loc_logbuf_addline
<1>3. \A k \in Window' :
        \/ /\ k \in Window /\ k <= written
           /\ written + n - k <= Size - 2
           /\ At(k)' = At(k) /\ buf'[At(k)'] = buf[At(k)]
        \/ /\ k \in written + 1 .. written + n
           /\ buf'[At(k)'] = IF k = written + n THEN 0 ELSE k
  <2> SUFFICES ASSUME NEW k \in Window'
               PROVE  \/ /\ k \in Window /\ k <= written
                         /\ written + n - k <= Size - 2
                         /\ At(k)' = At(k) /\ buf'[At(k)'] = buf[At(k)]
                      \/ /\ k \in written + 1 .. written + n
                         /\ buf'[At(k)'] = IF k = written + n THEN 0 ELSE k
    OBVIOUS
  <2>1. k \in 1 .. written + n /\ written + n - k <= Size - 2
    BY <1>1, <1>2 DEF Window
  <2>2. CASE k <= written
    <3>1. k \in 1 .. written /\ k \in 1 .. written + 1
      BY <1>1, <2>1, <2>2
    <3>2. k \in Window
      BY <1>1, <2>1, <3>1 DEF Window
    <3> QED  BY <2>1, <2>2, <3>1, <3>2, Places, Contents
  <2>3. CASE k > written
    <3>1. k \in written + 1 .. written + n
      BY <1>1, <2>1, <2>3
    <3> QED  BY <3>1, Contents
  <2> QED  BY <1>1, <2>1, <2>2, <2>3
<1>4. writep' <= written'
  BY <1>1, <1>2 DEF loc_logbuf_addline, Advance, Ring, TypeOK, Offsets
<1>5. written' > 0 => Size >= 3
  BY <1>1
<1>6. buf'[writep'] = 0
  BY Contents
<1>7. \A k \in Window' : buf'[At(k)'] \in {0, k}
  BY <1>1, <1>3 DEF Ring
<1>8. ASSUME NEW k \in Window', k + 1 \in Window'
      PROVE  buf'[At(k)'] # 0 \/ buf'[At(k + 1)'] # 0
  <2>1. k \in Nat /\ k > 0
    BY <1>1, <1>2 DEF Window
  <2>2. CASE k + 1 <= written
    BY <1>1, <1>3, <1>8, <2>1, <2>2 DEF Ring
  <2>3. CASE k + 1 = written + 1
    BY <1>1, <1>3, <1>8, <2>1, <2>3
  <2>4. CASE k + 1 > written + 1
    BY <1>1, <1>3, <1>8, <2>1, <2>4
  <2> QED  BY <1>1, <2>1, <2>2, <2>3, <2>4
<1>9. buf'[At(written)'] = 0
  <2>1. written' \in written + 1 .. written + n
    BY <1>1, <1>2
  <2> QED  BY <1>2, <2>1, Contents DEF At
<1>10. 1 \in Window' => buf'[At(1)'] # 0
  BY <1>1, <1>3 DEF Ring
<1> QED  BY <1>4, <1>5, <1>6, <1>7, <1>8, <1>9, <1>10 DEF Ring

(* What the ring says of the reader's place.                               *)
LEMMA ReaderPlace ==
  ASSUME TypeOK, Ring, NEW n \in Nat, n <= Size, Follows(n)
  PROVE  /\ consumed = written => off = writep /\ buf[off] = 0
         /\ consumed = written /\ consumed > 0 => LineEnd
         /\ consumed < written => consumed + 1 \in Window
         /\ consumed < written => buf[off] \in {0, consumed + 1}
         /\ consumed < written /\ (LineEnd \/ consumed = 0) => buf[off] # 0
<1>1. /\ Size \in Nat \ {0} /\ writep \in 0 .. Size - 1
      /\ written \in Nat /\ consumed \in Nat
      /\ consumed <= written /\ 2 * (written - consumed) <= Size
  BY LogbufAssumption DEF LogbufAssumption, TypeOK, Offsets, Follows
<1>2. ASSUME consumed = written PROVE off = writep /\ buf[off] = 0
  BY <1>1, <1>2 DEF Follows, At, Ring
<1>3. ASSUME consumed = written, consumed > 0 PROVE LineEnd
  BY <1>3 DEF LineEnd, Ring
<1>4. ASSUME consumed < written
      PROVE  /\ consumed + 1 \in Window
             /\ buf[off] \in {0, consumed + 1}
             /\ LineEnd \/ consumed = 0 => buf[off] # 0
  <2>1. Size >= 3
    BY <1>1, <1>4 DEF Ring
  <2>2. consumed + 1 \in Window
    BY <1>1, <1>4, <2>1 DEF Window
  <2>3. consumed > 0 => consumed \in Window
    BY <1>1, <1>4, <2>1 DEF Window
  <2> QED  BY <2>2, <2>3 DEF Ring, Follows, LineEnd
<1> QED  BY <1>2, <1>3, <1>4

(* The DSP appends a line.                                                 *)
LEMMA ReadsAppend ==
  ASSUME IInv, Quietly, NEW n \in Lengths, MayLog(n), loc_logbuf_addline(n)
  PROVE  Reads'
<1>1. n \in 2 .. Size - 1
  BY LogbufAssumption DEF LogbufAssumption
<1>2. /\ Size \in Nat \ {0} /\ written \in Nat /\ consumed \in Nat /\ cntMax \in Int
      /\ n \in Nat /\ n >= 2 /\ mark \in Nat /\ Burst \in Nat /\ 2 * Burst <= Size
  BY <1>1, LogbufAssumption DEF LogbufAssumption, IInv, TypeOK, Quietly
<1>3. written' = written + n /\ UNCHANGED <<pc, off, cntMax, bLZ, consumed, mark>>
  BY DEF loc_logbuf_addline, reader
<1>4. pc # "sync" /\ (pc # "closed" => (written - mark) + n <= Burst)
  BY DEF MayLog, Quietly
<1>5. ASSUME NEW m \in Nat, m <= Size, Follows(m), 2 * (written - consumed + n) <= m
      PROVE  /\ Follows(m)'
             /\ LineEnd' <=> LineEnd
             /\ buf[off] # 0 => buf'[off] # 0
  <2>1. /\ consumed <= written
        /\ written + n - consumed <= Size - 2
        /\ consumed + 1 \in 1 .. written + 1
    BY <1>2, <1>5 DEF Follows
  <2>2. At(consumed + 1)' = At(consumed + 1)
    BY <1>1, <1>2, <1>3, <2>1, LogbufAssumption
    DEF LogbufAssumption, IInv, TypeOK, Offsets, loc_logbuf_addline, Advance, At
  <2>3. Follows(m)'
    BY <1>2, <1>3, <1>5, <2>2 DEF Follows
  <2>4. ASSUME consumed > 0
        PROVE  At(consumed)' = At(consumed) /\ buf'[At(consumed)] = buf[At(consumed)]
    <3>1. consumed \in 1 .. written
      BY <1>2, <2>1, <2>4
    <3>2. buf'[At(consumed)] = buf[At(consumed)]
      BY <1>1, <2>1, <3>1, Contents DEF IInv
    <3>3. At(consumed)' = At(consumed)
      BY <1>1, <1>2, <1>3, <2>1, <3>1, LogbufAssumption
      DEF LogbufAssumption, IInv, TypeOK, Offsets, loc_logbuf_addline, Advance, At
    <3> QED  BY <3>2, <3>3
  <2>5. LineEnd' <=> LineEnd
    BY <1>3, <2>4 DEF LineEnd
  <2>6. ASSUME buf[off] # 0 PROVE buf'[off] # 0
    <3>1. consumed < written
      BY <1>2, <1>5, <2>6, ReaderPlace DEF IInv, Follows
    <3>2. consumed + 1 \in 1 .. written /\ written + n - (consumed + 1) <= Size - 2
      BY <1>2, <2>1, <3>1
    <3>3. buf'[At(consumed + 1)] = buf[At(consumed + 1)]
      BY <1>1, <3>2, Contents DEF IInv
    <3> QED  BY <1>5, <2>6, <3>3 DEF Follows
  <2> QED  BY <2>3, <2>5, <2>6
<1>6. CASE pc = "idle"
  <2>1. Follows(Size) /\ (consumed > 0 => LineEnd) /\ mark = consumed
    BY <1>6 DEF IInv, Reads, Idles
  <2>2. 2 * (written - consumed + n) <= Size
    BY <1>2, <1>4, <1>6, <2>1
  <2>3. Follows(Size)' /\ (LineEnd' <=> LineEnd)
    BY <1>2, <1>5, <2>1, <2>2
  <2>4. mark' = consumed' /\ written' - mark' <= Burst
    BY <1>2, <1>3, <1>4, <1>6, <2>1
  <2> QED  BY <1>3, <1>6, <2>1, <2>3, <2>4 DEF Reads, Idles
<1>7. CASE pc = "print"
  <2>1. Prints
    BY <1>7 DEF IInv, Reads
  <2>2. 2 * (written - consumed + n) <= cntMax /\ cntMax \in Nat /\ cntMax <= Size
    BY <1>2, <1>4, <1>7, <2>1 DEF Prints, IInv, TypeOK
  <2>3. Follows(cntMax)' /\ (LineEnd' <=> LineEnd) /\ (buf[off] # 0 => buf'[off] # 0)
    BY <1>3, <1>5, <2>1, <2>2 DEF Prints, Follows
  <2>4. written' - mark' <= Burst
    BY <1>2, <1>3, <1>4, <1>7
  <2> QED  BY <1>2, <1>3, <1>7, <2>1, <2>3, <2>4 DEF Reads, Prints
<1>8. CASE pc = "closed"
  BY <1>3, <1>8 DEF Reads
<1> QED  BY <1>4, <1>6, <1>7, <1>8 DEF IInv, TypeOK

(* The ring and the characters in it are the writer's.                     *)
LEMMA RingKept ==
  ASSUME Ring, UNCHANGED writer
  PROVE  Ring' /\ (\A k \in Nat : At(k)' = At(k)) /\ UNCHANGED <<buf, writep, written>>
BY DEF Ring, At, Window, writer

(* The reader opens the device: it is at the end of the log, or begins to  *)
(* look for it at the start of the ring.                                   *)
LEMMA ReadsMap ==
  ASSUME IInv, Quietly, MayOpen, loc_logbuf_map
  PROVE  TypeOK' /\ Reads'
<1>1. /\ Size \in Nat \ {0} /\ writep \in 0 .. Size - 1 /\ written \in Nat
      /\ consumed \in Nat /\ mark \in Nat /\ Burst \in Nat
  BY LogbufAssumption DEF LogbufAssumption, IInv, TypeOK, Offsets
<1>2. UNCHANGED <<buf, writep, written>> /\ \A k \in Nat : At(k)' = At(k)
  BY RingKept DEF IInv, loc_logbuf_map
<1>3. CASE buf[0] = 0
  <2>1. /\ writep = 0 /\ pc' = "idle" /\ off' = 0 /\ cntMax' = Size /\ bLZ' = FALSE
        /\ consumed' = written /\ mark' = written
    BY <1>3 DEF MayOpen, loc_logbuf_map, Stops, Quietly
  <2>2. TypeOK'
    <3>1. off' \in Offsets
      BY <1>1, <2>1 DEF Offsets
    <3>2. cntMax' \in -1 .. Size
      BY <1>1, <2>1
    <3>3. bLZ' \in BOOLEAN /\ consumed' \in Nat /\ mark' \in Nat
      BY <1>1, <2>1
    <3> QED  BY <1>2, <2>1, <3>1, <3>2, <3>3 DEF IInv, TypeOK
  <2>3. At(consumed + 1)' = 0
    <3>1. written' - (consumed' + 1) = -1 /\ writep' = 0
      BY <1>1, <1>2, <2>1
    <3> QED  BY <3>1 DEF At
  <2>4. Follows(Size)'
    BY <1>1, <1>2, <2>1, <2>3 DEF Follows
  <2>5. consumed' > 0 => LineEnd'
    BY <1>1, <1>2, <2>1 DEF LineEnd, IInv, Ring, At
  <2>6. mark' = consumed' /\ written' - mark' <= Burst
    BY <1>1, <1>2, <2>1
  <2> QED  BY <2>1, <2>2, <2>4, <2>5, <2>6 DEF Reads, Idles
<1>4. CASE buf[0] # 0
  <2>1. /\ pc' = "sync" /\ off' = 0 /\ cntMax' = Size /\ bLZ' = FALSE
        /\ consumed' = consumed /\ mark' = mark
    BY <1>4 DEF loc_logbuf_map, Stops
  <2>2. TypeOK'
    <3>1. off' \in Offsets
      BY <1>1, <2>1 DEF Offsets
    <3>2. cntMax' \in -1 .. Size
      BY <1>1, <2>1
    <3>3. bLZ' \in BOOLEAN /\ consumed' \in Nat /\ mark' \in Nat
      BY <1>1, <2>1
    <3> QED  BY <1>2, <2>1, <3>1, <3>2, <3>3 DEF IInv, TypeOK
  <2>3. writep # 0
    BY <1>4 DEF IInv, Ring
  <2>4. Syncs'
    BY <1>1, <1>2, <2>1, <2>3 DEF Syncs
  <2> QED  BY <2>1, <2>2, <2>4 DEF Reads
<1> QED  BY <1>3, <1>4

(* The first two zeros in a row from offset 0 on are the end of the last   *)
(* line and the marker.                                                    *)
LEMMA ReadsSync ==
  ASSUME IInv, loc_logbuf_startup_sync
  PROVE  TypeOK' /\ Reads'
<1>1. /\ Size \in Nat \ {0} /\ writep \in 0 .. Size - 1 /\ written \in Nat
      /\ consumed \in Nat /\ off \in Nat /\ mark \in Nat /\ Burst \in Nat
      /\ writep <= written /\ 1 <= writep /\ off <= writep
      /\ cntMax = Size - off /\ (bLZ <=> off > 0 /\ buf[off - 1] = 0) /\ pc = "sync"
  BY LogbufAssumption
  DEF LogbufAssumption, IInv, TypeOK, Offsets, Ring, Reads, Syncs,
      loc_logbuf_startup_sync
<1>2. UNCHANGED <<buf, writep, written>> /\ \A k \in Nat : At(k)' = At(k)
  BY RingKept DEF IInv, loc_logbuf_startup_sync
<1>3. CASE off = writep
  <2>1. At(written) = writep - 1
    BY <1>1 DEF At
  <2>2. buf[off] = 0 /\ bLZ
    BY <1>1, <1>3, <2>1 DEF IInv, Ring
  <2>3. pc' = "idle" /\ UNCHANGED <<off, cntMax, bLZ>> /\ consumed' = written /\ mark' = written
    BY <2>2 DEF loc_logbuf_startup_sync, Stops
  <2>4. At(written + 1) = off
    BY <1>1, <1>3 DEF At
  <2>5. Follows(Size)'
    BY <1>1, <1>2, <2>3, <2>4 DEF Follows
  <2>6. consumed' > 0 => LineEnd'
    BY <1>1, <1>2, <2>3 DEF LineEnd, IInv, Ring
  <2>7. TypeOK'
    BY <1>1, <1>2, <2>3 DEF IInv, TypeOK
  <2>8. mark' = consumed' /\ written' - mark' <= Burst
    BY <1>1, <1>2, <2>3
  <2> QED  BY <2>3, <2>5, <2>6, <2>7, <2>8 DEF Reads, Idles
<1>4. CASE off < writep
  <2>1. ~ (buf[off] = 0 /\ bLZ)
    <3> SUFFICES ASSUME buf[off] = 0, off > 0, buf[off - 1] = 0 PROVE FALSE
      BY <1>1
    <3> DEFINE k == written - (writep - off)
    <3>1. k \in Window /\ k + 1 \in Window
      BY <1>1, <1>4 DEF Window
    <3>2. At(k) = off - 1 /\ At(k + 1) = off
      BY <1>1, <1>4 DEF At
    <3> HIDE DEF k
    <3> QED  BY <3>1, <3>2 DEF IInv, Ring
  <2>2. /\ bLZ' = (buf[off] = 0)
        /\ cntMax' = cntMax - 1
        /\ pc' = "sync"
        /\ off' = off + 1
        /\ consumed' = consumed /\ mark' = mark
    BY <1>1, <1>4, <2>1 DEF loc_logbuf_startup_sync, Stops
  <2>3. TypeOK'
    BY <1>1, <1>2, <1>4, <2>2 DEF IInv, TypeOK, Offsets
  <2>4. bLZ' <=> off' > 0 /\ buf'[off' - 1] = 0
    <3>1. off' > 0 /\ off' - 1 = off
      BY <1>1, <2>2
    <3> QED  BY <1>2, <2>2, <3>1
  <2> QED  BY <1>1, <1>2, <1>4, <2>2, <2>3, <2>4 DEF Reads, Syncs
<1> QED  BY <1>1, <1>3, <1>4

(* A turn that prints has something to print.                              *)
LEMMA Pending ==
  ASSUME IInv, PrintChar
  PROVE  consumed < written /\ buf[off] \in {0, consumed + 1}
<1>1. /\ pc = "print" /\ Prints /\ cntMax \in Nat /\ cntMax <= Size
      /\ consumed \in Nat /\ written \in Nat /\ Size \in Nat
  BY LogbufAssumption
  DEF LogbufAssumption, IInv, TypeOK, Reads, PrintChar, Prints
<1>2. Follows(cntMax)
  BY <1>1 DEF Prints
<1>3. consumed # written
  <2> SUFFICES ASSUME consumed = written PROVE FALSE
    OBVIOUS
  <2>1. buf[off] = 0 /\ (consumed > 0 => LineEnd)
    BY <1>1, <1>2, ReaderPlace DEF IInv
  <2>2. ~ bLZ
    BY <2>1 DEF PrintChar
  <2>3. consumed > 0
    BY <1>1 DEF Prints
  <2> QED  BY <1>1, <2>1, <2>2, <2>3 DEF Prints
<1> QED  BY <1>1, <1>2, <1>3, ReaderPlace DEF IInv, Follows

(* It stands at the next character then, and at the end of a line if that  *)
(* was the last turn of the loop.                                          *)
LEMMA ReadsChar ==
  ASSUME IInv, PrintChar
  PROVE  TypeOK' /\ Reads'
<1>1. /\ Size \in Nat \ {0} /\ writep \in 0 .. Size - 1 /\ written \in Nat
      /\ consumed \in Nat /\ cntMax \in Nat /\ cntMax > 0 /\ cntMax <= Size
      /\ written > 0
      /\ consumed < written /\ 2 * (written - consumed) <= cntMax
      /\ cntMax = Size - 2 * (consumed - mark) /\ written - mark <= Burst
      /\ mark \in Nat /\ Burst \in Nat
      /\ off = At(consumed + 1) /\ off \in 0 .. Size - 1 /\ pc = "print"
  BY Pending, LogbufAssumption
  DEF LogbufAssumption, IInv, TypeOK, Offsets, Reads, Prints, Follows, PrintChar
<1>2. UNCHANGED <<buf, writep, written>>
  BY RingKept DEF IInv, PrintChar
<1>3. /\ off' = Advance(off, 1) /\ cntMax' = cntMax - 2 /\ consumed' = consumed + 1
      /\ bLZ' = (buf[off] = 0)
      /\ pc' = IF cntMax' > 0 THEN "print" ELSE "idle"
      /\ mark' = IF pc' = "idle" THEN written ELSE mark
  BY DEF PrintChar, Stops
<1>4. off' = At(consumed + 1)'
  BY <1>1, <1>2, <1>3 DEF Advance, At
<1>5. TypeOK'
  <2>1. off' \in Offsets
    BY <1>1, <1>3 DEF Advance, Offsets
  <2>2. cntMax' \in -1 .. Size /\ consumed' \in Nat /\ mark' \in Nat
    BY <1>1, <1>3
  <2>3. bLZ' \in BOOLEAN
    BY <1>3
  <2>4. pc' \in {"closed", "sync", "idle", "print"}
    BY <1>3
  <2> QED  BY <1>2, <2>1, <2>2, <2>3, <2>4 DEF IInv, TypeOK
<1>6. At(consumed)' = off
  BY <1>1, <1>2, <1>3 DEF At
<1>7. bLZ' <=> LineEnd'
  <2>1. consumed' > 0
    BY <1>1, <1>3
  <2> QED  BY <1>2, <1>3, <1>6, <2>1 DEF LineEnd
<1>8. CASE cntMax' > 0
  <2>1. Follows(cntMax)'
    BY <1>1, <1>2, <1>3, <1>4 DEF Follows
  <2>2. pc' = "print"
    BY <1>3, <1>8
  <2>3. cntMax' = Size - 2 * (consumed' - mark') /\ written' - mark' <= Burst
    BY <1>1, <1>2, <1>3, <2>2
  <2>4. Prints'
    BY <1>1, <1>2, <1>7, <1>8, <2>1, <2>3 DEF Prints
  <2> QED  BY <1>5, <2>2, <2>4 DEF Reads
<1>9. CASE ~ (cntMax' > 0)
  <2>1. consumed' = written
    BY <1>1, <1>3, <1>9
  <2>2. Follows(Size)'
    BY <1>1, <1>2, <1>4, <2>1 DEF Follows
  <2>3. LineEnd'
    BY <1>1, <1>2, <2>1 DEF LineEnd, IInv, Ring, At
  <2>4. pc' = "idle"
    BY <1>3, <1>9
  <2>5. mark' = consumed' /\ written' - mark' <= Burst
    BY <1>1, <1>2, <1>3, <2>1, <2>4
  <2> QED  BY <1>5, <2>2, <2>3, <2>4, <2>5 DEF Reads, Idles
<1> QED  BY <1>5, <1>8, <1>9

(* Two zeros: the second one is the marker.                                *)
LEMMA ReadsEnd ==
  ASSUME IInv, PrintEnd
  PROVE  TypeOK' /\ Reads'
<1>1. /\ Size \in Nat /\ written \in Nat /\ consumed \in Nat
      /\ cntMax \in Nat /\ cntMax <= Size
      /\ pc = "print" /\ buf[off] = 0 /\ bLZ /\ Follows(cntMax)
  BY LogbufAssumption DEF LogbufAssumption, IInv, TypeOK, Reads, Prints, PrintEnd
<1>2. LineEnd
  BY <1>1 DEF IInv, Reads, Prints
<1>3. consumed = written
  BY <1>1, <1>2, ReaderPlace DEF IInv, Follows
<1>4. /\ pc' = "idle" /\ mark' = written
      /\ UNCHANGED <<buf, writep, written, off, cntMax, bLZ, consumed>>
  BY DEF PrintEnd, Stops, writer
<1>5. Follows(Size)' /\ LineEnd'
  BY <1>1, <1>2, <1>3, <1>4 DEF Follows, LineEnd, At
<1>6. mark' = consumed' /\ written' - mark' <= Burst
  BY <1>1, <1>3, <1>4, LogbufAssumption DEF LogbufAssumption
<1> QED  BY <1>4, <1>5, <1>6 DEF IInv, TypeOK, Reads, Idles

(* There is something to print.                                            *)
LEMMA ReadsPrint ==
  ASSUME IInv, dsp_logbuf_print
  PROVE  TypeOK' /\ Reads'
<1>1. /\ Size \in Nat \ {0} /\ written \in Nat /\ consumed \in Nat
      /\ pc = "idle" /\ buf[off] # 0 /\ Follows(Size)
      /\ mark = consumed /\ written - mark <= Burst
  BY LogbufAssumption DEF LogbufAssumption, IInv, TypeOK, Reads, Idles, dsp_logbuf_print
<1>2. consumed < written
  BY <1>1, ReaderPlace DEF IInv, Follows
<1>3. /\ pc' = "print" /\ cntMax' = Size /\ bLZ' = FALSE
      /\ UNCHANGED <<buf, writep, written, off, consumed, mark>>
  BY DEF dsp_logbuf_print, writer
<1>4. cntMax' \in -1 .. Size /\ cntMax' > 0
  BY <1>1, <1>3
<1>5. bLZ' \in BOOLEAN
  BY <1>3
<1>6. Follows(cntMax)'
  BY <1>1, <1>3 DEF Follows, At
<1>7. buf'[off'] # 0 /\ ~ bLZ' /\ written' > 0
  BY <1>1, <1>2, <1>3
<1>8. cntMax' = Size - 2 * (consumed' - mark') /\ written' - mark' <= Burst
  BY <1>1, <1>3
<1>9. Prints'
  BY <1>4, <1>6, <1>7, <1>8 DEF Prints
<1> QED  BY <1>3, <1>4, <1>5, <1>9 DEF IInv, TypeOK, Reads
-----------------------------------------------------------------------------
(* A line keeps the types.                                                 *)
LEMMA AppendTypes ==
  ASSUME TypeOK, NEW n \in Lengths, loc_logbuf_addline(n)
  PROVE  TypeOK'
<1>1. /\ n \in 2 .. Size - 1 /\ n \in Nat /\ Size \in Nat \ {0}
      /\ written \in Nat /\ writep \in 0 .. Size - 1 /\ MaxChars \in Nat
  BY LogbufAssumption DEF LogbufAssumption, TypeOK, Offsets
<1>2. \A i \in Offsets : Behind(i) \in Nat
  BY <1>1 DEF Behind, Offsets
<1>3. buf' \in [Offsets -> Nat]
  BY <1>1, <1>2 DEF loc_logbuf_addline, Append, Char, TypeOK
<1>4. writep' \in Offsets
  BY <1>1 DEF loc_logbuf_addline, Advance, Offsets
<1>5. written' \in 0 .. MaxChars
  BY <1>1 DEF loc_logbuf_addline
<1> QED  BY <1>3, <1>4, <1>5 DEF loc_logbuf_addline, reader, TypeOK

(* The ring to begin with.                                                 *)
LEMMA InitIInv == Init => IInv
<1> SUFFICES ASSUME Init PROVE IInv
  OBVIOUS
<1>1. 0 \in Offsets /\ 0 \in 0 .. MaxChars /\ 0 \in -1 .. Size
  BY LogbufAssumption DEF LogbufAssumption, Offsets
<1>2. FALSE \in BOOLEAN
  OBVIOUS
<1>3. TypeOK
  BY <1>1, <1>2 DEF Init, TypeOK
<1>4. Window = {}
  BY DEF Init, Window
<1>5. Ring
  BY <1>1, <1>4 DEF Init, Ring
<1>6. Reads
  BY DEF Init, Reads
<1> QED  BY <1>3, <1>5, <1>6 DEF IInv

(* Every step keeps the invariant.                                         *)
LEMMA NextIInv ==
  ASSUME IInv, Quietly, [Next]_vars
  PROVE  IInv'
<1>1. ASSUME NEW n \in Lengths, MayLog(n), loc_logbuf_addline(n) PROVE IInv'
  <2>1. n \in 2 .. Size - 1
    BY LogbufAssumption DEF LogbufAssumption
  <2> QED  BY <1>1, <2>1, AppendTypes, RingAppend, ReadsAppend DEF IInv
<1>2. CASE MayOpen /\ loc_logbuf_map
  BY <1>2, ReadsMap, RingKept DEF IInv, loc_logbuf_map
<1>3. CASE loc_logbuf_startup_sync
  BY <1>3, ReadsSync, RingKept DEF IInv, loc_logbuf_startup_sync
<1>4. CASE dsp_logbuf_print
  <2>1. UNCHANGED writer
    BY <1>4 DEF dsp_logbuf_print, writer
  <2> QED  BY <1>4, <2>1, ReadsPrint, RingKept DEF IInv
<1>5. CASE PrintEnd
  <2>1. UNCHANGED writer
    BY <1>5 DEF PrintEnd, writer
  <2> QED  BY <1>5, <2>1, ReadsEnd, RingKept DEF IInv
<1>6. CASE PrintChar
  BY <1>6, ReadsChar, RingKept DEF IInv, PrintChar
<1>7. CASE UNCHANGED vars
  <2>1. UNCHANGED writer /\ UNCHANGED <<pc, off, cntMax, bLZ, consumed, mark>>
    BY <1>7 DEF vars, writer
  <2>2. UNCHANGED <<buf, writep, written>>
    BY <1>7 DEF vars
  <2>3. TypeOK' /\ Reads'
    BY <2>1, <2>2
    DEF IInv, TypeOK, Reads, Syncs, Idles, Prints, Follows, LineEnd, At
  <2> QED  BY <2>1, <2>3, RingKept DEF IInv
<1> QED
  BY <1>1, <1>2, <1>3, <1>4, <1>5, <1>6, <1>7 DEF Next, Reader, Quiet
-----------------------------------------------------------------------------
(* The inductive invariant.                                                *)
THEOREM LogbufInvariance ==
  ASSUME Quietly
  PROVE  Spec => []IInv
<1>1. IInv /\ [Next]_vars => IInv'
  BY NextIInv
<1> QED  BY InitIInv, <1>1, PTL DEF Spec

(* The type invariant; the loop counter of the reader stays in its range.  *)
THEOREM LogbufTypeCorrect ==
  ASSUME Quietly
  PROVE  Spec => []TypeOK
<1>1. IInv => TypeOK
  BY DEF IInv
<1> QED  BY <1>1, LogbufInvariance, PTL

(* A reader with lines to print never takes the end of a line for the end  *)
(* of the log, whatever the sizes of the ring and of the lines, if the DSP *)
(* writes half of the ring at most from the end of one print to the end of *)
(* the next: that is what the loop, counting down twice for a character,   *)
(* has turns for.                                                          *)
THEOREM AlwaysNeverStuck ==
  ASSUME Quietly
  PROVE  Spec => []NeverStuck
<1>1. IInv => NeverStuck
  <2> SUFFICES ASSUME IInv, pc = "idle", consumed # written PROVE buf[off] # 0
    BY DEF NeverStuck
  <2>1. /\ Size \in Nat /\ consumed \in Nat /\ written \in Nat /\ Follows(Size)
        /\ consumed > 0 => LineEnd
    BY LogbufAssumption DEF LogbufAssumption, IInv, TypeOK, Reads, Idles
  <2> QED  BY <2>1, ReaderPlace DEF IInv, Follows
<1> QED  BY <1>1, LogbufInvariance, PTL

(* What is printed is what was written, in the order it was written.       *)
THEOREM AlwaysInOrder ==
  ASSUME Quietly
  PROVE  Spec => InOrder
<1>1. IInv /\ [Next]_vars => [PrintChar => buf[off] \in {0, consumed'}]_vars
  <2> SUFFICES ASSUME IInv, PrintChar PROVE buf[off] \in {0, consumed'}
    OBVIOUS
  <2> QED  BY Pending DEF PrintChar
<1> QED  BY <1>1, LogbufInvariance, PTL DEF Spec, InOrder
=============================================================================

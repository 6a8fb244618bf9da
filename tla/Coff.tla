--------------------------------- MODULE Coff ---------------------------------
(***************************************************************************)
(* The COFF image loader: the reader (src/coff.c) and its two users, the   *)
(* program that loads the DSP image (c64_load/main.c) and the overlay      *)
(* linker (src/coff_overlay.c).                                            *)
(*                                                                         *)
(* A file is a record.  size is its length on disk and every part of it    *)
(* has an offset; header and table entries have the length 1.              *)
(*   valid     the five constants of the file and opt header are right     *)
(*   entry     the address the image is entered at                         *)
(*   secs      the section headers, in file order, at offsets 2, 3, ...    *)
(*   strtab    offset of the string table, strings its length              *)
(*   cinit     what an initialisation record at an address is about        *)
(* A section has a name, a kind, the addresses at (at = {}: not loaded),   *)
(* and off, where its raw data begin (0: none).                            *)
(*                                                                         *)
(* Memory maps an address to what it holds: data of a file as it is stored *)
(* there (Raw), the value a static variable starts with (Start), zero.     *)
(***************************************************************************)
EXTENDS Naturals, Sequences, FiniteSets, FiniteSetsExt

Raw(f, a) == <<"raw", f.name, a>>
Start(f, a) == <<"start", f.name, a>>
Zero == <<"zero">>
Junk == <<"junk">>

(* Reading.  coff_read refuses what is not all inside the file.            *)
coff_read(f, off, n) == off + n <= f.size

coff_file_header_parse(f) == coff_read(f, 0, 1) /\ f.valid

coff_opt_header_parse(f) == coff_read(f, 1, 1) /\ f.valid

(* The table closes the file: one cut short anywhere is refused here.      *)
coff_string_table_read(f) ==
  /\ coff_read(f, f.strtab, 1)
  /\ coff_read(f, f.strtab, f.strings)

coff_sec_header_parse(f, i) == coff_read(f, 1 + i, 1)

ShortNamed(f) == { i \in DOMAIN f.secs : ~ f.secs[i].long }

b_coff_bios_5xx(f) == \E i \in ShortNamed(f) : f.secs[i].name = ".bios"

(* The addresses of the first .cinit section.                              *)
coff_cinit(f) ==
  LET named == { i \in ShortNamed(f) : f.secs[i].name = ".cinit" }
  IN  IF named = {} THEN {} ELSE f.secs[Min(named)].at

Length(s) == Cardinality(s.at)

(* "Track largest text/data section": of those with a short name only.     *)
coff_max_raw_data_size(f) ==
  Max({0} \cup { Length(f.secs[i]) : i \in { j \in ShortNamed(f) : f.secs[j].off > 0 } })

loc_open_and_read_basic_headers(f) ==
  /\ coff_file_header_parse(f)
  /\ coff_opt_header_parse(f)
  /\ coff_string_table_read(f)

loc_read_section_headers(f) == \A i \in DOMAIN f.secs : coff_sec_header_parse(f, i)

coff_open(f) == loc_open_and_read_basic_headers(f) /\ loc_read_section_headers(f)
-----------------------------------------------------------------------------
(* Loading.                                                                *)
IsBSS(s) == s.kind = "bss" /\ s.at # {}
HasRaw(s) == s.kind \in {"text", "data"} /\ s.at # {} /\ s.off > 0

(* Mutant: a section without raw data keeps what was there.                *)
LoadSection_KeepsBSS(f, s, clear, copy, m) ==
  IF HasRaw(s) /\ Min(s.at) \in copy
  THEN [a \in DOMAIN m |-> IF a \in s.at THEN Raw(f, a) ELSE m[a]]
  ELSE m

(* One section.  It is cleared if it begins in clear, copied if it begins  *)
(* in copy, and skipped otherwise: where it ends is not looked at.         *)
LoadSection(f, s, clear, copy, m) ==
  [a \in DOMAIN m |->
     IF a \notin s.at THEN m[a]
     ELSE IF IsBSS(s) /\ Min(s.at) \in clear THEN Zero
     ELSE IF HasRaw(s) /\ Min(s.at) \in copy THEN Raw(f, a)
     ELSE m[a]]

(* Its raw data are inside the file.                                       *)
Readable(f, s) == HasRaw(s) => coff_read(f, s.off, Length(s))

(* Static variables: the records are taken from memory, where the .cinit   *)
(* section has just been copied; _c_int00 is not run for an overlay.  What *)
(* is not a record of the file would be applied all the same.              *)
ApplyCinit(f, m) ==
  LET at == coff_cinit(f)
      variables == { f.cinit[c] : c \in { d \in at : m[d] = Raw(f, d) } }
  IN  [a \in DOMAIN m |->
         IF \E c \in at : m[c] # Raw(f, c) THEN Junk
         ELSE IF a \in variables THEN Start(f, a) ELSE m[a]]

(* The first n sections, one after the other.                              *)
LoadSections(f, area, n, m) ==
  LET after[i \in 0 .. n] ==
        IF i = 0 THEN m ELSE LoadSection(f, f.secs[i], area, area, after[i - 1])
  IN  after[n]

(* Of an overlay n sections are read, all or up to one that cannot be.     *)
ReadEnds(f, n) ==
  /\ \A i \in 1 .. n : Readable(f, f.secs[i])
  /\ n < Len(f.secs) => HasRaw(f.secs[n + 1])

CinitRead(f, n) == coff_cinit(f) \subseteq UNION { f.secs[i].at : i \in 1 .. n }

(* Mutant: variables are given their values first, then sections loaded.   *)
coff_load_overlay_CinitFirst(f, area, n, m) == LoadSections(f, area, n, ApplyCinit(f, m))

(* Variables are set when a section could not be read, too.                *)
coff_load_overlay(f, area, n, m) == ApplyCinit(f, LoadSections(f, area, n, m))
-----------------------------------------------------------------------------
(* What memory holds when the linker's image is in place, without and with *)
(* its static variables set.  It says nothing of the order of sections.    *)
Cells(f) == UNION { f.secs[i].at : i \in DOMAIN f.secs }

Holds(f, a) ==
  IF \E i \in DOMAIN f.secs : a \in f.secs[i].at /\ IsBSS(f.secs[i])
  THEN Zero ELSE Raw(f, a)

IsLoaded(f, m) == \A a \in Cells(f) : m[a] = Holds(f, a)

IsLinked(f, m) ==
  LET variables == { f.cinit[c] : c \in coff_cinit(f) }
  IN  \A a \in Cells(f) : m[a] = IF a \in variables THEN Start(f, a) ELSE Holds(f, a)
===============================================================================

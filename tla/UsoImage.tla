------------------------------ MODULE UsoImage ------------------------------
(***************************************************************************)
(* Where the parts of a USO are: in the file, as uso_write lays them out   *)
(* (src/tools/elf2uso.cpp), and in memory, where uso_open gives the        *)
(* sections without data a place after the file's contents                 *)
(* (src/src/uso.c, fixup_section_table).                                   *)
(*                                                                         *)
(* Offsets and sizes are in bytes.  Contents are left out: a part is the   *)
(* range of bytes that it occupies.                                        *)
(***************************************************************************)
EXTENDS Integers, Sequences

CONSTANTS
  Layouts, \* the output sections of an ELF, without the dummy section 0
  Names,   \* the lengths of the ELF's name, with its terminator
  Tables,  \* the sizes of a symbol table, 0 when it has no symbols
  Bases    \* the addresses that memalign chooses from

\* Sizes of the structures of uso_internal.h
HeaderSize == 20
SectionSize == 20

ASSUME LayoutsAssumption ==
  /\ Layouts \subseteq Seq([data : BOOLEAN, size : Nat, align : Nat \ {0},
                           internal : Nat, external : Nat])
  /\ \A l \in Layouts : \A i \in DOMAIN l :
       /\ ~ l[i].data => l[i].internal + l[i].external = 0
       \* powers of two, of which the smaller divides the greater
       /\ 4 % l[i].align = 0 \/ l[i].align % 4 = 0
       /\ \A j \in DOMAIN l : l[i].align <= l[j].align => l[j].align % l[i].align = 0
  /\ Names \subseteq Nat /\ Tables \subseteq Nat /\ Bases \subseteq Nat

VARIABLES
  sections, \* out_sections: has data, size, align, numbers of relocations
  head,     \* lengths of the name, the import table and the export table
  phase,    \* "place", "write", "sum", "open", "fixup" or "done"
  i,        \* the next section of the loop in progress
  ends,     \* data_ofs of uso_get_reloc_ofs after each section
  sums,     \* size of uso_get_noload_size after each section
  dataOfs,  \* data_ofs and relocs_ofs of uso_write_sections
  relocsOfs,
  written,  \* the parts written so far: their kind, section and range
  info,     \* uso_load_info_t at the end of the file
  base,     \* handle->uso
  noload,   \* noload of fixup_section_table
  address   \* section -> its data pointer

plan == <<ends, sums>>
vars == <<sections, head, phase, i, plan, dataOfs, relocsOfs, written, info, base, noload, address>>

-----------------------------------------------------------------------------
(* Alignment.  An operator whose comment begins with "Fault:" is what the    *)
(* next definition would be with a plausible bug.                            *)

\* align_val and roundup_value, for a power of two
AlignVal(val, to) == ((val + to - 1) \div to) * to

MaxOf(S) == CHOOSE x \in S : \A y \in S : y <= x

HasData == {k \in DOMAIN sections : sections[k].data}
NoData == DOMAIN sections \ HasData

UsoAlign == MaxOf({4} \cup {sections[k].align : k \in HasData})
NoloadAlign == MaxOf({1} \cup {sections[k].align : k \in NoData})

-----------------------------------------------------------------------------
(* The file. *)

Part(kind, k, from, size) == [kind |-> kind, section |-> k, from |-> from, to |-> from + size]

ImportOfs == AlignVal(HeaderSize + head.name, 4)
AfterImport == IF head.import = 0 THEN HeaderSize + head.name ELSE ImportOfs + head.import

\* Fault: names make the import table end anywhere.
ExportOfsUnaligned == AfterImport

ExportOfs == AlignVal(AfterImport, 4)
AfterExport == IF head.export = 0 THEN AfterImport ELSE ExportOfs + head.export
SectionsOfs == AlignVal(AfterExport, 4)

\* uso_write, up to uso_write_sections: header, name, symbol tables and the table
\* of the sections, among them the dummy one
HeadParts ==
  {Part("head", 0, 0, HeaderSize + head.name)}
    \cup {Part("import", 0, ImportOfs, head.import) : s \in {head.import} \ {0}}
    \cup {Part("export", 0, ExportOfs, head.export) : s \in {head.export} \ {0}}
    \cup {Part("sections", 0, SectionsOfs, SectionSize * (Len(sections) + 1))}

\* Where the first section's data goes
DataStart ==
  LET end == SectionsOfs + SectionSize * (Len(sections) + 1)
      k   == CHOOSE k \in HasData : \A j \in HasData : k <= j
  IN  IF HasData = {} THEN end ELSE AlignVal(end, sections[k].align)

\* Fault: the space that alignment takes is forgotten.
EndOfUnaligned(k, from) == IF sections[k].data THEN from + sections[k].size ELSE from

\* The end of a section whose place is sought from there on
EndOf(k, from) ==
  IF sections[k].data THEN AlignVal(from, sections[k].align) + sections[k].size ELSE from

\* Fault: the last section may end anywhere.
RelocStartUnpadded == ends[Len(sections)]

\* The relocation tables begin after the last section's data.
RelocStart == AlignVal(ends[Len(sections)], 4)

\* One iteration of uso_get_reloc_ofs
PlaceSection ==
  /\ phase = "place" /\ i <= Len(sections)
  /\ ends' = [ends EXCEPT ![i] = EndOf(i, ends[i - 1])]
  /\ i' = i + 1
  /\ UNCHANGED <<sections, head, phase, sums, dataOfs, relocsOfs, written, info, base, noload, address>>

\* uso_get_reloc_table_size, with 12 bytes for each uso_reloc_t
RelocTableSize(n) == IF n = 0 THEN 0 ELSE 4 + 12 * n

\* One iteration of uso_write_sections
WriteSection ==
  /\ phase = "write" /\ i <= Len(sections)
  /\ LET s  == sections[i]
         at == AlignVal(dataOfs, s.align)
         external == relocsOfs + RelocTableSize(s.internal)
     IN  /\ dataOfs' = IF s.data THEN at + s.size ELSE dataOfs
         /\ relocsOfs' = external + RelocTableSize(s.external)
         /\ written' = written
              \cup {Part("data", i, at, s.size) : d \in {s.data} \ {FALSE}}
              \cup {Part("internal", i, relocsOfs, RelocTableSize(n)) : n \in {s.internal} \ {0}}
              \cup {Part("external", i, external, RelocTableSize(n)) : n \in {s.external} \ {0}}
  /\ i' = i + 1
  /\ UNCHANGED <<sections, head, phase, plan, info, base, noload, address>>

\* One iteration of uso_get_noload_size
SumSection ==
  /\ phase = "sum" /\ i <= Len(sections)
  /\ sums' = [sums EXCEPT ![i] = sums[i - 1] + (IF sections[i].data THEN 0 ELSE sections[i].size)]
  /\ i' = i + 1
  /\ UNCHANGED <<sections, head, phase, ends, dataOfs, relocsOfs, written, info, base, noload, address>>

\* uso_write_load_info: the file is padded to an even length
WriteLoadInfo ==
  /\ phase = "sum" /\ i > Len(sections)
  /\ info' = [uso_size |-> AlignVal(MaxOf({p.to : p \in {q \in written : q.from < q.to}}), 2),
              uso_align |-> UsoAlign,
              noload_size |-> sums[Len(sections)], noload_align |-> NoloadAlign]
  /\ phase' = "open" /\ i' = 1
  /\ UNCHANGED <<sections, head, plan, dataOfs, relocsOfs, written, base, noload, address>>

-----------------------------------------------------------------------------
(* Memory. *)

\* get_uso_noload_start_ofs
NoloadStart == AlignVal(info.uso_size, info.noload_align)

\* Fault: the space between the file and the sections without data is forgotten.
RamSizeUnaligned == info.uso_size + info.noload_size

\* get_uso_ram_size
RamSize == NoloadStart + info.noload_size

\* Fault: only the alignment of the sections without data counts.
RamAlignOfNoload == info.noload_align

\* get_uso_ram_align
RamAlign == MaxOf({info.uso_align, info.noload_align})

\* uso_open: memalign
Allocate ==
  /\ phase = "open"
  /\ \E b \in Bases : b % RamAlign = 0 /\ base' = b /\ noload' = b + NoloadStart
  /\ phase' = "fixup"
  /\ UNCHANGED <<sections, head, i, plan, dataOfs, relocsOfs, written, info, address>>

OffsetInFile(k) == (CHOOSE p \in written : p.kind = "data" /\ p.section = k).from

\* One iteration of fixup_section_table
FixupSection ==
  /\ phase = "fixup" /\ i <= Len(sections)
  /\ LET s  == sections[i]
         at == IF s.align > 0 THEN AlignVal(noload, s.align) ELSE noload
     IN  IF s.data
         THEN /\ address' = [address EXCEPT ![i] = base + OffsetInFile(i)]
              /\ UNCHANGED noload
         ELSE /\ address' = [address EXCEPT ![i] = at]
              /\ noload' = at + s.size
  /\ i' = i + 1
  /\ UNCHANGED <<sections, head, phase, plan, dataOfs, relocsOfs, written, info, base>>

-----------------------------------------------------------------------------
Follows == [place |-> "write", write |-> "sum", fixup |-> "done"]

\* The end of a loop over the sections; uso_write_sections begins with relocs_ofs.
NextLoop ==
  /\ phase \in DOMAIN Follows /\ i > Len(sections)
  /\ relocsOfs' = IF phase = "place" THEN RelocStart ELSE relocsOfs
  /\ phase' = Follows[phase] /\ i' = 1
  /\ UNCHANGED <<sections, head, plan, dataOfs, written, info, base, noload, address>>

Init ==
  /\ sections \in Layouts
  /\ head \in [name : Names, import : Tables, export : Tables]
  /\ phase = "place" /\ i = 1
  /\ ends = [k \in 0 .. Len(sections) |-> DataStart]
  /\ sums = [k \in 0 .. Len(sections) |-> 0]
  /\ dataOfs = DataStart /\ relocsOfs = 0
  /\ written = HeadParts
  /\ info = [uso_size |-> 0, uso_align |-> 1, noload_size |-> 0, noload_align |-> 1]
  /\ base = 0 /\ noload = 0
  /\ address = [k \in DOMAIN sections |-> 0]

Next ==
  \/ PlaceSection \/ WriteSection \/ SumSection \/ NextLoop \/ WriteLoadInfo
  \/ Allocate \/ FixupSection

Spec == Init /\ [][Next]_vars

-----------------------------------------------------------------------------
(* Properties. *)

TypeOK ==
  /\ sections \in Layouts
  /\ head \in [name : Names, import : Tables, export : Tables]
  /\ phase \in {"place", "write", "sum", "open", "fixup", "done"} /\ i \in 1 .. Len(sections) + 1
  /\ ends \in [0 .. Len(sections) -> Nat] /\ sums \in [0 .. Len(sections) -> Nat]
  /\ dataOfs \in Nat /\ relocsOfs \in Nat /\ relocsOfs % 4 = 0 /\ noload \in Nat /\ base \in Nat
  /\ info \in [uso_size : Nat, uso_align : Nat, noload_size : Nat, noload_align : Nat]
  /\ address \in [DOMAIN sections -> Nat]

Disjoint(p, q) == p.to <= q.from \/ q.to <= p.from \/ p.from = p.to \/ q.from = q.to

\* No part of the file is written over another: the relocation tables are placed by
\* a first pass over the sections and filled in a second one that must agree with
\* it (elf2uso.cpp:460-470, 541-588).
FilePartsDisjoint == \A p, q \in written : p = q \/ Disjoint(p, q)

\* The memory of a section once it has an address
InMemory(k) == Part("memory", k, address[k], sections[k].size)

\* A loaded section is aligned as its ELF section asks, through the alignments of
\* the file, of the allocation and of the place within it (elf2uso.cpp:410-434,
\* uso.c:39-65, 152-179).
SectionsAligned ==
  phase = "done" => \A k \in DOMAIN sections : address[k] % sections[k].align = 0

\* Every table of the file is at a word boundary of memory: the processor cannot read
\* its fields anywhere else (elf2uso.cpp:460-470, 626-658, uso.c:57-65).
TablesAligned ==
  phase \in {"fixup", "done"} =>
    \A p \in written : p.kind # "data" => (base + p.from) % 4 = 0

\* Sections without data lie after the file's contents, apart from each other and
\* inside the allocated memory, which uso_open has cleared (uso.c:39-55, 544-551).
InsideAllocation ==
  phase = "done" =>
    \A k \in NoData :
      /\ sections[k].size > 0 =>
           /\ address[k] >= base + info.uso_size
           /\ InMemory(k).to <= base + RamSize
      /\ \A j \in DOMAIN sections \ {k} : Disjoint(InMemory(j), InMemory(k))

=============================================================================

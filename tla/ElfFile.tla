------------------------------ MODULE ElfFile ------------------------------
(***************************************************************************)
(* An ELF file in the ELFIO library (src/tools/elfio): it is put together  *)
(* section by section and segment by segment, laid out and written by      *)
(* elfio::save, and read by elfio::load, as the tools do with the files of *)
(* the compiler, whole or cut short.  Sections and segments keep the       *)
(* numbers they have in the file: sections from 0, segments from 1.        *)
(*                                                                         *)
(* A file is its section and segment headers, the place of the section     *)
(* table, the number of the section with the names, and its length.        *)
(***************************************************************************)
EXTENDS Integers, Sequences

CONSTANTS
  EhdrSize, PhdrSize, ShdrSize,  \* sizes of the headers, in words
  NameSize,     \* size of a name in .shstrtab
  Recipes,      \* sections that are added one after another: name, type, alloc, tls, size, align
  Templates,    \* what segments are added with: type, address
  Foreign,      \* files of other programs
  Cuts,         \* lengths to which a file may be cut
  MaxSegments,  \* bound: segments
  MaxSize,      \* bound: size from which on nothing is appended to a section
  MaxSaves      \* bound: times a file is saved

Header == [name : STRING, type : STRING, alloc : BOOLEAN, tls : BOOLEAN, size : Nat, align : Nat,
           address : Int, fixed : BOOLEAN, offset : Int, data : BOOLEAN, cap : Nat,
           room : Nat]
SegmentHeader == [type : STRING, vaddr : Nat, align : Nat, memory : Int, size : Int,
                  offset : Int, fixed : BOOLEAN, secs : Seq(Nat)]

\* What save writes of a section, and load reads
HasBytes(sec) == sec.type \notin {"NULL", "NOBITS"}

\* A file, as programs write it: section 0 is no section, the contents are between the
\* segment table and the section table, which comes last.
WellFormed(f) ==
  LET n == Len(f.sections)
      first == EhdrSize + PhdrSize * Len(f.segments)
  IN  /\ f \in [sections : Seq(Header), segments : Seq(SegmentHeader), names : Nat,
                table : Nat, length : Nat, whole : BOOLEAN]
      /\ f.names \in 1 .. n - 1 /\ f.sections[1].type = "NULL" /\ first <= f.table
      /\ f.length <= f.table + ShdrSize * n /\ (f.whole <=> f.length = f.table + ShdrSize * n)
      /\ \A k \in 1 .. n :
           LET sec == f.sections[k]
           IN  /\ HasBytes(sec) /\ sec.size > 0 => first <= sec.offset /\ sec.offset + sec.size <= f.table
               /\ sec.type = "NULL" => sec.size = 0

ASSUME FileAssumption ==
  /\ {EhdrSize, PhdrSize, ShdrSize, NameSize, MaxSegments, MaxSize, MaxSaves} \subseteq Nat
  /\ EhdrSize > 0 /\ PhdrSize > 0 /\ ShdrSize >= 9  \* in words, as the others
  /\ Cuts \subseteq Nat
  /\ {"", "NULL", ".shstrtab", "STRTAB"} \subseteq STRING  \* the prover does not know it
  /\ Recipes \subseteq Seq([name : STRING, type : STRING \ {"NULL"}, alloc : BOOLEAN,
                           tls : BOOLEAN, size : Nat, align : Nat])
  /\ Templates \subseteq [type : STRING, vaddr : Nat]
  /\ \A f \in Foreign : WellFormed(f) /\ f.whole

VARIABLES
  sections,   \* type, size, place in memory and in the file of each section
  segments,   \* address, sizes, place in the file and sections of each segment
  phase,      \* what is being done
  pos,        \* current_file_pos
  todo,       \* worklist of get_ordered_segments
  order,      \* its result
  generated,  \* section_generated
  at,         \* the segment that is laid out: next section, start, memory, file size
  file,       \* the file on disk
  good,       \* the stream has not failed
  saves,      \* times saved
  back        \* a save placed a section before the position (elfio.hpp:887)

fileVars == <<sections, segments, phase, pos, todo, order, generated, at, file, good, saves, back>>
layout == <<pos, todo, order, generated, at, back>>

Sec(i) == sections[i + 1]
Numbers == {i \in 0 .. Len(sections) : i < Len(sections)}
Named(name) == {i \in Numbers : i > 0 /\ Sec(i).name = name}

-----------------------------------------------------------------------------
(* Putting a file together.  An operator whose comment begins with "Fault:"  *)
(* is what the next definition would be with a plausible bug.                *)

Created == [name |-> "", type |-> "NULL", alloc |-> FALSE, tls |-> FALSE, size |-> 0, align |-> 0,
            address |-> 0, fixed |-> FALSE, offset |-> 0, data |-> FALSE, cap |-> 0, room |-> 0]

\* Fault: the new memory is for the new data only.
AppendedNew(sec, n) ==
  IF sec.size + n < sec.cap
  THEN [sec EXCEPT !.size = @ + n]
  ELSE [sec EXCEPT !.size = @ + n, !.cap = 2 * n, !.room = 2 * n, !.data = TRUE]

\* append_data, when it gets memory: data_size grows to more than twice what it was
Appended(sec, n) ==
  IF sec.type = "NOBITS" THEN sec
  ELSE IF sec.size + n < sec.cap
  THEN [sec EXCEPT !.size = @ + n]
  ELSE [sec EXCEPT !.size = @ + n, !.cap = 2 * (sec.cap + n), !.room = 2 * (sec.cap + n), !.data = TRUE]

\* append_data, when it gets none: data_size has grown, and nothing else
Grows(sec, n) == sec.type # "NOBITS" /\ sec.size + n >= sec.cap
NotGrown(sec, n) == [sec EXCEPT !.cap = 2 * (@ + n)]

\* append_data copies from memory that is not there, or behind its memory.
Overruns(sec, n) ==
  IF Grows(sec, n) THEN ~ sec.data /\ sec.size > 0
                   ELSE sec.type # "NOBITS" /\ sec.size + n > sec.room

\* add_string, which puts an empty string at the start
StringAdded(sec, n) == Appended(IF sec.size = 0 THEN Appended(sec, 1) ELSE sec, n)

\* set_data; a section without bytes has none
SetData(sec, n) ==
  IF sec.type = "NOBITS" THEN [sec EXCEPT !.size = sec.cap]
  ELSE [sec EXCEPT !.size = n, !.cap = n, !.room = n, !.data = TRUE]

\* sections.add: the name goes into section 1
WithSection(k) ==
  LET named == [sections EXCEPT ![2] = StringAdded(@, NameSize)]
      made == [Created EXCEPT !.name = k.name, !.type = k.type, !.alloc = k.alloc,
                              !.tls = k.tls, !.align = k.align]
      filled == IF k.type = "NOBITS" THEN [made EXCEPT !.size = k.size] ELSE SetData(made, k.size)
  IN  Append(named, filled)

AddSection(recipe) ==
  LET n == Len(sections) - 2
  IN  /\ phase = "edit" /\ segments = <<>> /\ n < Len(recipe)
      /\ \A j \in 1 .. n : sections[j + 2].name = recipe[j].name
      /\ sections' = WithSection(recipe[n + 1])
  /\ UNCHANGED <<segments, phase, layout, file, good, saves>>

\* A section that was made or loaded.  What an overrun does is undefined: nothing is
\* said of the program after it.  Bounds: only here memory may be short, and nothing is
\* appended to a section without a type.
AppendData(i, n) ==
  /\ phase \in {"edit", "loaded", "amended"}
  /\ i \in Numbers \ {0} /\ Sec(i).size < MaxSize /\ Sec(i).type # "NULL"
  /\ \/ /\ Overruns(Sec(i), n)
        /\ phase' = "crashed" /\ UNCHANGED sections
     \/ /\ ~ Overruns(Sec(i), n)
        /\ sections' = [sections EXCEPT ![i + 1] = Appended(@, n)]
        /\ phase' = IF phase = "edit" THEN "edit" ELSE "amended"
     \/ /\ Grows(Sec(i), n)
        /\ sections' = [sections EXCEPT ![i + 1] = NotGrown(@, n)]
        /\ phase' = IF phase = "edit" THEN "edit" ELSE "amended"
  /\ UNCHANGED <<segments, layout, file, good, saves>>

\* segments.add, and the address that the program sets
AddSegment(t) ==
  /\ phase = "edit" /\ Len(segments) < MaxSegments
  /\ segments' = Append(segments, [type |-> t.type, vaddr |-> t.vaddr, align |-> 0, memory |-> 0,
                                   size |-> 0, offset |-> 0, fixed |-> FALSE, secs |-> <<>>])
  /\ UNCHANGED <<sections, phase, layout, file, good, saves>>

\* Sections are given to a segment in the order of their numbers
\* (get_ordered_segments needs it so), to the segment added last.
AddSectionIndex(i) ==
  LET s == Len(segments)
  IN  /\ phase = "edit" /\ s > 0 /\ i \in Numbers \ {0, 1} /\ ~ segments[s].fixed
      /\ \A j \in DOMAIN segments[s].secs : segments[s].secs[j] < i
      /\ segments' = [segments EXCEPT ![s].secs = Append(@, i),
                                      ![s].align = IF Sec(i).align > @ THEN Sec(i).align ELSE @]
      /\ UNCHANGED <<sections, phase, layout, file, good, saves>>

-----------------------------------------------------------------------------
(* save: the order of the segments. *)

RoundedUp(n, align) == IF align > 1 THEN ((n + align - 1) \div align) * align ELSE n
\* Fault: a segment with the same sections is a part, too.
PartOfOrSame(s, t) ==
  \A j \in DOMAIN segments[s].secs : \E k \in DOMAIN segments[t].secs :
    segments[s].secs[j] = segments[t].secs[k]

\* is_subsequence_of
PartOf(s, t) ==
  /\ Len(segments[s].secs) < Len(segments[t].secs)
  /\ \A j \in DOMAIN segments[s].secs : \E k \in DOMAIN segments[t].secs :
       segments[s].secs[j] = segments[t].secs[k]


LargestOf(S, otherwise) == IF S = {} THEN otherwise ELSE CHOOSE n \in S : \A m \in S : m <= n

\* calc_segment_alignment
AlignedSegments ==
  [s \in DOMAIN segments |->
     [segments[s] EXCEPT !.align =
        LargestOf({@} \cup {Sec(segments[s].secs[j]).align : j \in DOMAIN segments[s].secs}, 0)]]

\* The first part of get_ordered_segments: those at offset 0 go to the front.
ZeroFirst ==
  LET n == Len(segments)
      round[i \in 0 .. n] ==
        IF i = 0 THEN [list |-> [s \in 1 .. n |-> s], next |-> 1]
        ELSE LET list == round[i - 1].list
                 next == round[i - 1].next
                 slot == IF segments[list[next]].offset = 0 THEN next + 1 ELSE next
             IN  IF i # next /\ segments[list[i]].fixed /\ segments[list[i]].offset = 0
                 THEN [list |-> [list EXCEPT ![i] = list[slot], ![slot] = list[i]], next |-> slot + 1]
                 ELSE round[i - 1]
  IN  round[n].list

Save ==
  /\ phase \in {"edit", "loaded", "amended"} /\ saves < MaxSaves
  /\ segments' = AlignedSegments
  /\ pos' = EhdrSize + PhdrSize * Len(segments)
  /\ todo' = ZeroFirst /\ order' = <<>> /\ generated' = {}
  /\ phase' = "order" /\ saves' = saves + 1
  /\ UNCHANGED <<sections, at, file, good, back>>

\* One round of the loop of get_ordered_segments: a segment with a part of the
\* sections of a later one waits for it.
OrderSegment ==
  /\ phase = "order" /\ todo # <<>>
  /\ LET s == Head(todo)
         rest == Tail(todo)
     IN  IF \E k \in DOMAIN rest : PartOf(s, rest[k])
         THEN todo' = Append(rest, s) /\ order' = order
         ELSE todo' = rest /\ order' = Append(order, s)
  /\ UNCHANGED <<sections, segments, phase, pos, generated, at, file, good, saves, back>>

StartLayout ==
  /\ phase = "order" /\ todo = <<>>
  /\ phase' = "segment"
  /\ UNCHANGED <<sections, segments, layout, file, good, saves>>

-----------------------------------------------------------------------------
(* save: the segments and their sections. *)

Current == segments[Head(order)]
AtOnce(n, start, size) == [next |-> n, start |-> start, memory |-> size, size |-> size]

\* The next position that is what the address is, modulo the alignment
Congruent(align) ==
  LET a == IF align > 0 THEN align ELSE 1
  IN  pos + ((a + (Current.vaddr % a) - (pos % a)) % a)

StartSegment ==
  /\ phase = "segment" /\ order # <<>>
  /\ LET secs == Current.secs
     IN  \/ /\ Current.type = "PHDR" /\ secs = <<>>
            /\ at' = AtOnce(1, EhdrSize, PhdrSize * Len(segments)) /\ pos' = pos
         \/ /\ ~ (Current.type = "PHDR" /\ secs = <<>>)
            /\ Current.fixed /\ Current.offset = 0
            /\ at' = AtOnce(1, 0, IF secs # <<>> THEN pos ELSE 0) /\ pos' = pos
         \/ /\ ~ (Current.fixed /\ Current.offset = 0) /\ secs # <<>>
            /\ secs[1] \notin generated
            /\ pos' = Congruent(Current.align)
            /\ at' = AtOnce(1, pos', 0)
         \/ /\ ~ (Current.fixed /\ Current.offset = 0) /\ secs # <<>>
            /\ secs[1] \in generated
            /\ at' = AtOnce(1, Sec(secs[1]).offset, 0) /\ pos' = pos
         \/ /\ ~ (Current.fixed /\ Current.offset = 0) /\ secs = <<>> /\ Current.type # "PHDR"
            /\ at' = AtOnce(1, pos, 0) /\ pos' = pos
  /\ phase' = "section"
  /\ UNCHANGED <<sections, segments, todo, order, generated, file, good, saves, back>>

\* The section that is next in the segment
Index == Current.secs[at.next]
Place == Sec(Index)
HasNext == phase = "section" /\ at.next <= Len(Current.secs)
Stepped == at.next + 1

\* .tbss takes no room outside a TLS segment
TakesMemory(sec) ==
  sec.alloc /\ ~ (sec.tls /\ Current.type # "TLS" /\ sec.type = "NOBITS")

Counted(gap) ==
  [at EXCEPT !.next = Stepped,
             !.memory = IF TakesMemory(Place) THEN @ + (Place.size + gap) ELSE @,
             !.size = IF Place.type # "NOBITS" THEN @ + (Place.size + gap) ELSE @]

\* The section goes a gap behind the position.
Generate(gap) ==
  /\ at' = Counted(gap)
  /\ sections' = [sections EXCEPT ![Index + 1] =
       [@ EXCEPT !.fixed = TRUE,
                 !.address = IF Place.fixed THEN Place.address ELSE Current.vaddr + (pos + gap) - at.start,
                 !.offset = pos + gap]]
  /\ pos' = pos + gap + (IF Place.type # "NOBITS" THEN Place.size ELSE 0)
  /\ generated' = generated \cup {Index}
  /\ UNCHANGED <<segments, phase, todo, order, file, good, saves>>

PlaceNull ==
  /\ HasNext /\ Place.type = "NULL"
  /\ at' = [at EXCEPT !.next = Stepped]
  /\ generated' = generated \cup {Index}
  /\ UNCHANGED <<sections, segments, phase, pos, todo, order, file, good, saves, back>>

\* The address decides where a section with contents goes.
ByAddress == Place.fixed /\ Place.type # "NOBITS" /\ Place.size > 0
\* Where the segment puts that address, and where the file is, from the segment's start on
Requested == Place.address - Current.vaddr
Passed == pos - at.start

\* The order of numbers without a sign: one below zero stands for a very large one.
Below(m, n) == IF m < 0 <=> n < 0 THEN m < n ELSE n < 0

\* A section that has an address goes where the segment puts that address, which is
\* before the position if the address is below that of the segment.
PlaceFixed ==
  /\ HasNext /\ Place.type # "NULL" /\ Index \notin generated
  /\ IF ByAddress THEN /\ ~ Below(Requested, Passed)
                       /\ Generate(Requested - Passed)
                       /\ back' = (back \/ Requested < Passed)
                  ELSE Place.fixed /\ Generate(0) /\ UNCHANGED back

\* "something has gone awfully wrong, abort!"
SaveAborts ==
  /\ HasNext /\ Place.type # "NULL" /\ Index \notin generated
  /\ ByAddress /\ Below(Requested, Passed)
  /\ phase' = "failed"
  /\ UNCHANGED <<sections, segments, layout, file, good, saves>>

PlaceNew ==
  /\ HasNext /\ Place.type # "NULL" /\ Index \notin generated /\ ~ Place.fixed
  /\ Generate(RoundedUp(pos, Place.align) - pos) /\ UNCHANGED back

\* Fault: no account of the room before the section
CountGeneratedBare ==
  /\ HasNext /\ Place.type # "NULL" /\ Index \in generated
  /\ at' = Counted(0)
  /\ UNCHANGED <<sections, segments, phase, pos, todo, order, generated, file, good, saves, back>>

\* A section of an earlier segment stays where it is.
CountGenerated ==
  /\ HasNext /\ Place.type # "NULL" /\ Index \in generated
  /\ at' = Counted(Place.offset - at.start - at.size)
  /\ UNCHANGED <<sections, segments, phase, pos, todo, order, generated, file, good, saves, back>>

\* Fault: the memory size is always computed anew.
FinishSegmentShrinks ==
  /\ phase = "section" /\ at.next > Len(Current.secs)
  /\ segments' = [segments EXCEPT ![Head(order)] =
       [@ EXCEPT !.size = at.size, !.offset = at.start, !.fixed = TRUE, !.memory = at.memory]]
  /\ order' = Tail(order) /\ phase' = "segment"
  /\ UNCHANGED <<sections, pos, todo, generated, at, file, good, saves, back>>

\* The memory size of a segment never shrinks.
FinishSegment ==
  /\ phase = "section" /\ at.next > Len(Current.secs)
  /\ segments' = [segments EXCEPT ![Head(order)] =
       [@ EXCEPT !.size = at.size, !.offset = at.start, !.fixed = TRUE,
                 !.memory = IF Below(Current.memory, at.memory) THEN at.memory ELSE Current.memory]]
  /\ order' = Tail(order) /\ phase' = "segment"
  /\ UNCHANGED <<sections, pos, todo, generated, at, file, good, saves, back>>

-----------------------------------------------------------------------------
(* save: what is left, and the section table. *)

Loose(i) == \A s \in DOMAIN segments : \A j \in DOMAIN segments[s].secs : segments[s].secs[j] # i

StartLoose ==
  /\ phase = "segment" /\ order = <<>>
  /\ phase' = "loose" /\ at' = AtOnce(0, 0, 0)
  /\ UNCHANGED <<sections, segments, pos, todo, order, generated, file, good, saves, back>>

\* layout_sections_without_segments
PlaceLoose ==
  /\ phase = "loose" /\ at.next < Len(sections)
  /\ LET i == at.next
         here == RoundedUp(pos, Sec(i).align)
     IN  IF Loose(i)
         THEN /\ sections' = [sections EXCEPT ![i + 1].offset = IF i = 0 THEN @ ELSE here]
              /\ pos' = here + (IF HasBytes(Sec(i)) THEN Sec(i).size ELSE 0)
         ELSE UNCHANGED <<sections, pos>>
  /\ at' = [at EXCEPT !.next = Stepped]
  /\ UNCHANGED <<segments, phase, todo, order, generated, file, good, saves, back>>

\* Fault: the section table begins in the last data.
TableRoundedDown == pos - (pos % 4)

\* layout_section_table
Table == RoundedUp(pos, 4)

WriteFile ==
  /\ phase = "loose" /\ at.next >= Len(sections)
  /\ file' = [sections |-> sections, segments |-> segments, names |-> file.names, table |-> Table,
              length |-> Table + ShdrSize * Len(sections), whole |-> TRUE]
  /\ phase' = "saved"
  /\ UNCHANGED <<sections, segments, layout, good, saves>>


-----------------------------------------------------------------------------
(* load. *)

\* A file of another program may be cut short, when that program was stopped.
Truncate(length) ==
  /\ phase = "saved" /\ saves = 0 /\ file.whole /\ length < file.length
  /\ file' = [file EXCEPT !.length = length, !.whole = FALSE]
  /\ UNCHANGED <<sections, segments, phase, layout, good, saves>>

\* Bound: a file is read if no section in it went back, over others, and no size of a
\* segment is below zero.
Readable ==
  ~ back /\ \A s \in DOMAIN file.segments : file.segments[s].memory >= 0 /\ file.segments[s].size >= 0

\* The header decides whether anything is loaded.
Load ==
  /\ phase = "saved" /\ Readable
  /\ sections' = <<>> /\ segments' = <<>>
  /\ good' = (file.length >= EhdrSize)
  /\ phase' = IF good' THEN "sections" ELSE "rejected"
  /\ UNCHANGED <<layout, file, saves>>

\* The words of a section header of which the first ones were read, the rest zero
HeaderRead(h, words) ==
  [Created EXCEPT
     !.name = IF words >= 1 THEN h.name ELSE @, !.type = IF words >= 2 THEN h.type ELSE @,
     !.alloc = words >= 3 /\ h.alloc, !.tls = words >= 3 /\ h.tls,
     !.address = IF words >= 4 THEN h.address ELSE @, !.offset = IF words >= 5 THEN h.offset ELSE @,
     !.size = IF words >= 6 THEN h.size ELSE @, !.align = IF words >= 9 THEN h.align ELSE @,
     !.fixed = TRUE]

\* Words of a header that the stream can still give; a stream that has failed gives none
WordsAt(place, size) ==
  IF ~ good \/ file.length <= place THEN 0
  ELSE IF file.length - place < size THEN file.length - place ELSE size

\* load_data asks for the contents of this section
AsksData(sec) == HasBytes(sec) /\ sec.size < file.length
InFile(part) == part.offset + part.size <= file.length

\* The contents were read whole
DataRead(sec, ok) == AsksData(sec) /\ (sec.size = 0 \/ (ok /\ InFile(sec)))

LoadSection ==
  LET i == Len(sections)
  IN  /\ phase = "sections" /\ i < Len(file.sections)
      /\ LET words == WordsAt(file.table + ShdrSize * i, ShdrSize)
             sec == HeaderRead(file.sections[i + 1], words)
             ok == words = ShdrSize
         IN  /\ sections' = Append(sections, [sec EXCEPT !.data = DataRead(sec, ok),
                              !.cap = IF DataRead(sec, ok) THEN sec.size ELSE 0,
                              !.room = IF DataRead(sec, ok) THEN sec.size + 1 ELSE 0])
             /\ good' = (ok /\ (AsksData(sec) /\ sec.size > 0 => InFile(sec)))
      /\ UNCHANGED <<segments, phase, layout, file, saves>>

\* Fault: the position is not compared with the size of the section.
HasNamesUnsized(sec) == sec.data

\* get_string of a name, in the section of names
HasNames(sec) == sec.data /\ sec.size > 0

\* Sections have their names if the section of names was read.
NameSections ==
  /\ phase = "sections" /\ Len(sections) = Len(file.sections)
  /\ sections' = [j \in DOMAIN sections |->
       [sections[j] EXCEPT !.name = IF HasNames(Sec(file.names)) THEN @ ELSE ""]]
  /\ phase' = "segments"
  /\ UNCHANGED <<segments, layout, file, good, saves>>

\* is_sect_in_seg: nothing begins at the end of a segment
IsSectInSeg(begin, size, segBegin, segEnd) ==
  segBegin <= begin /\ begin + size <= segEnd /\ begin < segEnd

\* The numbers in S, which are below n, one after another
Ascending(n, S) ==
  LET found[k \in 0 .. n] == IF k = 0 THEN <<>>
                             ELSE IF k - 1 \in S THEN Append(found[k - 1], k - 1)
                             ELSE found[k - 1]
  IN  found[n]

\* Fault: all sections are found by their place in the file.
SectionsOfByOffset(seg) ==
  Ascending(Len(sections),
    {i \in Numbers : IsSectInSeg(Sec(i).offset, Sec(i).size, seg.offset, seg.offset + seg.size)})

\* Sections in memory are found by address, the others by their place in the file.
SectionsOf(seg) ==
  Ascending(Len(sections),
    {i \in Numbers : IF Sec(i).alloc
                     THEN IsSectInSeg(Sec(i).address, Sec(i).size, seg.vaddr, seg.vaddr + seg.memory)
                     ELSE IsSectInSeg(Sec(i).offset, Sec(i).size, seg.offset, seg.offset + seg.size)})

\* The header was read and the contents were, or are not asked for.
SegmentRead(h, place) ==
  /\ WordsAt(place, PhdrSize) = PhdrSize
  /\ h.size = 0 \/ h.size > file.length \/ InFile(h)

LoadSegment ==
  LET s == Len(segments) + 1
  IN  /\ phase = "segments" /\ s <= Len(file.segments)
      /\ IF SegmentRead(file.segments[s], EhdrSize + PhdrSize * (s - 1))
         THEN LET h == file.segments[s]
              IN  /\ segments' = Append(segments, [h EXCEPT !.fixed = TRUE, !.secs = SectionsOf(h)])
                  /\ UNCHANGED <<phase, good>>
         ELSE phase' = "rejected" /\ good' = FALSE /\ UNCHANGED segments
      /\ UNCHANGED <<sections, layout, file, saves>>

FinishLoad ==
  /\ phase = "segments" /\ Len(segments) = Len(file.segments)
  /\ phase' = "loaded"
  /\ UNCHANGED <<sections, segments, layout, file, good, saves>>

\* elf_find_section and elf_valid of the tools
ElfValid ==
  /\ phase = "loaded"
  /\ phase' = IF Named(".symtab") # {} THEN "accepted" ELSE "rejected"
  /\ UNCHANGED <<sections, segments, layout, file, good, saves>>

-----------------------------------------------------------------------------
NoFile == [sections |-> <<>>, segments |-> <<>>, names |-> 1, table |-> 0, length |-> 0, whole |-> FALSE]
Shstrtab == [StringAdded([Created EXCEPT !.type = "STRTAB"], NameSize) EXCEPT
               !.name = ".shstrtab", !.align = 1]

\* create with create_mandatory_sections, or a file that another program made
FileInit ==
  /\ segments = <<>> /\ good = TRUE /\ saves = 0 /\ back = FALSE
  /\ pos = 0 /\ todo = <<>> /\ order = <<>> /\ generated = {} /\ at = AtOnce(0, 0, 0)
  /\ \/ sections = <<Created, Shstrtab>> /\ phase = "edit" /\ file = NoFile
     \/ sections = <<>> /\ phase = "saved" /\ file \in Foreign

Edit ==
  \/ \E recipe \in Recipes : AddSection(recipe)
  \/ \E i \in Numbers : Sec(i).alloc /\ AppendData(i, NameSize)
  \/ \E t \in Templates : AddSegment(t)
  \/ \E i \in Numbers : AddSectionIndex(i)

LayOut ==
  \/ OrderSegment \/ StartLayout
  \/ StartSegment \/ PlaceNull \/ PlaceFixed \/ SaveAborts \/ PlaceNew \/ CountGenerated
  \/ FinishSegment \/ StartLoose \/ PlaceLoose \/ WriteFile

Read == Load \/ LoadSection \/ NameSections \/ LoadSegment \/ FinishLoad \/ ElfValid

FileNext == Edit \/ Save \/ LayOut \/ (\E length \in Cuts : Truncate(length)) \/ Read

FileSpec == FileInit /\ [][FileNext]_fileVars

\* save is a plain function: it goes on until it is done.
FairFile == FileSpec /\ WF_fileVars(LayOut)

-----------------------------------------------------------------------------
(* Properties. *)

\* The contents of a section fit their memory unless memory was short when they grew,
\* and append_data leaves its memory only then, or in a file that could not be read
\* whole (elfio_section.hpp:134-187, 260-289).
DataFits ==
  /\ \A i \in Numbers : Sec(i).data /\ Sec(i).cap <= Sec(i).room => Sec(i).size <= Sec(i).room
  /\ phase = "crashed" => ~ good \/ \E i \in Numbers : Sec(i).room < Sec(i).cap

\* validate passes over the types that share the bit of SHT_NOBITS.
Overlap(i, j) ==
  LET Inside(place, sec) == sec.offset <= place /\ place < sec.offset + sec.size
      Touches(a, b) == Inside(a.offset, b) \/ Inside(a.offset + a.size - 1, b)
      Counts(a) == a.type \notin {"NOBITS", "REL"} /\ a.size > 0 /\ a.offset > 0
  IN  /\ Counts(Sec(i)) /\ Counts(Sec(j))
      /\ Touches(Sec(i), Sec(j)) \/ Touches(Sec(j), Sec(i))

\* The first section with contents at the offset has another address for it than the
\* segment.
Conflict(seg) ==
  LET At(place) == {i \in Numbers : /\ Sec(i).type = "PROGBITS" /\ Sec(i).offset <= place
                                    /\ place < Sec(i).offset + Sec(i).size}
      i == CHOOSE i \in At(seg.offset) : \A j \in At(seg.offset) : i <= j
  IN  /\ seg.type = "LOAD" /\ seg.size > 0 /\ At(seg.offset) # {}
      /\ Sec(i).address + seg.offset - Sec(i).offset # seg.vaddr

\* A save goes back, over what it has placed, only for a section of a loaded file that is
\* not in memory: the others are found in a segment by their addresses, which are not
\* below its own, and those of a program that makes a file have no addresses yet
\* (elfio.hpp:590-611, 877-891).
GoesBack == [][back' /\ ~ back => file # NoFile /\ ~ Place.alloc]_fileVars

\* The tables and the contents of the sections are apart in a file that was written,
\* the segment table in front, the section table behind, and validate agrees, if the
\* save did not go back (elfio.hpp:202-247, 316-352).
PartsDisjoint ==
  phase = "saved" /\ saves > 0 /\ ~ back =>
    LET filled == {i \in Numbers : HasBytes(Sec(i)) /\ Sec(i).size > 0}
    IN  /\ \A i \in filled : /\ EhdrSize + PhdrSize * Len(segments) <= Sec(i).offset
                             /\ Sec(i).offset + Sec(i).size <= file.table
        /\ \A i, j \in filled : i < j =>
             \/ Sec(i).offset + Sec(i).size <= Sec(j).offset
             \/ Sec(j).offset + Sec(j).size <= Sec(i).offset
        /\ \A i, j \in Numbers : i < j => ~ Overlap(i, j)

\* Sections without bytes stand last in a segment, as the ELF format demands, and
\* there is one of them at most.
BssLast(seg) ==
  \A j, k \in DOMAIN seg.secs : j < k => HasBytes(Sec(seg.secs[j]))

\* Segments share no section or lie one in the other.
Nested ==
  LET In(s) == {file.segments[s].secs[j] : j \in DOMAIN file.segments[s].secs}
  IN  \A s, t \in DOMAIN file.segments :
        In(s) \cap In(t) = {} \/ In(s) \subseteq In(t) \/ In(t) \subseteq In(s)

\* A segment that maps its first section to its address maps all of them, also those
\* that another segment placed, and its place is congruent to its address, as a loader
\* that maps pages needs it, if the save did not go back (elfio.hpp:779-947).
MapsFirst(seg) ==
  /\ BssLast(seg) /\ seg.secs # <<>>
  /\ Sec(seg.secs[1]).address - seg.vaddr = Sec(seg.secs[1]).offset - seg.offset

SegmentsMap ==
  phase = "saved" /\ saves = 1 /\ ~ back /\ Nested /\ (\A s \in DOMAIN segments : MapsFirst(segments[s])) =>
    \A s \in DOMAIN segments :
      LET seg == segments[s]
          Off(i) == Sec(i).offset - seg.offset
      IN  /\ ~ Conflict(seg)
          /\ seg.align > 1 => seg.offset % seg.align = seg.vaddr % seg.align
          /\ \A j \in DOMAIN seg.secs :
               LET i == seg.secs[j]
               IN  /\ HasBytes(Sec(i)) => Off(i) >= 0 /\ Off(i) + Sec(i).size <= seg.size
                   /\ Sec(i).size > 0 => Sec(i).address - seg.vaddr = Off(i)

\* Loading finds the sections of a segment again, save the empty ones, .tbss and
\* those with neither bytes nor memory, if all of them or none are in memory and the
\* first is not empty; of a file that no save went back in, the others are not read in
\* this model (Readable; elfio.hpp:542-621).
Uniform(seg) == \A j, k \in DOMAIN seg.secs : Sec(seg.secs[j]).alloc = Sec(seg.secs[k]).alloc

SectionsFound ==
  phase = "loaded" /\ file.whole /\ saves > 0 /\ Nested =>
    \A s \in DOMAIN segments : MapsFirst(file.segments[s]) /\ Uniform(file.segments[s])
                               /\ Sec(file.segments[s].secs[1]).size > 0 =>
     \A j \in DOMAIN file.segments[s].secs :
      LET i == file.segments[s].secs[j]
      IN  Sec(i).size > 0 /\ (HasBytes(Sec(i)) \/ (Sec(i).alloc /\ ~ Sec(i).tls)) =>
            \E k \in DOMAIN segments[s].secs : segments[s].secs[k] = i

\* A file that is saved again as it was loaded is not refused, and its segments have
\* the sizes and hold the contents at the distances they had, if loading found the
\* sections of every segment and no others, none of them is empty, and nothing was
\* appended (elfio.hpp:779-947).
Unchanged ==
  /\ file.whole /\ Nested
  /\ \A s \in DOMAIN segments :
       LET seg == file.segments[s]
           Was(j) == file.sections[seg.secs[j] + 1]
       IN  /\ segments[s].secs = seg.secs /\ seg.secs # <<>>
           /\ \A j, k \in DOMAIN seg.secs : j < k => HasBytes(Was(j))
           /\ \A j \in DOMAIN seg.secs : Was(j).size > 0
           /\ Was(1).address - seg.vaddr = Was(1).offset - seg.offset
  /\ \A i \in Numbers : Sec(i).size = file.sections[i + 1].size

SavedAgain ==
  [][/\ phase' = "failed" /\ file # NoFile => ~ Unchanged
     /\ phase = "loose" /\ phase' = "saved" /\ file # NoFile /\ Unchanged =>
       \A s \in DOMAIN segments :
         /\ segments[s].memory = file.segments[s].memory
         /\ segments[s].size = file.segments[s].size
         /\ \A j \in DOMAIN segments[s].secs :
              LET i == segments[s].secs[j]
              IN  HasBytes(Sec(i)) =>
                    Sec(i).offset - segments[s].offset = file.sections[i + 1].offset - file.segments[s].offset
    ]_fileVars

\* A file that load and the tools accept was read whole, if it has segments or if its
\* section of names is the last one: however it was cut short, it is rejected
\* (elfio.hpp:142-199, 497-621).
AcceptedIsWhole ==
  phase = "accepted" /\ (segments # <<>> \/ file.names = Len(file.sections) - 1) =>
    \A i \in Numbers :
      /\ Sec(i).name = file.sections[i + 1].name /\ Sec(i).type = file.sections[i + 1].type
      /\ Sec(i).size = file.sections[i + 1].size
      /\ HasBytes(Sec(i)) => Sec(i).data

\* A save ends, though segments wait for one another in the worklist
\* (elfio.hpp:713-732).
SaveEnds == phase \in {"order", "segment", "section", "loose"} ~> phase \in {"saved", "failed"}

=============================================================================

--------------------------- MODULE ElfAgainProofs ---------------------------
(***************************************************************************)
(* A file made with ELFIO that is read and saved again: laying it out a    *)
(* second time gives its segments the sizes and their contents the places  *)
(* that they had.  AgainInv says what is so of such a file, of what was    *)
(* read of it, and of the segments while they are laid out again, among it *)
(* that the segments come in the same order (RoundsInv) and that the sizes *)
(* are sums over the sections (MeasureInv).                                *)
(***************************************************************************)
EXTENDS ElfMapProofs

\* No segment begins at the start of the file, and only section 0 has no type.
BehindInv ==
  /\ \A s \in DOMAIN segments : 0 \notin Members(s) /\ (segments[s].fixed => segments[s].offset > 0)
  /\ \A i \in Numbers : Sec(i).type = "NULL" => i = 0 /\ ~ Sec(i).alloc /\ Sec(i).offset = 0
  /\ phase = "section" => at.start > 0
  /\ phase \in Laid => /\ \A i \in generated : Sec(i).offset > 0
                      /\ \A s \in Done : segments[s].fixed
  /\ ~ Fresh => /\ file.whole
                /\ \A s \in DOMAIN file.segments : file.segments[s].offset > 0
                /\ \A k \in DOMAIN file.sections : file.sections[k].type = "NULL" =>
                     k = 1 /\ ~ file.sections[k].alloc /\ file.sections[k].offset = 0

\* What loading and laying out again leave of the file
ReadInv ==
  phase \in {"segments", "loaded", "amended"} \/ (phase \in LayoutPhases /\ ~ Fresh) =>
    /\ Len(sections) = Len(file.sections)
    /\ \A i \in Numbers : /\ Sec(i).type = SecOf(file, i).type
                          /\ Sec(i).alloc = SecOf(file, i).alloc /\ Sec(i).tls = SecOf(file, i).tls
                          /\ Sec(i).address = SecOf(file, i).address
    /\ Len(segments) <= Len(file.segments) /\ (phase # "segments" => Len(segments) = Len(file.segments))
    /\ \A s \in DOMAIN segments :
         /\ segments[s].type = file.segments[s].type /\ segments[s].vaddr = file.segments[s].vaddr
         /\ phase \notin Laid => segments[s].memory = file.segments[s].memory
    /\ \A s \in DOMAIN file.segments : file.segments[s].memory >= 0

\* The worklist as it goes on from one round to the next
Taken(q, w) ==
  LET s == Head(w.todo)
      rest == Tail(w.todo)
  IN  IF \E k \in DOMAIN rest : Smaller(q[s], q[rest[k]])
      THEN [todo |-> Append(rest, s), order |-> w.order]
      ELSE [todo |-> rest, order |-> Append(w.order, s)]
Works(q, n, w) ==
  /\ w[0] = [todo |-> [s \in 1 .. Len(q) |-> s], order |-> <<>>]
  /\ \A i \in 1 .. n : w[i - 1].todo # <<>> /\ w[i] = Taken(q, w[i - 1])
Reaches(q, todos, o) == \E n \in Nat : \E w : Works(q, n, w) /\ w[n] = [todo |-> todos, order |-> o]
\* A segment comes behind another one that has its sections.
Behind(q, o, s) == \E k, l \in DOMAIN o : k < l /\ o[l] = s /\ Into(q[s]) \subseteq Into(q[o[k]])
SecsOf(segs) == [s \in DOMAIN segs |-> segs[s].secs]
\* Such a segment begins with its first section.
Leading(t, seg, start) == seg.secs # <<>> => start = t[seg.secs[1] + 1].offset

\* o is the order of the segments, of which d are done.
InTurn(o, d) ==
  /\ Reaches(SecsOf(segments), <<>>, o) /\ NoRepeat(o) /\ Into(o) = DOMAIN segments
  /\ Len(o) = d + Len(order) /\ \A k \in 1 .. Len(order) : order[k] = o[k + d]
Led(o) ==
  /\ \A s \in Done : Behind(SecsOf(segments), o, s) => Leading(sections, segments[s], segments[s].offset)
  /\ phase = "section" /\ Behind(SecsOf(segments), o, Head(order)) => Leading(sections, Current, at.start)
\* A file as save leaves it
LedOf(f) ==
  \E o \in Seq(Nat) : /\ Reaches(SecsOf(f.segments), <<>>, o)
                      /\ \A s \in DOMAIN f.segments : Behind(SecsOf(f.segments), o, s) =>
                           Leading(f.sections, f.segments[s], f.segments[s].offset)

RoundsInv ==
  /\ phase = "order" => Reaches(SecsOf(segments), todo, order)
  /\ phase \in Laid => \E o \in Seq(Nat) : \E d \in Nat : InTurn(o, d) /\ Led(o)
  /\ ~ Fresh => LedOf(file)

\* Contents of two sections are as far apart in memory as in the file.
Linked(t, S) == \A i, j \in S : Filled(t[i + 1]) /\ Filled(t[j + 1]) =>
  t[i + 1].address - t[i + 1].offset = t[j + 1].address - t[j + 1].offset
LinkInv ==
  phase \in Laid /\ NestedNow =>
    /\ \A s \in Done : Linked(sections, Members(s))
    /\ phase = "section" /\ ~ Covered => \A i \in Handled : Filled(Sec(i)) =>
         Sec(i).address - Sec(i).offset = Current.vaddr - at.start

\* Where the first k sections of a segment end in the file
EndOf(t, q, start, k) == IF k = 0 THEN 0 ELSE t[q[k] + 1].offset + t[q[k] + 1].size - start
SizeTo(t, q, start, k) == IF k = 0 \/ HasBytes(t[q[k] + 1]) THEN EndOf(t, q, start, k) ELSE EndOf(t, q, start, k - 1)
Charged(sec, type) == sec.alloc /\ ~ (sec.tls /\ type # "TLS" /\ sec.type = "NOBITS")
\* m sums up the memory of the first k sections.
Sums(t, q, type, start, k, m) ==
  /\ m \in [0 .. k -> Int] /\ m[0] = 0
  /\ \A j \in 1 .. k : LET sec == t[q[j] + 1]
                       IN  m[j] = m[j - 1] + (IF Charged(sec, type)
                                              THEN sec.size + (sec.offset - start - EndOf(t, q, start, j - 1)) ELSE 0)
LastBare(t, q) == \A j, k \in DOMAIN q : j < k => HasBytes(t[q[j] + 1])
Measured(t, seg) ==
  /\ \A i \in Into(seg.secs) : seg.offset <= t[i + 1].offset
  /\ \A j, k \in DOMAIN seg.secs : j < k => t[seg.secs[j] + 1].offset + t[seg.secs[j] + 1].size <= t[seg.secs[k] + 1].offset
  /\ seg.size = SizeTo(t, seg.secs, seg.offset, Len(seg.secs))
  /\ \E m : Sums(t, seg.secs, seg.type, seg.offset, Len(seg.secs), m) /\ UpTo(m[Len(seg.secs)], seg.memory)
  /\ Linked(t, Into(seg.secs))
MeasuredAll(t, segs, S) == \A s \in S : segs[s].secs # <<>> /\ LastBare(t, segs[s].secs) => Measured(t, segs[s])
\* What is known of the sizes of the segment that is laid out
Measuring ==
  Current.secs # <<>> /\ LastBare(sections, Current.secs) =>
    /\ at.next - 1 \in 0 .. Len(Current.secs)
    /\ \A i \in Handled : at.start <= Sec(i).offset
    /\ at.size = SizeTo(sections, Current.secs, at.start, at.next - 1)
    /\ \E m : Sums(sections, Current.secs, Current.type, at.start, at.next - 1, m) /\ m[at.next - 1] = at.memory
MeasureInv ==
  /\ phase \in Laid /\ NestedNow => MeasuredAll(sections, segments, Done) /\ (phase = "section" => Measuring)
  /\ ~ Fresh /\ NestedOf(file) => MeasuredAll(file.sections, file.segments, DOMAIN file.segments)

\* Sections are no farther from a than they were from b in the file, those with contents as far.
Shifted(t, u, S, a, b) ==
  \A i \in S : IF HasBytes(t[i + 1]) THEN t[i + 1].offset - a = u[i + 1].offset - b
              ELSE t[i + 1].offset - a <= u[i + 1].offset - b
RelayInv ==
  phase \in Laid /\ ~ Fresh /\ Unchanged =>
    /\ \A s \in DOMAIN segments : segments[s].memory = file.segments[s].memory
    /\ \A s \in Done : /\ segments[s].size = file.segments[s].size
                       /\ Shifted(sections, file.sections, Members(s), segments[s].offset, file.segments[s].offset)
    /\ phase = "section" => Shifted(sections, file.sections, Handled, at.start, file.segments[Head(order)].offset)
\* A file stays one.
FormInv == ~ Fresh => WellFormed(file)
AgainInv == FormInv /\ BehindInv /\ ReadInv /\ RoundsInv /\ LinkInv /\ MeasureInv /\ RelayInv

-----------------------------------------------------------------------------
(* No segment begins at the start of the file. *)

LEMMA HeaderNotEmpty == EhdrSize > 0
BY FileAssumption

\* An object is put together.
LEMMA EditBehind ==
  ASSUME FileInv', AddressInv', phase' = "edit"
  PROVE  BehindInv'
<1>1. /\ file' = NoFile /\ Len(sections') >= 2 /\ sections'[1] = Created
      /\ \A k \in 2 .. Len(sections') : sections'[k].type # "NULL"
      /\ \A s \in DOMAIN segments' : ~ segments'[s].fixed /\ 0 \notin Members(s)'
  BY DEF FileInv, SectionsInv, AddressInv, Fresh, Making
<1>2. ASSUME NEW i \in Numbers', Sec(i)'.type = "NULL"
      PROVE  i = 0 /\ ~ Sec(i)'.alloc /\ Sec(i)'.offset = 0
  <2>1. i \in Nat /\ i < Len(sections') /\ Len(sections') \in Nat
    <3>1. sections' \in Seq(Header)
      BY DEF FileInv, FileTypeInv
    <3>2. Len(sections') \in Nat
      BY <3>1
    <3> QED
      BY <3>2 DEF Numbers
  <2>2. i = 0
    <3>1. ASSUME i # 0 PROVE FALSE
      <4>1. i + 1 \in 2 .. Len(sections')
        BY <2>1, <3>1
      <4> QED
        BY <1>1, <1>2, <4>1 DEF Sec
    <3> QED
      BY <3>1
  <2>3. Sec(i)' = Created
    BY <1>1, <2>2 DEF Sec
  <2>4. ~ Created.alloc /\ Created.offset = 0
    BY DEF Created
  <2> QED
    BY <2>2, <2>3, <2>4
<1> QED
  BY <1>1, <1>2 DEF BehindInv, Fresh, Laid

\* Laying out leaves the numbers in segments alone.
LEMMA KeptBehind ==
  ASSUME FileInv, BehindInv, Kept, file' = file,
         \A i \in Numbers : Sec(i).type = "NULL" => Sec(i)'.offset = Sec(i).offset,
         \A s \in DOMAIN segments : segments'[s].fixed => segments'[s].offset > 0,
         phase' = "section" => at'.start > 0,
         phase' \in Laid => /\ \A i \in generated' : Sec(i)'.offset > 0
                            /\ \A s \in Done' : segments'[s].fixed
  PROVE  BehindInv'
<1>1. /\ Numbers' = Numbers /\ DOMAIN segments' = DOMAIN segments
      /\ \A s \in DOMAIN segments : Members(s)' = Members(s)
      /\ \A i \in Numbers : Sec(i)'.type = Sec(i).type /\ Sec(i)'.alloc = Sec(i).alloc
  BY KeptMembers DEF Kept, SectionKept
<1>2. \A i \in Numbers' : Sec(i)'.type = "NULL" => i = 0 /\ ~ Sec(i)'.alloc /\ Sec(i)'.offset = 0
  BY <1>1 DEF BehindInv
<1> QED
  BY <1>1, <1>2 DEF BehindInv, Fresh

\* Steps that leave sections and segments as they are
LEMMA SameBehind ==
  ASSUME FileInv, BehindInv, UNCHANGED <<sections, segments, file>>,
         phase' = "section" => at'.start > 0,
         phase' \in Laid => /\ \A i \in generated' : Sec(i).offset > 0
                            /\ \A s \in Done' : segments[s].fixed
  PROVE  BehindInv'
<1>1. Kept /\ \A i : Sec(i)' = Sec(i)
  BY UnchangedKept DEF Sec
<1>2. \A s \in DOMAIN segments : segments'[s].fixed => segments'[s].offset > 0
  BY DEF BehindInv
<1> QED
  BY <1>1, <1>2, KeptBehind

LEMMA SaveBehind ==
  ASSUME FileInv, BehindInv, Save
  PROVE  BehindInv'
<1>1. Kept /\ sections' = sections /\ \A s \in DOMAIN segments : SameSpan(segments'[s], segments[s])
  BY SaveIs
<1>2. phase' = "order" /\ file' = file
  BY DEF Save
<1>3. \A s \in DOMAIN segments : segments'[s].fixed => segments'[s].offset > 0
  BY <1>1 DEF BehindInv, SameSpan
<1>4. \A i : Sec(i)' = Sec(i)
  BY <1>1 DEF Sec
<1> QED
  BY <1>1, <1>2, <1>3, <1>4, KeptBehind DEF Laid

\* The position is behind the headers.
LEMMA BehindHeaders ==
  ASSUME FileInv, ~ back, phase \in Laid
  PROVE  pos \in Nat /\ pos > 0
<1>1. pos \in Nat /\ First <= pos /\ First = EhdrSize + PhdrSize * Len(segments) /\ Len(segments) \in Nat
  BY PosIs, SegmentsInside DEF FileInv, PlacedInv, Laid, First
<1>2. EhdrSize \in Nat /\ PhdrSize \in Nat /\ EhdrSize > 0
  BY Sizes, HeaderNotEmpty
<1>3. PhdrSize * Len(segments) \in Nat
  BY <1>1, <1>2
<1> QED
  BY <1>1, <1>2, <1>3

LEMMA StartSegmentBehind ==
  ASSUME FileInv, BehindInv, ~ back, StartSegment
  PROVE  BehindInv'
<1>1. /\ phase = "segment" /\ order # <<>> /\ phase' = "section"
      /\ UNCHANGED <<sections, segments, order, generated, file>>
  BY DEF StartSegment
<1>2. pos \in Nat /\ pos > 0
  BY <1>1, BehindHeaders DEF Laid
<1>3. EhdrSize > 0 /\ EhdrSize \in Nat
  BY HeaderNotEmpty, Sizes
<1>4. Head(order) \in DOMAIN segments /\ Current = segments[Head(order)] /\ Current.align \in Nat /\ Current.vaddr \in Nat
  BY <1>1, CurrentIs
<1>5. ~ (Current.fixed /\ Current.offset = 0)
  <2>1. Current.fixed => Current.offset > 0
    BY <1>4 DEF BehindInv
  <2>2. Current.offset \in Int
    BY <1>1, CurrentIs, SegmentFields
  <2> QED
    BY <2>1, <2>2
<1>6. Congruent(Current.align) \in Int /\ pos <= Congruent(Current.align)
  BY <1>2, <1>4, CongruentIs
<1>7. (\A i \in generated : Sec(i).offset > 0) /\ \A s \in Done' : segments[s].fixed
  BY <1>1 DEF BehindInv, Laid, Done
<1>8. \/ at'.start = EhdrSize \/ at'.start = Congruent(Current.align) \/ at'.start = pos
      \/ \E i \in generated : at'.start = Sec(i).offset
  <2>1. \/ at' = AtOnce(1, EhdrSize, PhdrSize * Len(segments))
        \/ pos' = Congruent(Current.align) /\ at' = AtOnce(1, pos', 0)
        \/ Current.secs[1] \in generated /\ at' = AtOnce(1, Sec(Current.secs[1]).offset, 0)
        \/ at' = AtOnce(1, pos, 0)
    BY <1>5 DEF StartSegment
  <2> QED
    BY <2>1 DEF AtOnce
<1>9. at'.start > 0
  BY <1>2, <1>3, <1>6, <1>7, <1>8
<1> QED
  BY <1>1, <1>7, <1>9, SameBehind

LEMMA GenerateBehind ==
  ASSUME FileInv, PlacesInv, BehindInv, ~ back, ~ back', PlaceFixed \/ PlaceNew
  PROVE  BehindInv'
<1>1. PICK gap \in Nat : HasNext /\ Place.type # "NULL" /\ Index \notin generated /\ Generate(gap)
  BY PlacedGap
<1>2. /\ Kept /\ \A i \in Numbers : i # Index => Sec(i)' = Sec(i)
      /\ \A i : i = Index => Sec(i)'.offset = pos + gap
  BY <1>1, GeneratedIs
<1>3. /\ phase = "section" /\ phase' = "section" /\ at' = Counted(gap) /\ generated' = generated \cup {Index}
      /\ UNCHANGED <<segments, order, file>>
  BY <1>1 DEF Generate, HasNext
<1>4. at'.start = at.start
  BY <1>1, <1>3, CountedHas
<1>5. pos \in Nat /\ pos > 0
  BY <1>3, BehindHeaders DEF Laid
<1>6. generated \subseteq Numbers
  BY <1>3 DEF PlacesInv, Laid
<1>7. \A i \in generated' : Sec(i)'.offset > 0
  <2> SUFFICES ASSUME NEW i \in generated' PROVE Sec(i)'.offset > 0
    OBVIOUS
  <2>1. CASE i = Index
    <3>1. Sec(i)'.offset = pos + gap
      BY <1>2, <2>1
    <3> QED
      BY <1>5, <3>1
  <2>2. CASE i # Index
    BY <1>2, <1>3, <1>6, <2>2 DEF BehindInv, Laid
  <2> QED
    BY <2>1, <2>2
<1>8. \A i \in Numbers : Sec(i).type = "NULL" => Sec(i)' = Sec(i)
  BY <1>1, <1>2 DEF Place
<1>9. \A s \in Done' : segments'[s].fixed
  BY <1>3 DEF BehindInv, Laid, Done
<1> QED
  BY <1>2, <1>3, <1>4, <1>7, <1>8, <1>9, KeptBehind DEF BehindInv

\* One segment more has its place.
LEMMA FinishDone ==
  ASSUME FileInv, FinishSegment
  PROVE  Done' \subseteq Done \cup {Head(order)}
<1>1. order # <<>> /\ phase = "section" /\ order' = Tail(order)
  BY HandledIs DEF FinishSegment
<1>2. Into(order) = {Head(order)} \cup Into(Tail(order)) /\ DOMAIN segments' = DOMAIN segments
  BY <1>1, CurrentIs, FinishIs, KeptMembers
<1> QED
  BY <1>1, <1>2 DEF Done

LEMMA FinishBehind ==
  ASSUME FileInv, BehindInv, FinishSegment
  PROVE  BehindInv'
<1>1. /\ Kept /\ sections' = sections
      /\ \A s \in DOMAIN segments : s # Head(order) => segments'[s] = segments[s]
      /\ segments'[Head(order)].offset = at.start /\ segments'[Head(order)].fixed
  BY FinishIs
<1>2. phase = "section" /\ phase' = "segment" /\ UNCHANGED <<generated, file>>
  BY DEF FinishSegment
<1>3. \A i : Sec(i)' = Sec(i)
  BY <1>1 DEF Sec
<1>4. \A s \in DOMAIN segments : segments'[s].fixed => segments'[s].offset > 0
  BY <1>1, <1>2 DEF BehindInv
<1>5. \A i \in generated' : Sec(i)'.offset > 0
  BY <1>2, <1>3 DEF BehindInv, Laid
<1>6. ASSUME NEW s \in Done' PROVE segments'[s].fixed
  <2>1. s = Head(order) \/ (s # Head(order) /\ s \in Done /\ s \in DOMAIN segments)
    BY FinishDone DEF Done
  <2>2. \A t \in Done : segments[t].fixed
    BY <1>2 DEF BehindInv, Laid
  <2> QED
    BY <1>1, <2>1, <2>2
<1> QED
  BY <1>1, <1>2, <1>3, <1>4, <1>5, <1>6, KeptBehind

\* Sections of segments keep their place while the others get one.
LEMMA LooseOthers ==
  ASSUME FileInv, PlacesInv, PlaceLoose
  PROVE  /\ generated' = generated /\ generated \subseteq Numbers /\ Kept /\ UNCHANGED <<segments, order, file>>
         /\ phase = "loose" /\ phase' = "loose" /\ Done' = Done
         /\ \A i \in generated : Sec(i)' = Sec(i)
         /\ \A s \in DOMAIN segments : \A i \in Members(s) : Sec(i)' = Sec(i)
         /\ \A i \in Numbers : i = 0 => Sec(i)' = Sec(i)
<1>1. /\ phase = "loose" /\ phase' = "loose" /\ UNCHANGED <<segments, order, generated, file>>
  BY DEF PlaceLoose
<1>2. Kept /\ \A i \in Numbers : ~ Loose(i) => Sec(i)' = Sec(i)
  BY LooseIs
<1>3. generated \subseteq Numbers /\ \A i \in generated : \E t \in DOMAIN segments : i \in Members(t)
  BY <1>1 DEF PlacesInv, Laid, Owned, Done
<1>4. \A s \in DOMAIN segments : \A i \in Members(s) : i \in Numbers /\ ~ Loose(i)
  BY MembersIs DEF Loose, Members, Into
<1>5. ASSUME NEW i \in Numbers, i = 0 PROVE Sec(i)' = Sec(i)
  <2> DEFINE v == [sections EXCEPT ![at.next + 1].offset =
                     IF at.next = 0 THEN @ ELSE RoundedUp(pos, Sec(at.next).align)]
  <2>1. sections' = sections \/ sections' = v
    BY DEF PlaceLoose
  <2>2. sections \in Seq(Header) /\ DOMAIN sections = 1 .. Len(sections) /\ 1 \in DOMAIN sections /\ at.next \in Nat
    BY <1>5, SectionTypes, Types DEF FileInv, FileTypeInv
  <2>3. v[1] = sections[1]
    <3>1. CASE at.next = 0
      <4>1. sections[1] \in Header
        BY <2>2
      <4>2. v[1] = [sections[1] EXCEPT !.offset = @]
        BY <2>2, <3>1
      <4> QED
        BY <4>1, <4>2 DEF Header
    <3>2. CASE at.next # 0
      BY <2>2, <3>2
    <3> QED
      BY <3>1, <3>2
  <2> HIDE DEF v
  <2>4. sections'[1] = sections[1]
    BY <2>1, <2>3
  <2> QED
    BY <1>5, <2>4 DEF Sec
<1> QED
  BY <1>1, <1>2, <1>3, <1>4, <1>5 DEF Done

LEMMA LooseBehind ==
  ASSUME FileInv, PlacesInv, BehindInv, PlaceLoose
  PROVE  BehindInv'
<1>1. /\ Done' = Done /\ generated' = generated /\ Kept /\ UNCHANGED <<segments, file>> /\ phase = "loose" /\ phase' = "loose"
      /\ \A i \in generated : Sec(i)' = Sec(i)
      /\ \A i \in Numbers : i = 0 => Sec(i)' = Sec(i)
  BY LooseOthers
<1>2. \A i \in Numbers : Sec(i).type = "NULL" => Sec(i)' = Sec(i)
  BY <1>1 DEF BehindInv
<1>3. \A i \in generated' : Sec(i)'.offset > 0
  BY <1>1 DEF BehindInv, Laid
<1>4. \A s \in DOMAIN segments : segments'[s].fixed => segments'[s].offset > 0
  BY <1>1 DEF BehindInv
<1>5. \A s \in Done' : segments'[s].fixed
  BY <1>1 DEF BehindInv, Laid
<1> QED
  BY <1>1, <1>2, <1>3, <1>4, <1>5, KeptBehind

\* Sections without a type belong to no segment.
LEMMA NoNulls ==
  ASSUME FileInv, BehindInv
  PROVE  \A s \in DOMAIN segments : \A i \in Members(s) : i \in Numbers /\ Sec(i).type # "NULL"
BY MembersIs DEF BehindInv

LEMMA NoPlaceNull ==
  ASSUME FileInv, SerialInv, BehindInv, PlaceNull
  PROVE  FALSE
<1>1. HasNext /\ Sec(Index).type = "NULL"
  BY DEF PlaceNull, Place
<1>2. Index \in Members(Head(order)) /\ Head(order) \in DOMAIN segments
  BY <1>1, MoreIs, HandledIs DEF HasNext
<1> QED
  BY <1>1, <1>2, NoNulls

\* What was read of a whole file is as the file has it.
LEMMA ReadBehind ==
  ASSUME FileInv', BehindInv, file' = file, ~ Fresh, phase' \in {"sections", "segments", "loaded", "accepted"},
         \A s \in DOMAIN segments' : 0 \notin Members(s)' /\ (segments'[s].fixed => segments'[s].offset > 0)
  PROVE  BehindInv'
<1>1. /\ sections' \in Seq(Header) /\ WellFormed(file)' /\ Len(sections') <= Len(file.sections)
      /\ good' => ReadWhole'
      /\ file.whole => good'
  BY DEF FileInv, FileTypeInv, LoadInv, Loading, BackPhases
<1>2. file.whole /\ ReadWhole'
  BY <1>1 DEF BehindInv
<1>3. Len(file.sections) \in Nat /\ DOMAIN file.sections = 1 .. Len(file.sections)
  BY <1>1 DEF WellFormed
<1>4. ASSUME NEW i \in Numbers', Sec(i)'.type = "NULL"
      PROVE  i = 0 /\ ~ Sec(i)'.alloc /\ Sec(i)'.offset = 0
  <2>1. i \in Nat /\ i + 1 \in DOMAIN sections' /\ i + 1 \in DOMAIN file.sections
    <3>1. Len(sections') \in Nat /\ DOMAIN sections' = 1 .. Len(sections')
      BY <1>1
    <3> QED
      BY <1>1, <1>3, <3>1 DEF Numbers
  <2>2. SameHeader(sections'[i + 1], file.sections[i + 1])
    BY <1>2, <2>1 DEF ReadWhole
  <2>3. PICK v : v = sections'[i + 1]
    OBVIOUS
  <2>4. /\ v.type = file.sections[i + 1].type /\ v.alloc = file.sections[i + 1].alloc
        /\ v.offset = file.sections[i + 1].offset /\ Sec(i)' = v
    BY <2>2, <2>3 DEF SameHeader, Sec
  <2>5. i + 1 = 1 /\ ~ v.alloc /\ v.offset = 0
    BY <1>4, <2>1, <2>4 DEF BehindInv
  <2> QED
    BY <2>1, <2>4, <2>5
<1> QED
  BY <1>4 DEF BehindInv, Fresh, Laid

LEMMA LoadSegmentBehind ==
  ASSUME FileInv, FileInv', AddressInv, BehindInv, LoadSegment
  PROVE  BehindInv'
<1>1. /\ phase = "segments" /\ file' = file /\ sections' = sections
      /\ \/ phase' = "segments"
         \/ phase' = "rejected" /\ segments' = segments
      /\ Len(segments) + 1 <= Len(file.segments)
  BY DEF LoadSegment
<1>2. WellFormed(file) /\ ~ Fresh
  BY <1>1, LoadingIs DEF Loading
<1>3. CASE phase' = "rejected"
  <2>1. \A i : Sec(i)' = Sec(i)
    BY <1>1 DEF Sec
  <2> QED
    BY <1>1, <1>3, <2>1, SameBehind DEF Laid
<1>4. CASE phase' = "segments"
  <2>1. PICK n \in Nat : n = Len(segments) /\ DOMAIN segments = 1 .. n /\ segments \in Seq(SegmentHeader)
    BY SegmentsInside
  <2>2. PICK h : h = file.segments[n + 1]
    OBVIOUS
  <2>3. n + 1 \in DOMAIN file.segments /\ h \in SegmentHeader
    BY <1>1, <1>2, <2>1, <2>2, FileIs
  <2>4. h.offset > 0 /\ h.offset \in Int
    BY <1>2, <2>2, <2>3, SegmentFields DEF BehindInv
  <2>5. PICK q : q = SectionsOf(h)
    OBVIOUS
  <2>6. q \in Seq(Nat) /\ Into(q) = {i \in Numbers : InSegment(Sec(i), h)}
    BY <2>5, SectionsOfHas
  <2>7. 0 \notin Into(q)
    <3>1. SUFFICES ASSUME 0 \in Numbers, InSegment(Sec(0), h) PROVE FALSE
      BY <2>6
    <3>2. Sec(0).type = "NULL"
      <4>1. sections # <<>> /\ Sec(0) = sections[1]
        BY <3>1, SectionTypes DEF FileInv, Sec
      <4> QED
        BY <4>1 DEF FileInv, SectionsInv
    <3>3. ~ Sec(0).alloc /\ Sec(0).offset = 0
      BY <3>1, <3>2 DEF BehindInv
    <3>4. h.offset <= 0
      BY <3>1, <3>3 DEF InSegment, IsSectInSeg
    <3> QED
      BY <2>4, <3>4
  <2>8. PICK v : v = [h EXCEPT !.fixed = TRUE, !.secs = q]
    OBVIOUS
  <2>9. segments' = Append(segments, v)
    BY <1>4, <2>1, <2>2, <2>5, <2>8 DEF LoadSegment
  <2>10. v.secs = q /\ v.offset = h.offset /\ v.fixed /\ v \in SegmentHeader
    BY <2>3, <2>6, <2>8 DEF SegmentHeader
  <2>11. /\ DOMAIN segments' = 1 .. n + 1 /\ segments'[n + 1] = v
         /\ \A s \in 1 .. n : segments'[s] = segments[s]
    BY <2>1, <2>9, <2>10
  <2>12. ASSUME NEW s \in DOMAIN segments'
         PROVE  0 \notin Members(s)' /\ (segments'[s].fixed => segments'[s].offset > 0)
    <3>1. CASE s \in 1 .. n
      BY <2>1, <2>11, <3>1 DEF BehindInv, Members
    <3>2. CASE s = n + 1
      BY <2>4, <2>7, <2>10, <2>11, <3>2 DEF Members
    <3> QED
      BY <2>1, <2>11, <2>12, <3>1, <3>2
  <2> QED
    BY <1>1, <1>2, <1>4, <2>12, ReadBehind
<1> QED
  BY <1>1, <1>3, <1>4

LEMMA WriteBehind ==
  ASSUME FileInv, BehindInv, WriteFile
  PROVE  BehindInv'
<1>1. /\ phase = "loose" /\ phase' = "saved" /\ order = <<>> /\ file'.sections = sections /\ file'.segments = segments
      /\ UNCHANGED <<sections, segments, layout>> /\ Done = DOMAIN segments
  BY WrittenIs
<1>2. file'.whole
  BY DEF WriteFile
<1>3. \A s \in DOMAIN segments : segments[s].offset > 0
  BY <1>1 DEF BehindInv, Laid
<1>4. \A k \in DOMAIN sections : sections[k].type = "NULL" => k = 1 /\ ~ sections[k].alloc /\ sections[k].offset = 0
  <2> SUFFICES ASSUME NEW k \in DOMAIN sections, sections[k].type = "NULL"
               PROVE  k = 1 /\ ~ sections[k].alloc /\ sections[k].offset = 0
    OBVIOUS
  <2>1. k \in Nat /\ k - 1 \in Numbers /\ k - 1 + 1 = k
    BY SectionTypes DEF FileInv
  <2>2. Sec(k - 1) = sections[k]
    BY <2>1 DEF Sec
  <2>3. k - 1 = 0 /\ ~ sections[k].alloc /\ sections[k].offset = 0
    BY <2>1, <2>2 DEF BehindInv
  <2> QED
    BY <2>1, <2>3
<1>5. /\ Numbers' = Numbers /\ \A i : Sec(i)' = Sec(i)
      /\ \A s : Members(s)' = Members(s)
  BY <1>1 DEF Numbers, Sec, Members
<1> QED
  BY <1>1, <1>2, <1>3, <1>4, <1>5 DEF BehindInv, Laid

\* Something is appended to a section that was loaded.
LEMMA AmendBehind ==
  ASSUME FileInv, BehindInv, NEW i, AppendData(i, NameSize), phase' # "edit"
  PROVE  BehindInv'
<1>1. /\ UNCHANGED <<segments, order, generated, file, at>> /\ i \in Numbers
      /\ phase' \notin Laid /\ phase' # "section"
  BY DEF AppendData, layout, Laid
<1>2. CASE phase' = "crashed"
  <2>1. sections' = sections
    BY <1>2 DEF AppendData
  <2> QED
    BY <1>1, <2>1, SameBehind
<1>3. CASE phase' # "crashed"
  <2>1. PICK v \in Header : SamePlace(v, Sec(i)) /\ sections' = [sections EXCEPT ![i + 1] = v]
    BY <1>3, AppendDataIs
  <2>2. Numbers' = Numbers /\ \A l \in Numbers : Sec(l)' = IF l = i THEN v ELSE Sec(l)
    BY <1>1, <2>1, ReplacedIs
  <2>3. \A l \in Numbers' : /\ Sec(l)'.type = Sec(l).type /\ Sec(l)'.alloc = Sec(l).alloc
                            /\ Sec(l)'.offset = Sec(l).offset /\ l \in Numbers
    BY <2>1, <2>2 DEF SamePlace
  <2>4. \A l \in Numbers' : Sec(l)'.type = "NULL" => l = 0 /\ ~ Sec(l)'.alloc /\ Sec(l)'.offset = 0
    BY <2>3 DEF BehindInv
  <2> QED
    BY <1>1, <2>4 DEF BehindInv, Fresh, Members
<1> QED
  BY <1>2, <1>3

LEMMA BehindStep ==
  ASSUME FileInv, FileInv', MapInv, AddressInv', OwnInv, BehindInv, ~ back, ~ back', FileNext
  PROVE  BehindInv'
<1>1. SerialInv /\ AddressInv /\ PlacesInv
  BY DEF MapInv
<1>2. ASSUME Edit PROVE BehindInv'
  <2>1. phase' = "edit" \/ \E i \in Numbers : AppendData(i, NameSize)
    BY <1>2 DEF Edit, AddSection, AddSegment, AddSectionIndex
  <2> QED
    BY <2>1, AmendBehind, EditBehind
<1>3. ASSUME LayOut PROVE BehindInv'
  <2>1. ASSUME OrderSegment \/ SaveAborts PROVE BehindInv'
    <3>1. phase' \in {"order", "failed"} /\ UNCHANGED <<sections, segments, file>>
      BY <2>1 DEF OrderSegment, SaveAborts, layout
    <3> QED
      BY <3>1, SameBehind DEF Laid
  <2>2. ASSUME StartLayout PROVE BehindInv'
    <3>1. /\ phase' = "segment" /\ UNCHANGED <<sections, segments, order, file>> /\ generated' = {} /\ Done' = {}
      <4>1. phase = "order" /\ todo = <<>> /\ DOMAIN segments = Into(todo) \cup Into(order) /\ generated = {}
        BY <2>2 DEF StartLayout, FileInv, OrderInv
      <4>2. Into(todo) = {}
        BY <4>1, Types, IntoIs
      <4> QED
        BY <2>2, <4>1, <4>2 DEF StartLayout, Done, layout
    <3> QED
      BY <3>1, SameBehind
  <2>3. ASSUME CountGenerated PROVE BehindInv'
    <3>1. /\ phase = "section" /\ phase' = phase /\ UNCHANGED <<sections, segments, order, generated, file>>
          /\ HasNext /\ \E gap \in Int : at' = Counted(gap)
      <4>1. HasNext /\ at' = Counted(Place.offset - at.start - at.size)
        BY <2>3 DEF CountGenerated
      <4>2. Place.offset \in Int /\ at.start \in Int /\ at.size \in Int
        BY <4>1, NextIs, HeaderFields, Types
      <4>3. Place.offset - at.start - at.size \in Int
        BY <4>2
      <4> QED
        BY <2>3, <4>1, <4>3 DEF CountGenerated, HasNext
    <3>2. at'.start = at.start
      BY <3>1, CountedHas
    <3> QED
      BY <3>1, <3>2, SameBehind DEF BehindInv, Laid, Done
  <2>4. ASSUME StartLoose PROVE BehindInv'
    <3>1. phase = "segment" /\ phase' = "loose" /\ UNCHANGED <<sections, segments, order, generated, file>>
      BY <2>4 DEF StartLoose
    <3> QED
      BY <3>1, SameBehind DEF BehindInv, Laid, Done
  <2>5. ASSUME PlaceNull PROVE BehindInv'
    BY <1>1, <2>5, NoPlaceNull
  <2> QED
    BY <1>1, <1>3, <2>1, <2>2, <2>3, <2>4, <2>5, StartSegmentBehind, GenerateBehind, FinishBehind, LooseBehind,
       WriteBehind DEF LayOut
<1>4. ASSUME NEW length \in Cuts, Truncate(length) PROVE BehindInv'
  BY <1>4 DEF Truncate, OwnInv
<1>5. ASSUME Load PROVE BehindInv'
  <2>1. /\ phase = "saved" /\ sections' = <<>> /\ segments' = <<>> /\ file' = file /\ phase' \in {"sections", "rejected"}
    BY <1>5 DEF Load
  <2>2. DOMAIN segments' = {} /\ Numbers' = {}
    BY <2>1 DEF Numbers
  <2> QED
    BY <2>1, <2>2 DEF BehindInv, Fresh, Laid
<1>6. ASSUME LoadSection \/ NameSections PROVE BehindInv'
  <2>1. phase = "sections" /\ phase' \in {"sections", "segments"} /\ UNCHANGED <<segments, file>>
    BY <1>6 DEF LoadSection, NameSections
  <2>2. ~ Fresh
    BY <1>1, <2>1, LoadingIs DEF Loading
  <2> QED
    BY <2>1, <2>2, ReadBehind DEF BehindInv, Members
<1>7. ASSUME FinishLoad \/ ElfValid PROVE BehindInv'
  <2>1. UNCHANGED <<sections, segments, file>> /\ phase' \notin Laid /\ phase' # "section"
    BY <1>7 DEF FinishLoad, ElfValid, Laid
  <2> QED
    BY <2>1, SameBehind
<1> QED
  BY <1>1, <1>2, <1>3, <1>4, <1>5, <1>6, <1>7, SaveBehind, LoadSegmentBehind DEF FileNext, Read

-----------------------------------------------------------------------------
(* What was loaded is laid out as the file has it. *)

LEMMA KeptRead ==
  ASSUME FileInv, AddressInv, ReadInv, Kept, file' = file, phase \in LayoutPhases \cup {"loaded", "amended"}, ~ Fresh,
         phase' \notin Laid => /\ phase \notin Laid
                               /\ \A s \in DOMAIN segments : segments'[s].memory = segments[s].memory,
         phase' # "segments"
  PROVE  ReadInv'
<1>1. /\ Len(sections') = Len(sections) /\ Numbers' = Numbers /\ Len(segments') = Len(segments)
      /\ DOMAIN segments' = DOMAIN segments
      /\ \A i \in Numbers : SectionKept(Sec(i), Sec(i)')
      /\ \A s \in DOMAIN segments : SegmentKept(segments[s], segments'[s])
  BY KeptMembers DEF Kept
<1>2. \A i \in Numbers : Sec(i).fixed
  BY SectionTypes DEF AddressInv, LayoutPhases, Loading, FileInv
<1>3. \A i \in Numbers : /\ Sec(i)'.type = Sec(i).type /\ Sec(i)'.alloc = Sec(i).alloc
                         /\ Sec(i)'.tls = Sec(i).tls /\ Sec(i)'.address = Sec(i).address
  BY <1>1, <1>2 DEF SectionKept
<1>4. /\ Len(sections) = Len(file.sections) /\ Len(segments) = Len(file.segments)
      /\ \A i \in Numbers : /\ Sec(i).type = SecOf(file, i).type
                            /\ Sec(i).alloc = SecOf(file, i).alloc /\ Sec(i).tls = SecOf(file, i).tls
                            /\ Sec(i).address = SecOf(file, i).address
      /\ \A s \in DOMAIN segments :
           /\ segments[s].type = file.segments[s].type /\ segments[s].vaddr = file.segments[s].vaddr
           /\ phase \notin Laid => segments[s].memory = file.segments[s].memory
      /\ \A s \in DOMAIN file.segments : file.segments[s].memory >= 0
  BY DEF ReadInv, LayoutPhases
<1>5. \A i \in Numbers' : /\ Sec(i)'.type = SecOf(file', i).type
                          /\ Sec(i)'.alloc = SecOf(file', i).alloc /\ Sec(i)'.tls = SecOf(file', i).tls
                          /\ Sec(i)'.address = SecOf(file', i).address
  BY <1>1, <1>3, <1>4
<1>6. \A s \in DOMAIN segments' :
        /\ segments'[s].type = file'.segments[s].type /\ segments'[s].vaddr = file'.segments[s].vaddr
        /\ phase' \notin Laid => segments'[s].memory = file'.segments[s].memory
  BY <1>1, <1>4 DEF SegmentKept
<1>7. Len(segments) <= Len(file.segments)
  BY <1>4, SegmentsInside
<1> QED
  BY <1>1, <1>4, <1>5, <1>6, <1>7 DEF ReadInv

\* Segments as they are read
LEMMA WholeRead ==
  ASSUME FileInv', AddressInv', BehindInv', phase' \in {"segments", "loaded"}
  PROVE  /\ Len(sections') = Len(file'.sections)
         /\ \A i \in Numbers' : /\ Sec(i)'.type = SecOf(file', i).type /\ Sec(i)'.size = SecOf(file', i).size
                                /\ Sec(i)'.alloc = SecOf(file', i).alloc /\ Sec(i)'.tls = SecOf(file', i).tls
                                /\ Sec(i)'.address = SecOf(file', i).address
<1>1. /\ sections' \in Seq(Header) /\ WellFormed(file)' /\ Len(sections') = Len(file'.sections)
      /\ file'.whole => ReadWhole'
  BY DEF FileInv, FileTypeInv, LoadInv, Loading, BackPhases
<1>2. ~ Fresh'
  <2>1. Len(file'.sections) > 0
    BY <1>1 DEF WellFormed
  <2>2. Len(NoFile.sections) = 0
    BY DEF NoFile
  <2> QED
    BY <2>1, <2>2 DEF Fresh
<1>3. ReadWhole'
  BY <1>1, <1>2 DEF BehindInv
<1>4. ASSUME NEW i \in Numbers'
      PROVE  /\ Sec(i)'.type = SecOf(file', i).type /\ Sec(i)'.size = SecOf(file', i).size
             /\ Sec(i)'.alloc = SecOf(file', i).alloc /\ Sec(i)'.tls = SecOf(file', i).tls
             /\ Sec(i)'.address = SecOf(file', i).address
  <2>1. i + 1 \in DOMAIN sections'
    <3>1. Len(sections') \in Nat /\ DOMAIN sections' = 1 .. Len(sections')
      BY <1>1
    <3> QED
      BY <3>1 DEF Numbers
  <2>2. SameHeader(sections'[i + 1], file'.sections[i + 1])
    BY <1>3, <2>1 DEF ReadWhole
  <2> QED
    BY <2>2 DEF SameHeader, Sec, SecOf
<1> QED
  BY <1>1, <1>4

LEMMA LoadSegmentRead ==
  ASSUME FileInv, FileInv', AddressInv, AddressInv', ReadInv, BehindInv', LoadSegment
  PROVE  ReadInv'
<1>1. /\ phase = "segments" /\ file' = file
      /\ Len(segments) + 1 <= Len(file.segments) /\ phase' \in {"segments", "rejected"}
  BY DEF LoadSegment
<1>2. CASE phase' = "rejected"
  BY <1>2 DEF ReadInv, LayoutPhases
<1>3. CASE phase' = "segments"
  <2>1. PICK n \in Nat : n = Len(segments) /\ DOMAIN segments = 1 .. n /\ segments \in Seq(SegmentHeader)
    BY SegmentsInside
  <2>2. PICK h : h = file.segments[n + 1]
    OBVIOUS
  <2>3. n + 1 \in DOMAIN file.segments /\ h \in SegmentHeader
    <3>1. WellFormed(file)
      BY <1>1, LoadingIs DEF Loading
    <3> QED
      BY <1>1, <2>1, <2>2, <3>1, FileIs
  <2>4. PICK q : q = SectionsOf(h)
    OBVIOUS
  <2>5. q \in Seq(Nat)
    BY <2>4, SectionsOfHas
  <2>6. PICK v : v = [h EXCEPT !.fixed = TRUE, !.secs = q]
    OBVIOUS
  <2>7. segments' = Append(segments, v)
    BY <1>3, <2>1, <2>2, <2>4, <2>6 DEF LoadSegment
  <2>8. v.type = h.type /\ v.vaddr = h.vaddr /\ v.memory = h.memory /\ v \in SegmentHeader
    BY <2>3, <2>5, <2>6 DEF SegmentHeader
  <2>9. /\ DOMAIN segments' = 1 .. n + 1 /\ segments'[n + 1] = v /\ Len(segments') = n + 1
        /\ \A s \in 1 .. n : segments'[s] = segments[s]
    BY <2>1, <2>7, <2>8
  <2>10. ASSUME NEW s \in DOMAIN segments'
         PROVE  /\ segments'[s].type = file.segments[s].type /\ segments'[s].vaddr = file.segments[s].vaddr
                /\ segments'[s].memory = file.segments[s].memory
    <3>1. CASE s \in 1 .. n
      BY <1>1, <2>1, <2>9, <3>1 DEF ReadInv, Laid
    <3>2. CASE s = n + 1
      BY <2>2, <2>8, <2>9, <3>2
    <3> QED
      BY <2>1, <2>9, <2>10, <3>1, <3>2
  <2>11. Len(segments') <= Len(file.segments)
    BY <1>1, <2>1, <2>9
  <2>12. \A t \in DOMAIN file'.segments : file'.segments[t].memory >= 0
    BY <1>1 DEF ReadInv
  <2> QED
    BY <1>1, <1>3, <2>10, <2>11, <2>12, WholeRead DEF ReadInv
<1> QED
  BY <1>1, <1>2, <1>3

\* Something is appended to a section that was loaded.
LEMMA AmendRead ==
  ASSUME FileInv, AddressInv, ReadInv, NEW i, AppendData(i, NameSize)
  PROVE  ReadInv'
<1>1. /\ UNCHANGED <<segments, file>> /\ i \in Numbers /\ phase' \notin LayoutPhases /\ phase' \notin Laid
      /\ phase' # "segments" /\ phase' # "loaded" /\ (phase' = "amended" => phase \in {"loaded", "amended"})
  BY DEF AppendData, LayoutPhases, Laid
<1>2. CASE phase' # "amended"
  BY <1>1, <1>2 DEF ReadInv
<1>3. CASE phase' = "amended"
  <2>1. PICK v \in Header : SamePlace(v, Sec(i)) /\ sections' = [sections EXCEPT ![i + 1] = v]
    BY <1>3, AppendDataIs
  <2>2. /\ Len(sections') = Len(sections) /\ Numbers' = Numbers
        /\ \A l \in Numbers : Sec(l)' = IF l = i THEN v ELSE Sec(l)
    BY <1>1, <2>1, ReplacedIs
  <2>3. \A l \in Numbers : /\ Sec(l)'.type = Sec(l).type /\ Sec(l)'.alloc = Sec(l).alloc
                           /\ Sec(l)'.tls = Sec(l).tls /\ Sec(l)'.address = Sec(l).address
    BY <2>1, <2>2 DEF SamePlace
  <2>4. phase \notin Laid /\ phase # "segments"
    BY <1>1, <1>3 DEF Laid
  <2>5. /\ Len(sections) = Len(file.sections) /\ Len(segments) = Len(file.segments)
        /\ Len(segments) <= Len(file.segments)
        /\ \A l \in Numbers : /\ Sec(l).type = SecOf(file, l).type /\ Sec(l).alloc = SecOf(file, l).alloc
                              /\ Sec(l).tls = SecOf(file, l).tls /\ Sec(l).address = SecOf(file, l).address
        /\ \A s \in DOMAIN segments :
             /\ segments[s].type = file.segments[s].type /\ segments[s].vaddr = file.segments[s].vaddr
             /\ segments[s].memory = file.segments[s].memory
        /\ \A s \in DOMAIN file.segments : file.segments[s].memory >= 0
    BY <1>1, <1>3, <2>4 DEF ReadInv
  <2>6. \A l \in Numbers' : /\ Sec(l)'.type = SecOf(file', l).type /\ Sec(l)'.alloc = SecOf(file', l).alloc
                            /\ Sec(l)'.tls = SecOf(file', l).tls /\ Sec(l)'.address = SecOf(file', l).address
    BY <1>1, <2>2, <2>3, <2>5
  <2>7. \A s \in DOMAIN segments' :
          /\ segments'[s].type = file'.segments[s].type /\ segments'[s].vaddr = file'.segments[s].vaddr
          /\ segments'[s].memory = file'.segments[s].memory
    BY <1>1, <2>5
  <2> QED
    BY <1>1, <2>2, <2>5, <2>6, <2>7 DEF ReadInv
<1> QED
  BY <1>2, <1>3

LEMMA ReadStep ==
  ASSUME FileInv, FileInv', MapInv, AddressInv', ReadInv, BehindInv', ~ back', FileNext
  PROVE  ReadInv'
<1>1. SerialInv /\ AddressInv /\ PlacesInv
  BY DEF MapInv
<1>2. ASSUME Edit \/ Load \/ LoadSection \/ ElfValid \/ \E length \in Cuts : Truncate(length) PROVE ReadInv'
  <2>1. \/ phase' \notin {"segments", "loaded", "amended"} \cup LayoutPhases
        \/ \E i \in Numbers : AppendData(i, NameSize)
    BY <1>2 DEF Edit, AddSection, AddSegment, AddSectionIndex, Load, LoadSection, ElfValid, Truncate,
                LayoutPhases
  <2> QED
    BY <1>1, <2>1, AmendRead DEF ReadInv
<1>3. ASSUME Save PROVE ReadInv'
  <2>1. /\ Kept /\ \A s \in DOMAIN segments : segments'[s].memory = segments[s].memory
    BY <1>3, SaveIs DEF SameSpan
  <2>2. file' = file /\ phase' = "order" /\ phase \in {"edit", "loaded", "amended"}
    BY <1>3 DEF Save
  <2>3. CASE Fresh
    BY <2>2, <2>3 DEF ReadInv, Fresh
  <2>4. CASE ~ Fresh
    <3>1. phase \in {"loaded", "amended"}
      BY <1>1, <2>2, <2>4 DEF AddressInv
    <3> QED
      BY <1>1, <2>1, <2>2, <2>4, <3>1, KeptRead DEF Laid
  <2> QED
    BY <2>3, <2>4
<1>4. ASSUME LayOut PROVE ReadInv'
  <2>1. CASE phase' \in {"failed", "saved"}
    BY <2>1 DEF ReadInv, LayoutPhases
  <2>2. CASE Fresh
    <3>1. phase' \in {"failed", "saved"} \/ (file' = file /\ phase' \in LayoutPhases)
      BY <1>4 DEF LayOut, OrderSegment, StartLayout, StartSegment, PlaceNull, PlaceFixed, SaveAborts, PlaceNew,
                  Generate, CountGenerated, FinishSegment, StartLoose, PlaceLoose, WriteFile, HasNext, LayoutPhases
    <3> QED
      BY <2>1, <2>2, <3>1 DEF ReadInv, Fresh, LayoutPhases
  <2>3. CASE ~ Fresh /\ phase' \notin {"failed", "saved"}
    <3>1. ASSUME \/ OrderSegment \/ StartLayout \/ StartSegment \/ PlaceNull \/ CountGenerated \/ StartLoose
          PROVE  ReadInv'
      <4>1. /\ UNCHANGED <<sections, segments, file>> /\ phase \in LayoutPhases
            /\ phase' \in LayoutPhases /\ (phase' \notin Laid => phase \notin Laid)
        BY <3>1 DEF OrderSegment, StartLayout, StartSegment, PlaceNull, CountGenerated, StartLoose, HasNext,
                    LayoutPhases, Laid, layout
      <4>2. Kept
        BY <4>1, UnchangedKept
      <4> QED
        BY <1>1, <2>3, <4>1, <4>2, KeptRead DEF LayoutPhases
    <3>2. ASSUME PlaceFixed \/ PlaceNew PROVE ReadInv'
      <4>1. PICK gap \in Nat : HasNext /\ Generate(gap)
        BY <3>2, PlacedGap
      <4>2. Kept
        BY <4>1, GeneratedIs
      <4>3. file' = file /\ phase = "section" /\ phase' = "section"
        BY <4>1 DEF Generate, HasNext
      <4> QED
        BY <1>1, <2>3, <4>2, <4>3, KeptRead DEF LayoutPhases, Laid
    <3>3. ASSUME FinishSegment PROVE ReadInv'
      <4>1. Kept /\ file' = file /\ phase = "section" /\ phase' = "segment"
        BY <3>3, FinishIs DEF FinishSegment
      <4> QED
        BY <1>1, <2>3, <4>1, KeptRead DEF LayoutPhases, Laid
    <3>4. ASSUME PlaceLoose PROVE ReadInv'
      <4>1. Kept /\ file' = file /\ phase = "loose" /\ phase' = "loose"
        BY <3>4, LooseIs DEF PlaceLoose
      <4> QED
        BY <1>1, <2>3, <4>1, KeptRead DEF LayoutPhases, Laid
    <3>5. ASSUME SaveAborts \/ WriteFile PROVE FALSE
      BY <2>3, <3>5 DEF SaveAborts, WriteFile
    <3> QED
      BY <1>4, <3>1, <3>2, <3>3, <3>4, <3>5 DEF LayOut
  <2> QED
    BY <2>1, <2>2, <2>3
<1>5. ASSUME NameSections PROVE ReadInv'
  <2>1. phase = "sections" /\ phase' = "segments" /\ segments' = segments /\ file' = file
    BY <1>5 DEF NameSections
  <2>2. segments = <<>> /\ WellFormed(file)
    BY <2>1 DEF FileInv, LoadInv, Loading
  <2>3. Len(segments') = 0 /\ DOMAIN segments' = {} /\ Len(file.segments) \in Nat
    BY <2>1, <2>2, FileIs
  <2>4. \A s \in DOMAIN file.segments : file.segments[s].memory >= 0
    BY <2>1 DEF MapInv, FoundInv, Loading
  <2> QED
    BY <2>1, <2>3, <2>4, WholeRead DEF ReadInv
<1>6. ASSUME FinishLoad PROVE ReadInv'
  <2>1. /\ phase = "segments" /\ phase' = "loaded" /\ UNCHANGED <<segments, sections, file>>
        /\ Len(segments) = Len(file.segments)
    BY <1>6 DEF FinishLoad
  <2>2. \A s \in DOMAIN file.segments : file.segments[s].memory >= 0
    BY <2>1 DEF ReadInv
  <2> QED
    BY <2>1, <2>2, WholeRead DEF ReadInv, Laid
<1> QED
  BY <1>1, <1>2, <1>3, <1>4, <1>5, <1>6, LoadSegmentRead DEF FileNext, Read

\* No segment is at offset 0: their order is that of their numbers at first.
LEMMA ZeroFirstSame ==
  ASSUME NEW n \in Nat, n = Len(segments),
         \A s \in 1 .. n : ~ (segments[s].fixed /\ segments[s].offset = 0)
  PROVE  ZeroFirst = [s \in 1 .. n |-> s]
<1> DEFINE l == [s \in 1 .. n |-> s]
           d == [list |-> l, next |-> 1]
           h == [i \in 0 .. n |-> d]
           f == Rounds(n)
<1>1. ASSUME NEW i \in 1 .. n PROVE Round(i, d) = d
  <2>1. d.list[i] = i
    OBVIOUS
  <2>2. ~ (segments[d.list[i]].fixed /\ segments[d.list[i]].offset = 0)
    BY <2>1
  <2> HIDE DEF d
  <2> QED
    BY <2>2 DEF Round
<1>2. h = [i \in 0 .. n |-> IF i = 0 THEN d ELSE Round(i, h[i - 1])]
  <2>1. \A i \in 0 .. n : h[i] = d /\ (i # 0 => i \in 1 .. n /\ i - 1 \in 0 .. n)
    OBVIOUS
  <2>2. h = [i \in 0 .. n |-> h[i]]
    OBVIOUS
  <2> HIDE DEF h, d
  <2>3. \A i \in 0 .. n : h[i] = IF i = 0 THEN d ELSE Round(i, h[i - 1])
    BY <1>1, <2>1
  <2> QED
    BY <2>2, <2>3
<1>3. f = [i \in 0 .. n |-> IF i = 0 THEN d ELSE Round(i, f[i - 1])]
  BY <1>2, Zenon DEF Rounds
<1>4. f[0] = d /\ \A i \in 1 .. n : f[i] = Round(i, f[i - 1])
  <2> HIDE DEF f, d
  <2>1. \A i \in 0 .. n : f[i] = IF i = 0 THEN d ELSE Round(i, f[i - 1])
    BY <1>3
  <2> QED
    BY <2>1
<1> DEFINE S == {i \in 0 .. n : f[i] = d}
<1>5. \A i \in 0 .. n : i \in S
  <2> HIDE DEF f, d
  <2>1. 0 \in S
    BY <1>4
  <2>2. ASSUME NEW m \in 0 .. n - 1, m \in S PROVE m + 1 \in S
    <3>1. m + 1 \in 1 .. n /\ m + 1 - 1 = m
      OBVIOUS
    <3> QED
      BY <1>1, <1>4, <2>2, <3>1
  <2> HIDE DEF S
  <2> QED
    BY <2>1, <2>2, Upwards
<1>6. f[n] = d
  <2> HIDE DEF f, d
  <2>1. n \in S
    BY <1>5
  <2> QED
    BY <2>1
<1> HIDE DEF f
<1>7. f[n].list = l
  BY <1>6
<1> QED
  BY <1>7, ZeroFirstRounds DEF f

\* The rounds give one order only.
LEMMA OneOrder ==
  ASSUME NEW q, NEW o, NEW p, Reaches(q, <<>>, o), Reaches(q, <<>>, p)
  PROVE  o = p
<1>1. PICK n \in Nat : \E w : Works(q, n, w) /\ w[n] = [todo |-> <<>>, order |-> o]
  BY DEF Reaches
<1>2. PICK w : Works(q, n, w) /\ w[n] = [todo |-> <<>>, order |-> o]
  BY <1>1
<1>3. PICK m \in Nat : \E v : Works(q, m, v) /\ v[m] = [todo |-> <<>>, order |-> p]
  BY DEF Reaches
<1>4. PICK v : Works(q, m, v) /\ v[m] = [todo |-> <<>>, order |-> p]
  BY <1>3
<1>5. ASSUME NEW i \in Nat, i <= n, i <= m PROVE w[i] = v[i]
  <2> DEFINE S == {k \in Nat : w[k] = v[k]}
  <2>1. 0 \in S
    BY <1>2, <1>4 DEF Works
  <2>2. ASSUME NEW k \in 0 .. i - 1, k \in S PROVE k + 1 \in S
    <3>1. k + 1 \in 1 .. n /\ k + 1 \in 1 .. m /\ k + 1 - 1 = k
      BY <1>5
    <3>2. w[k + 1] = Taken(q, w[k]) /\ v[k + 1] = Taken(q, v[k])
      BY <1>2, <1>4, <3>1 DEF Works
    <3> QED
      BY <2>2, <3>2
  <2> HIDE DEF S
  <2>3. \A k \in 0 .. i : k \in S
    BY <2>1, <2>2, Upwards
  <2>4. i \in S
    BY <2>3
  <2> QED
    BY <2>4 DEF S
<1>6. ~ (n < m)
  <2>1. SUFFICES ASSUME n < m PROVE FALSE
    OBVIOUS
  <2>2. n + 1 \in 1 .. m /\ n + 1 - 1 = n /\ w[n] = v[n]
    BY <1>5, <2>1
  <2>3. v[n].todo # <<>>
    BY <1>4, <2>2 DEF Works
  <2> QED
    BY <1>2, <2>2, <2>3
<1>7. ~ (m < n)
  <2>1. SUFFICES ASSUME m < n PROVE FALSE
    OBVIOUS
  <2>2. m + 1 \in 1 .. n /\ m + 1 - 1 = m /\ w[m] = v[m]
    BY <1>5, <2>1
  <2>3. w[m].todo # <<>>
    <3>1. \A i \in 1 .. n : w[i - 1].todo # <<>>
      BY <1>2 DEF Works
    <3> QED
      BY <2>2, <3>1
  <2> QED
    BY <1>4, <2>2, <2>3
<1>8. n = m /\ w[n] = v[n]
  BY <1>5, <1>6, <1>7
<1>9. [todo |-> <<>>, order |-> o].order = [todo |-> <<>>, order |-> p].order
  BY <1>2, <1>4, <1>8
<1> QED
  BY <1>9

\* One round more
LEMMA RoundMore ==
  ASSUME NEW q, NEW todos, NEW o, NEW todos2, NEW o2, Reaches(q, todos, o), todos # <<>>,
         [todo |-> todos2, order |-> o2] = Taken(q, [todo |-> todos, order |-> o])
  PROVE  Reaches(q, todos2, o2)
<1>1. PICK n \in Nat : \E w : Works(q, n, w) /\ w[n] = [todo |-> todos, order |-> o]
  BY DEF Reaches
<1>2. PICK w : Works(q, n, w) /\ w[n] = [todo |-> todos, order |-> o]
  BY <1>1
<1> DEFINE v == [i \in 0 .. n + 1 |-> IF i = n + 1 THEN [todo |-> todos2, order |-> o2] ELSE w[i]]
<1>3. v[n + 1] = [todo |-> todos2, order |-> o2] /\ \A i \in 0 .. n : v[i] = w[i]
  BY SMT
<1> HIDE DEF v
<1>4. Works(q, n + 1, v)
  <2>1. v[0] = [todo |-> [s \in 1 .. Len(q) |-> s], order |-> <<>>]
    BY <1>2, <1>3 DEF Works
  <2>2. ASSUME NEW i \in 1 .. n + 1 PROVE v[i - 1].todo # <<>> /\ v[i] = Taken(q, v[i - 1])
    <3>1. CASE i = n + 1
      BY <1>2, <1>3, <3>1
    <3>2. CASE i # n + 1
      <4>1. i \in 1 .. n /\ i \in 0 .. n /\ i - 1 \in 0 .. n
        BY <3>2
      <4>2. w[i - 1].todo # <<>> /\ w[i] = Taken(q, w[i - 1])
        BY <1>2, <4>1 DEF Works
      <4>3. v[i - 1] = w[i - 1] /\ v[i] = w[i]
        BY <1>3, <4>1
      <4> QED
        BY <4>2, <4>3
    <3> QED
      BY <3>1, <3>2
  <2> QED
    BY <2>1, <2>2 DEF Works
<1>5. n + 1 \in Nat
  OBVIOUS
<1> QED
  BY <1>3, <1>4, <1>5 DEF Reaches

LEMMA SecsKept ==
  ASSUME FileInv, Kept
  PROVE  SecsOf(segments)' = SecsOf(segments)
<1>1. DOMAIN segments' = DOMAIN segments /\ \A s \in DOMAIN segments : segments'[s].secs = segments[s].secs
  BY KeptMembers
<1> QED
  BY <1>1 DEF SecsOf

LEMMA SaveRounds ==
  ASSUME FileInv, BehindInv, RoundsInv, Save
  PROVE  RoundsInv'
<1>1. Kept /\ sections' = sections /\ segments \in Seq(SegmentHeader) /\ Len(segments) \in Nat
  BY SaveIs, SegmentsInside
<1>2. /\ phase' = "order" /\ file' = file /\ todo' = ZeroFirst /\ order' = <<>>
  BY DEF Save
<1>3. SecsOf(segments)' = SecsOf(segments)
  BY <1>1, SecsKept
<1>4. ZeroFirst = [s \in 1 .. Len(segments) |-> s]
  <2>1. \A s \in 1 .. Len(segments) : ~ (segments[s].fixed /\ segments[s].offset = 0)
    BY <1>1 DEF BehindInv
  <2> QED
    BY <1>1, <2>1, ZeroFirstSame
<1>5. Len(SecsOf(segments)) = Len(segments)
  <2>1. SecsOf(segments) = [s \in 1 .. Len(segments) |-> segments[s].secs]
    BY <1>1 DEF SecsOf
  <2>2. [s \in 1 .. Len(segments) |-> segments[s].secs] \in [1 .. Len(segments) -> Seq(Nat)]
    BY <1>1, SegmentFields
  <2> QED
    BY <1>1, <2>1, <2>2, SeqOf
<1>6. Reaches(SecsOf(segments), ZeroFirst, <<>>)
  <2> DEFINE v == [i \in {0} |-> [todo |-> ZeroFirst, order |-> <<>>]]
  <2>1. v[0] = [todo |-> ZeroFirst, order |-> <<>>]
    OBVIOUS
  <2> HIDE DEF v
  <2>2. 1 .. 0 = {} /\ 0 \in Nat
    OBVIOUS
  <2>3. Works(SecsOf(segments), 0, v)
    BY <1>4, <1>5, <2>1, <2>2 DEF Works
  <2> QED
    BY <2>1, <2>2, <2>3 DEF Reaches
<1>7. phase' \notin Laid
  BY <1>2 DEF Laid
<1> QED
  BY <1>2, <1>3, <1>6, <1>7 DEF RoundsInv, Fresh

LEMMA OrderRounds ==
  ASSUME FileInv, RoundsInv, OrderSegment
  PROVE  RoundsInv'
<1>1. /\ phase = "order" /\ todo # <<>> /\ phase' = "order" /\ UNCHANGED <<segments, file>>
  BY DEF OrderSegment
<1> DEFINE s == Head(todo)
           rest == Tail(todo)
           q == SecsOf(segments)
<1>2. todo \in Seq(Nat) /\ DOMAIN segments = Into(todo) \cup Into(order)
  BY <1>1, Types DEF FileInv, OrderInv
<1>3. s \in DOMAIN segments /\ \A k \in DOMAIN rest : rest[k] \in DOMAIN segments
  <2>1. Into(todo) = {s} \cup Into(rest)
    BY <1>1, <1>2, IntoIs
  <2>2. \A k \in DOMAIN rest : rest[k] \in Into(rest)
    BY DEF Into
  <2> QED
    BY <1>2, <2>1, <2>2
<1>4. (\E k \in DOMAIN rest : PartOf(s, rest[k])) <=> (\E k \in DOMAIN rest : Smaller(q[s], q[rest[k]]))
  <2>1. q[s] = segments[s].secs /\ \A k \in DOMAIN rest : q[rest[k]] = segments[rest[k]].secs
    BY <1>3 DEF SecsOf
  <2> QED
    BY <2>1, PartIs
<1>5. [todo |-> todo', order |-> order'] = Taken(q, [todo |-> todo, order |-> order])
  <2>1. Taken(q, [todo |-> todo, order |-> order]) =
          IF \E k \in DOMAIN rest : Smaller(q[s], q[rest[k]])
          THEN [todo |-> Append(rest, s), order |-> order]
          ELSE [todo |-> rest, order |-> Append(order, s)]
    BY DEF Taken
  <2>2. IF \E k \in DOMAIN rest : PartOf(s, rest[k])
        THEN todo' = Append(rest, s) /\ order' = order
        ELSE todo' = rest /\ order' = Append(order, s)
    BY DEF OrderSegment
  <2> HIDE DEF s, rest, q
  <2> QED
    BY <1>4, <2>1, <2>2
<1>6. Reaches(q, todo, order)
  BY <1>1 DEF RoundsInv
<1>7. Reaches(q, todo', order')
  <2> HIDE DEF q
  <2> QED
    BY <1>1, <1>5, <1>6, RoundMore
<1>8. phase' \notin Laid
  BY <1>1 DEF Laid
<1> QED
  BY <1>1, <1>7, <1>8 DEF RoundsInv, Fresh

LEMMA StartLayoutRounds ==
  ASSUME FileInv, SerialInv, RoundsInv, StartLayout
  PROVE  RoundsInv'
<1>1. /\ phase = "order" /\ todo = <<>> /\ phase' = "segment" /\ UNCHANGED <<sections, segments, file, order>>
  BY DEF StartLayout, layout
<1>2. order \in Seq(Nat) /\ Into(order) = DOMAIN segments /\ Len(order) \in Nat
  BY <1>1, Types, IntoIs DEF FileInv, OrderInv
<1>3. NoRepeat(order)
  BY <1>1 DEF SerialInv, LayoutPhases
<1>4. Reaches(SecsOf(segments), <<>>, order)
  BY <1>1 DEF RoundsInv
<1>5. InTurn(order, 0)'
  BY <1>1, <1>2, <1>3, <1>4 DEF InTurn
<1>6. Led(order)'
  BY <1>1, <1>2 DEF Led, Done
<1>7. \E o \in Seq(Nat) : \E d \in Nat : InTurn(o, d)' /\ Led(o)'
  BY <1>1, <1>2, <1>5, <1>6
<1> QED
  BY <1>1, <1>7 DEF RoundsInv, Fresh

\* What is behind a segment with its sections has them from it.
LEMMA BehindCovered ==
  ASSUME FileInv, phase \in {"segment", "section"}, order # <<>>, NEW o \in Seq(Nat), NEW d \in Nat, InTurn(o, d),
         Behind(SecsOf(segments), o, Head(order))
  PROVE  Covered
<1>1. PICK k \in DOMAIN o, l \in DOMAIN o :
        k < l /\ o[l] = Head(order) /\ Into(SecsOf(segments)[Head(order)]) \subseteq Into(SecsOf(segments)[o[k]])
  BY DEF Behind
<1>2. order \in Seq(Nat) /\ Len(order) \in Nat /\ Len(order) > 0 /\ DOMAIN order = 1 .. Len(order)
  <2>1. order \in Seq(Nat)
    BY Types
  <2> QED
    BY <2>1
<1>3. DOMAIN o = 1 .. Len(o) /\ Len(o) = d + Len(order)
  BY DEF InTurn
<1>4. l = 1 + d
  <2>1. order[1] = Head(order) /\ order[1] = o[1 + d] /\ 1 + d \in DOMAIN o
    BY <1>2, <1>3 DEF InTurn
  <2> QED
    BY <1>1, <2>1 DEF InTurn, NoRepeat
<1>5. o[k] \notin Into(order)
  <2>1. ASSUME NEW j \in 1 .. Len(order), order[j] = o[k] PROVE FALSE
    <3>1. order[j] = o[j + d] /\ j + d \in DOMAIN o
      BY <1>2, <1>3 DEF InTurn
    <3>2. j + d = k
      BY <1>1, <2>1, <3>1 DEF InTurn, NoRepeat
    <3> QED
      BY <1>1, <1>2, <1>3, <1>4, <3>2
  <2> QED
    BY <1>2, <2>1 DEF Into
<1>6. o[k] \in DOMAIN segments
  BY <1>1 DEF InTurn, Into
<1>7. o[k] \in Done /\ Head(order) \in DOMAIN segments
  BY <1>5, <1>6, CurrentIs DEF Done
<1> QED
  BY <1>1, <1>6, <1>7 DEF Covered, SecsOf, Members

LEMMA CoveredPlaced ==
  ASSUME FileInv, phase \in {"segment", "section"}, order # <<>>, Covered
  PROVE  Members(Head(order)) \subseteq generated
BY DoneIs DEF Covered, Laid

LEMMA LaidRounds ==
  ASSUME FileInv, RoundsInv, Kept, UNCHANGED <<segments, order, file>>, phase \in Laid, phase' \in Laid,
         \A i \in generated : Sec(i)' = Sec(i),
         phase' = "section" => phase = "section" /\ at'.start = at.start
  PROVE  RoundsInv'
<1>1. PICK o \in Seq(Nat) : \E d \in Nat : InTurn(o, d) /\ Led(o)
  BY DEF RoundsInv
<1>2. PICK d \in Nat : InTurn(o, d) /\ Led(o)
  BY <1>1
<1>3. InTurn(o, d)'
  BY <1>2 DEF InTurn
<1>4. ASSUME NEW s \in DOMAIN segments, NEW start, Members(s) \subseteq generated,
             Leading(sections, segments[s], start)
      PROVE  Leading(sections', segments[s], start)
  <2>1. CASE segments[s].secs # <<>>
    <3>1. segments[s].secs[1] \in Members(s)
      <4>1. 1 \in DOMAIN segments[s].secs
        BY <2>1, MembersIs
      <4> QED
        BY <4>1 DEF Members, Into
    <3>2. Sec(segments[s].secs[1])' = Sec(segments[s].secs[1])
      BY <1>4, <3>1
    <3> QED
      BY <1>4, <3>2 DEF Leading, Sec
  <2> QED
    BY <2>1 DEF Leading
<1>5. Done' = Done
  BY DEF Done
<1>6. ASSUME NEW s \in Done, Behind(SecsOf(segments), o, s)
      PROVE  Leading(sections', segments[s], segments[s].offset)
  BY <1>2, <1>4, <1>6, DoneIs DEF Led
<1>7. ASSUME phase' = "section", Behind(SecsOf(segments), o, Head(order))
      PROVE  Leading(sections', Current, at.start)
  <2>1. phase = "section" /\ order # <<>> /\ Head(order) \in DOMAIN segments
    BY <1>7, HandledIs
  <2>2. Members(Head(order)) \subseteq generated
    BY <1>2, <1>7, <2>1, BehindCovered, CoveredPlaced
  <2> QED
    BY <1>2, <1>4, <1>7, <2>1, <2>2 DEF Led, Current
<1>8. Led(o)'
  BY <1>5, <1>6, <1>7 DEF Led, Current
<1>9. \E p \in Seq(Nat) : \E e \in Nat : InTurn(p, e)' /\ Led(p)'
  BY <1>3, <1>8
<1>10. phase' # "order"
  BY DEF Laid
<1> QED
  BY <1>9, <1>10 DEF RoundsInv, Fresh

LEMMA StartSegmentRounds ==
  ASSUME FileInv, BehindInv, RoundsInv, StartSegment
  PROVE  RoundsInv'
<1>1. /\ phase = "segment" /\ order # <<>> /\ phase' = "section"
      /\ UNCHANGED <<sections, segments, order, generated, file>>
  BY DEF StartSegment
<1>2. PICK o \in Seq(Nat) : \E d \in Nat : InTurn(o, d) /\ Led(o)
  BY <1>1 DEF RoundsInv, Laid
<1>3. PICK d \in Nat : InTurn(o, d) /\ Led(o)
  BY <1>2
<1>4. InTurn(o, d)'
  BY <1>1, <1>3 DEF InTurn
<1>5. Head(order) \in DOMAIN segments /\ Current = segments[Head(order)] /\ Current.secs \in Seq(Nat)
  BY <1>1, CurrentIs
<1>6. ASSUME Behind(SecsOf(segments), o, Head(order)) PROVE Leading(sections, Current, at'.start)
  <2>1. SUFFICES ASSUME Current.secs # <<>> PROVE at'.start = sections[Current.secs[1] + 1].offset
    BY DEF Leading
  <2>2. Current.secs[1] \in generated
    <3>1. Covered /\ Members(Head(order)) \subseteq generated
      BY <1>1, <1>3, <1>6, BehindCovered, CoveredPlaced
    <3>2. 1 \in DOMAIN Current.secs
      BY <1>5, <2>1
    <3> QED
      BY <1>5, <3>1, <3>2 DEF Members, Into
  <2>3. ~ (Current.fixed /\ Current.offset = 0)
    BY <1>5 DEF BehindInv
  <2>4. at' = AtOnce(1, Sec(Current.secs[1]).offset, 0)
    BY <2>1, <2>2, <2>3 DEF StartSegment
  <2> QED
    BY <2>4 DEF AtOnce, Sec
<1>7. Led(o)'
  <2>1. Done' = Done
    BY <1>1 DEF Done
  <2> QED
    BY <1>1, <1>3, <1>6, <2>1 DEF Led, Current
<1>8. \E p \in Seq(Nat) : \E e \in Nat : InTurn(p, e)' /\ Led(p)'
  BY <1>4, <1>7
<1> QED
  BY <1>1, <1>8 DEF RoundsInv, Fresh

LEMMA FinishRounds ==
  ASSUME FileInv, RoundsInv, FinishSegment
  PROVE  RoundsInv'
<1>1. /\ Kept /\ sections' = sections
      /\ \A s \in DOMAIN segments : s # Head(order) => segments'[s] = segments[s]
      /\ segments'[Head(order)].offset = at.start
  BY FinishIs
<1>2. /\ phase = "section" /\ phase' = "segment" /\ order # <<>> /\ order' = Tail(order) /\ file' = file
      /\ Head(order) \in DOMAIN segments /\ Current = segments[Head(order)]
  BY HandledIs DEF FinishSegment
<1>3. PICK o \in Seq(Nat) : \E d \in Nat : InTurn(o, d) /\ Led(o)
  BY <1>2 DEF RoundsInv, Laid
<1>4. PICK d \in Nat : InTurn(o, d) /\ Led(o)
  BY <1>3
<1>5. /\ DOMAIN segments' = DOMAIN segments /\ SecsOf(segments') = SecsOf(segments)
      /\ \A s \in DOMAIN segments : segments'[s].secs = segments[s].secs
  BY <1>1, KeptMembers, SecsKept
<1>6. InTurn(o, d + 1)'
  <2>1. order \in Seq(Nat) /\ Len(order) \in Nat /\ Len(order') = Len(order) - 1
    <3>1. order \in Seq(Nat)
      BY Types
    <3> QED
      BY <1>2, <3>1
  <2>2. Len(o) = d + 1 + Len(order')
    BY <1>4, <2>1 DEF InTurn
  <2>3. ASSUME NEW k \in 1 .. Len(order') PROVE order'[k] = o[k + (d + 1)]
    <3>1. k + 1 \in 1 .. Len(order) /\ k + 1 + d = k + (d + 1)
      BY <2>1
    <3>2. order'[k] = order[k + 1]
      BY <1>2, <2>1, <3>1
    <3>3. order[k + 1] = o[k + 1 + d]
      BY <1>4, <3>1 DEF InTurn
    <3> QED
      BY <3>1, <3>2, <3>3
  <2> QED
    BY <1>4, <1>5, <2>2, <2>3 DEF InTurn
<1>7. Done' \subseteq Done \cup {Head(order)}
  BY FinishDone
<1>8. ASSUME NEW s \in Done', Behind(SecsOf(segments), o, s)
      PROVE  Leading(sections, segments'[s], segments'[s].offset)
  <2>1. CASE s = Head(order)
    BY <1>1, <1>2, <1>4, <1>5, <1>8, <2>1 DEF Led, Leading
  <2>2. CASE s # Head(order)
    <3>1. s \in Done
      BY <1>7, <2>2
    <3>2. segments'[s] = segments[s]
      BY <1>1, <2>2, <3>1 DEF Done
    <3> QED
      BY <1>4, <1>8, <3>1, <3>2 DEF Led
  <2> QED
    BY <2>1, <2>2
<1>9. Led(o)'
  BY <1>1, <1>2, <1>5, <1>8 DEF Led
<1>10. \E p \in Seq(Nat) : \E e \in Nat : InTurn(p, e)' /\ Led(p)'
  <2>1. d + 1 \in Nat
    OBVIOUS
  <2> QED
    BY <1>6, <1>9, <2>1
<1> QED
  BY <1>2, <1>10 DEF RoundsInv, Fresh

LEMMA WriteRounds ==
  ASSUME FileInv, RoundsInv, WriteFile
  PROVE  RoundsInv'
<1>1. /\ phase = "loose" /\ phase' = "saved" /\ order = <<>> /\ Done = DOMAIN segments
      /\ file'.sections = sections /\ file'.segments = segments
  BY WrittenIs
<1>2. PICK o \in Seq(Nat) : \E d \in Nat : InTurn(o, d) /\ Led(o)
  BY <1>1 DEF RoundsInv, Laid
<1>3. LedOf(file')
  BY <1>1, <1>2 DEF InTurn, Led, LedOf
<1> QED
  BY <1>1, <1>3 DEF RoundsInv, Laid

\* Another step leaves the file.
LEMMA OtherRounds ==
  ASSUME RoundsInv, file' = file, phase' \notin Laid \cup {"order"}
  PROVE  RoundsInv'
BY DEF RoundsInv, Fresh

LEMMA RoundsStep ==
  ASSUME FileInv, MapInv, OwnInv, BehindInv, RoundsInv, ~ back', FileNext
  PROVE  RoundsInv'
<1>1. SerialInv /\ AddressInv /\ PlacesInv
  BY DEF MapInv
<1>2. ASSUME Edit \/ Read PROVE RoundsInv'
  <2>1. file' = file /\ phase' \notin Laid \cup {"order"}
    BY <1>2 DEF Edit, AddSection, AppendData, AddSegment, AddSectionIndex, Read, Load, LoadSection, NameSections,
                LoadSegment, FinishLoad, ElfValid, Laid
  <2> QED
    BY <2>1, OtherRounds
<1>3. ASSUME NEW length \in Cuts, Truncate(length) PROVE FALSE
  BY <1>3 DEF Truncate, OwnInv
<1>4. ASSUME LayOut PROVE RoundsInv'
  <2>1. ASSUME PlaceFixed \/ PlaceNew PROVE RoundsInv'
    <3>1. PICK gap \in Nat : HasNext /\ Place.type # "NULL" /\ Index \notin generated /\ Generate(gap)
      BY <2>1, PlacedGap
    <3>2. Kept /\ \A i \in Numbers : i # Index => Sec(i)' = Sec(i)
      BY <3>1, GeneratedIs
    <3>3. /\ phase = "section" /\ phase' = "section" /\ UNCHANGED <<segments, order, file>>
          /\ at' = Counted(gap)
      BY <3>1 DEF Generate, HasNext
    <3>4. at'.start = at.start
      BY <3>1, <3>3, CountedHas
    <3>5. generated \subseteq Numbers
      BY <1>1, <3>3 DEF PlacesInv, Laid
    <3> QED
      BY <3>1, <3>2, <3>3, <3>4, <3>5, LaidRounds DEF Laid
  <2>2. ASSUME CountGenerated PROVE RoundsInv'
    <3>1. /\ phase = "section" /\ phase' = "section" /\ UNCHANGED <<sections, segments, order, file>> /\ HasNext
          /\ at' = Counted(Place.offset - at.start - at.size)
      BY <2>2 DEF CountGenerated, HasNext
    <3>2. Place.offset - at.start - at.size \in Int
      <4>1. Place \in Header
        BY <3>1, NextIs
      <4> QED
        BY <4>1, HeaderFields, Types
    <3>3. at'.start = at.start
      BY <3>1, <3>2, CountedHas
    <3>4. Kept /\ \A i : Sec(i)' = Sec(i)
      BY <3>1, UnchangedKept DEF Sec
    <3> QED
      BY <3>1, <3>3, <3>4, LaidRounds DEF Laid
  <2>3. ASSUME StartLoose PROVE RoundsInv'
    <3>1. /\ phase = "segment" /\ phase' = "loose" /\ UNCHANGED <<sections, segments, order, file>>
      BY <2>3 DEF StartLoose
    <3>2. Kept /\ \A i : Sec(i)' = Sec(i)
      BY <3>1, UnchangedKept DEF Sec
    <3> QED
      BY <3>1, <3>2, LaidRounds DEF Laid
  <2>4. ASSUME PlaceLoose PROVE RoundsInv'
    BY <1>1, <2>4, LooseOthers, LaidRounds DEF Laid
  <2>5. ASSUME SaveAborts PROVE RoundsInv'
    BY <2>5, OtherRounds DEF SaveAborts, Laid
  <2> QED
    BY <1>1, <1>4, <2>1, <2>2, <2>3, <2>4, <2>5, OrderRounds, StartLayoutRounds, StartSegmentRounds, FinishRounds,
       WriteRounds, NoPlaceNull DEF LayOut
<1> QED
  BY <1>2, <1>3, <1>4, SaveRounds DEF FileNext

\* Where the segment puts the address of its next section
Wanted == at.start + (Place.address - Current.vaddr)

\* A section that gets a place, and the section it becomes
LEMMA NewPlace ==
  ASSUME FileInv, ~ back', PlaceFixed \/ PlaceNew
  PROVE  \E gap \in Nat : \E sec \in Header :
           /\ HasNext /\ Place.type # "NULL" /\ Index \notin generated /\ Generate(gap)
           /\ \A i : i = Index => Sec(i)' = sec
           /\ SectionKept(Place, sec) /\ sec.offset = pos + gap
           /\ ~ Place.fixed => sec.address = Current.vaddr + (pos + gap) - at.start
           /\ ByAddress => sec.offset = Wanted
           /\ Place.fixed /\ ~ ByAddress => gap = 0
           /\ Filled(sec) => sec.address - sec.offset = Current.vaddr - at.start
<1>1. /\ HasNext /\ Place.type # "NULL" /\ Index \notin generated
      /\ Place \in Header /\ Place.address \in Int /\ Current.vaddr \in Int
  <2>1. HasNext /\ Place.type # "NULL" /\ Index \notin generated
    BY PlacedGap
  <2> QED
    BY <2>1, NextIs, CurrentIs, HeaderFields
<1>2. PICK gap \in Nat : Generate(gap) /\ (ByAddress => gap = Wanted - pos) /\ (Place.fixed /\ ~ ByAddress => gap = 0)
  <2>1. PICK gap \in Nat : /\ Generate(gap) /\ (ByAddress => gap = Requested - Passed)
                           /\ Place.fixed /\ ~ ByAddress => gap = 0
    BY PlacedGap
  <2>2. Requested - Passed = Wanted - pos
    <3>1. PICK a \in Int, v \in Int, p \in Int, start \in Int :
            a = Place.address /\ v = Current.vaddr /\ p = pos /\ start = at.start
      BY <1>1, Types
    <3>2. a - v - (p - start) = start + (a - v) - p
      OBVIOUS
    <3> QED
      BY <3>1, <3>2 DEF Requested, Passed, Wanted
  <2>3. /\ Generate(gap) /\ (Place.fixed /\ ~ ByAddress => gap = 0)
        /\ (ByAddress => gap = Wanted - pos)
    BY <2>1, <2>2
  <2> QED
    BY <2>3
<1>3. PICK n \in Numbers : n = Index
  BY <1>1, NextIs
<1>4. /\ Sec(n)'.offset = pos + gap /\ SectionKept(Sec(n), Sec(n)') /\ Sec(n)' \in Header
      /\ ~ Place.fixed => Sec(n)'.address = Current.vaddr + (pos + gap) - at.start
  <2>1. Kept /\ Sec(n)'.offset = pos + gap /\ (~ Place.fixed => Sec(n)'.address = Current.vaddr + (pos + gap) - at.start)
    BY <1>1, <1>2, <1>3, GeneratedIs
  <2>2. sections' \in Seq(Header) /\ Len(sections') = Len(sections) /\ n + 1 \in 1 .. Len(sections)
    BY <1>1, <1>3, <2>1, NextIs DEF Kept
  <2> QED
    BY <2>1, <2>2 DEF Kept, Sec
<1>5. PICK sec \in Header : sec = Sec(n)'
  BY <1>4
<1>6. Place = Sec(n) /\ Place \in Header /\ Current.vaddr \in Nat /\ pos \in Int /\ at.start \in Int
  BY <1>1, <1>3, NextIs, CurrentIs, Types
<1>7. SectionKept(Place, sec) /\ sec.offset = pos + gap
      /\ (~ Place.fixed => sec.address = Current.vaddr + (pos + gap) - at.start)
  BY <1>4, <1>5, <1>6
<1>8. Place.address \in Int /\ sec.address \in Int
  BY <1>6, HeaderFields
<1>9. Wanted = at.start + (Place.address - Current.vaddr)
  BY DEF Wanted
<1>10. ByAddress => sec.offset = Wanted
  BY <1>2, <1>6, <1>7, <1>8, <1>9
<1>11. Filled(sec) => sec.address - sec.offset = Current.vaddr - at.start
  <2>1. SUFFICES ASSUME Filled(sec) PROVE sec.address - sec.offset = Current.vaddr - at.start
    OBVIOUS
  <2>2. CASE Place.fixed
    <3>1. ByAddress /\ sec.address = Place.address
      BY <1>7, <2>1, <2>2 DEF ByAddress, Filled, HasBytes, SectionKept
    <3> QED
      BY <1>6, <1>8, <1>9, <1>10, <3>1
  <2>3. CASE ~ Place.fixed
    BY <1>6, <1>7, <1>8, <2>3
  <2> QED
    BY <2>2, <2>3
<1>12. \A i : i = Index => Sec(i)' = sec
  BY <1>3, <1>5
<1> QED
  BY <1>1, <1>2, <1>7, <1>10, <1>11, <1>12

\* Sections with a place keep it.
LEMMA LinkedSame ==
  ASSUME FileInv, Kept, NEW S, S \subseteq Numbers, \A i \in S : Sec(i)' = Sec(i), Linked(sections, S)
  PROVE  Linked(sections', S)
BY DEF Linked, Sec

LEMMA LaidLink ==
  ASSUME FileInv, LinkInv, Kept, UNCHANGED <<segments, order>>, phase \in Laid, phase' \in Laid,
         \A i \in generated : Sec(i)' = Sec(i),
         phase' = "section" /\ ~ Covered' /\ NestedNow => \A i \in Handled' : Filled(Sec(i)') =>
           Sec(i)'.address - Sec(i)'.offset = Current'.vaddr - at'.start
  PROVE  LinkInv'
<1>1. SUFFICES ASSUME NestedNow' PROVE LinkInv'
  BY DEF LinkInv
<1>2. NestedNow /\ Done' = Done /\ \A s \in DOMAIN segments : Members(s)' = Members(s)
  BY <1>1, KeptMembers DEF Done
<1>3. ASSUME NEW s \in Done PROVE Linked(sections', Members(s))
  <2>1. s \in DOMAIN segments /\ Members(s) \subseteq generated /\ Members(s) \subseteq Numbers
    BY <1>3, DoneIs, MembersIs DEF Done
  <2>2. Linked(sections, Members(s))
    BY <1>2 DEF LinkInv
  <2> QED
    BY <2>1, <2>2, LinkedSame
<1>4. \A s \in Done' : Linked(sections', Members(s)')
  BY <1>2, <1>3 DEF Done
<1> QED
  BY <1>2, <1>4 DEF LinkInv

LEMMA GenerateLink ==
  ASSUME FileInv, SerialInv, PlacesInv, LinkInv, ~ back', PlaceFixed \/ PlaceNew
  PROVE  LinkInv'
<1>1. PICK gap \in Nat : \E sec \in Header :
           /\ HasNext /\ Place.type # "NULL" /\ Index \notin generated /\ Generate(gap)
           /\ \A i : i = Index => Sec(i)' = sec
           /\ Filled(sec) => sec.address - sec.offset = Current.vaddr - at.start
  BY NewPlace
<1>2. PICK sec \in Header :
           /\ HasNext /\ Place.type # "NULL" /\ Index \notin generated /\ Generate(gap)
           /\ \A i : i = Index => Sec(i)' = sec
           /\ Filled(sec) => sec.address - sec.offset = Current.vaddr - at.start
  BY <1>1
<1>3. Kept /\ \A i \in Numbers : i # Index => Sec(i)' = Sec(i)
  BY <1>2, GeneratedIs
<1>4. /\ phase = "section" /\ phase' = "section" /\ UNCHANGED <<segments, order, file>>
      /\ at' = Counted(gap)
  BY <1>2 DEF Generate, HasNext
<1>5. at'.next = at.next + 1 /\ at'.start = at.start
  BY <1>2, <1>4, CountedHas
<1>6. Current' = Current /\ Handled' = Handled \cup {Index} /\ (Covered' <=> Covered)
  BY <1>2, <1>3, <1>4, <1>5, UnderwayNext
<1>7. generated \subseteq Numbers
  BY <1>4 DEF PlacesInv, Laid
<1>8. \A i \in generated : Sec(i)' = Sec(i)
  BY <1>2, <1>3, <1>7
<1>9. Handled \subseteq generated
  BY <1>4, HandledIs
<1>10. ASSUME ~ Covered, NestedNow, NEW i \in Handled', Filled(Sec(i)')
       PROVE  Sec(i)'.address - Sec(i)'.offset = Current'.vaddr - at'.start
  <2>1. CASE i = Index
    BY <1>2, <1>5, <1>6, <1>10, <2>1
  <2>2. CASE i \in Handled
    <3>1. Sec(i)' = Sec(i)
      BY <1>8, <1>9, <2>2
    <3>2. Sec(i).address - Sec(i).offset = Current.vaddr - at.start
      BY <1>4, <1>10, <2>2, <3>1 DEF LinkInv, Laid
    <3> QED
      BY <1>5, <1>6, <3>1, <3>2
  <2> QED
    BY <1>6, <1>10, <2>1, <2>2
<1> QED
  BY <1>3, <1>4, <1>6, <1>8, <1>10, LaidLink DEF Laid

LEMMA CountLink ==
  ASSUME FileInv, SerialInv, PlacesInv, LinkInv, CountGenerated
  PROVE  LinkInv'
<1>1. /\ phase = "section" /\ phase' = "section" /\ UNCHANGED <<sections, segments, order, file>> /\ HasNext
      /\ Index \in generated
  BY DEF CountGenerated, HasNext
<1>2. Kept /\ \A i : Sec(i)' = Sec(i)
  BY <1>1, UnchangedKept DEF Sec
<1>3. NestedNow => Covered
  BY <1>1, NewIs
<1>4. Covered' <=> Covered
  <2>1. Done' = Done /\ DOMAIN segments' = DOMAIN segments /\ \A s \in DOMAIN segments : Members(s)' = Members(s)
    BY <1>1, <1>2, KeptMembers DEF Done
  <2>2. Members(Head(order))' = Members(Head(order))
    BY <1>1 DEF Members
  <2> QED
    BY <1>1, <2>1, <2>2 DEF Covered, Members
<1> QED
  BY <1>1, <1>2, <1>3, <1>4, LaidLink DEF Laid

LEMMA StartLink ==
  ASSUME FileInv, LinkInv, StartSegment
  PROVE  LinkInv'
<1>1. /\ phase = "segment" /\ phase' = "section" /\ UNCHANGED <<sections, segments, order, file>>
  BY DEF StartSegment
<1>2. Kept /\ \A i : Sec(i)' = Sec(i)
  BY <1>1, UnchangedKept DEF Sec
<1>3. Handled' = {}
  <2>1. at'.next = 1
    BY DEF StartSegment, AtOnce
  <2>2. Current' = Current /\ DOMAIN Current.secs = 1 .. Len(Current.secs)
    BY <1>1, CurrentIs DEF Current, StartSegment
  <2> QED
    BY <2>1, <2>2 DEF Handled
<1> QED
  BY <1>1, <1>2, <1>3, LaidLink DEF Laid

LEMMA FinishLink ==
  ASSUME FileInv, SerialInv, LinkInv, FinishSegment
  PROVE  LinkInv'
<1>1. /\ phase = "section" /\ phase' = "segment" /\ sections' = sections /\ at.next > Len(Current.secs)
      /\ Kept
  BY FinishIs DEF FinishSegment
<1>2. SUFFICES ASSUME NestedNow' PROVE \A s \in Done' : Linked(sections, Members(s)')
  BY <1>1 DEF LinkInv
<1>3. NestedNow /\ \A s \in DOMAIN segments : Members(s)' = Members(s)
  BY <1>1, <1>2, KeptMembers
<1>4. Done' \subseteq Done \cup {Head(order)} /\ Done \subseteq DOMAIN segments /\ Head(order) \in DOMAIN segments
  BY <1>1, FinishDone, HandledIs DEF Done
<1>5. \A s \in Done : Linked(sections, Members(s))
  BY <1>1, <1>3 DEF LinkInv, Laid
<1>6. Linked(sections, Members(Head(order)))
  <2>1. CASE Covered
    BY <1>5, <2>1 DEF Covered, Linked
  <2>2. CASE ~ Covered
    <3>1. Handled = Members(Head(order))
      BY <1>1, HandledIs
    <3>2. \A i \in Handled : Filled(Sec(i)) => Sec(i).address - Sec(i).offset = Current.vaddr - at.start
      BY <1>1, <1>3, <2>2 DEF LinkInv, Laid
    <3> QED
      BY <3>1, <3>2 DEF Linked, Sec
  <2> QED
    BY <2>1, <2>2
<1> QED
  BY <1>3, <1>4, <1>5, <1>6

LEMMA LinkStep ==
  ASSUME FileInv, MapInv, BehindInv, LinkInv, ~ back', FileNext
  PROVE  LinkInv'
<1>1. SerialInv /\ AddressInv /\ PlacesInv
  BY DEF MapInv
<1>2. ASSUME phase' \notin Laid PROVE LinkInv'
  BY <1>2 DEF LinkInv
<1>3. ASSUME Edit \/ Read \/ Save \/ OrderSegment \/ SaveAborts \/ WriteFile \/ \E length \in Cuts : Truncate(length)
      PROVE  LinkInv'
  <2>1. phase' \notin Laid
    BY <1>3 DEF Edit, AddSection, AppendData, AddSegment, AddSectionIndex, Read, Load, LoadSection, NameSections,
                LoadSegment, FinishLoad, ElfValid, Save, OrderSegment, SaveAborts, WriteFile, Truncate, Laid
  <2> QED
    BY <1>2, <2>1
<1>4. ASSUME StartLayout PROVE LinkInv'
  <2>1. phase = "order" /\ todo = <<>> /\ phase' = "segment" /\ UNCHANGED <<segments, order>>
    BY <1>4 DEF StartLayout, layout
  <2>2. DOMAIN segments = Into(order)
    BY <2>1, Types, IntoIs DEF FileInv, OrderInv
  <2>3. Done' = {}
    BY <2>1, <2>2 DEF Done
  <2> QED
    BY <2>1, <2>3 DEF LinkInv
<1>5. ASSUME StartLoose PROVE LinkInv'
  <2>1. /\ phase = "segment" /\ phase' = "loose" /\ UNCHANGED <<sections, segments, order, file>>
    BY <1>5 DEF StartLoose
  <2>2. Kept /\ \A i : Sec(i)' = Sec(i)
    BY <2>1, UnchangedKept DEF Sec
  <2> QED
    BY <2>1, <2>2, LaidLink DEF Laid
<1>6. ASSUME PlaceLoose PROVE LinkInv'
  BY <1>1, <1>6, LooseOthers, LaidLink DEF Laid
<1> QED
  BY <1>1, <1>3, <1>4, <1>5, <1>6, StartLink, GenerateLink, CountLink, FinishLink, NoPlaceNull DEF FileNext, LayOut

\* Sizes depend on the sections of the segment.
LEMMA MeasuredSame ==
  ASSUME NEW t, NEW u, NEW seg \in SegmentHeader, \A i \in Into(seg.secs) : u[i + 1] = t[i + 1]
  PROVE  /\ LastBare(t, seg.secs) <=> LastBare(u, seg.secs)
         /\ Measured(t, seg) => Measured(u, seg)
<1>1. /\ seg.secs \in Seq(Nat) /\ DOMAIN seg.secs = 1 .. Len(seg.secs) /\ Len(seg.secs) \in Nat
      /\ \A k \in 1 .. Len(seg.secs) : seg.secs[k] \in Into(seg.secs) /\ u[seg.secs[k] + 1] = t[seg.secs[k] + 1]
  BY SegmentFields DEF Into
<1>2. LastBare(t, seg.secs) <=> LastBare(u, seg.secs)
  BY <1>1 DEF LastBare
<1>3. ASSUME NEW start, NEW k \in 0 .. Len(seg.secs)
      PROVE  /\ EndOf(u, seg.secs, start, k) = EndOf(t, seg.secs, start, k)
             /\ SizeTo(u, seg.secs, start, k) = SizeTo(t, seg.secs, start, k)
  <2>1. \A j \in 0 .. Len(seg.secs) : EndOf(u, seg.secs, start, j) = EndOf(t, seg.secs, start, j)
    BY <1>1 DEF EndOf
  <2>2. CASE k = 0
    BY <1>1, <2>1, <2>2 DEF SizeTo
  <2>3. CASE k # 0
    <3>1. k \in 1 .. Len(seg.secs) /\ k - 1 \in 0 .. Len(seg.secs)
      BY <1>1, <2>3
    <3> QED
      BY <1>1, <2>1, <2>3, <3>1 DEF SizeTo
  <2> QED
    BY <2>1, <2>2, <2>3
<1>4. ASSUME NEW m, Sums(t, seg.secs, seg.type, seg.offset, Len(seg.secs), m)
      PROVE  Sums(u, seg.secs, seg.type, seg.offset, Len(seg.secs), m)
  <2>1. \A j \in 1 .. Len(seg.secs) : j - 1 \in 0 .. Len(seg.secs)
    BY <1>1
  <2> QED
    BY <1>1, <1>3, <1>4, <2>1 DEF Sums
<1>5. Measured(t, seg) => Measured(u, seg)
  <2>1. SUFFICES ASSUME Measured(t, seg) PROVE Measured(u, seg)
    OBVIOUS
  <2>2. \A i \in Into(seg.secs) : seg.offset <= u[i + 1].offset
    BY <2>1 DEF Measured
  <2>3. \A j, k \in DOMAIN seg.secs : j < k => u[seg.secs[j] + 1].offset + u[seg.secs[j] + 1].size <= u[seg.secs[k] + 1].offset
    BY <1>1, <2>1 DEF Measured
  <2>4. seg.size = SizeTo(u, seg.secs, seg.offset, Len(seg.secs))
    BY <1>1, <1>3, <2>1 DEF Measured
  <2>5. \E m : Sums(u, seg.secs, seg.type, seg.offset, Len(seg.secs), m) /\ UpTo(m[Len(seg.secs)], seg.memory)
    BY <1>4, <2>1 DEF Measured
  <2>6. Linked(u, Into(seg.secs))
    BY <2>1 DEF Measured, Linked
  <2> QED
    BY <2>2, <2>3, <2>4, <2>5, <2>6 DEF Measured
<1> QED
  BY <1>2, <1>5

LEMMA LaidMeasure ==
  ASSUME FileInv, MeasureInv, Kept, UNCHANGED <<segments, order, file>>, phase \in Laid, phase' \in Laid,
         \A i \in generated : Sec(i)' = Sec(i), phase' = "section" /\ NestedNow => Measuring'
  PROVE  MeasureInv'
<1>1. NestedNow' => NestedNow
  BY KeptMembers
<1>2. ASSUME NestedNow PROVE MeasuredAll(sections', segments, Done)
  <2>1. SUFFICES ASSUME NEW s \in Done, segments[s].secs # <<>>, LastBare(sections', segments[s].secs)
                 PROVE  Measured(sections', segments[s])
    BY DEF MeasuredAll
  <2>2. s \in DOMAIN segments /\ Members(s) \subseteq generated
    BY <2>1, DoneIs
  <2>3. segments[s] \in SegmentHeader /\ Members(s) = Into(segments[s].secs)
    BY <2>2, MembersIs DEF Members
  <2>4. \A i \in Into(segments[s].secs) : sections'[i + 1] = sections[i + 1]
    BY <2>2, <2>3 DEF Sec
  <2>5. LastBare(sections, segments[s].secs) => Measured(sections, segments[s])
    BY <1>2, <2>1 DEF MeasureInv, MeasuredAll
  <2> QED
    BY <2>1, <2>3, <2>4, <2>5, MeasuredSame
<1>3. Done' = Done
  BY DEF Done
<1> QED
  BY <1>1, <1>2, <1>3 DEF MeasureInv, Fresh

\* One more section is measured.
LEMMA MeasureNext ==
  ASSUME FileInv, SerialInv, HasNext, Kept, UNCHANGED <<segments, order, file>>, Measuring,
         NEW gap \in Int, at' = Counted(gap), NEW sec \in Header, \A i : i = Index => Sec(i)' = sec,
         SectionKept(Place, sec), \A i \in Handled : Sec(i)' = Sec(i), Place.type # "NULL",
         BssLast(Current) => gap = sec.offset - at.start - at.size /\ at.start <= sec.offset
  PROVE  Measuring'
<1>1. /\ at'.next = at.next + 1 /\ at'.start = at.start
      /\ at'.memory = IF TakesMemory(Place) THEN at.memory + (Place.size + gap) ELSE at.memory
      /\ at'.size = IF Place.type # "NOBITS" THEN at.size + (Place.size + gap) ELSE at.size
  BY CountedHas
<1>2. /\ Current' = Current /\ Handled' = Handled \cup {Index}
      /\ BssLast(Current)' <=> BssLast(Current)
  BY <1>1, UnderwayNext
<1>3. /\ at.next \in 1 .. Len(Current.secs) /\ Index = Current.secs[at.next] /\ Place \in Header /\ Index \in Nat
      /\ Current.secs \in Seq(Nat) /\ DOMAIN Current.secs = 1 .. Len(Current.secs) /\ Len(Current.secs) \in Nat
      /\ at.start \in Int /\ at.size \in Int /\ at.memory \in Int
  BY NextIs, CurrentIs, Types
<1>4. SUFFICES ASSUME Current.secs # <<>>, BssLast(Current)'
               PROVE  /\ at'.next - 1 \in 0 .. Len(Current.secs)
                      /\ \A i \in Handled' : at.start <= Sec(i)'.offset
                      /\ at'.size = SizeTo(sections', Current.secs, at.start, at'.next - 1)
                      /\ \E m : /\ Sums(sections', Current.secs, Current.type, at.start, at'.next - 1, m)
                                /\ m[at'.next - 1] = at'.memory
  <2>1. LastBare(sections', Current'.secs) => BssLast(Current)'
    BY DEF LastBare, BssLast, Sec
  <2> QED
    BY <1>1, <1>2, <2>1 DEF Measuring
<1>5. PICK k \in 0 .. Len(Current.secs) : k = at.next - 1
  BY <1>3
<1>6. at.next = k + 1 /\ k + 1 \in 1 .. Len(Current.secs) /\ at'.next - 1 = k + 1
  <2>1. at.next = k + 1 /\ k + 1 \in 1 .. Len(Current.secs) /\ k \in Nat
    BY <1>3, <1>5
  <2>2. at'.next = k + 1 + 1
    BY <1>1, <2>1
  <2> QED
    BY <2>1, <2>2
<1>7. BssLast(Current) /\ LastBare(sections, Current.secs) /\ gap = sec.offset - at.start - at.size
  BY <1>2, <1>4 DEF LastBare, BssLast, Sec
<1>8. /\ \A i \in Handled : at.start <= Sec(i).offset
      /\ at.size = SizeTo(sections, Current.secs, at.start, k)
  BY <1>4, <1>5, <1>7 DEF Measuring
<1>9. PICK m : Sums(sections, Current.secs, Current.type, at.start, k, m) /\ m[k] = at.memory
  BY <1>4, <1>5, <1>7 DEF Measuring
<1>10. \A i \in Handled' : at.start <= Sec(i)'.offset
  BY <1>2, <1>7, <1>8
<1>11. \A j \in 1 .. k : sections'[Current.secs[j] + 1] = sections[Current.secs[j] + 1]
  <2>1. PICK n \in Nat : n = Len(Current.secs)
    BY <1>3
  <2>2. k \in Nat /\ k + 1 \in 1 .. n
    BY <1>5, <1>6, <2>1
  <2>3. \A j \in 1 .. k : j \in 1 .. n /\ j < k + 1
    BY <2>2
  <2>4. \A j \in 1 .. k : j \in DOMAIN Current.secs /\ j < at.next
    BY <1>3, <1>6, <2>1, <2>3
  <2>5. \A j \in 1 .. k : Current.secs[j] \in Handled
    BY <2>4 DEF Handled
  <2> QED
    BY <2>5 DEF Sec
<1>12. sections'[Current.secs[k + 1] + 1] = sec
  BY <1>3, <1>6 DEF Sec
<1>13. \A j \in 0 .. k : EndOf(sections', Current.secs, at.start, j) = EndOf(sections, Current.secs, at.start, j)
  BY <1>11 DEF EndOf
<1>14. at.size = EndOf(sections, Current.secs, at.start, k)
  <2>1. CASE k = 0
    BY <1>8, <2>1 DEF SizeTo
  <2>2. CASE k # 0
    <3>1. k \in DOMAIN Current.secs /\ k + 1 \in DOMAIN Current.secs /\ k < k + 1
      BY <1>3, <1>6, <2>2
    <3>2. HasBytes(sections[Current.secs[k] + 1])
      BY <1>7, <3>1 DEF LastBare
    <3> QED
      BY <1>8, <3>2 DEF SizeTo
  <2> QED
    BY <2>1, <2>2
<1>15. sec.offset \in Int /\ sec.size \in Nat /\ sec.size = Place.size /\ sec.type = Place.type /\ sec.alloc = Place.alloc /\ sec.tls = Place.tls
  BY <1>3, HeaderFields DEF SectionKept
<1>16. EndOf(sections', Current.secs, at.start, k + 1) = sec.offset + sec.size - at.start
  BY <1>5, <1>12 DEF EndOf
<1>17. at'.size = SizeTo(sections', Current.secs, at.start, k + 1)
  <2>1. SizeTo(sections', Current.secs, at.start, k + 1) =
          IF HasBytes(sec) THEN EndOf(sections', Current.secs, at.start, k + 1) ELSE EndOf(sections', Current.secs, at.start, k)
    <3>1. k + 1 # 0 /\ k + 1 - 1 = k
      BY <1>5
    <3> QED
      BY <1>12, <3>1 DEF SizeTo
  <2>2. EndOf(sections', Current.secs, at.start, k) = at.size
    BY <1>5, <1>13, <1>14
  <2>3. HasBytes(sec) <=> Place.type # "NOBITS"
    BY <1>15 DEF HasBytes
  <2>4. CASE HasBytes(sec)
    <3>1. at'.size = at.size + (Place.size + gap)
      BY <1>1, <2>3, <2>4
    <3>2. at.size + (sec.size + gap) = sec.offset + sec.size - at.start
      <4>1. \A a, b, c, z \in Int : a + (z + (b - c - a)) = b + z - c
        OBVIOUS
      <4>2. at.size \in Int /\ at.start \in Int /\ sec.offset \in Int /\ sec.size \in Int
        BY <1>3, <1>15
      <4> QED
        BY <1>7, <4>1, <4>2
    <3> QED
      BY <1>15, <1>16, <2>1, <2>4, <3>1, <3>2
  <2>5. CASE ~ HasBytes(sec)
    BY <1>1, <2>1, <2>2, <2>3, <2>5
  <2> QED
    BY <2>4, <2>5
<1> DEFINE n == [j \in 0 .. k + 1 |-> IF j = k + 1 THEN at'.memory ELSE m[j]]
<1>18. m \in [0 .. k -> Int] /\ m[0] = 0
  BY <1>9 DEF Sums
<1>19. at'.memory \in Int
  <2>1. at.memory + (sec.size + gap) \in Int
    BY <1>3, <1>15
  <2> QED
    BY <1>1, <1>3, <1>15, <2>1
<1>20. /\ n \in [0 .. k + 1 -> Int] /\ n[k + 1] = at'.memory /\ \A j \in 0 .. k : n[j] = m[j]
  BY <1>5, <1>18, <1>19
<1> HIDE DEF n
<1>21. Sums(sections', Current.secs, Current.type, at.start, k + 1, n)
  <2>1. n[0] = 0
    BY <1>5, <1>18, <1>20
  <2>2. ASSUME NEW j \in 1 .. k + 1
        PROVE  n[j] = n[j - 1] + (IF Charged(sections'[Current.secs[j] + 1], Current.type)
                 THEN sections'[Current.secs[j] + 1].size + (sections'[Current.secs[j] + 1].offset - at.start - EndOf(sections', Current.secs, at.start, j - 1))
                 ELSE 0)
    <3>1. CASE j = k + 1
      <4>1. j - 1 = k /\ n[j - 1] = m[k] /\ m[k] = at.memory
        BY <1>5, <1>9, <1>20, <3>1
      <4>2. EndOf(sections', Current.secs, at.start, j - 1) = at.size
        BY <1>5, <1>13, <1>14, <4>1
      <4>3. Charged(sec, Current.type) <=> TakesMemory(Place)
        BY <1>15 DEF Charged, TakesMemory
      <4>4. sections'[Current.secs[j] + 1] = sec
        BY <1>12, <3>1
      <4>5. at'.memory = at.memory + (IF Charged(sec, Current.type) THEN sec.size + (sec.offset - at.start - at.size) ELSE 0)
        BY <1>1, <1>3, <1>7, <1>15, <4>3
      <4> QED
        BY <1>20, <3>1, <4>1, <4>2, <4>4, <4>5
    <3>2. CASE j # k + 1
      <4>1. j \in 1 .. k /\ j - 1 \in 0 .. k /\ j \in 0 .. k
        BY <1>5, <3>2
      <4>2. n[j] = m[j] /\ n[j - 1] = m[j - 1]
        BY <1>20, <4>1
      <4>3. EndOf(sections', Current.secs, at.start, j - 1) = EndOf(sections, Current.secs, at.start, j - 1)
        BY <1>13, <4>1
      <4>4. sections'[Current.secs[j] + 1] = sections[Current.secs[j] + 1]
        BY <1>11, <4>1
      <4>5. m[j] = m[j - 1] + (IF Charged(sections[Current.secs[j] + 1], Current.type)
                 THEN sections[Current.secs[j] + 1].size + (sections[Current.secs[j] + 1].offset - at.start - EndOf(sections, Current.secs, at.start, j - 1))
                 ELSE 0)
        BY <1>9, <4>1 DEF Sums
      <4> QED
        BY <4>2, <4>3, <4>4, <4>5
    <3> QED
      BY <3>1, <3>2
  <2> QED
    BY <1>20, <2>1, <2>2 DEF Sums
<1> QED
  BY <1>6, <1>10, <1>17, <1>20, <1>21

LEMMA StartMeasure ==
  ASSUME FileInv, BehindInv, MeasureInv, StartSegment
  PROVE  MeasureInv'
<1>1. /\ phase = "segment" /\ phase' = "section" /\ order # <<>> /\ UNCHANGED <<sections, segments, order, file>>
  BY DEF StartSegment
<1>2. Kept /\ \A i : Sec(i)' = Sec(i)
  BY <1>1, UnchangedKept DEF Sec
<1>3. /\ Head(order) \in DOMAIN segments /\ Current = segments[Head(order)] /\ Len(Current.secs) \in Nat
      /\ DOMAIN Current.secs = 1 .. Len(Current.secs) /\ Current.secs \in Seq(Nat)
  BY <1>1, CurrentIs
<1>4. ASSUME Current.secs # <<>> PROVE Measuring'
  <2>1. ~ (Current.fixed /\ Current.offset = 0)
    BY <1>3 DEF BehindInv
  <2>2. \E x : at' = AtOnce(1, x, 0)
    BY <1>4, <2>1 DEF StartSegment
  <2>3. at'.next = 1 /\ at'.size = 0 /\ at'.memory = 0
    BY <2>2 DEF AtOnce
  <2>4. Current' = Current
    BY <1>1 DEF Current
  <2>5. Handled' = {}
    BY <1>3, <2>3, <2>4 DEF Handled
  <2> DEFINE m == [j \in {0} |-> 0]
  <2>6. m \in [0 .. 0 -> Int] /\ m[0] = 0 /\ 1 .. 0 = {}
    OBVIOUS
  <2> HIDE DEF m
  <2>7. Sums(sections, Current.secs, Current.type, at'.start, 0, m)
    BY <2>6 DEF Sums
  <2>8. SizeTo(sections, Current.secs, at'.start, 0) = 0
    BY DEF SizeTo, EndOf
  <2>9. at'.next - 1 = 0 /\ 0 \in 0 .. Len(Current.secs)
    BY <1>3, <2>3
  <2> QED
    BY <1>1, <2>3, <2>4, <2>5, <2>6, <2>7, <2>8, <2>9 DEF Measuring
<1>5. ASSUME Current.secs = <<>> PROVE Measuring'
  <2>1. Current' = Current
    BY <1>1 DEF Current
  <2> QED
    BY <1>5, <2>1 DEF Measuring
<1> QED
  BY <1>1, <1>2, <1>4, <1>5, LaidMeasure DEF Laid

LEMMA GenerateMeasure ==
  ASSUME FileInv, SerialInv, PlacesInv, MeasureInv, ~ back', PlaceFixed \/ PlaceNew
  PROVE  MeasureInv'
<1>1. PICK gap \in Nat : \E sec \in Header :
           /\ HasNext /\ Place.type # "NULL" /\ Index \notin generated /\ Generate(gap)
           /\ \A i : i = Index => Sec(i)' = sec
           /\ SectionKept(Place, sec) /\ sec.offset = pos + gap
  BY NewPlace
<1>2. PICK sec \in Header :
           /\ HasNext /\ Place.type # "NULL" /\ Index \notin generated /\ Generate(gap)
           /\ \A i : i = Index => Sec(i)' = sec
           /\ SectionKept(Place, sec) /\ sec.offset = pos + gap
  BY <1>1
<1>3. Kept /\ \A i \in Numbers : i # Index => Sec(i)' = Sec(i)
  BY <1>2, GeneratedIs
<1>4. /\ phase = "section" /\ phase' = "section" /\ UNCHANGED <<segments, order, file>>
      /\ at' = Counted(gap)
  BY <1>2 DEF Generate, HasNext
<1>5. generated \subseteq Numbers /\ Handled \subseteq generated
  BY <1>4, HandledIs DEF PlacesInv, Laid
<1>6. \A i \in generated : Sec(i)' = Sec(i)
  BY <1>2, <1>3, <1>5
<1>7. ASSUME NestedNow PROVE Measuring'
  <2>1. New /\ Measuring
    BY <1>2, <1>4, <1>7, NewIs DEF MeasureInv, Laid
  <2>2. pos \in Int /\ at.start \in Int /\ gap \in Int /\ at.size \in Int
    BY Types
  <2>3. at.start <= pos /\ (BssLast(Current) => at.size = pos - at.start)
    BY <1>2, <2>1 DEF New, HasNext
  <2>4. BssLast(Current) => gap = sec.offset - at.start - at.size /\ at.start <= sec.offset
    BY <1>2, <2>2, <2>3
  <2> QED
    BY <1>2, <1>3, <1>4, <1>5, <1>6, <2>1, <2>2, <2>4, MeasureNext
<1> QED
  BY <1>3, <1>4, <1>6, <1>7, LaidMeasure DEF Laid

LEMMA CountMeasure ==
  ASSUME FileInv, SerialInv, PlacesInv, MeasureInv, CountGenerated
  PROVE  MeasureInv'
<1>1. /\ phase = "section" /\ phase' = "section" /\ UNCHANGED <<sections, segments, order, file>> /\ HasNext
      /\ Index \in generated /\ Place.type # "NULL" /\ at' = Counted(Place.offset - at.start - at.size)
  BY DEF CountGenerated, HasNext
<1>2. Kept /\ \A i : Sec(i)' = Sec(i)
  BY <1>1, UnchangedKept DEF Sec
<1>3. Place \in Header /\ Place = Sec(Index)
  BY <1>1, NextIs
<1>4. at.next' = at.next + 1
  <2>1. Place.offset - at.start - at.size \in Int
    BY <1>3, HeaderFields, Types
  <2> QED
    BY <1>1, <2>1, CountedHas
<1>5. ASSUME NestedNow PROVE Measuring'
  <2>1. Underway /\ Covered /\ Measuring
    BY <1>1, <1>5, NewIs DEF MeasureInv, Laid
  <2>2. Place.offset - at.start - at.size \in Int
    BY <1>3, HeaderFields, Types
  <2>3. Index \in Members(Head(order))
    BY <1>1, MoreIs
  <2>4. BssLast(Current) => at.start <= Place.offset
    BY <1>1, <1>3, <2>1, <2>3 DEF Underway
  <2>5. SectionKept(Place, Place)
    BY DEF SectionKept
  <2>6. PICK gap \in Int : gap = Place.offset - at.start - at.size
    BY <2>2
  <2>7. PICK sec \in Header : sec = Place
    BY <1>3
  <2>8. /\ at' = Counted(gap) /\ SectionKept(Place, sec) /\ \A i : i = Index => Sec(i)' = sec
        /\ BssLast(Current) => gap = sec.offset - at.start - at.size /\ at.start <= sec.offset
    BY <1>1, <1>2, <1>3, <2>4, <2>5, <2>6, <2>7
  <2> QED
    BY <1>1, <1>2, <2>1, <2>8, MeasureNext
<1> QED
  BY <1>1, <1>2, <1>5, LaidMeasure DEF Laid

LEMMA FinishMeasure ==
  ASSUME FileInv, SerialInv, BehindInv, MeasureInv, FinishSegment, PlacesInv', LinkInv'
  PROVE  MeasureInv'
<1>1. /\ phase = "section" /\ phase' = "segment" /\ sections' = sections /\ at.next > Len(Current.secs)
      /\ file' = file /\ Kept
      /\ \A s \in DOMAIN segments : s # Head(order) => segments'[s] = segments[s]
      /\ segments'[Head(order)].size = at.size /\ segments'[Head(order)].offset = at.start
      /\ UpTo(at.memory, segments'[Head(order)].memory)
  BY FinishIs DEF FinishSegment
<1>2. /\ Head(order) \in DOMAIN segments /\ Current = segments[Head(order)] /\ Members(Head(order)) = Into(Current.secs)
      /\ Handled = Members(Head(order)) /\ Current \in SegmentHeader
      /\ Current.secs \in Seq(Nat) /\ Len(Current.secs) \in Nat /\ DOMAIN Current.secs = 1 .. Len(Current.secs)
  BY <1>1, HandledIs, CurrentIs
<1>3. SUFFICES ASSUME NestedNow' PROVE MeasuredAll(sections, segments', Done')
  BY <1>1 DEF MeasureInv, Fresh
<1>4. NestedNow /\ Done' \subseteq Done \cup {Head(order)} /\ Done \subseteq DOMAIN segments
  BY <1>1, <1>3, KeptMembers, FinishDone DEF Done
<1>5. SUFFICES ASSUME NEW s \in Done', segments'[s].secs # <<>>, LastBare(sections, segments'[s].secs)
               PROVE  Measured(sections, segments'[s])
  BY DEF MeasuredAll
<1>6. CASE s # Head(order)
  <2>1. s \in Done /\ segments'[s] = segments[s]
    BY <1>1, <1>4, <1>6
  <2> QED
    BY <1>1, <1>4, <1>5, <2>1 DEF MeasureInv, MeasuredAll, Laid
<1>7. CASE s = Head(order)
  <2>1. segments'[s].secs = Current.secs /\ segments'[s].type = Current.type
    <3>1. SegmentKept(segments[s], segments'[s])
      BY <1>1, <1>2, <1>7, KeptMembers
    <3> QED
      BY <1>2, <1>7, <3>1 DEF SegmentKept
  <2>2. Measuring /\ Current.secs # <<>> /\ LastBare(sections, Current.secs)
    BY <1>1, <1>4, <1>5, <2>1 DEF MeasureInv, Laid
  <2>3. at.next - 1 \in 0 .. Len(Current.secs) /\ at.next \in Nat
    BY <2>2, Types DEF Measuring
  <2>4. at.next - 1 = Len(Current.secs)
    BY <1>1, <1>2, <2>3
  <2>5. \A i \in Into(Current.secs) : at.start <= sections[i + 1].offset
    BY <1>2, <2>2 DEF Measuring, Sec
  <2>6. at.size = SizeTo(sections, Current.secs, at.start, Len(Current.secs))
    BY <2>2, <2>4 DEF Measuring
  <2>7. PICK m : Sums(sections, Current.secs, Current.type, at.start, Len(Current.secs), m) /\ m[Len(Current.secs)] = at.memory
    BY <2>2, <2>4 DEF Measuring
  <2>8. ASSUME NEW j \in DOMAIN Current.secs, NEW k \in DOMAIN Current.secs, j < k
        PROVE  sections[Current.secs[j] + 1].offset + sections[Current.secs[j] + 1].size <= sections[Current.secs[k] + 1].offset
    <3>1. Whole(s)'
      BY <1>1, <1>3 DEF PlacesInv, Laid
    <3>2. PICK q \in Seq(Nat) : q = Current.secs
      BY <1>2
    <3>3. InOrder(Into(q))'
      BY <2>1, <3>1, <3>2 DEF Whole, Members
    <3>4. Rising(q)
      BY <1>2, <3>2 DEF SerialInv
    <3>5. q[j] < q[k] /\ q[j] \in Into(q) /\ q[k] \in Into(q)
      BY <2>8, <3>2, <3>4 DEF Rising, Into
    <3>6. HasBytes(sections[q[j] + 1]) /\ sections[q[k] + 1].type # "NULL"
      <4>1. HasBytes(sections[q[j] + 1])
        BY <2>2, <2>8, <3>2 DEF LastBare
      <4>2. q[k] \in Members(Head(order))
        BY <1>2, <3>2, <3>5
      <4> QED
        BY <1>2, <4>1, <4>2, NoNulls DEF Sec
    <3>7. /\ q[j] < q[k] /\ Sec(q[j])'.type # "NULL" /\ Sec(q[k])'.type # "NULL" /\ HasBytes(Sec(q[j]))'
      BY <1>1, <3>5, <3>6 DEF Sec, HasBytes
    <3>8. Sec(q[j])'.offset + Sec(q[j])'.size <= Sec(q[k])'.offset
      BY <3>3, <3>5, <3>7 DEF InOrder
    <3> QED
      BY <1>1, <3>2, <3>8 DEF Sec
  <2>9. Linked(sections, Into(Current.secs))
    BY <1>1, <1>3, <2>1 DEF LinkInv, Laid, Members
  <2>10. UpTo(m[Len(Current.secs)], segments'[s].memory)
    BY <1>1, <1>7, <2>7
  <2>11. segments'[s].offset = at.start /\ segments'[s].size = at.size
    BY <1>1, <1>7
  <2> QED
    BY <2>1, <2>5, <2>6, <2>7, <2>8, <2>9, <2>10, <2>11 DEF Measured
<1> QED
  BY <1>6, <1>7

LEMMA WriteMeasure ==
  ASSUME FileInv, MeasureInv, WriteFile
  PROVE  MeasureInv'
<1>1. /\ phase = "loose" /\ phase' = "saved" /\ Done = DOMAIN segments
      /\ file'.sections = sections /\ file'.segments = segments
  BY WrittenIs
<1>2. NestedOf(file') <=> NestedNow
  BY <1>1 DEF NestedOf, NestedNow, Members
<1> QED
  BY <1>1, <1>2 DEF MeasureInv, Laid, Fresh

LEMMA OtherMeasure ==
  ASSUME MeasureInv, file' = file, phase' \notin Laid
  PROVE  MeasureInv'
BY DEF MeasureInv, Fresh

LEMMA MeasureStep ==
  ASSUME FileInv, MapInv, OwnInv, BehindInv, MeasureInv, ~ back', FileNext, PlacesInv', LinkInv'
  PROVE  MeasureInv'
<1>1. SerialInv /\ AddressInv /\ PlacesInv
  BY DEF MapInv
<1>2. ASSUME Edit \/ Read \/ Save \/ OrderSegment \/ SaveAborts PROVE MeasureInv'
  <2>1. phase' \notin Laid /\ file' = file
    BY <1>2 DEF Edit, AddSection, AppendData, AddSegment, AddSectionIndex, Read, Load, LoadSection, NameSections,
                LoadSegment, FinishLoad, ElfValid, Save, OrderSegment, SaveAborts, Laid
  <2> QED
    BY <2>1, OtherMeasure
<1>3. ASSUME NEW length \in Cuts, Truncate(length) PROVE FALSE
  BY <1>3 DEF Truncate, OwnInv
<1>4. ASSUME StartLayout PROVE MeasureInv'
  <2>1. phase = "order" /\ todo = <<>> /\ phase' = "segment" /\ UNCHANGED <<segments, order, file>>
    BY <1>4 DEF StartLayout, layout
  <2>2. DOMAIN segments = Into(order)
    BY <2>1, Types, IntoIs DEF FileInv, OrderInv
  <2>3. Done' = {}
    BY <2>1, <2>2 DEF Done
  <2> QED
    BY <2>1, <2>3 DEF MeasureInv, MeasuredAll, Fresh
<1>5. ASSUME StartLoose PROVE MeasureInv'
  <2>1. /\ phase = "segment" /\ phase' = "loose" /\ UNCHANGED <<sections, segments, order, file>>
    BY <1>5 DEF StartLoose
  <2>2. Kept /\ \A i : Sec(i)' = Sec(i)
    BY <2>1, UnchangedKept DEF Sec
  <2> QED
    BY <2>1, <2>2, LaidMeasure DEF Laid
<1>6. ASSUME PlaceLoose PROVE MeasureInv'
  BY <1>1, <1>6, LooseOthers, LaidMeasure DEF Laid
<1> QED
  BY <1>1, <1>2, <1>3, <1>4, <1>5, <1>6, StartMeasure, GenerateMeasure, CountMeasure, FinishMeasure, WriteMeasure, NoPlaceNull
     DEF FileNext, LayOut

LEMMA FormStep ==
  ASSUME FileInv', OwnInv, FormInv, ~ back', FileNext
  PROVE  FormInv'
<1>1. ASSUME file' = file PROVE FormInv'
  BY <1>1 DEF FormInv, Fresh
<1>2. ASSUME NEW length \in Cuts, Truncate(length) PROVE FALSE
  BY <1>2 DEF Truncate, OwnInv
<1>3. ASSUME WriteFile PROVE FormInv'
  <2>1. phase' = "saved"
    BY <1>3 DEF WriteFile
  <2> QED
    BY <2>1 DEF FormInv, FileInv, LoadInv
<1>4. ASSUME Edit \/ Save \/ Read PROVE FormInv'
  BY <1>1, <1>4 DEF Edit, AddSection, AppendData, AddSegment, AddSectionIndex, Save, Read, Load, LoadSection,
                    NameSections, LoadSegment, FinishLoad, ElfValid
<1>5. ASSUME LayOut, ~ WriteFile PROVE FormInv'
  BY <1>1, <1>5 DEF LayOut, OrderSegment, StartLayout, StartSegment, PlaceNull, PlaceFixed, SaveAborts, PlaceNew,
                    Generate, CountGenerated, FinishSegment, StartLoose, PlaceLoose
<1> QED
  BY <1>2, <1>3, <1>4, <1>5 DEF FileNext

\* What is known of a file that is saved again as it was loaded
Same(s) ==
  LET seg == segments[s]
      was == file.segments[s]
  IN  /\ was \in SegmentHeader /\ seg \in SegmentHeader /\ seg.secs \in Seq(Nat)
      /\ seg.secs = was.secs /\ seg.vaddr = was.vaddr /\ seg.type = was.type
      /\ seg.secs # <<>> /\ BssLast(seg) /\ LastBare(sections, seg.secs)
      /\ Measured(file.sections, was)
      /\ \A i \in Into(seg.secs) :
           /\ i \in Numbers /\ Sec(i) \in Header /\ SecOf(file, i) \in Header
           /\ Sec(i).type = SecOf(file, i).type /\ Sec(i).type # "NULL" /\ Sec(i).size > 0
           /\ Sec(i).size = SecOf(file, i).size /\ Sec(i).alloc = SecOf(file, i).alloc
           /\ Sec(i).tls = SecOf(file, i).tls /\ Sec(i).address = SecOf(file, i).address
           /\ HasBytes(Sec(i)) => Sec(i).address - seg.vaddr = SecOf(file, i).offset - was.offset

LEMMA SameIs ==
  ASSUME FileInv, FormInv, BehindInv, ReadInv, MeasureInv, phase \in Laid, ~ Fresh, Unchanged
  PROVE  /\ DOMAIN segments = DOMAIN file.segments /\ SecsOf(segments) = SecsOf(file.segments)
         /\ NestedNow /\ \A s \in DOMAIN segments : Same(s)
<1>1. /\ file.sections \in Seq(Header) /\ file.segments \in Seq(SegmentHeader)
      /\ Len(file.sections) \in Nat /\ Len(file.segments) \in Nat
      /\ \A k \in 1 .. Len(file.sections) : file.sections[k] \in Header
      /\ \A s \in 1 .. Len(file.segments) : file.segments[s] \in SegmentHeader
  BY FileIs DEF FormInv
<1>2. /\ Len(sections) = Len(file.sections)
      /\ \A i \in Numbers : /\ Sec(i).type = SecOf(file, i).type /\ Sec(i).size = SecOf(file, i).size
                            /\ Sec(i).alloc = SecOf(file, i).alloc /\ Sec(i).tls = SecOf(file, i).tls
                            /\ Sec(i).address = SecOf(file, i).address
      /\ Len(segments) = Len(file.segments)
      /\ \A s \in DOMAIN segments : segments[s].type = file.segments[s].type /\ segments[s].vaddr = file.segments[s].vaddr
  <2>1. \A i \in Numbers : Sec(i).size = SecOf(file, i).size
    BY DEF Unchanged, SecOf
  <2> QED
    BY <2>1 DEF ReadInv, Laid, LayoutPhases
<1>3. segments \in Seq(SegmentHeader) /\ DOMAIN segments = DOMAIN file.segments
  BY <1>1, <1>2, SegmentsInside
<1>4. \A s \in DOMAIN segments : segments[s].secs = file.segments[s].secs
  BY DEF Unchanged
<1>5. SecsOf(segments) = SecsOf(file.segments)
  BY <1>3, <1>4 DEF SecsOf
<1>6. NestedOf(file) /\ NestedNow
  <2>1. NestedOf(file)
    BY DEF Unchanged, Nested, NestedOf, Into
  <2> QED
    BY <1>3, <1>4, <2>1 DEF NestedOf, NestedNow, Members
<1>7. ASSUME NEW s \in DOMAIN segments PROVE Same(s)
  <2> DEFINE seg == segments[s]
             was == file.segments[s]
  <2>1. /\ seg \in SegmentHeader /\ seg.secs \in Seq(Nat) /\ Len(seg.secs) \in Nat
        /\ DOMAIN seg.secs = 1 .. Len(seg.secs) /\ Into(seg.secs) \subseteq Numbers
    BY MembersIs DEF Members
  <2>2. was \in SegmentHeader /\ seg.secs = was.secs /\ seg.vaddr = was.vaddr /\ seg.type = was.type
    BY <1>1, <1>2, <1>3, <1>4
  <2>3. \A i \in Numbers : i + 1 \in 1 .. Len(file.sections) /\ Sec(i) \in Header
    BY <1>2, SectionTypes DEF FileInv
  <2>4. \A i \in Numbers : SecOf(file, i) \in Header
    BY <1>1, <2>3 DEF SecOf
  <2>5. /\ seg.secs # <<>>
        /\ \A j, k \in DOMAIN was.secs : j < k => HasBytes(file.sections[was.secs[j] + 1])
        /\ \A j \in DOMAIN was.secs : file.sections[was.secs[j] + 1].size > 0
        /\ file.sections[was.secs[1] + 1].address - was.vaddr = file.sections[was.secs[1] + 1].offset - was.offset
    BY <2>2 DEF Unchanged
  <2>6. \A j \in DOMAIN seg.secs : seg.secs[j] \in Into(seg.secs) /\ seg.secs[j] \in Numbers
    BY <2>1 DEF Into
  <2>7. LastBare(file.sections, seg.secs)
    BY <2>2, <2>5 DEF LastBare
  <2>8. BssLast(seg) /\ LastBare(sections, seg.secs)
    <3>1. \A j \in DOMAIN seg.secs : HasBytes(Sec(seg.secs[j])) <=> HasBytes(file.sections[seg.secs[j] + 1])
      BY <1>2, <2>6 DEF HasBytes, SecOf
    <3> QED
      BY <2>7, <3>1 DEF LastBare, BssLast, Sec
  <2>9. Measured(file.sections, was)
    BY <1>3, <1>6, <2>2, <2>5, <2>7 DEF MeasureInv, MeasuredAll
  <2>10. ASSUME NEW i \in Into(seg.secs) PROVE Sec(i).size > 0 /\ Sec(i).type # "NULL"
    <3>1. PICK j \in DOMAIN seg.secs : i = seg.secs[j]
      BY DEF Into
    <3>2. SecOf(file, i).size > 0
      BY <2>2, <2>5, <3>1 DEF SecOf
    <3>3. i \in Members(s)
      BY DEF Members
    <3> QED
      BY <1>2, <2>1, <3>2, <3>3, NoNulls
  <2>11. ASSUME NEW i \in Into(seg.secs), HasBytes(Sec(i))
         PROVE  Sec(i).address - seg.vaddr = SecOf(file, i).offset - was.offset
    <3>1. PICK j \in 1 .. Len(seg.secs) : i = seg.secs[j]
      BY <2>1 DEF Into
    <3>2. i \in Numbers /\ 1 \in DOMAIN seg.secs /\ seg.secs[1] \in Into(seg.secs)
      <4>1. seg.secs \in Seq(Nat) /\ seg.secs # <<>>
        BY <2>1, <2>5
      <4>2. 1 \in DOMAIN seg.secs
        BY <4>1
      <4> QED
        BY <2>6, <2>1, <4>2
    <3>3. PICK f \in Into(seg.secs) : f = seg.secs[1]
      BY <3>2
    <3>4. SecOf(file, f).address - was.vaddr = SecOf(file, f).offset - was.offset
      BY <2>2, <2>5, <3>3 DEF SecOf
    <3>5. CASE j = 1
      BY <1>2, <2>2, <3>1, <3>2, <3>3, <3>4, <3>5
    <3>6. CASE j # 1
      <4>1. HasBytes(SecOf(file, f))
        <5>1. 1 \in DOMAIN seg.secs /\ j \in DOMAIN seg.secs /\ 1 < j
          BY <2>1, <3>1, <3>2, <3>6
        <5> QED
          BY <2>7, <3>3, <5>1 DEF LastBare, SecOf
      <4>2. f \in Numbers /\ Filled(SecOf(file, f)) /\ Filled(SecOf(file, i))
        BY <1>2, <2>1, <2>10, <2>11, <4>1 DEF Filled, HasBytes
      <4>3. SecOf(file, i).address - SecOf(file, i).offset = SecOf(file, f).address - SecOf(file, f).offset
        BY <2>2, <2>9, <4>2 DEF Measured, Linked, SecOf
      <4>4. SecOf(file, i) \in Header /\ SecOf(file, f) \in Header
        BY <2>4, <3>2, <4>2
      <4>5. /\ SecOf(file, i).address \in Int /\ SecOf(file, i).offset \in Int /\ SecOf(file, f).address \in Int
            /\ SecOf(file, f).offset \in Int
        BY <4>4, HeaderFields
      <4>6. was.vaddr \in Int /\ was.offset \in Int
        BY <2>2, SegmentFields
      <4>7. PICK a \in Int, b \in Int : a = SecOf(file, i).address /\ b = SecOf(file, i).offset
        BY <4>5
      <4>8. PICK c \in Int, d \in Int : c = SecOf(file, f).address /\ d = SecOf(file, f).offset
        BY <4>5
      <4>9. PICK v \in Int, o \in Int : v = was.vaddr /\ o = was.offset
        BY <4>6
      <4>10. a - b = c - d /\ c - v = d - o
        BY <3>4, <4>3, <4>7, <4>8, <4>9
      <4>11. a - v = b - o
        BY <4>10
      <4>12. SecOf(file, i).address - was.vaddr = SecOf(file, i).offset - was.offset
        BY <4>7, <4>9, <4>11
      <4> QED
        BY <1>2, <2>2, <3>2, <4>12
    <3> QED
      BY <3>5, <3>6
  <2> QED
    BY <1>2, <2>1, <2>2, <2>4, <2>3, <2>5, <2>8, <2>9, <2>10, <2>11 DEF Same
<1> QED
  BY <1>3, <1>5, <1>6, <1>7

LEMMA UnchangedSame ==
  ASSUME FileInv, Kept, file' = file
  PROVE  Unchanged' <=> Unchanged
<1>1. DOMAIN segments' = DOMAIN segments /\ \A s \in DOMAIN segments : segments'[s].secs = segments[s].secs
  BY KeptMembers
<1> DEFINE Good(s) ==
      LET seg == file.segments[s]
          Was(j) == file.sections[seg.secs[j] + 1]
      IN  /\ \A j, k \in DOMAIN seg.secs : j < k => HasBytes(Was(j))
          /\ \A j \in DOMAIN seg.secs : Was(j).size > 0
          /\ Was(1).address - seg.vaddr = Was(1).offset - seg.offset
<1>2. Nested' <=> Nested
  BY DEF Nested
<1> DEFINE SameSizes(secs) == \A i \in Numbers : secs[i + 1].size = file.sections[i + 1].size
<1>5. Numbers' = Numbers /\ \A i \in Numbers : sections'[i + 1].size = sections[i + 1].size
  BY KeptMembers DEF Kept, SectionKept, Sec
<1>6. SameSizes(sections') <=> SameSizes(sections)
  BY <1>5
<1>3. Unchanged <=> /\ file.whole /\ Nested /\ SameSizes(sections)
                    /\ \A s \in DOMAIN segments :
                         segments[s].secs = file.segments[s].secs /\ file.segments[s].secs # <<>> /\ Good(s)
  BY DEF Unchanged, Sec
<1>4. Unchanged' <=> /\ file.whole /\ Nested /\ SameSizes(sections')
                     /\ \A s \in DOMAIN segments' :
                          segments'[s].secs = file.segments[s].secs /\ file.segments[s].secs # <<>> /\ Good(s)
  BY <1>2, <1>5 DEF Unchanged, Sec
<1> HIDE DEF Good, SameSizes
<1> QED
  BY <1>1, <1>3, <1>4, <1>6

LEMMA LaidRelay ==
  ASSUME FileInv, RelayInv, Kept, UNCHANGED <<segments, order, file>>, phase \in Laid, phase' \in Laid,
         \A i \in generated : Sec(i)' = Sec(i),
         phase' = "section" /\ ~ Fresh /\ Unchanged =>
           Shifted(sections', file.sections, Handled', at'.start, file.segments[Head(order)].offset)
  PROVE  RelayInv'
<1>1. SUFFICES ASSUME ~ Fresh', Unchanged' PROVE RelayInv'
  BY DEF RelayInv
<1>2. ~ Fresh /\ Unchanged /\ Done' = Done
  BY <1>1, UnchangedSame DEF Fresh, Done
<1>3. ASSUME NEW s \in Done
      PROVE  Shifted(sections', file.sections, Members(s), segments[s].offset, file.segments[s].offset)
  <2>1. Members(s) \subseteq generated
    BY <1>3, DoneIs
  <2>2. \A i \in Members(s) : sections'[i + 1] = sections[i + 1]
    BY <2>1 DEF Sec
  <2>3. Shifted(sections, file.sections, Members(s), segments[s].offset, file.segments[s].offset)
    BY <1>2, <1>3 DEF RelayInv
  <2> QED
    BY <2>2, <2>3 DEF Shifted
<1>4. \A s \in Done : Members(s)' = Members(s)
  BY DEF Members
<1>5. /\ \A s \in DOMAIN segments : segments[s].memory = file.segments[s].memory
      /\ \A s \in Done : segments[s].size = file.segments[s].size
  BY <1>2 DEF RelayInv
<1> QED
  BY <1>2, <1>3, <1>4, <1>5 DEF RelayInv

LEMMA StartRelay ==
  ASSUME FileInv, RelayInv, StartSegment
  PROVE  RelayInv'
<1>1. /\ phase = "segment" /\ phase' = "section" /\ UNCHANGED <<sections, segments, order, file>>
  BY DEF StartSegment
<1>2. Kept /\ \A i : Sec(i)' = Sec(i)
  BY <1>1, UnchangedKept DEF Sec
<1>3. Handled' = {}
  <2>1. at'.next = 1
    BY DEF StartSegment, AtOnce
  <2>2. Current' = Current /\ DOMAIN Current.secs = 1 .. Len(Current.secs)
    BY <1>1, CurrentIs DEF Current, StartSegment
  <2> QED
    BY <2>1, <2>2 DEF Handled
<1> QED
  BY <1>1, <1>2, <1>3, LaidRelay DEF Laid, Shifted

\* What comes next lay no nearer to the start than it can lie now.
LEMMA RelayRoom ==
  ASSUME FileInv, SerialInv, MeasureInv, RelayInv, HasNext, ~ Fresh, Unchanged, NestedNow, Same(Head(order)), New
  PROVE  pos - at.start <= SecOf(file, Index).offset - file.segments[Head(order)].offset
<1>1. /\ phase = "section" /\ at.next \in 1 .. Len(Current.secs) /\ Index = Current.secs[at.next]
      /\ Current = segments[Head(order)] /\ pos \in Int /\ at.start \in Int /\ at.size \in Int
      /\ Current.secs \in Seq(Nat) /\ DOMAIN Current.secs = 1 .. Len(Current.secs) /\ Len(Current.secs) \in Nat
  BY NextIs, CurrentIs, Types
<1>2. PICK was \in SegmentHeader : was = file.segments[Head(order)]
  BY DEF Same
<1>3. /\ was.secs = Current.secs /\ BssLast(Current) /\ LastBare(sections, Current.secs) /\ Current.secs # <<>>
      /\ Measured(file.sections, was)
      /\ \A i \in Into(Current.secs) : Sec(i) \in Header /\ SecOf(file, i) \in Header /\ Sec(i).size = SecOf(file, i).size
  BY <1>1, <1>2 DEF Same
<1>4. was.offset \in Int
  BY SegmentFields
<1>5. Measuring
  BY <1>1 DEF MeasureInv, Laid
<1>6. at.size = pos - at.start /\ at.size = SizeTo(sections, Current.secs, at.start, at.next - 1)
  BY <1>1, <1>3, <1>5 DEF New, Measuring
<1>7. Index \in Into(Current.secs) /\ SecOf(file, Index).offset \in Int
  <2>1. Index \in Into(Current.secs)
    BY <1>1 DEF Into
  <2> QED
    BY <1>3, <2>1, HeaderFields
<1>8. CASE at.next = 1
  <2>1. at.size = 0
    BY <1>6, <1>8 DEF SizeTo, EndOf
  <2>2. was.offset <= SecOf(file, Index).offset
    BY <1>3, <1>7 DEF Measured, SecOf
  <2> QED
    BY <1>2, <1>4, <1>6, <1>7, <2>1, <2>2
<1>9. CASE at.next # 1
  <2>1. at.next - 1 \in 1 .. Len(Current.secs) /\ at.next - 1 # 0 /\ at.next - 1 < at.next
    BY <1>1, <1>9
  <2>2. PICK p \in Into(Current.secs) : p = Current.secs[at.next - 1]
    BY <1>1, <2>1 DEF Into
  <2>3. p \in Handled
    BY <1>1, <2>1, <2>2 DEF Handled
  <2>4. HasBytes(sections[p + 1])
    BY <1>1, <1>3, <2>1, <2>2 DEF LastBare
  <2>5. at.size = Sec(p).offset + Sec(p).size - at.start
    BY <1>6, <2>1, <2>2, <2>4 DEF SizeTo, EndOf, Sec
  <2>6. Sec(p).offset - at.start = SecOf(file, p).offset - was.offset
    BY <1>1, <1>2, <2>3, <2>4 DEF RelayInv, Laid, Shifted, Sec, SecOf
  <2>7. SecOf(file, p).offset + SecOf(file, p).size <= SecOf(file, Index).offset
    BY <1>1, <1>3, <2>1, <2>2 DEF Measured, SecOf
  <2>8. /\ Sec(p).offset \in Int /\ Sec(p).size \in Int /\ SecOf(file, p).offset \in Int
        /\ SecOf(file, p).size = Sec(p).size
    BY <1>3, <2>2, HeaderFields
  <2>9. \A a, z, b, o, w, i \in Int : a - b = o - w /\ o + z <= i => a + z - b <= i - w
    OBVIOUS
  <2>10. Sec(p).offset + Sec(p).size - at.start <= SecOf(file, Index).offset - was.offset
    BY <1>1, <1>4, <1>7, <2>6, <2>7, <2>8, <2>9
  <2> QED
    BY <1>2, <1>6, <2>5, <2>10
<1> QED
  BY <1>8, <1>9

\* A section does not lie below where the position is.
LEMMA GoesForward ==
  ASSUME FileInv, FormInv, SerialInv, PlacesInv, BehindInv, ReadInv, MeasureInv, RelayInv, ~ Fresh, Unchanged,
         HasNext, Place.type # "NULL", Index \notin generated, ByAddress
  PROVE  ~ (Requested < Passed) /\ ~ Below(Requested, Passed)
<1>1. phase = "section"
  BY DEF HasNext
<1>2. NestedNow /\ Head(order) \in DOMAIN segments /\ Same(Head(order)) /\ Current = segments[Head(order)]
  BY <1>1, SameIs, HandledIs DEF Laid
<1>3. New
  BY <1>1, <1>2, NewIs
<1>4. Index \in Into(Current.secs) /\ Place = Sec(Index)
  BY <1>1, MoreIs, HandledIs, NextIs
<1>5. HasBytes(Place)
  BY <1>1 DEF ByAddress, HasBytes
<1>6. Place.address - Current.vaddr = SecOf(file, Index).offset - file.segments[Head(order)].offset
  BY <1>2, <1>4, <1>5 DEF Same
<1>7. pos - at.start <= SecOf(file, Index).offset - file.segments[Head(order)].offset
  BY <1>1, <1>2, <1>3, RelayRoom
<1>8. pos \in Int /\ at.start \in Int /\ Place.address - Current.vaddr \in Int
  <2>1. Place \in Header /\ order # <<>>
    BY <1>1, NextIs
  <2>2. Place.address \in Int
    BY <2>1, HeaderFields
  <2>3. Current.vaddr \in Int
    BY <1>1, <2>1, CurrentIs
  <2> QED
    BY <2>2, <2>3, Types
<1>9. at.start <= pos
  BY <1>3 DEF New
<1>10. PICK r \in Int, p \in Int : r = Requested /\ p = Passed
  BY <1>8 DEF Requested, Passed
<1>11. 0 <= p /\ p <= r
  BY <1>6, <1>7, <1>8, <1>9, <1>10 DEF Requested, Passed
<1> QED
  BY <1>10, <1>11 DEF Below

\* Saving is not refused.
LEMMA NotRefused ==
  ASSUME FileInv, FormInv, SerialInv, PlacesInv, BehindInv, ReadInv, MeasureInv, RelayInv, ~ Fresh, Unchanged, SaveAborts
  PROVE  FALSE
<1>1. HasNext /\ Place.type # "NULL" /\ Index \notin generated /\ ByAddress /\ Below(Requested, Passed)
  BY DEF SaveAborts
<1> QED
  BY <1>1, GoesForward

LEMMA GenerateRelay ==
  ASSUME FileInv, FormInv, MapInv, BehindInv, ReadInv, MeasureInv, RelayInv, ~ back', PlaceFixed \/ PlaceNew
  PROVE  RelayInv'
<1>0. SerialInv /\ AddressInv /\ PlacesInv
  BY DEF MapInv
<1>1. PICK gap \in Nat : \E sec \in Header :
           /\ HasNext /\ Place.type # "NULL" /\ Index \notin generated /\ Generate(gap)
           /\ \A i : i = Index => Sec(i)' = sec
           /\ SectionKept(Place, sec) /\ sec.offset = pos + gap
           /\ ByAddress => sec.offset = Wanted
           /\ Place.fixed /\ ~ ByAddress => gap = 0
  BY NewPlace
<1>2. PICK sec \in Header :
           /\ HasNext /\ Place.type # "NULL" /\ Index \notin generated /\ Generate(gap)
           /\ \A i : i = Index => Sec(i)' = sec
           /\ SectionKept(Place, sec) /\ sec.offset = pos + gap
           /\ ByAddress => sec.offset = Wanted
           /\ Place.fixed /\ ~ ByAddress => gap = 0
  BY <1>1
<1>3. Kept /\ \A i \in Numbers : i # Index => Sec(i)' = Sec(i)
  BY <1>2, GeneratedIs
<1>4. /\ phase = "section" /\ phase' = "section" /\ UNCHANGED <<segments, order, file>>
      /\ at' = Counted(gap)
  BY <1>2 DEF Generate, HasNext
<1>5. at'.next = at.next + 1 /\ at'.start = at.start
  BY <1>2, <1>4, CountedHas
<1>6. Handled' = Handled \cup {Index}
  BY <1>0, <1>2, <1>3, <1>4, <1>5, UnderwayNext
<1>7. generated \subseteq Numbers /\ Handled \subseteq generated
  BY <1>0, <1>4, HandledIs DEF PlacesInv, Laid
<1>8. \A i \in generated : Sec(i)' = Sec(i)
  BY <1>2, <1>3, <1>7
<1>9. ASSUME ~ Fresh, Unchanged
      PROVE  Shifted(sections', file.sections, Handled', at'.start, file.segments[Head(order)].offset)
  <2>1. NestedNow /\ Head(order) \in DOMAIN segments /\ Same(Head(order)) /\ Current = segments[Head(order)]
    BY <1>4, <1>9, SameIs, HandledIs DEF Laid
  <2>2. New
    BY <1>0, <1>2, <2>1, NewIs
  <2>3. Index \in Into(Current.secs) /\ Place = Sec(Index) /\ Place \in Header
    BY <1>0, <1>2, MoreIs, HandledIs, NextIs
  <2>4. PICK was \in SegmentHeader : was = file.segments[Head(order)]
    BY <2>1 DEF Same
  <2>5. PICK old \in Header : old = SecOf(file, Index)
    BY <2>1, <2>3 DEF Same
  <2>6. /\ old.offset \in Int /\ was.offset \in Int /\ at.start \in Int /\ pos \in Int /\ sec.offset \in Int
    BY HeaderFields, SegmentFields, Types
  <2>7. Place.fixed /\ Place.size > 0
    <3>1. Place.fixed
      <4>1. \A k \in DOMAIN sections : sections[k].fixed
        BY <1>0, <1>4, <1>9 DEF AddressInv, LayoutPhases
      <4>2. Index + 1 \in DOMAIN sections /\ Place = sections[Index + 1]
        BY <1>2, NextIs, SectionTypes DEF FileInv
      <4> QED
        BY <4>1, <4>2
    <3> QED
      BY <2>1, <2>3, <3>1 DEF Same
  <2>8. IF HasBytes(sec) THEN sec.offset - at.start = old.offset - was.offset
        ELSE sec.offset - at.start <= old.offset - was.offset
    <3>1. CASE HasBytes(sec)
      <4>1. HasBytes(Place) /\ ByAddress
        BY <1>2, <2>7, <3>1 DEF SectionKept, HasBytes, ByAddress
      <4>2. Place.address - Current.vaddr = old.offset - was.offset
        BY <2>1, <2>3, <2>4, <2>5, <4>1 DEF Same
      <4>3. sec.offset = at.start + (old.offset - was.offset)
        BY <1>2, <4>1, <4>2 DEF Wanted
      <4> QED
        BY <2>6, <3>1, <4>3
    <3>2. CASE ~ HasBytes(sec)
      <4>1. ~ ByAddress
        BY <1>2, <3>2 DEF SectionKept, HasBytes, ByAddress
      <4>2. sec.offset = pos
        BY <1>2, <2>6, <2>7, <4>1
      <4>3. pos - at.start <= old.offset - was.offset
        BY <1>0, <1>2, <1>9, <2>1, <2>2, <2>4, <2>5, RelayRoom
      <4> QED
        BY <3>2, <4>2, <4>3
    <3> QED
      BY <3>1, <3>2
  <2>9. Shifted(sections, file.sections, Handled, at.start, was.offset)
    BY <1>4, <1>9, <2>4 DEF RelayInv, Laid
  <2>10. ASSUME NEW i \in Handled'
         PROVE  IF HasBytes(sections'[i + 1]) THEN sections'[i + 1].offset - at.start = file.sections[i + 1].offset - was.offset
                ELSE sections'[i + 1].offset - at.start <= file.sections[i + 1].offset - was.offset
    <3>1. CASE i = Index
      <4>1. sections'[i + 1] = sec
        BY <1>2, <3>1 DEF Sec
      <4> QED
        BY <2>5, <2>8, <3>1, <4>1 DEF SecOf
    <3>2. CASE i # Index
      <4>1. i \in Handled
        BY <1>6, <2>10, <3>2
      <4>2. sections'[i + 1] = sections[i + 1]
        BY <1>7, <1>8, <4>1 DEF Sec
      <4> QED
        BY <2>9, <4>1, <4>2 DEF Shifted
    <3> QED
      BY <3>1, <3>2
  <2> QED
    BY <1>5, <2>4, <2>10 DEF Shifted
<1> QED
  BY <1>3, <1>4, <1>8, <1>9, LaidRelay DEF Laid

\* What has its sections from another one is behind it.
LEMMA CoveredBehind ==
  ASSUME FileInv, phase = "section", order # <<>>, NEW o \in Seq(Nat), NEW d \in Nat, InTurn(o, d), Covered
  PROVE  Behind(SecsOf(segments), o, Head(order))
<1>1. PICK t \in Done : Members(Head(order)) \subseteq Members(t)
  BY DEF Covered
<1>2. /\ order \in Seq(Nat) /\ Len(order) \in Nat /\ Len(order) > 0 /\ DOMAIN order = 1 .. Len(order)
  <2>1. order \in Seq(Nat)
    BY Types
  <2> QED
    BY <2>1
<1>3. DOMAIN o = 1 .. Len(o) /\ Len(o) = d + Len(order)
  BY DEF InTurn
<1>4. t \in Into(o) /\ t \notin Into(order) /\ t \in DOMAIN segments /\ Head(order) \in DOMAIN segments
  BY HandledIs DEF InTurn, Done
<1>5. PICK k \in 1 .. Len(o) : o[k] = t
  BY <1>3, <1>4 DEF Into
<1>6. k <= d
  <2>1. SUFFICES ASSUME k > d PROVE FALSE
    BY <1>2, <1>3
  <2>2. k - d \in 1 .. Len(order) /\ k - d + d = k
    BY <1>2, <1>3, <2>1
  <2>3. order[k - d] = t
    BY <1>5, <2>2 DEF InTurn
  <2> QED
    BY <1>2, <1>4, <2>2, <2>3 DEF Into
<1>7. k < 1 + d /\ 1 + d \in DOMAIN o /\ o[1 + d] = Head(order)
  <2>1. 1 \in 1 .. Len(order) /\ order[1] = Head(order)
    BY <1>2
  <2>2. o[1 + d] = Head(order)
    BY <2>1 DEF InTurn
  <2> QED
    BY <1>2, <1>3, <1>6, <2>2
<1>8. Into(SecsOf(segments)[Head(order)]) \subseteq Into(SecsOf(segments)[o[k]])
  BY <1>1, <1>4, <1>5 DEF SecsOf, Members
<1> QED
  BY <1>3, <1>7, <1>8 DEF Behind

\* Both begin with the first section, then as now.
LEMMA CoveredLeads ==
  ASSUME FileInv, RoundsInv, phase = "section", order # <<>>, ~ Fresh, Covered,
         DOMAIN segments = DOMAIN file.segments, SecsOf(segments) = SecsOf(file.segments)
  PROVE  /\ Leading(sections, Current, at.start)
         /\ Leading(file.sections, file.segments[Head(order)], file.segments[Head(order)].offset)
<1>1. PICK o \in Seq(Nat) : \E d \in Nat : InTurn(o, d) /\ Led(o)
  BY DEF RoundsInv, Laid
<1>2. PICK d \in Nat : InTurn(o, d) /\ Led(o)
  BY <1>1
<1>3. PICK p \in Seq(Nat) :
        /\ Reaches(SecsOf(file.segments), <<>>, p)
        /\ \A s \in DOMAIN file.segments : Behind(SecsOf(file.segments), p, s) =>
             Leading(file.sections, file.segments[s], file.segments[s].offset)
  BY DEF RoundsInv, LedOf
<1>4. p = o
  BY <1>2, <1>3, OneOrder DEF InTurn
<1>5. Behind(SecsOf(segments), o, Head(order)) /\ Head(order) \in DOMAIN segments
  BY <1>2, CoveredBehind, HandledIs
<1> QED
  BY <1>2, <1>3, <1>4, <1>5 DEF Led

LEMMA CountRelay ==
  ASSUME FileInv, FormInv, MapInv, BehindInv, ReadInv, RoundsInv, MeasureInv, RelayInv, CountGenerated
  PROVE  RelayInv'
<1>0. SerialInv /\ AddressInv /\ PlacesInv
  BY DEF MapInv
<1>1. /\ phase = "section" /\ phase' = "section" /\ UNCHANGED <<sections, segments, order, file>> /\ HasNext
      /\ Index \in generated /\ Place.type # "NULL" /\ at' = Counted(Place.offset - at.start - at.size)
  BY DEF CountGenerated, HasNext
<1>2. Kept /\ \A i : Sec(i)' = Sec(i)
  BY <1>1, UnchangedKept DEF Sec
<1>3. Index \in Into(Current.secs) /\ Place = Sec(Index) /\ Place \in Header /\ order # <<>>
  BY <1>0, <1>1, MoreIs, HandledIs, NextIs
<1>4. at'.next = at.next + 1 /\ at'.start = at.start
  <2>1. Place.offset - at.start - at.size \in Int
    BY <1>3, HeaderFields, Types
  <2> QED
    BY <1>1, <2>1, CountedHas
<1>5. Handled' = Handled \cup {Index}
  BY <1>0, <1>1, <1>2, <1>4, UnderwayNext
<1>6. ASSUME ~ Fresh, Unchanged
      PROVE  Shifted(sections', file.sections, Handled', at'.start, file.segments[Head(order)].offset)
  <2>1. /\ NestedNow /\ Head(order) \in DOMAIN segments /\ Same(Head(order)) /\ Current = segments[Head(order)]
        /\ DOMAIN segments = DOMAIN file.segments /\ SecsOf(segments) = SecsOf(file.segments)
    BY <1>1, <1>6, SameIs, HandledIs DEF Laid
  <2>2. Covered
    BY <1>0, <1>1, <2>1, NewIs
  <2>3. PICK t \in Done : Members(Head(order)) \subseteq Members(t)
    BY <2>2 DEF Covered
  <2>4. Shifted(sections, file.sections, Members(t), segments[t].offset, file.segments[t].offset)
    BY <1>1, <1>6, <2>3 DEF RelayInv, Laid
  <2>5. t \in DOMAIN segments /\ Same(t)
    BY <1>1, <1>6, <2>3, SameIs DEF Laid, Done
  <2>6. PICK was \in SegmentHeader : was = file.segments[Head(order)]
    BY <2>1 DEF Same
  <2>7. /\ Leading(sections, Current, at.start) /\ Leading(file.sections, was, was.offset)
    BY <1>1, <1>3, <1>6, <2>1, <2>2, <2>6, CoveredLeads
  <2>8. Current.secs \in Seq(Nat) /\ Current.secs # <<>> /\ was.secs = Current.secs /\ BssLast(Current)
    BY <2>1, <2>6 DEF Same
  <2>9. 1 \in DOMAIN Current.secs
    BY <2>8
  <2>10. PICK f \in Into(Current.secs) : f = Current.secs[1]
    BY <2>9 DEF Into
  <2>11. at.start = Sec(f).offset /\ was.offset = SecOf(file, f).offset
    BY <2>7, <2>8, <2>10 DEF Leading, Sec, SecOf
  <2>12. /\ \A i \in Into(Current.secs) : i \in Members(t) /\ Sec(i) \in Header /\ SecOf(file, i) \in Header
    BY <2>1, <2>3 DEF Same, Members
  <2>13. f # Index => HasBytes(Sec(f))
    <3>1. PICK j \in DOMAIN Current.secs : Index = Current.secs[j]
      BY <1>3 DEF Into
    <3>2. f # Index => 1 < j
      BY <2>8, <2>10, <3>1
    <3> QED
      BY <2>8, <2>9, <2>10, <3>1, <3>2 DEF BssLast
  <2>14. /\ Sec(f).offset \in Int /\ SecOf(file, f).offset \in Int /\ Sec(Index).offset \in Int
         /\ SecOf(file, Index).offset \in Int
    BY <1>3, <2>12, HeaderFields
  <2>15. segments[t].offset \in Int /\ file.segments[t].offset \in Int
    BY <2>5, SegmentFields DEF Same
  <2>16. IF HasBytes(Sec(Index)) THEN Sec(Index).offset - at.start = SecOf(file, Index).offset - was.offset
         ELSE Sec(Index).offset - at.start <= SecOf(file, Index).offset - was.offset
    <3>1. CASE f = Index
      BY <2>11, <2>14, <3>1
    <3>2. CASE f # Index
      <4>1. Sec(f).offset - segments[t].offset = SecOf(file, f).offset - file.segments[t].offset
        BY <2>4, <2>12, <2>13, <3>2 DEF Shifted, Sec, SecOf
      <4>2. IF HasBytes(Sec(Index)) THEN Sec(Index).offset - segments[t].offset = SecOf(file, Index).offset - file.segments[t].offset
            ELSE Sec(Index).offset - segments[t].offset <= SecOf(file, Index).offset - file.segments[t].offset
        BY <1>3, <2>4, <2>12 DEF Shifted, Sec, SecOf
      <4>3. \A a, b, c, x, y, z \in Int : a - b = x - y => /\ (c - b = z - y => c - a = z - x)
                                                          /\ (c - b <= z - y => c - a <= z - x)
        OBVIOUS
      <4> QED
        BY <2>11, <2>14, <2>15, <4>1, <4>2, <4>3
    <3> QED
      BY <3>1, <3>2
  <2>17. Shifted(sections, file.sections, Handled, at.start, was.offset)
    BY <1>1, <1>6, <2>6 DEF RelayInv, Laid
  <2>18. Shifted(sections, file.sections, Handled \cup {Index}, at.start, was.offset)
    BY <2>16, <2>17 DEF Shifted, Sec, SecOf
  <2> QED
    BY <1>1, <1>4, <1>5, <2>6, <2>18
<1> QED
  BY <1>1, <1>2, <1>6, LaidRelay DEF Laid

\* Two tables have the same contents of sections.
Alike(t, u, S) ==
  \A i \in S : /\ t[i + 1] \in Header /\ u[i + 1] \in Header
               /\ t[i + 1].type = u[i + 1].type /\ t[i + 1].size = u[i + 1].size
               /\ t[i + 1].alloc = u[i + 1].alloc /\ t[i + 1].tls = u[i + 1].tls

\* Sections that are as far apart in one table as in another end as far from the start.
LEMMA EndSame ==
  ASSUME NEW t, NEW u, NEW q \in Seq(Nat), NEW a \in Int, NEW b \in Int, Shifted(t, u, Into(q), a, b), LastBare(t, q),
         Alike(t, u, Into(q))
  PROVE  /\ \A k \in 0 .. Len(q) : k = 0 \/ HasBytes(t[q[k] + 1]) => EndOf(t, q, a, k) = EndOf(u, q, b, k)
         /\ \A k \in 1 .. Len(q) : EndOf(t, q, a, k - 1) = EndOf(u, q, b, k - 1) /\ EndOf(t, q, a, k - 1) \in Int
         /\ SizeTo(t, q, a, Len(q)) = SizeTo(u, q, b, Len(q))
<1>1. /\ Len(q) \in Nat /\ DOMAIN q = 1 .. Len(q) /\ \A k \in 1 .. Len(q) : q[k] \in Into(q)
  BY DEF Into
<1>2. ASSUME NEW k \in 0 .. Len(q), k = 0 \/ HasBytes(t[q[k] + 1])
      PROVE  EndOf(t, q, a, k) = EndOf(u, q, b, k) /\ EndOf(t, q, a, k) \in Int
  <2>1. CASE k = 0
    BY <2>1 DEF EndOf
  <2>2. CASE k # 0
    <3>1. k \in 1 .. Len(q) /\ q[k] \in Into(q) /\ HasBytes(t[q[k] + 1])
      BY <1>1, <1>2, <2>2
    <3>2. PICK x \in Header : x = t[q[k] + 1]
      BY <3>1 DEF Alike
    <3>3. PICK y \in Header : y = u[q[k] + 1]
      BY <3>1 DEF Alike
    <3>4. x.offset - a = y.offset - b /\ x.size = y.size
      BY <3>1, <3>2, <3>3 DEF Shifted, Alike
    <3>5. x.offset \in Int /\ y.offset \in Int /\ x.size \in Int
      BY HeaderFields
    <3>6. x.offset + x.size - a = y.offset + y.size - b /\ x.offset + x.size - a \in Int
      <4>1. PICK c \in Int : c = x.offset
        BY <3>5
      <4>2. PICK d \in Int : d = y.offset
        BY <3>5
      <4>3. PICK z \in Int : z = x.size
        BY <3>5
      <4>4. c - a = d - b
        BY <3>4, <4>1, <4>2
      <4>5. c + z - a = d + z - b /\ c + z - a \in Int
        BY <4>4
      <4> QED
        BY <3>4, <4>1, <4>2, <4>3, <4>5
    <3> QED
      BY <2>2, <3>2, <3>3, <3>6 DEF EndOf
  <2> QED
    BY <2>1, <2>2
<1>3. ASSUME NEW k \in 1 .. Len(q) PROVE EndOf(t, q, a, k - 1) = EndOf(u, q, b, k - 1) /\ EndOf(t, q, a, k - 1) \in Int
  <2>1. k - 1 \in 0 .. Len(q) /\ (k - 1 # 0 => k - 1 \in DOMAIN q /\ k \in DOMAIN q /\ k - 1 < k)
    BY <1>1
  <2>2. k - 1 = 0 \/ HasBytes(t[q[k - 1] + 1])
    BY <2>1 DEF LastBare
  <2> QED
    BY <1>2, <2>1, <2>2
<1>4. SizeTo(t, q, a, Len(q)) = SizeTo(u, q, b, Len(q))
  <2>1. CASE Len(q) = 0
    BY <1>2, <2>1 DEF SizeTo, EndOf
  <2>2. CASE Len(q) # 0
    <3>1. Len(q) \in 1 .. Len(q) /\ Len(q) \in 0 .. Len(q)
      BY <1>1, <2>2
    <3>2. HasBytes(t[q[Len(q)] + 1]) <=> HasBytes(u[q[Len(q)] + 1])
      BY <1>1, <3>1 DEF HasBytes, Alike
    <3> QED
      BY <1>2, <1>3, <2>2, <3>1, <3>2 DEF SizeTo
  <2> QED
    BY <2>1, <2>2
<1> QED
  BY <1>2, <1>3, <1>4

LEMMA SumsBelow ==
  ASSUME NEW t, NEW u, NEW q \in Seq(Nat), NEW a \in Int, NEW b \in Int, Shifted(t, u, Into(q), a, b), LastBare(t, q),
         Alike(t, u, Into(q)), NEW type, NEW m, NEW n, Sums(t, q, type, a, Len(q), m), Sums(u, q, type, b, Len(q), n)
  PROVE  m[Len(q)] <= n[Len(q)]
<1>1. /\ Len(q) \in Nat /\ DOMAIN q = 1 .. Len(q) /\ \A k \in 1 .. Len(q) : q[k] \in Into(q)
  BY DEF Into
<1>2. \A k \in 1 .. Len(q) : EndOf(t, q, a, k - 1) = EndOf(u, q, b, k - 1) /\ EndOf(t, q, a, k - 1) \in Int
  BY EndSame
<1> DEFINE S == {k \in 0 .. Len(q) : m[k] <= n[k]}
<1>3. 0 \in S
  BY <1>1 DEF Sums
<1>4. ASSUME NEW k \in 0 .. Len(q) - 1, k \in S PROVE k + 1 \in S
  <2>1. k + 1 \in 1 .. Len(q) /\ k + 1 - 1 = k /\ k \in 0 .. Len(q) /\ k + 1 \in 0 .. Len(q)
    BY <1>1
  <2>2. PICK x \in Header : x = t[q[k + 1] + 1]
    BY <1>1, <2>1 DEF Alike
  <2>3. PICK y \in Header : y = u[q[k + 1] + 1]
    BY <1>1, <2>1 DEF Alike
  <2>4. PICK e \in Int : e = EndOf(t, q, a, k) /\ e = EndOf(u, q, b, k)
    BY <1>2, <2>1
  <2>5. m[k + 1] = m[k] + (IF Charged(x, type) THEN x.size + (x.offset - a - e) ELSE 0)
    <3>1. \A j \in 1 .. Len(q) : m[j] = m[j - 1] + (IF Charged(t[q[j] + 1], type)
            THEN t[q[j] + 1].size + (t[q[j] + 1].offset - a - EndOf(t, q, a, j - 1)) ELSE 0)
      BY DEF Sums
    <3>2. PICK j \in 1 .. Len(q) : j = k + 1
      BY <2>1
    <3>3. j - 1 = k
      BY <2>1, <3>2
    <3>4. m[j] = m[j - 1] + (IF Charged(t[q[j] + 1], type)
            THEN t[q[j] + 1].size + (t[q[j] + 1].offset - a - EndOf(t, q, a, j - 1)) ELSE 0)
      BY <3>1
    <3>5. m[j] = m[k] + (IF Charged(t[q[j] + 1], type)
            THEN t[q[j] + 1].size + (t[q[j] + 1].offset - a - EndOf(t, q, a, k)) ELSE 0)
      BY <3>3, <3>4
    <3>6. x = t[q[j] + 1]
      BY <2>2, <3>2
    <3> QED
      BY <2>4, <3>2, <3>5, <3>6
  <2>6. n[k + 1] = n[k] + (IF Charged(y, type) THEN y.size + (y.offset - b - e) ELSE 0)
    <3>1. \A j \in 1 .. Len(q) : n[j] = n[j - 1] + (IF Charged(u[q[j] + 1], type)
            THEN u[q[j] + 1].size + (u[q[j] + 1].offset - b - EndOf(u, q, b, j - 1)) ELSE 0)
      BY DEF Sums
    <3>2. PICK j \in 1 .. Len(q) : j = k + 1
      BY <2>1
    <3>3. j - 1 = k
      BY <2>1, <3>2
    <3>4. n[j] = n[j - 1] + (IF Charged(u[q[j] + 1], type)
            THEN u[q[j] + 1].size + (u[q[j] + 1].offset - b - EndOf(u, q, b, j - 1)) ELSE 0)
      BY <3>1
    <3>5. n[j] = n[k] + (IF Charged(u[q[j] + 1], type)
            THEN u[q[j] + 1].size + (u[q[j] + 1].offset - b - EndOf(u, q, b, k)) ELSE 0)
      BY <3>3, <3>4
    <3>6. y = u[q[j] + 1]
      BY <2>3, <3>2
    <3> QED
      BY <2>4, <3>2, <3>5, <3>6
  <2>7. (Charged(x, type) <=> Charged(y, type)) /\ x.size = y.size /\ (HasBytes(x) <=> HasBytes(y))
    BY <1>1, <2>1, <2>2, <2>3 DEF Charged, HasBytes, Alike
  <2>8. x.offset - a <= y.offset - b /\ x.offset \in Int /\ y.offset \in Int /\ x.size \in Int
    <3>1. x.offset \in Int /\ y.offset \in Int /\ x.size \in Int
      BY HeaderFields
    <3>2. IF HasBytes(x) THEN x.offset - a = y.offset - b ELSE x.offset - a <= y.offset - b
      BY <1>1, <2>1, <2>2, <2>3 DEF Shifted
    <3> QED
      BY <3>1, <3>2
  <2>9. m[k] \in Int /\ n[k] \in Int /\ m[k] <= n[k]
    BY <1>4, <2>1 DEF Sums
  <2>10. \A f, g, c, d, z \in Int : f <= g /\ c - a <= d - b => f + (z + (c - a - e)) <= g + (z + (d - b - e))
    OBVIOUS
  <2>11. m[k + 1] <= n[k + 1]
    <3>1. CASE Charged(x, type)
      <4>1. m[k + 1] = m[k] + (x.size + (x.offset - a - e))
        BY <2>5, <3>1
      <4>2. n[k + 1] = n[k] + (x.size + (y.offset - b - e))
        BY <2>6, <2>7, <3>1
      <4>3. m[k] + (x.size + (x.offset - a - e)) <= n[k] + (x.size + (y.offset - b - e))
        BY <2>8, <2>9, <2>10
      <4> QED
        BY <4>1, <4>2, <4>3
    <3>2. CASE ~ Charged(x, type)
      BY <2>5, <2>6, <2>7, <2>9, <3>2
    <3> QED
      BY <3>1, <3>2
  <2> QED
    BY <2>1, <2>11
<1> HIDE DEF S
<1>5. \A k \in 0 .. Len(q) : k \in S
  BY <1>1, <1>3, <1>4, Upwards
<1>6. Len(q) \in S
  BY <1>1, <1>5
<1> QED
  BY <1>6 DEF S

\* Sections that lie one behind another take some memory or none.
LEMMA SumsNotBelow ==
  ASSUME NEW t, NEW q \in Seq(Nat), NEW a \in Int, \A i \in Into(q) : t[i + 1] \in Header,
         \A i \in Into(q) : a <= t[i + 1].offset,
         \A j, k \in DOMAIN q : j < k => t[q[j] + 1].offset + t[q[j] + 1].size <= t[q[k] + 1].offset,
         NEW type, NEW m, Sums(t, q, type, a, Len(q), m)
  PROVE  0 <= m[Len(q)]
<1>1. /\ Len(q) \in Nat /\ DOMAIN q = 1 .. Len(q) /\ \A k \in 1 .. Len(q) : q[k] \in Into(q)
  BY DEF Into
<1> DEFINE S == {k \in 0 .. Len(q) : 0 <= m[k]}
<1>2. 0 \in S
  BY <1>1 DEF Sums
<1>3. ASSUME NEW k \in 0 .. Len(q) - 1, k \in S PROVE k + 1 \in S
  <2>1. k + 1 \in 1 .. Len(q) /\ k + 1 - 1 = k /\ k \in 0 .. Len(q) /\ k + 1 \in 0 .. Len(q)
    BY <1>1
  <2>2. PICK x \in Header : x = t[q[k + 1] + 1]
    BY <1>1, <2>1
  <2>3. x.offset \in Int /\ x.size \in Nat /\ a <= x.offset
    BY <1>1, <2>1, <2>2, HeaderFields
  <2>4. EndOf(t, q, a, k) \in Int /\ EndOf(t, q, a, k) <= x.offset - a
    <3>1. CASE k = 0
      <4>1. EndOf(t, q, a, k) = 0
        BY <3>1 DEF EndOf
      <4> QED
        BY <2>3, <4>1
    <3>2. CASE k # 0
      <4>1. k \in 1 .. Len(q) /\ k \in DOMAIN q /\ k + 1 \in DOMAIN q /\ k < k + 1
        BY <1>1, <2>1, <3>2
      <4>2. PICK y \in Header : y = t[q[k] + 1]
        BY <1>1, <4>1
      <4>3. y.offset \in Int /\ y.size \in Int
        BY HeaderFields
      <4>4. y.offset + y.size <= x.offset
        BY <2>2, <4>1, <4>2
      <4>5. EndOf(t, q, a, k) = y.offset + y.size - a
        BY <3>2, <4>2 DEF EndOf
      <4> QED
        BY <2>3, <4>3, <4>4, <4>5
    <3> QED
      BY <3>1, <3>2
  <2>5. PICK e \in Int : e = EndOf(t, q, a, k)
    BY <2>4
  <2>6. m[k + 1] = m[k] + (IF Charged(x, type) THEN x.size + (x.offset - a - e) ELSE 0)
    <3>1. \A j \in 1 .. Len(q) : m[j] = m[j - 1] + (IF Charged(t[q[j] + 1], type)
            THEN t[q[j] + 1].size + (t[q[j] + 1].offset - a - EndOf(t, q, a, j - 1)) ELSE 0)
      BY DEF Sums
    <3>2. PICK j \in 1 .. Len(q) : j = k + 1
      BY <2>1
    <3>3. j - 1 = k
      BY <2>1, <3>2
    <3>4. m[j] = m[j - 1] + (IF Charged(t[q[j] + 1], type)
            THEN t[q[j] + 1].size + (t[q[j] + 1].offset - a - EndOf(t, q, a, j - 1)) ELSE 0)
      BY <3>1
    <3>5. m[j] = m[k] + (IF Charged(t[q[j] + 1], type)
            THEN t[q[j] + 1].size + (t[q[j] + 1].offset - a - EndOf(t, q, a, k)) ELSE 0)
      BY <3>3, <3>4
    <3>6. x = t[q[j] + 1]
      BY <2>2, <3>2
    <3> QED
      BY <2>5, <3>2, <3>5, <3>6
  <2>7. m[k] \in Int /\ 0 <= m[k]
    <3>1. m \in [0 .. Len(q) -> Int]
      BY DEF Sums
    <3> QED
      BY <1>3, <2>1, <3>1
  <2>8. 0 <= x.size + (x.offset - a - e) /\ x.size + (x.offset - a - e) \in Int
    BY <2>3, <2>4, <2>5
  <2>9. 0 <= m[k + 1]
    BY <2>6, <2>7, <2>8
  <2> QED
    BY <2>1, <2>9
<1> HIDE DEF S
<1>4. \A k \in 0 .. Len(q) : k \in S
  BY <1>1, <1>2, <1>3, Upwards
<1>5. Len(q) \in S
  BY <1>1, <1>4
<1> QED
  BY <1>5 DEF S

\* A segment that has room for its sections keeps its memory.
LEMMA FinishMemory ==
  ASSUME FileInv, FinishSegment, 0 <= at.memory, at.memory <= Current.memory
  PROVE  \A s \in DOMAIN segments : segments'[s].memory = segments[s].memory
<1>1. /\ phase = "section"
      /\ segments' = [segments EXCEPT ![Head(order)] =
           [@ EXCEPT !.size = at.size, !.offset = at.start, !.fixed = TRUE,
                     !.memory = IF Below(Current.memory, at.memory) THEN at.memory ELSE Current.memory]]
  BY DEF FinishSegment
<1>2. Head(order) \in DOMAIN segments /\ Current = segments[Head(order)] /\ segments \in Seq(SegmentHeader)
  BY <1>1, HandledIs, SegmentsInside
<1>3. PICK h \in DOMAIN segments : h = Head(order)
  BY <1>2
<1>4. PICK c \in SegmentHeader : c = Current
  BY <1>2
<1>5. ~ Below(c.memory, at.memory)
  <2>1. c.memory \in Int /\ at.memory \in Int
    BY SegmentFields, Types
  <2>2. PICK r \in Int, p \in Int : r = c.memory /\ p = at.memory
    BY <2>1
  <2>3. 0 <= p /\ p <= r
    BY <1>4, <2>2
  <2> QED
    BY <2>2, <2>3 DEF Below
<1>6. segments' = [segments EXCEPT ![h] = [@ EXCEPT !.size = at.size, !.offset = at.start, !.fixed = TRUE,
                                                    !.memory = c.memory]]
  BY <1>1, <1>3, <1>4, <1>5
<1>7. segments'[h].memory = c.memory /\ \A s \in DOMAIN segments : s # h => segments'[s] = segments[s]
  BY <1>2, <1>3, <1>4, <1>6 DEF SegmentHeader
<1> QED
  BY <1>2, <1>3, <1>4, <1>7

LEMMA FinishRelay ==
  ASSUME FileInv, FormInv, SerialInv, BehindInv, ReadInv, MeasureInv, RelayInv, FinishSegment, MeasureInv'
  PROVE  RelayInv'
<1>1. /\ phase = "section" /\ phase' = "segment" /\ sections' = sections /\ at.next > Len(Current.secs)
      /\ file' = file /\ Kept
      /\ \A s \in DOMAIN segments : s # Head(order) => segments'[s] = segments[s]
      /\ segments'[Head(order)].size = at.size /\ segments'[Head(order)].offset = at.start
  BY FinishIs DEF FinishSegment
<1>2. SUFFICES ASSUME ~ Fresh, Unchanged PROVE RelayInv'
  BY <1>1, UnchangedSame DEF RelayInv, Fresh
<1>3. /\ NestedNow /\ Head(order) \in DOMAIN segments /\ Same(Head(order)) /\ Current = segments[Head(order)]
      /\ Handled = Into(Current.secs) /\ Members(Head(order)) = Into(Current.secs)
  BY <1>1, <1>2, SameIs, HandledIs DEF Laid
<1>4. PICK was \in SegmentHeader : was = file.segments[Head(order)]
  BY <1>3 DEF Same
<1>5. PICK q \in Seq(Nat) : q = Current.secs
  BY <1>3 DEF Same
<1>6. /\ q # <<>> /\ was.secs = q /\ was.type = Current.type /\ LastBare(sections, q) /\ Measured(file.sections, was)
      /\ Alike(sections, file.sections, Into(q))
  BY <1>3, <1>4, <1>5 DEF Same, Sec, SecOf, Alike
<1>7. /\ at.next - 1 \in 0 .. Len(q) /\ at.size = SizeTo(sections, q, at.start, at.next - 1)
      /\ \E m : Sums(sections, q, Current.type, at.start, at.next - 1, m) /\ m[at.next - 1] = at.memory
  <2>1. Measuring
    BY <1>1, <1>3 DEF MeasureInv, Laid
  <2> QED
    BY <1>5, <1>6, <2>1 DEF Measuring
<1>8. at.next - 1 = Len(q)
  <2>1. at.next \in Nat /\ Len(q) \in Nat
    BY Types
  <2> QED
    BY <1>1, <1>5, <1>7, <2>1
<1>9. at.start \in Int /\ was.offset \in Int /\ was.memory \in Int /\ at.memory \in Int
  BY SegmentFields, Types
<1>10. Shifted(sections, file.sections, Into(q), at.start, was.offset)
  BY <1>1, <1>2, <1>3, <1>4, <1>5 DEF RelayInv, Laid
<1>11. at.size = was.size
  <2>1. SizeTo(sections, q, at.start, Len(q)) = SizeTo(file.sections, q, was.offset, Len(q))
    <3>1. LastBare(sections, q) /\ Alike(sections, file.sections, Into(q)) /\ at.start \in Int /\ was.offset \in Int
      BY <1>6, <1>9
    <3> QED
      BY <1>10, <3>1, EndSame
  <2> QED
    BY <1>6, <1>7, <1>8, <2>1 DEF Measured
<1>12. 0 <= at.memory /\ at.memory <= was.memory
  <2>1. PICK m : Sums(sections, q, Current.type, at.start, Len(q), m) /\ m[Len(q)] = at.memory
    BY <1>7, <1>8
  <2>2. PICK n : Sums(file.sections, q, Current.type, was.offset, Len(q), n) /\ UpTo(n[Len(q)], was.memory)
    BY <1>6 DEF Measured
  <2>3. m[Len(q)] <= n[Len(q)]
    BY <1>6, <1>9, <1>10, <2>1, <2>2, SumsBelow
  <2>4. n[Len(q)] \in Int
    <3>1. n \in [0 .. Len(q) -> Int] /\ Len(q) \in Nat
      BY <2>2 DEF Sums
    <3> QED
      BY <3>1
  <2>5. was.memory >= 0
    <3>1. DOMAIN segments = DOMAIN file.segments
      BY <1>1, <1>2, SameIs DEF Laid
    <3>2. \A s \in DOMAIN file.segments : file.segments[s].memory >= 0
      BY <1>1, <1>2 DEF ReadInv, Laid, LayoutPhases
    <3> QED
      BY <1>3, <1>4, <3>1, <3>2
  <2>6. PICK y : y = segments'[Head(order)]
    OBVIOUS
  <2>7. y.secs = q /\ y.offset = at.start /\ Measured(sections, y)
    <3>1. y.secs = q /\ y.offset = at.start
      BY <1>1, <1>3, <1>5, <2>6, KeptMembers DEF SegmentKept
    <3>2. Head(order) \in Done'
      <4>1. order' = Tail(order)
        BY DEF FinishSegment
      <4>2. DOMAIN segments' = DOMAIN segments /\ Head(order) \notin Into(Tail(order))
        BY <1>1, HeadIs, HandledIs, KeptMembers
      <4> QED
        BY <1>3, <4>1, <4>2 DEF Done
    <3>3. NestedNow'
      BY <1>1, <1>3, KeptMembers
    <3>4. MeasuredAll(sections, segments', Done')
      BY <1>1, <3>3 DEF MeasureInv, Laid
    <3> QED
      BY <1>6, <2>6, <3>1, <3>2, <3>4 DEF MeasuredAll
  <2>8. 0 <= m[Len(q)]
    <3>1. /\ \A i \in Into(q) : sections[i + 1] \in Header
          /\ \A i \in Into(q) : at.start <= sections[i + 1].offset
          /\ \A j, k \in DOMAIN q : j < k =>
               sections[q[j] + 1].offset + sections[q[j] + 1].size <= sections[q[k] + 1].offset
      BY <1>6, <2>7 DEF Alike, Measured
    <3> QED
      BY <1>9, <2>1, <3>1, SumsNotBelow
  <2>9. PICK z \in Int : z = n[Len(q)]
    BY <2>4
  <2>10. z <= was.memory
    BY <1>9, <2>2, <2>5, <2>9 DEF UpTo
  <2>11. at.memory <= z
    BY <2>1, <2>3, <2>9
  <2> QED
    BY <1>9, <2>1, <2>8, <2>9, <2>10, <2>11
<1>13. /\ \A s \in DOMAIN segments : segments[s].memory = file.segments[s].memory
       /\ \A s \in Done : /\ segments[s].size = file.segments[s].size
                          /\ Shifted(sections, file.sections, Members(s), segments[s].offset, file.segments[s].offset)
  BY <1>1, <1>2 DEF RelayInv, Laid
<1>14. \A s \in DOMAIN segments' : segments'[s].memory = file.segments[s].memory
  <2>1. 0 <= at.memory /\ at.memory <= Current.memory
    BY <1>3, <1>4, <1>12, <1>13
  <2> QED
    BY <1>1, <1>13, <2>1, FinishMemory, KeptMembers
<1>15. ASSUME NEW s \in Done'
       PROVE  /\ segments'[s].size = file.segments[s].size
              /\ Shifted(sections, file.sections, Members(s)', segments'[s].offset, file.segments[s].offset)
  <2>1. s \in Done \cup {Head(order)} /\ Done \subseteq DOMAIN segments /\ \A t \in DOMAIN segments : Members(t)' = Members(t)
    BY <1>1, <1>15, FinishDone, KeptMembers DEF Done
  <2>2. CASE s = Head(order)
    <3>1. Members(s)' = Into(q)
      BY <1>3, <1>5, <2>1, <2>2
    <3> QED
      BY <1>1, <1>4, <1>10, <1>11, <2>2, <3>1
  <2>3. CASE s # Head(order)
    <3>1. s \in Done /\ segments'[s] = segments[s] /\ Members(s)' = Members(s)
      BY <1>1, <2>1, <2>3
    <3> QED
      BY <1>13, <3>1
  <2> QED
    BY <2>2, <2>3
<1> QED
  BY <1>1, <1>14, <1>15 DEF RelayInv

LEMMA RelayStep ==
  ASSUME FileInv, FormInv, MapInv, OwnInv, BehindInv, ReadInv, RoundsInv, MeasureInv, RelayInv, ~ back', MeasureInv', FileNext
  PROVE  RelayInv'
<1>1. SerialInv /\ AddressInv /\ PlacesInv
  BY DEF MapInv
<1>2. ASSUME Edit \/ Read \/ Save \/ OrderSegment \/ SaveAborts \/ WriteFile PROVE RelayInv'
  <2>1. phase' \notin Laid
    BY <1>2 DEF Edit, AddSection, AppendData, AddSegment, AddSectionIndex, Read, Load, LoadSection, NameSections,
                LoadSegment, FinishLoad, ElfValid, Save, OrderSegment, SaveAborts, WriteFile, Laid
  <2> QED
    BY <2>1 DEF RelayInv
<1>3. ASSUME NEW length \in Cuts, Truncate(length) PROVE FALSE
  BY <1>3 DEF Truncate, OwnInv
<1>4. ASSUME StartLayout PROVE RelayInv'
  <2>1. phase = "order" /\ todo = <<>> /\ phase' = "segment" /\ UNCHANGED <<segments, order, file>>
    BY <1>4 DEF StartLayout, layout
  <2>2. DOMAIN segments = Into(order)
    BY <2>1, Types, IntoIs DEF FileInv, OrderInv
  <2>3. Done' = {}
    BY <2>1, <2>2 DEF Done
  <2>4. ~ Fresh => \A s \in DOMAIN segments : segments[s].memory = file.segments[s].memory
    BY <2>1 DEF ReadInv, LayoutPhases, Laid
  <2> QED
    BY <2>1, <2>3, <2>4 DEF RelayInv, Fresh
<1>5. ASSUME StartLoose PROVE RelayInv'
  <2>1. /\ phase = "segment" /\ phase' = "loose" /\ UNCHANGED <<sections, segments, order, file>>
    BY <1>5 DEF StartLoose
  <2>2. Kept /\ \A i : Sec(i)' = Sec(i)
    BY <2>1, UnchangedKept DEF Sec
  <2> QED
    BY <2>1, <2>2, LaidRelay DEF Laid
<1>6. ASSUME PlaceLoose PROVE RelayInv'
  BY <1>1, <1>6, LooseOthers, LaidRelay DEF Laid
<1> QED
  BY <1>1, <1>2, <1>3, <1>4, <1>5, <1>6, StartRelay, GenerateRelay, CountRelay, FinishRelay, NoPlaceNull
     DEF FileNext, LayOut

\* A file that was not read or laid out yet.
LEMMA EditAgain ==
  ASSUME FileInv', AddressInv', phase' = "edit"
  PROVE  AgainInv'
<1>1. BehindInv' /\ Fresh'
  BY EditBehind DEF AddressInv
<1> QED
  BY <1>1 DEF AgainInv, FormInv, ReadInv, RoundsInv, LinkInv, MeasureInv, RelayInv, Laid, LayoutPhases

LEMMA BeginAgain ==
  ASSUME FileInit, phase = "edit"
  PROVE  AgainInv
<1>1. segments = <<>> /\ sections = <<Created, Shstrtab>> /\ Fresh
  BY DEF FileInit, Fresh
<1>2. Len(sections) = 2 /\ DOMAIN segments = {} /\ sections[1] = Created /\ sections[2] = Shstrtab
  BY <1>1
<1>3. Created.type = "NULL" /\ ~ Created.alloc /\ Created.offset = 0
  BY DEF Created
<1>4. Shstrtab.type # "NULL"
  BY ShstrtabIs
<1>5. \A i \in Numbers : i = 0 \/ i = 1
  BY <1>2 DEF Numbers
<1>6. \A i \in Numbers : Sec(i).type = "NULL" => i = 0 /\ ~ Sec(i).alloc /\ Sec(i).offset = 0
  <2>1. \A i : i = 0 => Sec(i) = Created
    BY <1>2 DEF Sec
  <2>2. \A i : i = 1 => Sec(i) = Shstrtab
    BY <1>2 DEF Sec
  <2> QED
    BY <1>3, <1>4, <1>5, <2>1, <2>2
<1>7. BehindInv
  BY <1>1, <1>2, <1>6 DEF BehindInv, Laid
<1> QED
  BY <1>1, <1>7 DEF AgainInv, FormInv, ReadInv, RoundsInv, LinkInv, MeasureInv, RelayInv, Laid, LayoutPhases

LEMMA AgainStep ==
  ASSUME FileInv, FileInv', MapInv, MapInv', OwnInv, AgainInv, ~ back, ~ back', FileNext
  PROVE  AgainInv'
<1>1. /\ FormInv /\ BehindInv /\ ReadInv /\ RoundsInv /\ LinkInv /\ MeasureInv /\ RelayInv
      /\ AddressInv' /\ PlacesInv'
  BY DEF AgainInv, MapInv
<1>2. BehindInv'
  BY <1>1, BehindStep
<1>3. LinkInv'
  BY <1>1, LinkStep
<1>4. FormInv'
  BY <1>1, FormStep
<1>5. ReadInv'
  BY <1>1, <1>2, ReadStep
<1>6. RoundsInv'
  BY <1>1, RoundsStep
<1>7. MeasureInv'
  BY <1>1, <1>3, MeasureStep
<1>8. RelayInv'
  BY <1>1, <1>7, RelayStep
<1> QED
  BY <1>2, <1>3, <1>4, <1>5, <1>6, <1>7, <1>8 DEF AgainInv

\* What is known of a file is known as long as nothing happens to it.
LEMMA AgainStays ==
  ASSUME AgainInv, UNCHANGED fileVars
  PROVE  AgainInv'
<1>1. UNCHANGED <<sections, segments, phase, pos, todo, order, generated, at, file, good, saves, back>>
  BY DEF fileVars
<1>2. /\ Numbers' = Numbers /\ (\A i : Sec(i)' = Sec(i)) /\ (Fresh' <=> Fresh) /\ Done' = Done /\ Current' = Current
      /\ \A s : Members(s)' = Members(s)
  BY <1>1 DEF Numbers, Sec, Fresh, Done, Current, Members
<1>3. (NestedNow' <=> NestedNow) /\ (Covered' <=> Covered) /\ Handled' = Handled /\ (Nested' <=> Nested)
  BY <1>1, <1>2 DEF NestedNow, Covered, Handled, Nested
<1>4. FormInv' /\ BehindInv'
  BY <1>1, <1>2 DEF AgainInv, FormInv, BehindInv
<1>5. ReadInv'
  BY <1>1, <1>2 DEF AgainInv, ReadInv
<1>6. RoundsInv'
  <2>1. \A o, d : (InTurn(o, d)' <=> InTurn(o, d)) /\ (Led(o)' <=> Led(o))
    BY <1>1, <1>2 DEF InTurn, Led
  <2> QED
    BY <1>1, <1>2, <2>1 DEF AgainInv, RoundsInv
<1>7. LinkInv'
  BY <1>1, <1>2, <1>3 DEF AgainInv, LinkInv
<1>8. MeasureInv'
  <2>1. Measuring' <=> Measuring
    BY <1>1, <1>2, <1>3 DEF Measuring
  <2> QED
    BY <1>1, <1>2, <1>3, <2>1 DEF AgainInv, MeasureInv
<1>9. RelayInv'
  <2>1. Unchanged' <=> Unchanged
    BY <1>1, <1>2, <1>3 DEF Unchanged
  <2> QED
    BY <1>1, <1>2, <1>3, <2>1 DEF AgainInv, RelayInv
<1> QED
  BY <1>4, <1>5, <1>6, <1>7, <1>8, <1>9 DEF AgainInv

\* No save of a file as it was loaded goes back.
ForwardInv == phase \in Laid /\ ~ Fresh /\ Unchanged => ~ back

LEMMA LaidKept ==
  ASSUME FileInv, phase \in Laid, phase' \in Laid, FileNext
  PROVE  Kept /\ file' = file
<1>1. LayOut
  BY DEF FileNext, Edit, AddSection, AppendData, AddSegment, AddSectionIndex, Save, Read, Load, LoadSection,
         NameSections, LoadSegment, FinishLoad, ElfValid, Truncate, Laid
<1>2. ~ OrderSegment /\ ~ StartLayout /\ ~ SaveAborts /\ ~ WriteFile
  BY DEF OrderSegment, StartLayout, SaveAborts, WriteFile, Laid
<1>4. file' = file
  BY <1>1, <1>2 DEF LayOut, StartSegment, PlaceNull, PlaceFixed, PlaceNew, Generate, CountGenerated, FinishSegment,
                          StartLoose, PlaceLoose
<1>5. ASSUME StartSegment \/ PlaceNull \/ CountGenerated \/ StartLoose PROVE Kept
  <2>1. sections' = sections /\ segments' = segments
    BY <1>5 DEF StartSegment, PlaceNull, CountGenerated, StartLoose
  <2> QED
    BY <2>1, UnchangedKept
<1>6. ASSUME PlaceFixed \/ PlaceNew PROVE Kept
  <2>1. HasNext
    BY <1>6 DEF PlaceFixed, PlaceNew
  <2>2. /\ pos \in Int /\ at.start \in Int /\ Place \in Header /\ Place.address \in Int /\ Place.align \in Nat
        /\ Current.vaddr \in Nat
    BY <2>1, Types, NextIs, CurrentIs, HeaderFields
  <2>3. /\ Requested - Passed \in Int /\ RoundedUp(pos, Place.align) - pos \in Int /\ 0 \in Int
    <3>1. PICK p \in Int, a \in Nat : p = pos /\ a = Place.align
      BY <2>2
    <3>2. RoundedUp(p, a) \in Int
      BY RoundedUpIs
    <3>3. PICK h \in Int : h = RoundedUp(p, a)
      BY <3>2
    <3>4. PICK c \in Int, v \in Int, s \in Int : c = Place.address /\ v = Current.vaddr /\ s = at.start
      BY <2>2
    <3> QED
      BY <3>1, <3>3, <3>4 DEF Requested, Passed
  <2>4. \E gap \in Int : Generate(gap)
    BY <1>6, <2>3 DEF PlaceFixed, PlaceNew
  <2> QED
    BY <2>1, <2>4, GeneratedIs
<1>7. ASSUME FinishSegment PROVE Kept
  BY <1>7, FinishIs
<1>8. ASSUME PlaceLoose PROVE Kept
  BY <1>8, LooseIs
<1> QED
  BY <1>1, <1>2, <1>4, <1>5, <1>6, <1>7, <1>8 DEF LayOut

LEMMA ForwardStep ==
  ASSUME FileInv, ~ back => MapInv /\ AgainInv, ForwardInv, FileNext
  PROVE  ForwardInv'
<1> SUFFICES ASSUME phase' \in Laid, ~ Fresh', Unchanged', back' PROVE FALSE
  BY DEF ForwardInv
<1>1. phase \in Laid
  <2> SUFFICES ASSUME phase \notin Laid PROVE FALSE
    OBVIOUS
  <2>1. phase = "order" /\ back' = back
    BY DEF FileNext, Edit, AddSection, AppendData, AddSegment, AddSectionIndex, Save, Read, Load, LoadSection,
           NameSections, LoadSegment, FinishLoad, ElfValid, Truncate, Laid, LayOut, OrderSegment, StartLayout,
           StartSegment, PlaceNull, PlaceFixed, SaveAborts, PlaceNew, Generate, HasNext, CountGenerated,
           FinishSegment, StartLoose, PlaceLoose, WriteFile, layout
  <2> QED
    BY <2>1 DEF FileInv, FileTypeInv, BackPhases
<1>2. Kept /\ file' = file
  BY <1>1, LaidKept
<1>3. Unchanged /\ ~ Fresh
  BY <1>2, UnchangedSame DEF Fresh
<1>4. ~ back
  BY <1>1, <1>3 DEF ForwardInv
<1>5. /\ SerialInv /\ AddressInv /\ PlacesInv
      /\ FormInv /\ BehindInv /\ ReadInv /\ MeasureInv /\ RelayInv
  BY <1>4 DEF MapInv, AgainInv
<1>6. HasNext /\ Place.type # "NULL" /\ Index \notin generated /\ ByAddress /\ Requested < Passed
  BY <1>1, <1>4 DEF FileNext, Edit, AddSection, AppendData, AddSegment, AddSectionIndex, Save, Read, Load,
         LoadSection, NameSections, LoadSegment, FinishLoad, ElfValid, Truncate, Laid, LayOut, OrderSegment,
         StartLayout, StartSegment, PlaceNull, PlaceFixed, SaveAborts, PlaceNew, CountGenerated, FinishSegment,
         StartLoose, PlaceLoose, WriteFile, layout
<1> QED
  BY <1>3, <1>5, <1>6, GoesForward

\* The file that is written has what was read.
LEMMA WrittenAgain ==
  ASSUME FileInv, ~ back => MapInv /\ AgainInv, ForwardInv, FileNext
  PROVE  /\ phase' = "failed" /\ file # NoFile => ~ Unchanged
         /\ phase = "loose" /\ phase' = "saved" /\ file # NoFile /\ Unchanged =>
              \A s \in DOMAIN segments :
                /\ segments[s].memory = file.segments[s].memory
                /\ segments[s].size = file.segments[s].size
                /\ \A j \in DOMAIN segments[s].secs :
                     LET i == segments[s].secs[j]
                     IN  HasBytes(Sec(i)) =>
                           Sec(i).offset - segments[s].offset = file.sections[i + 1].offset - file.segments[s].offset
<1>1. ASSUME phase \in Laid, file # NoFile, Unchanged
      PROVE  /\ SerialInv /\ AddressInv /\ PlacesInv
             /\ FormInv /\ BehindInv /\ ReadInv /\ RoundsInv /\ LinkInv /\ MeasureInv /\ RelayInv
  BY <1>1 DEF ForwardInv, Fresh, MapInv, AgainInv
<1>2. ASSUME phase' = "failed", file # NoFile, Unchanged PROVE FALSE
  <2>1. SaveAborts
    <3>1. ASSUME Edit \/ Save \/ Read \/ \E length \in Cuts : Truncate(length) PROVE FALSE
      BY <1>2, <3>1 DEF Edit, AddSection, AppendData, AddSegment, AddSectionIndex, Save, Read, Load, LoadSection,
                        NameSections, LoadSegment, FinishLoad, ElfValid, Truncate
    <3>2. ASSUME LayOut, ~ SaveAborts PROVE FALSE
      BY <1>2, <3>2 DEF LayOut, OrderSegment, StartLayout, StartSegment, PlaceNull, PlaceFixed, PlaceNew, Generate,
                        HasNext, CountGenerated, FinishSegment, StartLoose, PlaceLoose, WriteFile
    <3> QED
      BY <3>1, <3>2 DEF FileNext
  <2>2. phase \in Laid
    BY <2>1 DEF SaveAborts, HasNext, Laid
  <2> QED
    BY <1>1, <1>2, <2>1, <2>2, NotRefused DEF Fresh
<1>3. ASSUME phase = "loose", phase' = "saved", file # NoFile, Unchanged, NEW s \in DOMAIN segments
      PROVE  /\ segments[s].memory = file.segments[s].memory
             /\ segments[s].size = file.segments[s].size
             /\ \A j \in DOMAIN segments[s].secs :
                  LET i == segments[s].secs[j]
                  IN  HasBytes(Sec(i)) =>
                        Sec(i).offset - segments[s].offset = file.sections[i + 1].offset - file.segments[s].offset
  <2>1. WriteFile
    <3>1. ASSUME Edit \/ Save \/ Read \/ \E length \in Cuts : Truncate(length) PROVE FALSE
      BY <1>3, <3>1 DEF Edit, AddSection, AppendData, AddSegment, AddSectionIndex, Save, Read, Load, LoadSection,
                        NameSections, LoadSegment, FinishLoad, ElfValid, Truncate
    <3>2. ASSUME LayOut, ~ WriteFile PROVE FALSE
      BY <1>3, <3>2 DEF LayOut, OrderSegment, StartLayout, StartSegment, PlaceNull, PlaceFixed, PlaceNew, Generate,
                        HasNext, CountGenerated, FinishSegment, StartLoose, PlaceLoose, SaveAborts
    <3> QED
      BY <3>1, <3>2 DEF FileNext
  <2>2. s \in Done
    BY <2>1, WrittenIs
  <2>3. /\ segments[s].memory = file.segments[s].memory /\ segments[s].size = file.segments[s].size
        /\ Shifted(sections, file.sections, Members(s), segments[s].offset, file.segments[s].offset)
    BY <1>1, <1>3, <2>2 DEF RelayInv, Laid, Fresh
  <2>4. ASSUME NEW i \in Members(s), HasBytes(Sec(i))
        PROVE  Sec(i).offset - segments[s].offset = file.sections[i + 1].offset - file.segments[s].offset
    BY <2>3, <2>4 DEF Shifted, Sec
  <2>5. \A j \in DOMAIN segments[s].secs : segments[s].secs[j] \in Members(s)
    BY DEF Members, Into
  <2> QED
    BY <2>3, <2>4, <2>5
<1> QED
  BY <1>2, <1>3

\* A file that was made by the library, read and saved again as it was loaded is not
\* refused, and its segments have the sizes and hold the contents at the distances they
\* had, as long as it is saved (elfio.hpp:779-947).
THEOREM SavedAgainHolds == ObjectSpec /\ phase = "edit" => SavedAgain
<1> DEFINE Inv == (~ back => OwnInv /\ AgainInv) /\ ForwardInv
           Kind == /\ phase' = "failed" /\ file # NoFile => ~ Unchanged
                   /\ phase = "loose" /\ phase' = "saved" /\ file # NoFile /\ Unchanged =>
                     \A s \in DOMAIN segments :
                       /\ segments[s].memory = file.segments[s].memory
                       /\ segments[s].size = file.segments[s].size
                       /\ \A j \in DOMAIN segments[s].secs :
                            LET i == segments[s].secs[j]
                            IN  HasBytes(Sec(i)) =>
                                  Sec(i).offset - segments[s].offset = file.sections[i + 1].offset - file.segments[s].offset
<1>1. ObjectInit /\ phase = "edit" => Inv
  <2> SUFFICES ASSUME ObjectInit, phase = "edit" PROVE Inv
    OBVIOUS
  <2>1. FileInit
    BY DEF ObjectInit
  <2>2. OwnInv
    BY <2>1 DEF OwnInv, FileInit
  <2>3. ForwardInv
    BY DEF ForwardInv, Laid
  <2> QED
    BY <2>1, <2>2, <2>3, BeginAgain
<1>2. FileInv /\ FileInv' /\ (~ back => MapInv) /\ (~ back => MapInv)' /\ Inv /\ [ObjectNext]_objectVars => Inv'
  <2> SUFFICES ASSUME FileInv, FileInv', ~ back => MapInv, ~ back' => MapInv', Inv, [ObjectNext]_objectVars
                PROVE Inv'
    OBVIOUS
  <2>0. ~ back' => ~ back
    BY StaysBack
  <2>1. ~ back' => MapInv /\ MapInv' /\ OwnInv /\ AgainInv /\ AddressInv /\ AddressInv'
    BY <2>0 DEF MapInv
  <2>2. CASE UseTables
    <3>1. phase = "edit" /\ phase' = "edit" /\ UNCHANGED <<saves, file>>
      BY <2>2 DEF UseTables
    <3>2. ~ back' => OwnInv'
      BY <2>1, <3>1 DEF OwnInv, LayoutPhases
    <3>3. ~ back' => AgainInv'
      BY <2>1, <3>1, EditAgain
    <3>4. ForwardInv'
      BY <3>1 DEF ForwardInv, Laid
    <3> QED
      BY <3>2, <3>3, <3>4
  <2>3. CASE UseFile
    <3>1. FileNext
      BY <2>3 DEF UseFile
    <3>2. ~ back' => OwnInv'
      BY <2>1, <3>1, OwnStep
    <3>3. ~ back' => AgainInv'
      BY <2>0, <2>1, <3>1, AgainStep
    <3>4. ForwardInv'
      BY <3>1, ForwardStep
    <3> QED
      BY <3>2, <3>3, <3>4
  <2>4. CASE UNCHANGED objectVars
    <3>1. UNCHANGED fileVars
      BY <2>4 DEF objectVars
    <3>2. ~ back' => OwnInv' /\ AgainInv'
      BY <2>1, <3>1, AlignStays, AgainStays
    <3>3. ForwardInv'
      <4>1. /\ UNCHANGED <<sections, segments, phase, file, back>>
            /\ Numbers' = Numbers /\ (\A i : Sec(i)' = Sec(i)) /\ (Fresh' <=> Fresh)
        BY <3>1 DEF fileVars, Numbers, Sec, Fresh
      <4>2. Nested' <=> Nested
        BY <4>1 DEF Nested
      <4>3. Unchanged' <=> Unchanged
        BY <4>1, <4>2 DEF Unchanged
      <4> QED
        BY <4>1, <4>3 DEF ForwardInv
    <3> QED
      BY <3>2, <3>3
  <2> QED
    BY <2>2, <2>3, <2>4 DEF ObjectNext
<1>3. FileInv /\ (~ back => MapInv) /\ Inv /\ [ObjectNext]_objectVars => [Kind]_fileVars
  <2> SUFFICES ASSUME FileInv, ~ back => MapInv, Inv, [ObjectNext]_objectVars PROVE [Kind]_fileVars
    OBVIOUS
  <2>1. CASE UseTables
    <3>1. phase = "edit" /\ phase' = "edit"
      BY <2>1 DEF UseTables
    <3> QED
      BY <3>1
  <2>2. CASE UseFile
    <3>1. FileNext
      BY <2>2 DEF UseFile
    <3> QED
      BY <3>1, WrittenAgain
  <2>3. CASE UNCHANGED objectVars
    BY <2>3 DEF objectVars
  <2> QED
    BY <2>1, <2>2, <2>3 DEF ObjectNext
<1>4. [][Kind]_fileVars => SavedAgain
  BY PTL DEF SavedAgain
<1> HIDE DEF Kind
<1> QED
  BY <1>1, <1>2, <1>3, <1>4, FileHolds, MapHolds, PTL DEF ObjectSpec

=============================================================================

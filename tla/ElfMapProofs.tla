---------------------------- MODULE ElfMapProofs ----------------------------
(***************************************************************************)
(* Theorems about the segments of a file made with ELFIO: saving gives the *)
(* sections of a segment places and addresses that belong together, though *)
(* other segments may place them, and loading finds them again.  MapInv    *)
(* says what is so while segments are put together, ordered and laid out,  *)
(* in the file, and while it is read.                                      *)
(***************************************************************************)
EXTENDS ElfProofs

\* No number is in the sequence twice.
NoRepeat(q) == \A k, l \in DOMAIN q : q[k] = q[l] => k = l
\* The sections of a segment
Members(s) == Into(segments[s].secs)
\* The object is laid out for the first time
Fresh == file = NoFile

\* is_subsequence_of, of the sections of two segments
Smaller(q, r) == Len(q) < Len(r) /\ Into(q) \subseteq Into(r)
\* How segments are ordered: none comes behind one that has all of its sections and more.
SerialInv ==
  /\ \A s \in DOMAIN segments : Rising(segments[s].secs)
  /\ phase \in LayoutPhases => /\ NoRepeat(todo) /\ NoRepeat(order) /\ Into(todo) \cap Into(order) = {}
                               /\ \A k, l \in DOMAIN order : k < l =>
                                    ~ Smaller(segments[order[k]].secs, segments[order[l]].secs)
  /\ phase = "order" => \A s \in Into(order) : \A t \in Into(todo) :
       ~ Smaller(segments[s].secs, segments[t].secs)
  /\ phase \in Laid => \A t \in DOMAIN segments \ Into(order) : \A s \in Into(order) :
       ~ Smaller(segments[t].secs, segments[s].secs)

\* The size m is not above n, which is very large if it is below zero.
UpTo(m, n) == n >= 0 => 0 <= m /\ m <= n

\* The place that loading looks at
InSegment(sec, seg) ==
  IF sec.alloc THEN IsSectInSeg(sec.address, sec.size, seg.vaddr, seg.vaddr + seg.memory)
  ELSE IsSectInSeg(sec.offset, sec.size, seg.offset, seg.offset + seg.size)

\* A section in memory that loading found in a segment
Known(sec, seg) ==
  sec.alloc => /\ seg.vaddr <= sec.address
               /\ sec.type = "NOBITS" /\ seg.memory >= 0 =>
                    sec.address + sec.size <= seg.vaddr + seg.memory /\ sec.address < seg.vaddr + seg.memory

\* Which addresses are known: those of an object of one's own are given by its layout,
\* those of a file that was loaded stay, and its segments only grow, as its sections with
\* bytes do when something is appended.
AddressInv ==
  /\ phase = "edit" => /\ Fresh
                       /\ \A k \in DOMAIN sections : ~ sections[k].fixed
                       /\ \A s \in DOMAIN segments : ~ segments[s].fixed /\ 0 \notin Members(s)
  /\ phase \in LayoutPhases /\ Fresh =>
       /\ \A i \in Numbers : Sec(i).fixed => i \in generated
       /\ \A s \in DOMAIN segments : segments[s].fixed => s \notin Into(todo) \cup Into(order)
       /\ \A s \in DOMAIN segments : \A i \in Members(s) : Sec(i).type # "NULL"
  /\ phase = "amended" => ~ Fresh
  /\ phase \in Loading \cup {"amended"} \cup LayoutPhases /\ ~ Fresh =>
       /\ \A k \in DOMAIN sections : sections[k].fixed
       /\ \A s \in DOMAIN segments : \A i \in Members(s) : Known(Sec(i), segments[s])

\* The address of a section is given by its place, or gives it.
Tied(i) == Fresh \/ Filled(Sec(i))

\* Sections follow one another in the order of their numbers, and their addresses as
\* their places do.
InOrder(S) ==
  \A i, j \in S :
    /\ i < j /\ Sec(i).type # "NULL" /\ Sec(j).type # "NULL" =>
         /\ Sec(i).offset <= Sec(j).offset
         /\ HasBytes(Sec(i)) => Sec(i).offset + Sec(i).size <= Sec(j).offset
    /\ Tied(i) /\ Tied(j) => Sec(i).address - Sec(i).offset = Sec(j).address - Sec(j).offset

AllAlloc(S) == \A i \in S : Sec(i).alloc
InMemory(sec) == sec.type # "NULL" /\ (sec.type # "NOBITS" \/ ~ sec.tls)

\* Sections S are inside the size and the memory of a segment with sections T.
Inside(S, T, start, size, memory) ==
  /\ \A i \in S : HasBytes(Sec(i)) => start <= Sec(i).offset /\ Sec(i).offset + Sec(i).size <= start + size
  /\ AllAlloc(T) => \A i \in S : InMemory(Sec(i)) =>
       start <= Sec(i).offset /\ Sec(i).offset + Sec(i).size <= start + memory

NestedNow ==
  \A s, t \in DOMAIN segments :
    Members(s) \cap Members(t) = {} \/ Members(s) \subseteq Members(t) \/ Members(t) \subseteq Members(s)

Done == DOMAIN segments \ Into(order)
\* The sections of the segment that are placed or counted
Handled == {Current.secs[j] : j \in {k \in DOMAIN Current.secs : k < at.next}}

\* A segment with a place
Whole(s) ==
  LET seg == segments[s]
  IN  /\ InOrder(Members(s))
      /\ BssLast(seg) => \E memory \in Int :
           UpTo(memory, seg.memory) /\ Inside(Members(s), Members(s), seg.offset, seg.size, memory)

\* All of the sections have a place, in an earlier segment.
Covered == \E t \in Done : Members(Head(order)) \subseteq Members(t)
\* None of them had one.
New ==
  /\ \A j \in DOMAIN Current.secs : at.next <= j => Current.secs[j] \notin generated
  /\ at.start <= pos /\ InOrder(Handled)
  /\ \A i \in Handled : Tied(i) => Sec(i).address - Sec(i).offset = Current.vaddr - at.start
  /\ BssLast(Current) /\ at.next <= Len(Current.secs) => at.size = pos - at.start

Underway ==
  /\ New \/ Covered
  /\ BssLast(Current) =>
       /\ Inside(Handled, Members(Head(order)), at.start, at.size, at.memory)
       /\ Covered => \A i \in Members(Head(order)) : Sec(i).type # "NULL" => at.start <= Sec(i).offset
       /\ AllAlloc(Members(Head(order))) /\ at.next <= Len(Current.secs) => at.memory = at.size

\* Sections with a place lie before the position, and belong to segments.
BeforePos ==
  \A i \in generated : Sec(i).type # "NULL" =>
    0 <= Sec(i).offset /\ Sec(i).offset <= pos /\ (HasBytes(Sec(i)) => Sec(i).offset + Sec(i).size <= pos)
Owned == \A i \in generated : (\E t \in Done : i \in Members(t)) \/ (phase = "section" /\ i \in Handled)

PlacesInv ==
  phase \in Laid =>
    /\ generated \subseteq Numbers /\ BeforePos /\ Owned
    /\ NestedNow => /\ \A s \in Done : Whole(s)
                    /\ phase = "section" /\ Current.secs # <<>> => Underway

\* In the file, as loading reads it
SecOf(f, i) == f.sections[i + 1]
BssLastOf(f, seg) == \A j, k \in DOMAIN seg.secs : j < k => HasBytes(SecOf(f, seg.secs[j]))
NestedOf(f) ==
  \A s, t \in DOMAIN f.segments :
    LET S == Into(f.segments[s].secs)
        T == Into(f.segments[t].secs)
    IN  S \cap T = {} \/ S \subseteq T \/ T \subseteq S
MapsFirstOf(f, seg) ==
  /\ BssLastOf(f, seg) /\ seg.secs # <<>>
  /\ SecOf(f, seg.secs[1]).address - seg.vaddr = SecOf(f, seg.secs[1]).offset - seg.offset
UniformOf(f, seg) == \A i, j \in Into(seg.secs) : SecOf(f, i).alloc = SecOf(f, j).alloc
Findable(f) ==
  NestedOf(f) => \A s \in DOMAIN f.segments : \A i \in Into(f.segments[s].secs) :
    LET seg == f.segments[s]
        sec == SecOf(f, i)
    IN  /\ i < Len(f.sections)
        /\ seg.memory >= 0 /\ MapsFirstOf(f, seg) /\ SecOf(f, seg.secs[1]).size > 0 /\ UniformOf(f, seg) /\ sec.size > 0
           /\ (HasBytes(sec) \/ (sec.alloc /\ ~ sec.tls)) => InSegment(sec, seg)

FoundInv ==
  /\ phase \in Loading \cup {"saved"} /\ saves > 0 => Findable(file)
  /\ phase \in Loading =>
       /\ \A s \in DOMAIN segments :
            s \in DOMAIN file.segments /\ segments[s].secs = SectionsOf(file.segments[s])
       /\ \A s \in DOMAIN file.segments : file.segments[s].memory >= 0

MapInv == SerialInv /\ AddressInv /\ PlacesInv /\ FoundInv
-----------------------------------------------------------------------------
\* Of two sequences of rising numbers, one that is not shorter than another that has
\* all of its numbers has the same numbers.
LEMMA RisingSame ==
  ASSUME NEW q \in Seq(Nat), NEW r \in Seq(Nat), Rising(q), Rising(r),
         Into(q) \subseteq Into(r), ~ (Len(q) < Len(r))
  PROVE  Into(r) \subseteq Into(q)
<1>1. PICK n \in Nat : n = Len(r)
  OBVIOUS
<1>2. /\ DOMAIN r = 1 .. n /\ 1 .. n \subseteq DOMAIN q
      /\ \A k \in DOMAIN q : q[k] \in Nat
  BY <1>1
<1>3. \A k \in 1 .. n : \E l \in 1 .. n : r[l] = q[k]
  BY <1>2 DEF Into
<1> DEFINE p == [k \in 1 .. n |-> CHOOSE l \in 1 .. n : r[l] = q[k]]
<1>4. \A k \in 1 .. n : p[k] \in 1 .. n /\ r[p[k]] = q[k]
  BY <1>3
<1>5. p \in [1 .. n -> 1 .. n]
  BY <1>4
<1> HIDE DEF p
<1>6. ASSUME NEW k \in 1 .. n, NEW l \in 1 .. n, p[k] = p[l] PROVE k = l
  <2>1. q[k] = q[l] /\ q[k] \in Nat /\ k \in DOMAIN q /\ l \in DOMAIN q
    BY <1>2, <1>4, <1>6
  <2>2. \A i, j \in DOMAIN q : i < j => q[i] < q[j]
    BY DEF Rising
  <2>3. (k < l => q[k] < q[l]) /\ (l < k => q[l] < q[k])
    BY <2>1, <2>2
  <2>4. ~ (k < l) /\ ~ (l < k)
    BY <2>1, <2>3
  <2> QED
    BY <2>4
<1>7. \A l \in 1 .. n : \E k \in 1 .. n : p[k] = l
  <2>1. \A k, l \in 1 .. n : p[k] = p[l] => k = l
    BY <1>6
  <2> QED
    BY <1>5, <2>1, Onto
<1>8. ASSUME NEW l \in 1 .. n PROVE r[l] \in Into(q)
  <2>1. PICK k \in 1 .. n : p[k] = l
    BY <1>7
  <2>2. r[l] = q[k] /\ k \in DOMAIN q
    BY <1>2, <1>4, <2>1
  <2> QED
    BY <2>2 DEF Into
<1> QED
  BY <1>2, <1>8 DEF Into

LEMMA RisingDistinct ==
  ASSUME NEW q \in Seq(Nat), Rising(q)
  PROVE  \A j, k \in DOMAIN q : q[j] = q[k] => j = k
<1>1. SUFFICES ASSUME NEW j \in DOMAIN q, NEW k \in DOMAIN q, q[j] = q[k] PROVE j = k
  OBVIOUS
<1>2. q[j] \in Nat /\ ~ (j < k) /\ ~ (k < j)
  BY <1>1 DEF Rising
<1> QED
  BY <1>2

\* Worklists without repetition
LEMMA NoRepeatIs ==
  ASSUME NEW q \in Seq(Nat), NoRepeat(q)
  PROVE  /\ \A x \in Nat \ Into(q) : NoRepeat(Append(q, x))
         /\ q # <<>> => NoRepeat(Tail(q)) /\ Head(q) \notin Into(Tail(q))
<1>1. Len(q) \in Nat /\ DOMAIN q = 1 .. Len(q)
  OBVIOUS
<1>2. ASSUME NEW x \in Nat \ Into(q) PROVE NoRepeat(Append(q, x))
  <2>1. /\ DOMAIN Append(q, x) = 1 .. Len(q) + 1 /\ Append(q, x)[Len(q) + 1] = x
        /\ \A k \in 1 .. Len(q) : Append(q, x)[k] = q[k] /\ q[k] # x
    BY <1>1, <1>2 DEF Into
  <2>2. \A k \in 1 .. Len(q) + 1 : k \in 1 .. Len(q) \/ k = Len(q) + 1
    BY <1>1
  <2> QED
    BY <1>1, <2>1, <2>2 DEF NoRepeat
<1>3. ASSUME q # <<>> PROVE NoRepeat(Tail(q)) /\ Head(q) \notin Into(Tail(q))
  <2>1. /\ DOMAIN Tail(q) = 1 .. Len(q) - 1 /\ Len(q) > 0 /\ Head(q) = q[1]
        /\ \A k \in 1 .. Len(q) - 1 : Tail(q)[k] = q[k + 1] /\ k + 1 \in DOMAIN q /\ k + 1 # 1
    BY <1>1, <1>3
  <2>2. \A k, l \in 1 .. Len(q) - 1 : k + 1 = l + 1 => k = l
    OBVIOUS
  <2>3. NoRepeat(Tail(q))
    BY <2>1, <2>2 DEF NoRepeat
  <2>4. \A k \in 1 .. Len(q) - 1 : Tail(q)[k] # Head(q)
    BY <1>1, <2>1 DEF NoRepeat
  <2> QED
    BY <2>1, <2>3, <2>4 DEF Into
<1> QED
  BY <1>2, <1>3

\* A position that no save moved back is not below zero.
LEMMA PosIs ==
  ASSUME FileInv, ~ back, phase \in {"segment", "section", "loose"}
  PROVE  pos \in Nat
<1>1. pos \in Int /\ First \in Nat /\ First <= pos
  BY Types DEF FileInv, PlacedInv
<1> QED
  BY <1>1

LEMMA PartIs == \A s, t : PartOf(s, t) <=> Smaller(segments[s].secs, segments[t].secs)
BY DEF PartOf, Smaller, Into

\* What depends on the sections of the segments only
LEMMA SameMembers ==
  ASSUME FileInv, segments' \in Seq(SegmentHeader), Len(segments') = Len(segments),
         \A s \in 1 .. Len(segments) : segments'[s].secs = segments[s].secs
  PROVE  /\ DOMAIN segments' = DOMAIN segments
         /\ \A s \in DOMAIN segments : Members(s)' = Members(s) /\ segments'[s].secs = segments[s].secs
         /\ NestedNow' <=> NestedNow
<1>1. DOMAIN segments' = 1 .. Len(segments) /\ DOMAIN segments = 1 .. Len(segments)
  BY SegmentsInside
<1>2. \A s \in DOMAIN segments : Members(s)' = Members(s)
  BY <1>1 DEF Members
<1>4. NestedNow' <=> NestedNow
  BY <1>1, <1>2 DEF NestedNow
<1> QED
  BY <1>1, <1>2, <1>4

LEMMA MembersIs ==
  ASSUME FileInv, NEW s \in DOMAIN segments
  PROVE  /\ segments[s] \in SegmentHeader /\ segments[s].secs \in Seq(Nat)
         /\ Len(segments[s].secs) \in Nat /\ DOMAIN segments[s].secs = 1 .. Len(segments[s].secs)
         /\ Members(s) \subseteq Numbers
<1>1. s \in 1 .. Len(segments) /\ segments[s] \in SegmentHeader
  BY SegmentsInside
<1>2. \A j \in 1 .. Len(segments[s].secs) : segments[s].secs[j] \in Numbers
  BY <1>1, SegmentTypes DEF FileInv
<1> QED
  BY <1>1, <1>2, SegmentFields DEF Members, Into

\* Steps that leave the worklists alone
LEMMA SerialKeeps ==
  ASSUME FileInv, SerialInv, segments' \in Seq(SegmentHeader), Len(segments') = Len(segments),
         \A s \in 1 .. Len(segments) : segments'[s].secs = segments[s].secs,
         UNCHANGED <<todo, order>>, phase' \in LayoutPhases => phase \in LayoutPhases,
         phase' = "order" => phase = "order", phase' \in Laid => phase \in Laid
  PROVE  SerialInv'
<1>1. /\ DOMAIN segments' = DOMAIN segments
      /\ \A s \in DOMAIN segments : segments'[s].secs = segments[s].secs
  BY SameMembers
<1>2. order' = order /\ todo' = todo
  OBVIOUS
<1>3. \A s \in DOMAIN segments' : Rising(segments'[s].secs)
  BY <1>1 DEF SerialInv
<1>4. ASSUME phase' \in LayoutPhases
      PROVE  /\ NoRepeat(todo) /\ NoRepeat(order) /\ Into(todo) \cap Into(order) = {}
             /\ \A k, l \in DOMAIN order : k < l => ~ Smaller(segments'[order[k]].secs, segments'[order[l]].secs)
  <2>1. /\ NoRepeat(todo) /\ NoRepeat(order) /\ Into(todo) \cap Into(order) = {}
        /\ \A k, l \in DOMAIN order : k < l => ~ Smaller(segments[order[k]].secs, segments[order[l]].secs)
    BY <1>4 DEF SerialInv
  <2>2. Into(order) \subseteq DOMAIN segments
    BY <1>4 DEF FileInv, OrderInv, LayoutPhases, Into
  <2>3. \A k \in DOMAIN order : order[k] \in DOMAIN segments
    BY <2>2 DEF Into
  <2> QED
    BY <1>1, <2>1, <2>3
<1>5. ASSUME phase' = "order", NEW s \in Into(order), NEW t \in Into(todo)
      PROVE  ~ Smaller(segments'[s].secs, segments'[t].secs)
  <2>1. ~ Smaller(segments[s].secs, segments[t].secs)
    BY <1>5 DEF SerialInv
  <2>2. s \in DOMAIN segments /\ t \in DOMAIN segments
    BY <1>5 DEF FileInv, OrderInv
  <2> QED
    BY <1>1, <2>1, <2>2
<1>6. ASSUME phase' \in Laid, NEW t \in DOMAIN segments \ Into(order), NEW s \in Into(order)
      PROVE  ~ Smaller(segments'[t].secs, segments'[s].secs)
  <2>1. ~ Smaller(segments[t].secs, segments[s].secs)
    BY <1>6 DEF SerialInv
  <2>2. s \in DOMAIN segments /\ t \in DOMAIN segments
    BY <1>6 DEF FileInv, OrderInv, Laid
  <2> QED
    BY <1>1, <2>1, <2>2
<1> QED
  BY <1>1, <1>2, <1>3, <1>4, <1>5, <1>6 DEF SerialInv

LEMMA SaveSerial ==
  ASSUME FileInv, SerialInv, Save
  PROVE  SerialInv'
<1>1. /\ segments' = AlignedSegments /\ todo' = ZeroFirst /\ order' = <<>> /\ phase' = "order"
  BY DEF Save
<1>2. /\ segments' \in Seq(SegmentHeader) /\ Len(segments') = Len(segments)
      /\ \A s \in 1 .. Len(segments) : segments'[s].secs = segments[s].secs
  BY <1>1, AlignedIs
<1>3. PICK n \in Nat : n = Len(segments)
  BY SegmentsInside
<1>4. PICK p \in Arrangements(n) : p = ZeroFirst
  BY <1>3, ZeroFirstIs
<1>5. NoRepeat(todo')
  BY <1>1, <1>4 DEF Arrangements, NoRepeat
<1>6. NoRepeat(order') /\ Into(order') = {} /\ DOMAIN order' = {}
  BY <1>1 DEF NoRepeat, Into
<1>7. \A s \in DOMAIN segments' : Rising(segments'[s].secs)
  BY <1>2, SameMembers DEF SerialInv
<1> QED
  BY <1>1, <1>5, <1>6, <1>7 DEF SerialInv, Laid

LEMMA OrderSerial ==
  ASSUME FileInv, SerialInv, OrderSegment
  PROVE  SerialInv'
<1>1. /\ phase = "order" /\ todo # <<>> /\ phase' = "order" /\ segments' = segments
      /\ IF \E k \in DOMAIN Tail(todo) : PartOf(Head(todo), Tail(todo)[k])
         THEN todo' = Append(Tail(todo), Head(todo)) /\ order' = order
         ELSE todo' = Tail(todo) /\ order' = Append(order, Head(todo))
  BY DEF OrderSegment
<1>2. /\ NoRepeat(todo) /\ NoRepeat(order) /\ Into(todo) \cap Into(order) = {}
      /\ \A k, l \in DOMAIN order : k < l => ~ Smaller(segments[order[k]].secs, segments[order[l]].secs)
      /\ \A s \in Into(order) : \A t \in Into(todo) : ~ Smaller(segments[s].secs, segments[t].secs)
      /\ \A s \in DOMAIN segments : Rising(segments[s].secs)
  BY <1>1 DEF SerialInv, LayoutPhases
<1>3. todo \in Seq(Nat) /\ order \in Seq(Nat)
  BY Types
<1>4. PICK s \in Nat : s = Head(todo)
  BY <1>1, <1>3, IntoIs
<1>5. PICK rest \in Seq(Nat) : rest = Tail(todo)
  BY <1>1, <1>3, IntoIs
<1>6. Into(todo) = {s} \cup Into(rest) /\ NoRepeat(rest) /\ s \notin Into(rest) /\ s \notin Into(order)
  BY <1>1, <1>2, <1>3, <1>4, <1>5, IntoIs, NoRepeatIs
<1>9. CASE todo' = Append(rest, s) /\ order' = order
  <2>3. s \in Nat \ Into(rest) /\ rest \in Seq(Nat)
    BY <1>4, <1>5, <1>6
  <2>4. Into(Append(rest, s)) = Into(rest) \cup {s}
    BY <2>3, IntoIs
  <2>1. NoRepeat(Append(rest, s)) /\ Into(Append(rest, s)) = Into(todo)
    BY <1>6, <2>3, <2>4, NoRepeatIs
  <2>2. NoRepeat(todo') /\ Into(todo') = Into(todo)
    BY <1>9, <2>1
  <2> QED
    BY <1>1, <1>2, <1>9, <2>2 DEF SerialInv, Laid
<1>10. CASE todo' = rest /\ order' = Append(order, s) /\ ~ \E k \in DOMAIN rest : PartOf(s, rest[k])
  <2>1. PICK new \in Seq(Nat) : new = Append(order, s)
    BY <1>3, <1>4, IntoIs
  <2>2. \A t \in Into(rest) : ~ Smaller(segments[s].secs, segments[t].secs)
    BY <1>10, PartIs DEF Into
  <2>3. /\ Len(order) \in Nat /\ DOMAIN order = 1 .. Len(order)
        /\ DOMAIN new = 1 .. Len(order) + 1 /\ new[Len(order) + 1] = s
        /\ \A k \in 1 .. Len(order) : new[k] = order[k]
    BY <1>3, <2>1
  <2>4. \A k \in DOMAIN new : k \in DOMAIN order \/ k = Len(order) + 1
    BY <2>3
  <2>10. s \in Nat \ Into(order)
    BY <1>4, <1>6
  <2>11. Into(new) = Into(order) \cup {s}
    BY <1>3, <2>1, <2>10, IntoIs
  <2>7. NoRepeat(new) /\ Into(new) = Into(order) \cup {s}
    BY <1>2, <1>3, <2>1, <2>10, <2>11, NoRepeatIs
  <2>5. ASSUME NEW x \in Into(new), NEW t \in Into(rest)
        PROVE  ~ Smaller(segments[x].secs, segments[t].secs)
    BY <1>2, <1>6, <2>2, <2>5, <2>7
  <2>6. ASSUME NEW k \in DOMAIN new, NEW l \in DOMAIN new, k < l
        PROVE  ~ Smaller(segments[new[k]].secs, segments[new[l]].secs)
    <3>1. k \in DOMAIN order
      BY <2>3, <2>4, <2>6
    <3>2. CASE l \in DOMAIN order
      BY <1>2, <2>3, <2>6, <3>1, <3>2
    <3>3. CASE l = Len(order) + 1
      <4>1. order[k] \in Into(order)
        BY <3>1 DEF Into
      <4>2. ~ Smaller(segments[order[k]].secs, segments[s].secs)
        BY <1>2, <1>6, <4>1
      <4> QED
        BY <2>3, <3>1, <3>3, <4>2
    <3> QED
      BY <2>4, <3>2, <3>3
  <2>8. Into(rest) \cap Into(new) = {}
    BY <1>2, <1>6, <2>7
  <2>9. todo' = rest /\ order' = new
    BY <1>10, <2>1
  <2> QED
    BY <1>1, <1>2, <1>6, <2>5, <2>6, <2>7, <2>8, <2>9 DEF SerialInv, Laid
<1> QED
  BY <1>1, <1>4, <1>5, <1>9, <1>10

LEMMA StartLayoutSerial ==
  ASSUME FileInv, SerialInv, StartLayout
  PROVE  SerialInv'
<1>1. /\ phase = "order" /\ todo = <<>> /\ phase' = "segment"
      /\ UNCHANGED <<segments, todo, order>>
  BY DEF StartLayout, layout
<1>2. DOMAIN segments = Into(order)
  BY <1>1, IntoIs, Types DEF FileInv, OrderInv
<1> QED
  BY <1>1, <1>2 DEF SerialInv, LayoutPhases, Laid

\* The segment that is laid out is in front of those to come.
LEMMA HeadIs ==
  ASSUME FileInv, SerialInv, phase \in {"segment", "section"}, order # <<>>
  PROVE  /\ Head(order) \notin Into(Tail(order)) /\ Into(order) = {Head(order)} \cup Into(Tail(order))
         /\ Head(order) \in DOMAIN segments /\ Into(order) \subseteq DOMAIN segments
         /\ \A s \in Into(Tail(order)) : ~ Smaller(segments[Head(order)].secs, segments[s].secs)
<1>1. /\ NoRepeat(order)
      /\ \A k, l \in DOMAIN order : k < l => ~ Smaller(segments[order[k]].secs, segments[order[l]].secs)
  BY DEF SerialInv, LayoutPhases
<1>2. order \in Seq(Nat) /\ Into(order) \subseteq DOMAIN segments
  BY Types DEF FileInv, OrderInv
<1>3. Into(order) = {Head(order)} \cup Into(Tail(order)) /\ Head(order) \notin Into(Tail(order))
  BY <1>1, <1>2, IntoIs, NoRepeatIs
<1>4. /\ DOMAIN order = 1 .. Len(order) /\ DOMAIN Tail(order) = 1 .. Len(order) - 1
      /\ Head(order) = order[1] /\ 1 \in DOMAIN order
      /\ \A k \in 1 .. Len(order) - 1 : Tail(order)[k] = order[k + 1] /\ k + 1 \in DOMAIN order /\ 1 < k + 1
  BY <1>2
<1>5. ASSUME NEW s \in Into(Tail(order)) PROVE ~ Smaller(segments[Head(order)].secs, segments[s].secs)
  <2>1. PICK k \in 1 .. Len(order) - 1 : s = order[k + 1] /\ k + 1 \in DOMAIN order /\ 1 < k + 1
    BY <1>4 DEF Into
  <2> QED
    BY <1>1, <1>4, <2>1
<1> QED
  BY <1>2, <1>3, <1>5

LEMMA FinishSerial ==
  ASSUME FileInv, SerialInv, FinishSegment, segments' \in Seq(SegmentHeader), Len(segments') = Len(segments),
         \A s \in 1 .. Len(segments) : segments'[s].secs = segments[s].secs
  PROVE  SerialInv'
<1>1. phase = "section" /\ phase' = "segment" /\ order' = Tail(order) /\ todo' = todo
  BY DEF FinishSegment
<1>2. /\ NoRepeat(todo) /\ NoRepeat(order) /\ Into(todo) \cap Into(order) = {}
      /\ \A k, l \in DOMAIN order : k < l => ~ Smaller(segments[order[k]].secs, segments[order[l]].secs)
      /\ \A t \in DOMAIN segments \ Into(order) : \A s \in Into(order) :
           ~ Smaller(segments[t].secs, segments[s].secs)
      /\ \A s \in DOMAIN segments : Rising(segments[s].secs)
  BY <1>1 DEF SerialInv, LayoutPhases, Laid
<1>3. order \in Seq(Nat) /\ order # <<>> /\ Into(order) \subseteq DOMAIN segments
  BY <1>1, Types DEF FileInv, OrderInv
<1>4. PICK rest \in Seq(Nat) : rest = Tail(order)
  BY <1>3, IntoIs
<1>5. /\ Into(order) = {Head(order)} \cup Into(rest) /\ NoRepeat(rest)
      /\ \A s \in Into(rest) : ~ Smaller(segments[Head(order)].secs, segments[s].secs)
  BY <1>1, <1>2, <1>3, <1>4, NoRepeatIs, HeadIs
<1>6. /\ DOMAIN segments' = DOMAIN segments
      /\ \A s \in DOMAIN segments : segments'[s].secs = segments[s].secs
  BY SameMembers
<1>7. /\ DOMAIN order = 1 .. Len(order) /\ DOMAIN rest = 1 .. Len(order) - 1
      /\ \A k \in 1 .. Len(order) - 1 : rest[k] = order[k + 1] /\ k + 1 \in DOMAIN order
  BY <1>3, <1>4
<1>8. ASSUME NEW k \in DOMAIN rest, NEW l \in DOMAIN rest, k < l
      PROVE  ~ Smaller(segments'[rest[k]].secs, segments'[rest[l]].secs)
  <2>1. k + 1 < l + 1 /\ k + 1 \in DOMAIN order /\ l + 1 \in DOMAIN order
    BY <1>7, <1>8
  <2>2. ~ Smaller(segments[order[k + 1]].secs, segments[order[l + 1]].secs)
    BY <1>2, <2>1
  <2>3. order[k + 1] \in DOMAIN segments /\ order[l + 1] \in DOMAIN segments
    BY <1>3, <2>1 DEF Into
  <2>4. rest[k] = order[k + 1] /\ rest[l] = order[l + 1]
    BY <1>7
  <2> QED
    BY <1>6, <2>2, <2>3, <2>4
<1>9. ASSUME NEW t \in DOMAIN segments \ Into(rest), NEW s \in Into(rest)
      PROVE  ~ Smaller(segments'[t].secs, segments'[s].secs)
  <2>1. ~ Smaller(segments[t].secs, segments[s].secs) /\ s \in DOMAIN segments
    BY <1>2, <1>3, <1>5, <1>9
  <2> QED
    BY <1>6, <2>1
<1>10. Into(todo) \cap Into(rest) = {}
  BY <1>2, <1>5
<1>11. \A s \in DOMAIN segments' : Rising(segments'[s].secs)
  BY <1>2, <1>6
<1>12. todo' = todo /\ order' = rest
  BY <1>1, <1>4
<1> QED
  BY <1>1, <1>2, <1>5, <1>6, <1>8, <1>9, <1>10, <1>11, <1>12 DEF SerialInv

-----------------------------------------------------------------------------
(* What the steps of the layout do with sections and segments. *)

\* What laying out leaves alone of a section, and of a segment
SectionKept(a, b) ==
  /\ b.type = a.type /\ b.size = a.size /\ b.alloc = a.alloc /\ b.tls = a.tls /\ b.align = a.align
  /\ a.fixed => b.fixed /\ b.address = a.address
SegmentKept(a, b) ==
  b.type = a.type /\ b.secs = a.secs /\ b.vaddr = a.vaddr /\ UpTo(a.memory, b.memory)
Kept ==
  /\ sections' \in Seq(Header) /\ Len(sections') = Len(sections) /\ Numbers' = Numbers
  /\ \A i \in Numbers : SectionKept(Sec(i), Sec(i)')
  /\ segments' \in Seq(SegmentHeader) /\ Len(segments') = Len(segments)
  /\ \A s \in 1 .. Len(segments) : SegmentKept(segments[s], segments'[s])

\* A section is replaced.
LEMMA ReplacedIs ==
  ASSUME FileInv, NEW n \in Numbers, NEW v \in Header, sections' = [sections EXCEPT ![n + 1] = v]
  PROVE  /\ sections' \in Seq(Header) /\ Len(sections') = Len(sections) /\ Numbers' = Numbers
         /\ \A i \in Numbers : Sec(i)' = IF i = n THEN v ELSE Sec(i)
<1>1. sections \in Seq(Header) /\ n + 1 \in 1 .. Len(sections) /\ \A i \in Numbers : i \in Nat /\ i + 1 \in 1 .. Len(sections)
  BY SectionTypes DEF FileInv, FileTypeInv
<1>2. PICK m \in 1 .. Len(sections) : m = n + 1
  BY <1>1
<1>3. sections' = [sections EXCEPT ![m] = v]
  BY <1>2
<1>4. /\ sections' \in Seq(Header) /\ Len(sections') = Len(sections)
      /\ \A k \in 1 .. Len(sections) : sections'[k] = IF k = m THEN v ELSE sections[k]
  BY <1>1, <1>3
<1>5. Numbers' = Numbers
  BY <1>4 DEF Numbers
<1>6. ASSUME NEW i \in Numbers PROVE Sec(i)' = IF i = n THEN v ELSE Sec(i)
  <2>1. i + 1 \in 1 .. Len(sections) /\ (i + 1 = m <=> i = n) /\ i \in Nat /\ n \in Nat
    BY <1>1, <1>2
  <2> QED
    BY <1>4, <2>1 DEF Sec
<1> QED
  BY <1>4, <1>5, <1>6

\* A section goes a gap behind the position.
LEMMA GeneratedIs ==
  ASSUME FileInv, HasNext, NEW gap \in Int, Generate(gap)
  PROVE  /\ Kept
         /\ \A i \in Numbers : i # Index => Sec(i)' = Sec(i)
         /\ \A i : i = Index =>
              /\ Sec(i)'.offset = pos + gap /\ Sec(i)'.fixed
              /\ ~ Place.fixed => Sec(i)'.address = Current.vaddr + (pos + gap) - at.start
<1>1. pos \in Int /\ at.start \in Int
  BY Types
<1>2. /\ Index \in Numbers /\ Place = Sec(Index) /\ Place = sections[Index + 1] /\ Place \in Header
      /\ phase = "section" /\ order # <<>>
  BY NextIs
<1>3. Current.vaddr \in Nat /\ Place.address \in Int
  BY <1>2, CurrentIs, HeaderFields
<1>4. PICK o \in Int : o = pos + gap
  BY <1>1
<1>5. PICK a \in Int : a = IF Place.fixed THEN Place.address ELSE Current.vaddr + (pos + gap) - at.start
  BY <1>1, <1>3
<1>6. PICK v : v = [Place EXCEPT !.fixed = TRUE, !.address = a, !.offset = o]
  OBVIOUS
<1>7. /\ v \in Header /\ v.offset = o /\ v.fixed = TRUE /\ v.address = a
      /\ v.type = Place.type /\ v.size = Place.size /\ v.alloc = Place.alloc /\ v.tls = Place.tls
      /\ v.align = Place.align
  <2>1. PICK sec \in Header : sec = Place
    BY <1>2
  <2>2. v = [sec EXCEPT !.fixed = TRUE, !.address = a, !.offset = o]
    BY <1>6, <2>1
  <2>3. /\ v \in Header /\ v.offset = o /\ v.fixed = TRUE /\ v.address = a
        /\ v.type = sec.type /\ v.size = sec.size /\ v.alloc = sec.alloc /\ v.tls = sec.tls
        /\ v.align = sec.align
    BY <2>2 DEF Header
  <2> QED
    BY <2>1, <2>3
<1>8. sections' = [sections EXCEPT ![Index + 1] = v]
  <2>1. sections' = [sections EXCEPT ![Index + 1] = [sections[Index + 1] EXCEPT !.fixed = TRUE,
             !.address = IF Place.fixed THEN Place.address ELSE Current.vaddr + (pos + gap) - at.start,
             !.offset = pos + gap]]
    BY DEF Generate
  <2> QED
    BY <1>2, <1>4, <1>5, <1>6, <2>1, Zenon
<1>9. /\ sections' \in Seq(Header) /\ Len(sections') = Len(sections) /\ Numbers' = Numbers
      /\ \A i \in Numbers : Sec(i)' = IF i = Index THEN v ELSE Sec(i)
  <2>1. PICK n \in Numbers : n = Index
    BY <1>2
  <2>2. v \in Header /\ sections' = [sections EXCEPT ![n + 1] = v]
    BY <1>7, <1>8, <2>1
  <2> QED
    BY <2>1, <2>2, ReplacedIs
<1>10. \A i : i = Index => Sec(i)' = v
  BY <1>2, <1>9
<1>11. ASSUME NEW i \in Numbers PROVE SectionKept(Sec(i), Sec(i)')
  <2>1. CASE i = Index
    <3>1. SectionKept(Place, v)
      BY <1>5, <1>7 DEF SectionKept
    <3>2. Sec(i)' = v /\ Sec(i) = Place
      BY <1>2, <1>10, <2>1
    <3> QED
      BY <3>1, <3>2
  <2>2. CASE i # Index
    BY <1>9, <2>2 DEF SectionKept
  <2> QED
    BY <2>1, <2>2
<1>12. segments' = segments
  BY DEF Generate
<1>13. /\ segments' \in Seq(SegmentHeader) /\ Len(segments') = Len(segments)
       /\ \A s \in 1 .. Len(segments) : SegmentKept(segments[s], segments'[s])
  BY <1>12, SegmentsInside, SegmentFields DEF SegmentKept, UpTo
<1>14. Kept
  BY <1>9, <1>11, <1>13 DEF Kept
<1> QED
  BY <1>4, <1>5, <1>7, <1>9, <1>10, <1>14

\* A section without a segment gets an offset.
LEMMA LooseIs ==
  ASSUME FileInv, PlaceLoose
  PROVE  /\ Kept
         /\ \A i \in Numbers : ~ Loose(i) => Sec(i)' = Sec(i)
         /\ \A i \in Numbers : Sec(i)'.fixed = Sec(i).fixed /\ Sec(i)'.address = Sec(i).address
<1>1. at.next \in Nat /\ pos \in Int /\ Len(sections) \in Nat /\ at.next < Len(sections) /\ segments' = segments
  BY Types DEF PlaceLoose
<1>2. PICK n \in Numbers : n = at.next
  BY <1>1, SectionTypes DEF FileInv
<1>3. PICK sec \in Header : sec = Sec(n) /\ sec = sections[n + 1]
  BY SectionTypes DEF FileInv
<1>4. sections \in Seq(Header) /\ n + 1 \in 1 .. Len(sections)
  BY SectionTypes DEF FileInv, FileTypeInv
<1>5. PICK o : o = IF n = 0 THEN sec.offset ELSE RoundedUp(pos, sec.align)
  OBVIOUS
<1>6. o \in Int
  <2>1. sec.align \in Nat /\ sec.offset \in Int
    BY HeaderFields
  <2>2. PICK here \in Int : here = RoundedUp(pos, sec.align)
    BY <1>1, <2>1, RoundedUpIs
  <2> QED
    BY <1>5, <2>1, <2>2
<1>7. PICK v : v = [sec EXCEPT !.offset = o]
  OBVIOUS
<1>8. /\ v \in Header /\ v.fixed = sec.fixed /\ v.address = sec.address
      /\ v.type = sec.type /\ v.size = sec.size /\ v.alloc = sec.alloc /\ v.tls = sec.tls
      /\ v.align = sec.align
  BY <1>6, <1>7 DEF Header
<1>9. ASSUME Loose(n) PROVE sections' = [sections EXCEPT ![n + 1] = v]
  <2>1. sections' = [sections EXCEPT ![n + 1].offset = IF n = 0 THEN @ ELSE RoundedUp(pos, Sec(n).align)]
    BY <1>2, <1>9 DEF PlaceLoose
  <2> QED
    BY <1>3, <1>5, <1>7, <2>1
<1>10. ~ Loose(n) => sections' = sections
  BY <1>2 DEF PlaceLoose
<1>11. /\ sections' \in Seq(Header) /\ Len(sections') = Len(sections) /\ Numbers' = Numbers
       /\ \A i \in Numbers : \/ Sec(i)' = Sec(i)
                             \/ i = n /\ Loose(n) /\ Sec(i)' = v
  <2>1. CASE Loose(n)
    <3>1. sections' = [sections EXCEPT ![n + 1] = v]
      BY <1>9, <2>1
    <3> QED
      BY <1>8, <2>1, <3>1, ReplacedIs
  <2>2. CASE ~ Loose(n)
    BY <1>4, <1>10, <2>2 DEF Numbers, Sec
  <2> QED
    BY <2>1, <2>2
<1>12. ASSUME NEW i \in Numbers
       PROVE  /\ SectionKept(Sec(i), Sec(i)') /\ (~ Loose(i) => Sec(i)' = Sec(i))
              /\ Sec(i)'.fixed = Sec(i).fixed /\ Sec(i)'.address = Sec(i).address
  <2>1. CASE Sec(i)' = Sec(i)
    BY <2>1 DEF SectionKept
  <2>2. CASE i = n /\ Loose(n) /\ Sec(i)' = v
    <3>1. SectionKept(sec, v) /\ v.fixed = sec.fixed /\ v.address = sec.address
      BY <1>8 DEF SectionKept
    <3> QED
      BY <1>3, <2>2, <3>1
  <2> QED
    BY <1>11, <2>1, <2>2
<1>13. /\ segments' \in Seq(SegmentHeader) /\ Len(segments') = Len(segments)
       /\ \A s \in 1 .. Len(segments) : SegmentKept(segments[s], segments'[s])
  BY <1>1, SegmentsInside, SegmentFields DEF SegmentKept, UpTo
<1> QED
  BY <1>11, <1>12, <1>13 DEF Kept

\* A segment is done.
LEMMA FinishIs ==
  ASSUME FileInv, FinishSegment
  PROVE  /\ Kept /\ sections' = sections
         /\ \A s \in DOMAIN segments : s # Head(order) => segments'[s] = segments[s]
         /\ segments'[Head(order)].size = at.size /\ segments'[Head(order)].offset = at.start
         /\ segments'[Head(order)].align = Current.align
         /\ segments'[Head(order)].fixed /\ UpTo(at.memory, segments'[Head(order)].memory)
<1>1. /\ phase = "section" /\ sections' = sections
      /\ segments' = [segments EXCEPT ![Head(order)] =
           [@ EXCEPT !.size = at.size, !.offset = at.start, !.fixed = TRUE,
                     !.memory = IF Below(Current.memory, at.memory) THEN at.memory ELSE Current.memory]]
  BY DEF FinishSegment
<1>2. at.start \in Int /\ at.memory \in Int /\ at.size \in Int
  BY Types
<1>3. order # <<>>
  BY <1>1 DEF FileInv, OrderInv
<1>4. PICK s : s = Head(order)
  OBVIOUS
<1>5. s \in 1 .. Len(segments) /\ Current = segments[s] /\ Current \in SegmentHeader
  BY <1>1, <1>3, <1>4, CurrentIs
<1>6. Current.memory \in Int
  BY <1>5, SegmentFields
<1>7. PICK m \in Int : m = IF Below(Current.memory, at.memory) THEN at.memory ELSE Current.memory
  BY <1>2, <1>6
<1>8. PICK v : v = [Current EXCEPT !.size = at.size, !.offset = at.start, !.fixed = TRUE, !.memory = m]
  OBVIOUS
<1>9. /\ v \in SegmentHeader /\ v.secs = Current.secs /\ v.type = Current.type /\ v.vaddr = Current.vaddr
      /\ v.size = at.size /\ v.offset = at.start /\ v.fixed = TRUE /\ v.memory = m /\ v.align = Current.align
  <2>1. PICK seg \in SegmentHeader : seg = Current
    BY <1>5
  <2>2. PICK z \in Int : z = at.size
    BY <1>2
  <2>3. PICK b \in Int : b = at.start
    BY <1>2
  <2>4. v = [seg EXCEPT !.size = z, !.offset = b, !.fixed = TRUE, !.memory = m]
    BY <1>8, <2>1, <2>2, <2>3
  <2>5. /\ v \in SegmentHeader /\ v.secs = seg.secs /\ v.type = seg.type /\ v.vaddr = seg.vaddr
        /\ v.size = z /\ v.offset = b /\ v.fixed = TRUE /\ v.memory = m /\ v.align = seg.align
    BY <2>4 DEF SegmentHeader
  <2> QED
    BY <2>1, <2>2, <2>3, <2>5
<1>10. segments' = [segments EXCEPT ![s] = v]
  <2>1. segments' = [segments EXCEPT ![s] =
           [segments[s] EXCEPT !.size = at.size, !.offset = at.start, !.fixed = TRUE,
              !.memory = IF Below(Current.memory, at.memory) THEN at.memory ELSE Current.memory]]
    BY <1>1, <1>4
  <2> QED
    BY <1>5, <1>7, <1>8, <2>1, Zenon
<1>11. segments \in Seq(SegmentHeader) /\ DOMAIN segments = 1 .. Len(segments)
  BY SegmentTypes DEF FileInv, FileTypeInv
<1>12. /\ segments' \in Seq(SegmentHeader) /\ Len(segments') = Len(segments)
       /\ \A x \in 1 .. Len(segments) : segments'[x] = IF x = s THEN v ELSE segments[x]
  BY <1>5, <1>9, <1>10, <1>11
<1>13. UpTo(Current.memory, m) /\ UpTo(at.memory, m)
  BY <1>2, <1>6, <1>7 DEF Below, UpTo
<1>14. ASSUME NEW x \in 1 .. Len(segments) PROVE SegmentKept(segments[x], segments'[x])
  <2>1. CASE x = s
    BY <1>5, <1>9, <1>12, <1>13, <2>1 DEF SegmentKept
  <2>2. CASE x # s
    <3>1. segments'[x] = segments[x] /\ segments[x].memory \in Int
      BY <1>12, <2>2, SegmentsInside, SegmentFields
    <3> QED
      BY <3>1 DEF SegmentKept, UpTo
  <2> QED
    BY <2>1, <2>2
<1>15. Numbers' = Numbers /\ \A i \in Numbers : SectionKept(Sec(i), Sec(i)')
  BY <1>1 DEF Numbers, Sec, SectionKept
<1>16. sections' \in Seq(Header) /\ Len(sections') = Len(sections)
  BY <1>1 DEF FileInv, FileTypeInv
<1>17. Kept
  BY <1>12, <1>14, <1>15, <1>16 DEF Kept
<1>18. segments'[s] = v
  BY <1>5, <1>12
<1> QED
  BY <1>1, <1>4, <1>9, <1>11, <1>12, <1>13, <1>17, <1>18

LEMMA UnchangedKept ==
  ASSUME FileInv, sections' = sections, segments' = segments
  PROVE  Kept
<1>1. sections' \in Seq(Header) /\ Len(sections') = Len(sections) /\ Numbers' = Numbers
  BY DEF Numbers, FileInv, FileTypeInv
<1>2. \A i \in Numbers : SectionKept(Sec(i), Sec(i)')
  BY DEF Sec, SectionKept
<1>3. /\ segments' \in Seq(SegmentHeader) /\ Len(segments') = Len(segments)
      /\ \A s \in 1 .. Len(segments) : SegmentKept(segments[s], segments'[s])
  BY SegmentsInside, SegmentFields DEF SegmentKept, UpTo
<1> QED
  BY <1>1, <1>2, <1>3 DEF Kept

LEMMA SaveIs ==
  ASSUME FileInv, Save
  PROVE  /\ Kept /\ sections' = sections
         /\ \A s \in DOMAIN segments : SameSpan(segments'[s], segments[s])
<1>1. segments' = AlignedSegments /\ sections' = sections
  BY DEF Save
<1>2. /\ segments' \in Seq(SegmentHeader) /\ Len(segments') = Len(segments)
      /\ \A s \in 1 .. Len(segments) : segments'[s].secs = segments[s].secs /\ SameSpan(segments'[s], segments[s])
  BY <1>1, AlignedIs
<1>3. \A s \in 1 .. Len(segments) : SegmentKept(segments[s], segments'[s])
  BY <1>2, SegmentsInside, SegmentFields DEF SegmentKept, SameSpan, UpTo
<1>4. sections' \in Seq(Header) /\ Len(sections') = Len(sections) /\ Numbers' = Numbers
  BY <1>1 DEF Numbers, FileInv, FileTypeInv
<1>5. \A i \in Numbers : SectionKept(Sec(i), Sec(i)')
  BY <1>1 DEF Sec, SectionKept
<1>6. DOMAIN segments = 1 .. Len(segments)
  BY SegmentsInside
<1> QED
  BY <1>1, <1>2, <1>3, <1>4, <1>5, <1>6 DEF Kept

LEMMA KeptMembers ==
  ASSUME FileInv, Kept
  PROVE  /\ DOMAIN segments' = DOMAIN segments
         /\ \A s \in DOMAIN segments : Members(s)' = Members(s) /\ segments'[s].secs = segments[s].secs
         /\ NestedNow' <=> NestedNow
         /\ \A s \in DOMAIN segments : SegmentKept(segments[s], segments'[s])
         /\ \A s \in DOMAIN segments : BssLast(segments[s])' <=> BssLast(segments[s])
         /\ \A s \in DOMAIN segments : AllAlloc(Members(s))' <=> AllAlloc(Members(s))
<1>1. /\ segments' \in Seq(SegmentHeader) /\ Len(segments') = Len(segments)
      /\ \A s \in 1 .. Len(segments) : segments'[s].secs = segments[s].secs
  BY DEF Kept, SegmentKept
<1>2. /\ DOMAIN segments' = DOMAIN segments
      /\ \A s \in DOMAIN segments : Members(s)' = Members(s) /\ segments'[s].secs = segments[s].secs
      /\ NestedNow' <=> NestedNow
  BY <1>1, SameMembers
<1>3. DOMAIN segments = 1 .. Len(segments)
  BY SegmentsInside
<1>4. \A i \in Numbers : (HasBytes(Sec(i)) <=> HasBytes(Sec(i)')) /\ (Sec(i).alloc <=> Sec(i)'.alloc)
  BY DEF Kept, SectionKept, HasBytes
<1>5. ASSUME NEW s \in DOMAIN segments
      PROVE  /\ BssLast(segments[s])' <=> BssLast(segments[s])
             /\ AllAlloc(Members(s))' <=> AllAlloc(Members(s))
  <2>1. \A i \in Members(s) : i \in Numbers
    BY MembersIs
  <2>2. \A j \in DOMAIN segments[s].secs : segments[s].secs[j] \in Numbers
    BY <2>1 DEF Members, Into
  <2>3. BssLast(segments[s])' <=> BssLast(segments[s])
    BY <1>2, <1>4, <2>2 DEF BssLast, HasBytes
  <2>4. AllAlloc(Members(s))' <=> AllAlloc(Members(s))
    BY <1>2, <1>4, <2>1 DEF AllAlloc
  <2> QED
    BY <2>3, <2>4
<1>6. \A s \in DOMAIN segments : SegmentKept(segments[s], segments'[s])
  BY <1>3 DEF Kept
<1> QED
  BY <1>2, <1>5, <1>6

-----------------------------------------------------------------------------
(* Nothing has a place while a file is put together. *)

LEMMA EditMaps ==
  ASSUME phase = "edit", phase' = "edit", file' = file, AddressInv,
         \A k \in DOMAIN sections' : ~ sections'[k].fixed,
         \A s \in DOMAIN segments' :
           Rising(segments'[s].secs) /\ ~ segments'[s].fixed /\ 0 \notin Into(segments'[s].secs)
  PROVE  MapInv'
<1>1. SerialInv'
  BY DEF SerialInv, LayoutPhases, Laid
<1>2. AddressInv'
  <2>1. Fresh'
    BY DEF AddressInv, Fresh
  <2>2. \A s \in DOMAIN segments' : ~ segments'[s].fixed /\ 0 \notin Members(s)'
    BY DEF Members
  <2> QED
    BY <2>1, <2>2 DEF AddressInv, LayoutPhases, Loading
<1>3. PlacesInv' /\ FoundInv'
  BY DEF PlacesInv, FoundInv, Loading, Laid
<1> QED
  BY <1>1, <1>2, <1>3 DEF MapInv

\* The sections of segments that no step changes
LEMMA EditSegments ==
  ASSUME phase = "edit", SerialInv, AddressInv
  PROVE  \A s \in DOMAIN segments :
           Rising(segments[s].secs) /\ ~ segments[s].fixed /\ 0 \notin Into(segments[s].secs)
BY DEF SerialInv, AddressInv, Members

LEMMA AddSectionMaps ==
  ASSUME FileInv, SerialInv, AddressInv, NEW recipe \in Recipes, AddSection(recipe)
  PROVE  MapInv'
<1>1. /\ phase = "edit" /\ segments = <<>>
      /\ UNCHANGED <<segments, phase, pos, todo, order, generated, at, file, good, saves>>
  BY DEF AddSection, layout
<1>2. /\ Len(sections) \in Nat /\ Len(sections) >= 2 /\ sections \in Seq(Header)
      /\ \A l \in 1 .. Len(sections) : sections[l] \in Header /\ Fits(sections[l])
      /\ DOMAIN sections = 1 .. Len(sections)
  BY <1>1, EditFacts, SectionTypes DEF FileInv, Sound
<1>3. \A l \in 1 .. Len(sections) : ~ sections[l].fixed
  BY <1>1, <1>2 DEF AddressInv
<1>4. PICK k : sections' = WithSection(k)
  BY DEF AddSection
<1> DEFINE named == [sections EXCEPT ![2] = StringAdded(@, NameSize)]
           made == [Created EXCEPT !.name = k.name, !.type = k.type, !.alloc = k.alloc,
                                   !.tls = k.tls, !.align = k.align]
           filled == IF k.type = "NOBITS" THEN [made EXCEPT !.size = k.size] ELSE SetData(made, k.size)
<1>5. sections' = Append(named, filled)
  BY <1>4 DEF WithSection
<1>6. ~ filled.fixed
  <2>1. Created.fixed = FALSE /\ Created \in Header
    BY CreatedIs DEF Created
  <2>2. made.fixed = FALSE
    BY <2>1 DEF Created
  <2>3. \A b, c : /\ [made EXCEPT !.size = b].fixed = made.fixed
                  /\ [made EXCEPT !.size = b, !.cap = c, !.room = c, !.data = TRUE].fixed = made.fixed
    BY DEF Created
  <2> HIDE DEF made
  <2>4. filled.fixed = made.fixed
    BY <2>3 DEF SetData
  <2> QED
    BY <2>2, <2>4
<1>7. /\ Len(named) = Len(sections) /\ named \in Seq(Header)
      /\ \A l \in 1 .. Len(sections) : ~ named[l].fixed
  <2>1. 2 \in 1 .. Len(sections)
    BY <1>2
  <2>2. PICK v \in Header : v = StringAdded(sections[2], NameSize) /\ v.fixed = sections[2].fixed
    BY <1>2, <2>1, StringAddedIs, Sizes DEF SamePlace
  <2>3. named = [sections EXCEPT ![2] = v]
    BY <2>2
  <2> HIDE DEF named
  <2>4. /\ named \in Seq(Header) /\ Len(named) = Len(sections)
        /\ \A l \in 1 .. Len(sections) : named[l] = IF l = 2 THEN v ELSE sections[l]
    BY <1>2, <2>1, <2>3
  <2> QED
    BY <1>3, <2>1, <2>2, <2>4
<1> HIDE DEF named, filled
<1>8. /\ DOMAIN sections' = 1 .. Len(sections) + 1 /\ sections'[Len(sections) + 1] = filled
      /\ \A l \in 1 .. Len(sections) : sections'[l] = named[l]
  BY <1>2, <1>5, <1>7
<1>9. \A l \in DOMAIN sections' : l \in 1 .. Len(sections) \/ l = Len(sections) + 1
  BY <1>2, <1>8
<1>10. \A l \in DOMAIN sections' : ~ sections'[l].fixed
  BY <1>6, <1>7, <1>8, <1>9
<1>11. DOMAIN segments' = {}
  BY <1>1
<1> QED
  BY <1>1, <1>10, <1>11, EditMaps
LEMMA LoadingIs ==
  ASSUME FileInv, AddressInv, phase \in Loading
  PROVE  /\ WellFormed(file) /\ ~ Fresh
         /\ \A k \in DOMAIN sections : sections[k].fixed
         /\ \A s \in DOMAIN segments : \A i \in Members(s) : Known(Sec(i), segments[s])
<1>1. WellFormed(file)
  BY DEF FileInv, LoadInv, FileTypeInv, Loading, BackPhases
<1>2. ~ Fresh
  <2>1. Len(file.sections) >= 2
    BY <1>1, FileIs
  <2>2. Len(NoFile.sections) = 0
    BY DEF NoFile
  <2> QED
    BY <2>1, <2>2 DEF Fresh
<1> QED
  BY <1>1, <1>2 DEF AddressInv


\* The section that grew
LEMMA AppendDataIs ==
  ASSUME FileInv, NEW i, AppendData(i, NameSize), phase' # "crashed"
  PROVE  \E v \in Header : /\ SamePlace(v, Sec(i)) /\ (Sec(i).type = "NOBITS" => v = Sec(i))
                           /\ sections' = [sections EXCEPT ![i + 1] = v]
<1>1. PICK sec \in Header : sec = Sec(i) /\ sec = sections[i + 1]
  BY SectionTypes DEF FileInv, Sec, AppendData
<1>2. \/ sections' = [sections EXCEPT ![i + 1] = Appended(sec, NameSize)]
      \/ sections' = [sections EXCEPT ![i + 1] = NotGrown(sec, NameSize)] /\ sec.type # "NOBITS"
  BY <1>1 DEF AppendData, Grows
<1>3. PICK m \in Nat : m = sec.cap + NameSize
  BY <1>1, Sizes DEF Header
<1>4. PICK n \in Nat : n = 2 * m
  OBVIOUS
<1>5. PICK z \in Nat : z = sec.size + NameSize
  BY <1>1, Sizes DEF Header
<1>6. \/ Appended(sec, NameSize) = sec
      \/ Appended(sec, NameSize) = [sec EXCEPT !.size = z] /\ sec.type # "NOBITS"
      \/ Appended(sec, NameSize) = [sec EXCEPT !.size = z, !.cap = n, !.room = n, !.data = TRUE] /\ sec.type # "NOBITS"
  BY <1>3, <1>4, <1>5 DEF Appended
<1>7. NotGrown(sec, NameSize) = [sec EXCEPT !.cap = n]
  BY <1>3, <1>4 DEF NotGrown
<1>8. PICK v : /\ \/ v = sec
                  \/ v = [sec EXCEPT !.size = z] /\ sec.type # "NOBITS"
                  \/ v = [sec EXCEPT !.size = z, !.cap = n, !.room = n, !.data = TRUE] /\ sec.type # "NOBITS"
                  \/ v = [sec EXCEPT !.cap = n] /\ sec.type # "NOBITS"
               /\ sections' = [sections EXCEPT ![i + 1] = v]
  BY <1>2, <1>6, <1>7, Zenon
<1>9. v \in Header /\ SamePlace(v, sec) /\ (sec.type = "NOBITS" => v = sec)
  BY <1>1, <1>8 DEF Header, SamePlace
<1> QED
  BY <1>1, <1>8, <1>9

LEMMA AppendDataMaps ==
  ASSUME FileInv, MapInv, NEW i, AppendData(i, NameSize)
  PROVE  MapInv'
<1>1. /\ phase \in {"edit", "loaded", "amended"} /\ i \in Numbers
      /\ UNCHANGED <<segments, todo, order, generated, file, saves>>
  BY DEF AppendData, layout
<1>2. /\ Len(sections) \in Nat /\ sections \in Seq(Header)
      /\ \A l \in 1 .. Len(sections) : sections[l] \in Header
      /\ DOMAIN sections = 1 .. Len(sections) /\ i + 1 \in 1 .. Len(sections)
  BY <1>1, SectionTypes DEF FileInv, FileTypeInv
<1>3. CASE phase' = "crashed"
  <2>1. phase' \notin LayoutPhases /\ phase' \notin Laid /\ phase' \notin Loading /\ phase' # "edit"
    BY <1>3 DEF LayoutPhases, Laid, Loading
  <2>2. SerialInv'
    BY <1>1, <1>3, <2>1 DEF MapInv, SerialInv
  <2> QED
    BY <1>3, <2>1, <2>2 DEF MapInv, AddressInv, PlacesInv, FoundInv
<1>4. CASE phase' # "crashed"
  <2>1. PICK v \in Header :
          /\ v.fixed = Sec(i).fixed /\ v.alloc = Sec(i).alloc /\ v.address = Sec(i).address /\ v.type = Sec(i).type
          /\ Sec(i).type = "NOBITS" => v = Sec(i)
          /\ sections' = [sections EXCEPT ![i + 1] = v]
    BY <1>4, AppendDataIs DEF SamePlace
  <2>2. DOMAIN sections' = 1 .. Len(sections) /\ Numbers' = Numbers
        /\ \A l \in Numbers : Sec(l)' = IF l = i THEN v ELSE Sec(l)
    BY <1>1, <2>1, ReplacedIs, SectionTypes DEF FileInv
  <2>3. \A l \in 1 .. Len(sections) : sections'[l] = IF l = i + 1 THEN v ELSE sections[l]
    BY <1>2, <2>1
  <2>4. \A l \in 1 .. Len(sections) : sections'[l].fixed = sections[l].fixed
    BY <1>2, <2>1, <2>3 DEF Sec
  <2>5. CASE phase = "edit"
    <3>1. phase' = "edit" /\ SerialInv /\ AddressInv
      BY <1>4, <2>5 DEF AppendData, MapInv
    <3>2. \A l \in DOMAIN sections' : ~ sections'[l].fixed
      BY <1>2, <2>2, <2>4, <2>5, <3>1 DEF AddressInv
    <3> QED
      BY <1>1, <2>5, <3>1, <3>2, EditMaps, EditSegments
  <2>6. CASE phase # "edit"
    <3>1. /\ phase' = "amended" /\ phase \in Loading \cup {"amended"}
          /\ phase' \notin LayoutPhases /\ phase' \notin Laid /\ phase' \notin Loading /\ phase' # "edit"
      BY <1>1, <1>4, <2>6 DEF AppendData, LayoutPhases, Laid, Loading
    <3>2. /\ ~ Fresh /\ \A k \in DOMAIN sections : sections[k].fixed
          /\ \A s \in DOMAIN segments : \A l \in Members(s) : Known(Sec(l), segments[s])
      <4>1. ~ Fresh
        BY <1>1, <2>6, LoadingIs DEF MapInv, AddressInv, Loading
      <4> QED
        BY <3>1, <4>1 DEF MapInv, AddressInv
    <3>3. ~ Fresh' /\ \A k \in DOMAIN sections' : sections'[k].fixed
      BY <1>1, <1>2, <2>2, <2>4, <3>2 DEF Fresh
    <3>4. ASSUME NEW s \in DOMAIN segments', NEW l \in Members(s)'
          PROVE  Known(Sec(l)', segments'[s])
      <4>1. s \in DOMAIN segments /\ l \in Members(s) /\ l \in Numbers /\ Known(Sec(l), segments[s])
        BY <1>1, <3>2, <3>4, MembersIs DEF Members
      <4> QED
        BY <1>1, <2>1, <2>2, <4>1 DEF Known
    <3>5. AddressInv'
      BY <3>1, <3>3, <3>4 DEF AddressInv
    <3>6. SerialInv'
      BY <1>1, <3>1 DEF MapInv, SerialInv
    <3> QED
      BY <3>1, <3>5, <3>6 DEF MapInv, PlacesInv, FoundInv
  <2> QED
    BY <2>5, <2>6
<1> QED
  BY <1>3, <1>4

LEMMA UseTablesMaps ==
  ASSUME FileInv, SerialInv, AddressInv, UseTables
  PROVE  MapInv'
<1>1. /\ phase = "edit" /\ sections' = [k \in DOMAIN sections |-> WriteThrough(sections[k])]
      /\ UNCHANGED <<segments, phase, pos, todo, order, generated, at, file, good, saves>>
  BY DEF UseTables, layout
<1>2. /\ \A l \in 1 .. Len(sections) : sections[l] \in Header /\ Sound(sections[l])
      /\ DOMAIN sections = 1 .. Len(sections)
  BY <1>1, EditFacts, SectionTypes DEF FileInv
<1>3. ASSUME NEW l \in DOMAIN sections' PROVE ~ sections'[l].fixed
  <2>1. l \in DOMAIN sections /\ sections'[l] = WriteThrough(sections[l])
    BY <1>1, <1>3
  <2>2. PICK sec \in Header : sec = sections[l] /\ Sound(sec)
    BY <1>2, <2>1
  <2>3. WriteThrough(sec).fixed = sec.fixed
    BY <2>2, WriteThroughIs DEF SamePlace
  <2>4. ~ sections[l].fixed
    BY <1>1, <2>1 DEF AddressInv
  <2> QED
    BY <2>1, <2>2, <2>3, <2>4
<1> QED
  BY <1>1, <1>3, EditMaps, EditSegments

LEMMA AddSegmentMaps ==
  ASSUME FileInv, SerialInv, AddressInv, NEW t, AddSegment(t)
  PROVE  MapInv'
<1> DEFINE new == [type |-> t.type, vaddr |-> t.vaddr, align |-> 0, memory |-> 0,
                   size |-> 0, offset |-> 0, fixed |-> FALSE, secs |-> <<>>]
<1>1. /\ phase = "edit" /\ segments' = Append(segments, new)
      /\ UNCHANGED <<sections, phase, pos, todo, order, generated, at, file, good, saves>>
  BY DEF AddSegment, layout
<1>2. new.secs = <<>> /\ new.fixed = FALSE
  OBVIOUS
<1> HIDE DEF new
<1>3. PICK n \in Nat : n = Len(segments) /\ DOMAIN segments = 1 .. n /\ segments \in Seq(SegmentHeader)
  BY SegmentsInside
<1>4. /\ DOMAIN segments' = 1 .. n + 1 /\ segments'[n + 1] = new
      /\ \A s \in 1 .. n : segments'[s] = segments[s]
  BY <1>1, <1>3
<1>5. \A s \in 1 .. n + 1 : s \in 1 .. n \/ s = n + 1
  BY <1>3
<1>6. Rising(<<>>) /\ Into(<<>>) = {}
  BY DEF Rising, Into
<1>7. \A s \in DOMAIN segments' :
        Rising(segments'[s].secs) /\ ~ segments'[s].fixed /\ 0 \notin Into(segments'[s].secs)
  BY <1>1, <1>2, <1>3, <1>4, <1>5, <1>6, EditSegments
<1>8. \A k \in DOMAIN sections' : ~ sections'[k].fixed
  BY <1>1 DEF AddressInv
<1> QED
  BY <1>1, <1>7, <1>8, EditMaps

LEMMA RisingAppended ==
  ASSUME NEW q \in Seq(Nat), Rising(q), NEW x \in Nat, \A k \in DOMAIN q : q[k] < x
  PROVE  Rising(Append(q, x))
<1>1. /\ Len(q) \in Nat /\ DOMAIN q = 1 .. Len(q) /\ DOMAIN Append(q, x) = 1 .. Len(q) + 1
      /\ Append(q, x)[Len(q) + 1] = x /\ \A k \in 1 .. Len(q) : Append(q, x)[k] = q[k]
  OBVIOUS
<1>2. SUFFICES ASSUME NEW j \in 1 .. Len(q) + 1, NEW k \in 1 .. Len(q) + 1, j < k
               PROVE  Append(q, x)[j] < Append(q, x)[k]
  BY <1>1 DEF Rising
<1>3. j \in 1 .. Len(q) /\ (k \in 1 .. Len(q) \/ k = Len(q) + 1)
  BY <1>1, <1>2
<1> QED
  BY <1>1, <1>2, <1>3 DEF Rising

LEMMA AddSectionIndexMaps ==
  ASSUME FileInv, SerialInv, AddressInv, NEW i, AddSectionIndex(i)
  PROVE  MapInv'
<1>1. PICK s : /\ s = Len(segments) /\ phase = "edit" /\ s > 0 /\ i \in Numbers \ {0, 1}
               /\ \A j \in DOMAIN segments[s].secs : segments[s].secs[j] < i
               /\ segments' = [segments EXCEPT ![s].secs = Append(@, i),
                                 ![s].align = IF Sec(i).align > @ THEN Sec(i).align ELSE @]
               /\ UNCHANGED <<sections, phase, pos, todo, order, generated, at, file, good, saves>>
  BY DEF AddSectionIndex, layout
<1>2. /\ Len(segments) \in Nat /\ segments \in Seq(SegmentHeader) /\ s \in 1 .. Len(segments)
      /\ DOMAIN segments = 1 .. Len(segments) /\ segments[s] \in SegmentHeader
      /\ segments[s].secs \in Seq(Nat) /\ i \in Nat
  <2>1. i \in Nat
    BY <1>1, SectionTypes DEF FileInv
  <2> QED
    BY <1>1, <2>1, SegmentsInside, SegmentFields
<1>3. PICK q \in Seq(Nat) : q = segments[s].secs /\ Rising(q) /\ 0 \notin Into(q) /\ \A j \in DOMAIN q : q[j] < i
  BY <1>1, <1>2, EditSegments
<1>4. PICK r \in Seq(Nat) : r = Append(q, i) /\ Rising(r) /\ Into(r) = Into(q) \cup {i}
  BY <1>2, <1>3, IntoIs, RisingAppended
<1>5. PICK a : a = IF Sec(i).align > segments[s].align THEN Sec(i).align ELSE segments[s].align
  OBVIOUS
<1>6. PICK v : v = [segments[s] EXCEPT !.secs = r, !.align = a]
  OBVIOUS
<1>7. segments' = [segments EXCEPT ![s] = v]
  BY <1>1, <1>2, <1>3, <1>4, <1>5, <1>6
<1>8. v.secs = r /\ v.fixed = segments[s].fixed
  BY <1>2, <1>6 DEF SegmentHeader
<1>9. /\ DOMAIN segments' = DOMAIN segments
      /\ \A x \in DOMAIN segments : segments'[x] = IF x = s THEN v ELSE segments[x]
  BY <1>2, <1>7
<1>10. 0 \notin Into(r)
  BY <1>1, <1>3, <1>4
<1>11. ASSUME NEW x \in DOMAIN segments'
       PROVE  Rising(segments'[x].secs) /\ ~ segments'[x].fixed /\ 0 \notin Into(segments'[x].secs)
  <2>1. Rising(segments[x].secs) /\ ~ segments[x].fixed /\ 0 \notin Into(segments[x].secs)
    BY <1>1, <1>9, <1>11, EditSegments
  <2>2. CASE x = s
    BY <1>4, <1>8, <1>9, <1>10, <1>11, <2>1, <2>2
  <2>3. CASE x # s
    BY <1>9, <1>11, <2>1, <2>3
  <2> QED
    BY <2>2, <2>3
<1>12. \A k \in DOMAIN sections' : ~ sections'[k].fixed
  BY <1>1 DEF AddressInv
<1> QED
  BY <1>1, <1>11, <1>12, EditMaps

-----------------------------------------------------------------------------
(* What loading finds *)

LEMMA SectionsOfHas ==
  ASSUME FileInv, NEW seg
  PROVE  /\ SectionsOf(seg) \in Seq(Nat) /\ Rising(SectionsOf(seg))
         /\ Into(SectionsOf(seg)) = {i \in Numbers : InSegment(Sec(i), seg)}
<1> DEFINE S == {i \in Numbers : IF Sec(i).alloc
                     THEN IsSectInSeg(Sec(i).address, Sec(i).size, seg.vaddr, seg.vaddr + seg.memory)
                     ELSE IsSectInSeg(Sec(i).offset, Sec(i).size, seg.offset, seg.offset + seg.size)}
<1>1. PICK n \in Nat : n = Len(sections) /\ Numbers = 0 .. n - 1
  BY SectionTypes DEF FileInv
<1>2. S \subseteq 0 .. n - 1
  BY <1>1
<1>3. SectionsOf(seg) = Ascending(n, S)
  BY <1>1 DEF SectionsOf
<1>4. S = {i \in Numbers : InSegment(Sec(i), seg)}
  BY DEF InSegment
<1> HIDE DEF S
<1> QED
  BY <1>1, <1>2, <1>3, <1>4, AscendingIs

LEMMA ReadMaps ==
  ASSUME FoundInv, phase \in Loading \cup {"saved"}, phase' \in Loading, file' = file, saves' = saves,
         \A k \in DOMAIN sections' : sections'[k].fixed,
         \A s \in DOMAIN segments' :
           /\ Rising(segments'[s].secs) /\ s \in DOMAIN file.segments
           /\ segments'[s].secs = SectionsOf(file.segments[s])'
           /\ \A i \in Members(s)' : Known(Sec(i)', segments'[s]),
         \A s \in DOMAIN file.segments : file.segments[s].memory >= 0
  PROVE  MapInv'
<1>1. phase' \notin LayoutPhases /\ phase' \notin Laid /\ phase' \notin {"edit", "order", "amended"}
  BY DEF Loading, LayoutPhases, Laid
<1>2. SerialInv' /\ PlacesInv'
  BY <1>1 DEF SerialInv, PlacesInv
<1>3. AddressInv'
  BY <1>1 DEF AddressInv, Known, Sec
<1>4. FoundInv'
  <2>1. saves > 0 => Findable(file)
    BY DEF FoundInv
  <2>2. saves' > 0 => Findable(file')
    BY <2>1
  <2> QED
    BY <1>1, <2>2 DEF FoundInv
<1> QED
  BY <1>2, <1>3, <1>4 DEF MapInv

LEMMA LoadMaps ==
  ASSUME FileInv, FoundInv, Load
  PROVE  MapInv'
<1>1. /\ phase = "saved" /\ sections' = <<>> /\ segments' = <<>> /\ phase' \in {"sections", "rejected"}
      /\ file' = file /\ saves' = saves
  BY DEF Load
<1>3. \A s \in DOMAIN file.segments : file.segments[s].memory >= 0
  BY DEF Load, Readable
<1>2. DOMAIN sections' = {} /\ DOMAIN segments' = {}
  BY <1>1
<1> QED
  BY <1>1, <1>2, <1>3, ReadMaps DEF Loading
LEMMA LoadSectionMaps ==
  ASSUME FileInv, MapInv, LoadSection
  PROVE  MapInv'
<1>1. /\ phase = "sections" /\ phase' = phase
      /\ UNCHANGED <<segments, file, saves>> /\ Len(sections) < Len(file.sections)
  BY DEF LoadSection, layout
<1>2. /\ segments = <<>> /\ WellFormed(file) /\ sections \in Seq(Header)
      /\ \A k \in DOMAIN sections : sections[k].fixed
  BY <1>1, LoadingIs DEF FileInv, LoadInv, FileTypeInv, Loading, MapInv
<1>3. PICK n \in Nat : n = Len(sections) /\ DOMAIN sections = 1 .. n
  BY <1>2
<1>4. PICK words, d, c, m : sections' = Append(sections, [HeaderRead(file.sections[n + 1], words) EXCEPT !.data = d, !.cap = c, !.room = m])
  BY <1>3 DEF LoadSection
<1>5. PICK v : v = [HeaderRead(file.sections[n + 1], words) EXCEPT !.data = d, !.cap = c, !.room = m]
  OBVIOUS
<1>6. v.fixed
  BY <1>5 DEF HeaderRead, Created
<1>7. /\ DOMAIN sections' = 1 .. n + 1 /\ sections'[n + 1] = v
      /\ \A k \in 1 .. n : sections'[k] = sections[k]
  BY <1>2, <1>3, <1>4, <1>5
<1>8. \A k \in 1 .. n + 1 : k \in 1 .. n \/ k = n + 1
  BY <1>3
<1>9. \A k \in DOMAIN sections' : sections'[k].fixed
  BY <1>2, <1>3, <1>6, <1>7, <1>8
<1>10. DOMAIN segments' = {} /\ phase' \in Loading /\ phase \in Loading
  BY <1>1, <1>2 DEF Loading
<1> QED
  BY <1>1, <1>9, <1>10, ReadMaps DEF MapInv, FoundInv

LEMMA NameSectionsMaps ==
  ASSUME FileInv, MapInv, NameSections
  PROVE  MapInv'
<1>1. /\ phase = "sections" /\ phase' = "segments" /\ UNCHANGED <<segments, file, saves>>
      /\ sections' = [j \in DOMAIN sections |->
           [sections[j] EXCEPT !.name = IF HasNames(Sec(file.names)) THEN @ ELSE ""]]
  BY DEF NameSections, layout
<1>2. segments = <<>> /\ \A k \in DOMAIN sections : sections[k].fixed
  BY <1>1, LoadingIs DEF FileInv, LoadInv, Loading, MapInv
<1>3. \A k \in DOMAIN sections : sections[k] \in Header
  BY SectionTypes DEF FileInv
<1>4. ASSUME NEW k \in DOMAIN sections' PROVE sections'[k].fixed
  <2>1. PICK name : k \in DOMAIN sections /\ sections'[k] = [sections[k] EXCEPT !.name = name]
    BY <1>1, <1>4
  <2>2. [sections[k] EXCEPT !.name = name].fixed = sections[k].fixed
    BY <1>3, <2>1 DEF Header
  <2> QED
    BY <1>2, <2>1, <2>2
<1>5. DOMAIN segments' = {}
  <2>1. segments' = <<>>
    BY <1>1, <1>2
  <2> QED
    BY <2>1
<1>6. phase' \in Loading /\ phase \in Loading
  BY <1>1 DEF Loading
<1> QED
  BY <1>1, <1>4, <1>5, <1>6, ReadMaps DEF MapInv, FoundInv

\* The sections of a segment that was read are those of its segment in the file.
LEMMA LoadSegmentMaps ==
  ASSUME FileInv, MapInv, LoadSegment
  PROVE  MapInv'
<1>1. PICK s : /\ s = Len(segments) + 1 /\ phase = "segments" /\ s <= Len(file.segments)
               /\ UNCHANGED <<sections, file, saves>>
               /\ \/ /\ segments' = Append(segments, [file.segments[s] EXCEPT
                                       !.fixed = TRUE, !.secs = SectionsOf(file.segments[s])])
                     /\ phase' = phase
                  \/ phase' = "rejected" /\ segments' = segments
  BY DEF LoadSegment, layout
<1>2. /\ WellFormed(file) /\ \A k \in DOMAIN sections : sections[k].fixed
      /\ \A x \in DOMAIN segments : \A i \in Members(x) : Known(Sec(i), segments[x])
  BY <1>1, LoadingIs DEF Loading, MapInv
<1>3. PICK n \in Nat : n = Len(segments) /\ DOMAIN segments = 1 .. n /\ segments \in Seq(SegmentHeader)
  BY SegmentsInside
<1>4. \A x \in DOMAIN segments :
        /\ Rising(segments[x].secs) /\ x \in DOMAIN file.segments
        /\ segments[x].secs = SectionsOf(file.segments[x])
  BY <1>1 DEF MapInv, SerialInv, FoundInv, Loading
<1>5. /\ \A x : SectionsOf(file.segments[x])' = SectionsOf(file.segments[x])
      /\ \A i : Sec(i)' = Sec(i)
  BY <1>1 DEF SectionsOf, Numbers, Sec
<1>6. \A k \in DOMAIN sections' : sections'[k].fixed
  BY <1>1, <1>2
<1>7. phase' \in Loading /\ phase \in Loading
  BY <1>1 DEF Loading
<1>8. ASSUME NEW x \in DOMAIN segments, segments'[x] = segments[x]
      PROVE  /\ Rising(segments'[x].secs) /\ x \in DOMAIN file.segments
             /\ segments'[x].secs = SectionsOf(file.segments[x])'
             /\ \A i \in Members(x)' : Known(Sec(i)', segments'[x])
  <2>1. Members(x)' = Members(x)
    BY <1>8 DEF Members
  <2> QED
    BY <1>2, <1>4, <1>5, <1>8, <2>1
<1>9. CASE phase' = "rejected" /\ segments' = segments
  <2>1. \A x \in DOMAIN segments' : x \in DOMAIN segments /\ segments'[x] = segments[x]
    BY <1>9
  <2> QED
    BY <1>1, <1>6, <1>7, <1>8, <2>1, ReadMaps DEF MapInv, FoundInv
<1>10. CASE /\ segments' = Append(segments, [file.segments[s] EXCEPT
                                       !.fixed = TRUE, !.secs = SectionsOf(file.segments[s])])
            /\ phase' = phase
  <2>1. s \in 1 .. Len(file.segments) /\ DOMAIN file.segments = 1 .. Len(file.segments)
    BY <1>1, <1>2, <1>3, FileIs
  <2>2. PICK h \in SegmentHeader : h = file.segments[s]
    BY <1>2, <2>1, FileIs
  <2>3. PICK q \in Seq(Nat) : /\ q = SectionsOf(h) /\ Rising(q)
                              /\ Into(q) = {i \in Numbers : InSegment(Sec(i), h)}
    BY SectionsOfHas
  <2>4. PICK v : v = [h EXCEPT !.fixed = TRUE, !.secs = q]
    OBVIOUS
  <2>5. /\ v \in SegmentHeader /\ v.secs = q /\ v.vaddr = h.vaddr /\ v.memory = h.memory
        /\ v.offset = h.offset /\ v.size = h.size
    BY <2>4 DEF SegmentHeader
  <2>6. segments' = Append(segments, v)
    BY <1>10, <2>2, <2>3, <2>4
  <2>7. /\ DOMAIN segments' = 1 .. n + 1 /\ segments'[n + 1] = v
        /\ \A x \in 1 .. n : segments'[x] = segments[x]
    BY <1>3, <2>5, <2>6
  <2>8. \A x \in 1 .. n + 1 : x \in 1 .. n \/ x = n + 1
    BY <1>3
  <2>9. Members(n + 1)' = Into(q)
    BY <2>5, <2>7 DEF Members
  <2>10. ASSUME NEW i \in Into(q) PROVE Known(Sec(i), v)
    BY <2>3, <2>5, <2>10 DEF InSegment, IsSectInSeg, Known
  <2>11. /\ Rising(segments'[n + 1].secs) /\ n + 1 \in DOMAIN file.segments
         /\ segments'[n + 1].secs = SectionsOf(file.segments[n + 1])'
         /\ \A i \in Members(n + 1)' : Known(Sec(i)', segments'[n + 1])
    BY <1>1, <1>3, <1>5, <2>1, <2>2, <2>3, <2>5, <2>7, <2>9, <2>10
  <2>12. \A x \in DOMAIN segments' :
           /\ Rising(segments'[x].secs) /\ x \in DOMAIN file.segments
           /\ segments'[x].secs = SectionsOf(file.segments[x])'
           /\ \A i \in Members(x)' : Known(Sec(i)', segments'[x])
    BY <1>3, <1>8, <2>7, <2>8, <2>11
  <2> QED
    BY <1>1, <1>6, <1>7, <2>12, ReadMaps DEF MapInv, FoundInv
<1> QED
  BY <1>1, <1>9, <1>10

LEMMA EndLoadMaps ==
  ASSUME FileInv, MapInv, FinishLoad \/ ElfValid
  PROVE  MapInv'
<1>1. /\ UNCHANGED <<sections, segments, file, saves>> /\ phase \in Loading /\ phase' \in Loading
  BY DEF FinishLoad, ElfValid, layout, Loading
<1>2. /\ \A k \in DOMAIN sections : sections[k].fixed
      /\ \A x \in DOMAIN segments : \A i \in Members(x) : Known(Sec(i), segments[x])
  BY <1>1, LoadingIs DEF MapInv
<1>3. \A x \in DOMAIN segments :
        /\ Rising(segments[x].secs) /\ x \in DOMAIN file.segments
        /\ segments[x].secs = SectionsOf(file.segments[x])
  BY <1>1 DEF MapInv, SerialInv, FoundInv
<1>4. /\ \A x : SectionsOf(file.segments[x])' = SectionsOf(file.segments[x]) /\ Members(x)' = Members(x)
      /\ \A i : Sec(i)' = Sec(i)
  BY <1>1 DEF SectionsOf, Numbers, Sec, Members
<1>5. \A x \in DOMAIN segments' :
         /\ Rising(segments'[x].secs) /\ x \in DOMAIN file.segments
         /\ segments'[x].secs = SectionsOf(file.segments[x])'
         /\ \A i \in Members(x)' : Known(Sec(i)', segments'[x])
  BY <1>1, <1>2, <1>3, <1>4
<1>6. \A k \in DOMAIN sections' : sections'[k].fixed
  BY <1>1, <1>2
<1> QED
  BY <1>1, <1>5, <1>6, ReadMaps DEF MapInv, FoundInv

LEMMA TruncateMaps ==
  ASSUME MapInv, NEW length, Truncate(length)
  PROVE  MapInv'
<1>1. phase = "saved" /\ phase' = "saved" /\ saves = 0 /\ saves' = 0 /\ UNCHANGED <<segments, todo, order>>
  BY DEF Truncate, layout
<1>2. SerialInv' /\ AddressInv' /\ PlacesInv' /\ FoundInv'
  BY <1>1 DEF MapInv, SerialInv, AddressInv, PlacesInv, FoundInv, LayoutPhases, Laid, Loading
<1> QED
  BY <1>2 DEF MapInv

-----------------------------------------------------------------------------
(* Which addresses are known, step by step *)

LEMMA PlacedGap ==
  ASSUME FileInv, ~ back', PlaceFixed \/ PlaceNew
  PROVE  /\ HasNext /\ Place.type # "NULL" /\ Index \notin generated
         /\ \E gap \in Nat : /\ Generate(gap) /\ (ByAddress => gap = Requested - Passed)
                             /\ Place.fixed /\ ~ ByAddress => gap = 0
<1>1. /\ pos \in Int /\ at.start \in Int
  BY Types
<1>2. HasNext /\ Place.type # "NULL" /\ Index \notin generated
  BY DEF PlaceFixed, PlaceNew
<1>3. Place \in Header /\ Place.address \in Int /\ Place.align \in Nat
  BY <1>2, NextIs, HeaderFields
<1>4. Current.vaddr \in Nat
  BY <1>2, NextIs, CurrentIs
<1>5. CASE PlaceFixed
  <2>1. CASE ByAddress
    <3>1. Generate(Requested - Passed) /\ ~ (Requested < Passed)
      BY <1>5, <2>1 DEF PlaceFixed
    <3>2. Requested \in Int /\ Passed \in Int
      BY <1>1, <1>3, <1>4 DEF Requested, Passed
    <3>3. PICK r \in Int, p \in Int : r = Requested /\ p = Passed
      BY <3>2
    <3>4. r - p \in Nat /\ Generate(r - p) /\ r - p = Requested - Passed
      BY <3>1, <3>3
    <3> QED
      BY <1>2, <2>1, <3>4
  <2>2. CASE ~ ByAddress
    <3>1. Generate(0)
      BY <1>5, <2>2 DEF PlaceFixed
    <3> QED
      BY <1>2, <2>2, <3>1
  <2> QED
    BY <2>1, <2>2
<1>6. CASE PlaceNew
  <2>1. Generate(RoundedUp(pos, Place.align) - pos) /\ ~ ByAddress /\ ~ Place.fixed
    BY <1>6 DEF PlaceNew, ByAddress
  <2>2. PICK here \in Int : here = RoundedUp(pos, Place.align) /\ pos <= here
    BY <1>1, <1>3, RoundedUpIs
  <2>3. PICK gap \in Nat : gap = here - pos
    BY <1>1, <2>2
  <2> QED
    BY <1>2, <2>1, <2>2, <2>3
<1> QED
  BY <1>5, <1>6

\* What a step of the layout has to show
LEMMA LayAddress ==
  ASSUME FileInv, AddressInv, Kept, phase \in LayoutPhases, file' = file,
         phase' \in LayoutPhases \cup {"failed", "saved"},
         Fresh => /\ \A i \in Numbers : Sec(i)'.fixed => Sec(i).fixed \/ i \in generated'
                  /\ \A s \in DOMAIN segments : segments'[s].fixed => s \notin Into(todo') \cup Into(order'),
         generated \subseteq generated'
  PROVE  AddressInv'
<1>1. Fresh' <=> Fresh
  BY DEF Fresh
<1>2. /\ DOMAIN segments' = DOMAIN segments /\ Numbers' = Numbers
      /\ \A s \in DOMAIN segments : Members(s)' = Members(s) /\ SegmentKept(segments[s], segments'[s])
      /\ \A i \in Numbers : SectionKept(Sec(i), Sec(i)')
  BY KeptMembers DEF Kept
<1>3. \A s \in DOMAIN segments : Members(s) \subseteq Numbers
  BY MembersIs
<1>4. ASSUME phase' \in LayoutPhases, Fresh
      PROVE  /\ \A i \in Numbers : Sec(i)'.fixed => i \in generated'
             /\ \A s \in DOMAIN segments : \A i \in Members(s) : Sec(i)'.type # "NULL"
  <2>1. /\ \A i \in Numbers : Sec(i).fixed => i \in generated
        /\ \A s \in DOMAIN segments : \A i \in Members(s) : Sec(i).type # "NULL"
    BY <1>4 DEF AddressInv
  <2> QED
    BY <1>2, <1>3, <1>4, <2>1 DEF SectionKept
<1>5. ASSUME ~ Fresh
      PROVE  /\ \A k \in DOMAIN sections' : sections'[k].fixed
             /\ \A s \in DOMAIN segments : \A i \in Members(s) :
                  Known(Sec(i)', segments'[s])
  <2>1. /\ \A k \in DOMAIN sections : sections[k].fixed
        /\ \A s \in DOMAIN segments : \A i \in Members(s) :
             Known(Sec(i), segments[s])
    BY <1>5 DEF AddressInv
  <2>2. /\ Len(sections) \in Nat /\ DOMAIN sections = 1 .. Len(sections) /\ Numbers = 0 .. Len(sections) - 1
        /\ \A i \in Numbers : i + 1 \in 1 .. Len(sections) /\ Sec(i) = sections[i + 1] /\ Sec(i) \in Header
    BY SectionTypes DEF FileInv
  <2>3. DOMAIN sections' = 1 .. Len(sections) /\ \A i \in Numbers : Sec(i)' \in Header
    <3>1. sections' \in Seq(Header) /\ Len(sections') = Len(sections)
      BY DEF Kept
    <3>2. DOMAIN sections' = 1 .. Len(sections) /\ \A k \in 1 .. Len(sections) : sections'[k] \in Header
      BY <3>1
    <3> QED
      BY <2>2, <3>2 DEF Sec
  <2>4. ASSUME NEW k \in DOMAIN sections' PROVE sections'[k].fixed
    <3>1. PICK i \in Numbers : k = i + 1
      <4>1. k \in Int /\ k - 1 \in Numbers /\ k = (k - 1) + 1
        BY <2>2, <2>3, <2>4
      <4> QED
        BY <4>1
    <3>2. Sec(i)' = sections'[k] /\ Sec(i) = sections[k] /\ k \in DOMAIN sections
      BY <2>2, <3>1 DEF Sec
    <3> QED
      BY <1>2, <2>1, <3>1, <3>2 DEF SectionKept
  <2>5. ASSUME NEW s \in DOMAIN segments, NEW i \in Members(s)
        PROVE  Known(Sec(i)', segments'[s])
    <3>1. i \in Numbers
      BY <1>3, <2>5
    <3>2. PICK a \in Header : a = Sec(i) /\ a.fixed
      BY <2>1, <2>2, <3>1
    <3>3. PICK b \in Header : b = Sec(i)' /\ SectionKept(a, b)
      BY <1>2, <2>3, <3>1, <3>2
    <3>4. PICK x \in SegmentHeader : x = segments[s]
      BY MembersIs
    <3>5. PICK y \in SegmentHeader : y = segments'[s] /\ SegmentKept(x, y)
      <4>1. s \in 1 .. Len(segments) /\ segments' \in Seq(SegmentHeader) /\ Len(segments') = Len(segments)
        BY SegmentsInside DEF Kept
      <4>2. segments'[s] \in SegmentHeader
        BY <4>1
      <4> QED
        BY <1>2, <3>4, <4>2
    <3>6. /\ b.alloc = a.alloc /\ b.address = a.address /\ b.size = a.size /\ b.type = a.type
          /\ y.vaddr = x.vaddr /\ UpTo(x.memory, y.memory)
      BY <3>2, <3>3, <3>5 DEF SectionKept, SegmentKept
    <3>7. Known(a, x)
      BY <2>1, <2>5, <3>2, <3>4
    <3>9. /\ a.address \in Int /\ a.size \in Nat /\ x.vaddr \in Nat /\ x.memory \in Int /\ y.memory \in Int
      BY HeaderFields, SegmentFields
    <3>8. ASSUME y.memory >= 0, a.address + a.size <= x.vaddr + x.memory, a.address < x.vaddr + x.memory
          PROVE  x.memory >= 0 /\ a.address + a.size <= y.vaddr + y.memory /\ a.address < y.vaddr + y.memory
      BY <3>6, <3>8, <3>9 DEF UpTo
    <3>11. y.memory >= 0 => x.memory >= 0
      BY <3>6, <3>9 DEF UpTo
    <3>10. Known(b, y)
      BY <3>6, <3>7, <3>8, <3>11 DEF Known
    <3> QED
      BY <3>3, <3>5, <3>10
  <2> QED
    BY <2>4, <2>5
<1>6. /\ phase' # "edit" /\ phase' # "amended"
      /\ phase' \in Loading \cup {"amended"} \cup LayoutPhases => phase' \in LayoutPhases
  BY DEF LayoutPhases, Loading
<1> QED
  BY <1>1, <1>2, <1>4, <1>5, <1>6 DEF AddressInv

\* Steps that leave sections and segments alone
LEMMA LayAddressSame ==
  ASSUME FileInv, AddressInv, phase \in LayoutPhases, UNCHANGED <<sections, segments, file>>,
         phase' \in LayoutPhases \cup {"failed", "saved"}, generated \subseteq generated',
         Into(todo') \cup Into(order') \subseteq Into(todo) \cup Into(order)
  PROVE  Kept /\ AddressInv'
<1>1. Kept
  BY UnchangedKept
<1>2. Fresh => \A s \in DOMAIN segments : segments'[s].fixed => s \notin Into(todo') \cup Into(order')
  BY DEF AddressInv
<1>3. \A i \in Numbers : Sec(i)'.fixed => Sec(i).fixed
  BY DEF Sec
<1> QED
  BY <1>1, <1>2, <1>3, LayAddress

LEMMA GenerateAddress ==
  ASSUME FileInv, AddressInv, HasNext, NEW gap \in Int, Generate(gap)
  PROVE  Kept /\ AddressInv'
<1>1. /\ phase \in LayoutPhases /\ phase' \in LayoutPhases /\ UNCHANGED <<segments, todo, order, file>>
      /\ generated' = generated \cup {Index}
  BY DEF Generate, HasNext, LayoutPhases
<1>2. Kept /\ \A i \in Numbers : i # Index => Sec(i)' = Sec(i)
  BY GeneratedIs
<1>3. Fresh => \A s \in DOMAIN segments : segments'[s].fixed => s \notin Into(todo') \cup Into(order')
  BY <1>1 DEF AddressInv
<1>4. \A i \in Numbers : Sec(i)'.fixed => Sec(i).fixed \/ i \in generated'
  BY <1>1, <1>2
<1> QED
  BY <1>1, <1>2, <1>3, <1>4, LayAddress

LEMMA FinishAddress ==
  ASSUME FileInv, SerialInv, AddressInv, FinishSegment
  PROVE  Kept /\ AddressInv'
<1>1. /\ phase = "section" /\ phase' = "segment" /\ order' = Tail(order) /\ todo' = todo
      /\ UNCHANGED <<file, generated, sections>>
  BY DEF FinishSegment
<1>2. Kept /\ \A s \in DOMAIN segments : s # Head(order) => segments'[s] = segments[s]
  BY FinishIs
<1>3. order # <<>>
  BY <1>1 DEF FileInv, OrderInv
<1>4. Head(order) \notin Into(Tail(order)) /\ Into(order) = {Head(order)} \cup Into(Tail(order))
  BY <1>1, <1>3, HeadIs
<1>5. Into(todo) \cap Into(order) = {}
  BY <1>1 DEF SerialInv, LayoutPhases
<1>6. Head(order) \notin Into(todo') \cup Into(order')
  BY <1>1, <1>4, <1>5
<1>7. ASSUME Fresh, NEW s \in DOMAIN segments, segments'[s].fixed
      PROVE  s \notin Into(todo') \cup Into(order')
  <2>1. CASE s = Head(order)
    BY <1>6, <2>1
  <2>2. CASE s # Head(order)
    <3>1. segments[s].fixed
      BY <1>2, <1>7, <2>2
    <3>2. s \notin Into(todo) \cup Into(order)
      BY <1>1, <1>7, <3>1 DEF AddressInv, LayoutPhases
    <3> QED
      BY <1>1, <1>4, <3>2
  <2> QED
    BY <2>1, <2>2
<1>8. \A i \in Numbers : Sec(i)'.fixed => Sec(i).fixed
  BY <1>1 DEF Sec
<1>9. phase \in LayoutPhases /\ phase' \in LayoutPhases
  BY <1>1 DEF LayoutPhases
<1> QED
  BY <1>1, <1>2, <1>7, <1>8, <1>9, LayAddress

LEMMA LooseAddress ==
  ASSUME FileInv, AddressInv, PlaceLoose
  PROVE  Kept /\ AddressInv'
<1>1. /\ phase \in LayoutPhases /\ phase' \in LayoutPhases
      /\ UNCHANGED <<segments, todo, order, generated, file>>
  BY DEF PlaceLoose, LayoutPhases
<1>2. Kept /\ \A i \in Numbers : Sec(i)'.fixed = Sec(i).fixed
  BY LooseIs
<1>3. Fresh => \A s \in DOMAIN segments : segments'[s].fixed => s \notin Into(todo') \cup Into(order')
  BY <1>1 DEF AddressInv
<1> QED
  BY <1>1, <1>2, <1>3, LayAddress

\* Saving begins with the addresses that are known.
LEMMA SaveMaps ==
  ASSUME FileInv, MapInv, Save
  PROVE  MapInv'
<1>1. /\ phase \in {"edit", "loaded", "amended"} /\ phase' = "order" /\ file' = file
  BY DEF Save
<1>2. /\ Kept /\ sections' = sections
      /\ \A s \in DOMAIN segments : SameSpan(segments'[s], segments[s])
  BY SaveIs
<1>3. /\ DOMAIN segments' = DOMAIN segments
      /\ \A s \in DOMAIN segments : Members(s)' = Members(s)
  BY <1>2, KeptMembers
<1>4. (Fresh' <=> Fresh) /\ Numbers' = Numbers /\ \A i : Sec(i)' = Sec(i)
  BY <1>1, <1>2 DEF Fresh, Numbers, Sec
<1>5. ASSUME phase = "edit" PROVE AddressInv'
  <2>1. /\ Fresh /\ \A k \in DOMAIN sections : ~ sections[k].fixed
        /\ \A s \in DOMAIN segments : ~ segments[s].fixed /\ 0 \notin Members(s)
    BY <1>5 DEF MapInv, AddressInv
  <2>2. /\ \A i \in Numbers : i + 1 \in DOMAIN sections /\ Sec(i) = sections[i + 1]
        /\ \A i \in Numbers \ {0} : Sec(i).type # "NULL"
    <3>1. /\ Len(sections) \in Nat /\ DOMAIN sections = 1 .. Len(sections)
          /\ \A k \in 2 .. Len(sections) : sections[k].type # "NULL"
          /\ \A i \in Numbers : i \in Nat /\ i + 1 \in 1 .. Len(sections) /\ Sec(i) = sections[i + 1]
      BY <1>5, EditFacts, SectionTypes DEF FileInv
    <3>2. \A i \in Numbers \ {0} : i + 1 \in 2 .. Len(sections)
      BY <3>1
    <3> QED
      BY <3>1, <3>2
  <2>3. \A i \in Numbers' : ~ Sec(i)'.fixed
    BY <1>4, <2>1, <2>2
  <2>4. \A s \in DOMAIN segments' : ~ segments'[s].fixed
    BY <1>2, <1>3, <2>1 DEF SameSpan
  <2>5. \A s \in DOMAIN segments' : \A i \in Members(s)' : Sec(i)'.type # "NULL"
    BY <1>3, <1>4, <2>1, <2>2, MembersIs
  <2>6. Fresh' /\ phase' = "order"
    BY <1>1, <1>4, <2>1
  <2> QED
    BY <2>3, <2>4, <2>5, <2>6 DEF AddressInv, Loading
<1>6. ASSUME phase \in {"loaded", "amended"} PROVE AddressInv'
  <2>1. /\ ~ Fresh /\ \A k \in DOMAIN sections : sections[k].fixed
        /\ \A s \in DOMAIN segments : \A i \in Members(s) : Known(Sec(i), segments[s])
    <3>1. ~ Fresh
      BY <1>6, LoadingIs DEF MapInv, AddressInv, Loading
    <3> QED
      BY <1>6, <3>1 DEF MapInv, AddressInv, Loading
  <2>2. ASSUME NEW s \in DOMAIN segments', NEW i \in Members(s)'
        PROVE  Known(Sec(i)', segments'[s])
    <3>1. s \in DOMAIN segments /\ i \in Members(s) /\ Sec(i)' = Sec(i)
      BY <1>3, <1>4, <2>2
    <3>2. Known(Sec(i), segments[s]) /\ SameSpan(segments'[s], segments[s])
      BY <1>2, <2>1, <3>1
    <3>3. Known(Sec(i), segments'[s])
      BY <3>2 DEF Known, SameSpan
    <3> QED
      BY <3>1, <3>3
  <2>3. ~ Fresh' /\ phase' \notin {"edit", "amended"} /\ \A k \in DOMAIN sections' : sections'[k].fixed
    BY <1>1, <1>2, <1>4, <2>1
  <2> QED
    BY <2>2, <2>3 DEF AddressInv
<1>7. AddressInv'
  BY <1>1, <1>5, <1>6
<1>8. SerialInv'
  BY SaveSerial DEF MapInv
<1>9. PlacesInv' /\ FoundInv'
  BY <1>1 DEF PlacesInv, FoundInv, Laid, Loading
<1> QED
  BY <1>7, <1>8, <1>9 DEF MapInv

-----------------------------------------------------------------------------
(* The segment that is laid out, and those that have a place *)

LEMMA DoneIs ==
  ASSUME FileInv, phase \in Laid
  PROVE  \A t \in Done : t \in DOMAIN segments /\ Members(t) \subseteq generated
<1>1. \A s \in DOMAIN segments \ Into(order) : \A j \in DOMAIN segments[s].secs : segments[s].secs[j] \in generated
  BY DEF FileInv, OrderInv, Laid
<1> QED
  BY <1>1 DEF Done, Members, Into

LEMMA HandledIs ==
  ASSUME FileInv, phase = "section"
  PROVE  /\ order # <<>> /\ Head(order) \in DOMAIN segments /\ Current = segments[Head(order)]
         /\ Members(Head(order)) = Into(Current.secs) /\ Head(order) \in Into(order)
         /\ Handled \subseteq Members(Head(order)) /\ Handled \subseteq generated
         /\ at.next > Len(Current.secs) => Handled = Members(Head(order))
<1>1. /\ order # <<>> /\ at.next > 0
      /\ \A j \in 1 .. at.next - 1 : j \in DOMAIN Current.secs => Current.secs[j] \in generated
  BY DEF FileInv, OrderInv
<1>2. /\ Head(order) \in DOMAIN segments /\ Current = segments[Head(order)] /\ Len(Current.secs) \in Nat
      /\ DOMAIN Current.secs = 1 .. Len(Current.secs) /\ at.next \in Nat /\ Head(order) \in Into(order)
  BY <1>1, CurrentIs, Types
<1>3. Members(Head(order)) = Into(Current.secs)
  BY <1>2 DEF Members
<1>4. Handled \subseteq Into(Current.secs)
  BY DEF Handled, Into
<1>5. ASSUME NEW i \in Handled PROVE i \in generated
  <2>1. PICK j \in DOMAIN Current.secs : j < at.next /\ i = Current.secs[j]
    BY <1>5 DEF Handled
  <2>2. j \in 1 .. at.next - 1
    BY <1>2, <2>1
  <2> QED
    BY <1>1, <2>1, <2>2
<1>6. ASSUME at.next > Len(Current.secs) PROVE Into(Current.secs) \subseteq Handled
  <2>1. \A j \in DOMAIN Current.secs : j < at.next
    BY <1>2, <1>6
  <2> QED
    BY <2>1 DEF Handled, Into
<1> QED
  BY <1>1, <1>2, <1>3, <1>4, <1>5, <1>6

LEMMA MoreIs ==
  ASSUME FileInv, SerialInv, HasNext
  PROVE  /\ Index \in Members(Head(order)) /\ Current.secs # <<>>
         /\ \A i \in Handled : i \in Numbers /\ i < Index /\ (BssLast(Current) => HasBytes(Sec(i)))
         /\ at.next + 1 <= Len(Current.secs) /\ BssLast(Current) => HasBytes(Place)
         /\ \A j \in DOMAIN Current.secs : at.next + 1 <= j => at.next <= j /\ Current.secs[j] # Index
<1>1. /\ phase = "section" /\ order # <<>> /\ at.next \in 1 .. Len(Current.secs) /\ Index = Current.secs[at.next]
      /\ Place = Sec(Index)
  BY NextIs
<1>2. /\ Head(order) \in DOMAIN segments /\ Current = segments[Head(order)]
      /\ Members(Head(order)) = Into(Current.secs)
  BY <1>1, HandledIs
<1>3. /\ Len(Current.secs) \in Nat /\ DOMAIN Current.secs = 1 .. Len(Current.secs) /\ at.next \in DOMAIN Current.secs
      /\ Current.secs \in Seq(Nat)
      /\ \A j \in DOMAIN Current.secs : Current.secs[j] \in Numbers
  BY <1>1, CurrentIs
<1>4. Rising(Current.secs)
  BY <1>2 DEF SerialInv
<1>5. ASSUME NEW i \in Handled PROVE i \in Numbers /\ i < Index /\ (BssLast(Current) => HasBytes(Sec(i)))
  <2>1. PICK j \in DOMAIN Current.secs : j < at.next /\ i = Current.secs[j]
    BY <1>5 DEF Handled
  <2> QED
    BY <1>1, <1>3, <1>4, <2>1 DEF Rising, BssLast
<1>6. ASSUME at.next + 1 <= Len(Current.secs), BssLast(Current) PROVE HasBytes(Place)
  <2>1. at.next + 1 \in DOMAIN Current.secs /\ at.next < at.next + 1
    BY <1>3, <1>6
  <2> QED
    BY <1>1, <1>3, <1>6, <2>1 DEF BssLast
<1>7. ASSUME NEW j \in DOMAIN Current.secs, at.next + 1 <= j PROVE at.next <= j /\ Current.secs[j] # Index
  <2>1. at.next < j
    BY <1>3, <1>7
  <2>2. Current.secs[at.next] < Current.secs[j] /\ Current.secs[at.next] \in Nat
    BY <1>3, <1>4, <2>1 DEF Rising
  <2> QED
    BY <1>1, <1>3, <2>1, <2>2
<1>8. Index \in Into(Current.secs) /\ Current.secs # <<>>
  BY <1>1, <1>3 DEF Into
<1> QED
  BY <1>2, <1>5, <1>6, <1>7, <1>8

LEMMA HandledNext ==
  ASSUME FileInv, HasNext, at'.next = at.next + 1, UNCHANGED order,
         segments' \in Seq(SegmentHeader), Len(segments') = Len(segments),
         \A s \in 1 .. Len(segments) : segments'[s].secs = segments[s].secs
  PROVE  /\ Handled' = Handled \cup {Index} /\ Current'.secs = Current.secs /\ Done' = Done
<1>1. /\ phase = "section" /\ order # <<>> /\ at.next \in 1 .. Len(Current.secs) /\ Index = Current.secs[at.next]
  BY NextIs
<1>2. /\ Len(Current.secs) \in Nat /\ DOMAIN Current.secs = 1 .. Len(Current.secs)
      /\ Head(order) \in 1 .. Len(segments) /\ Current = segments[Head(order)]
  BY <1>1, CurrentIs
<1>3. Current'.secs = Current.secs
  BY <1>2 DEF Current
<1>4. \A k \in DOMAIN Current.secs : k < at.next + 1 <=> k < at.next \/ k = at.next
  BY <1>1, <1>2
<1>5. Handled' = {Current.secs[j] : j \in {k \in DOMAIN Current.secs : k < at.next + 1}}
  BY <1>3 DEF Handled
<1>6. Handled' = Handled \cup {Index}
  <2>1. at.next \in DOMAIN Current.secs
    BY <1>1, <1>2
  <2> QED
    BY <1>1, <1>4, <1>5, <2>1 DEF Handled
<1>7. Done' = Done
  BY SameMembers DEF Done
<1> QED
  BY <1>3, <1>6, <1>7

\* A segment that has its place keeps it when its sections do.
LEMMA SameWhole ==
  ASSUME FileInv, Kept, Fresh' <=> Fresh, NEW s \in DOMAIN segments, Whole(s),
         segments'[s] = segments[s], \A i \in Members(s) : Sec(i)' = Sec(i)
  PROVE  Whole(s)'
<1>1. /\ Members(s)' = Members(s) /\ (AllAlloc(Members(s))' <=> AllAlloc(Members(s)))
      /\ (BssLast(segments[s])' <=> BssLast(segments[s]))
  BY KeptMembers
<1>2. InOrder(Members(s))'
  <2>1. InOrder(Members(s))
    BY DEF Whole
  <2> QED
    BY <1>1, <2>1 DEF InOrder, Tied
<1>3. ASSUME BssLast(segments[s])
      PROVE  \E memory \in Int : /\ UpTo(memory, segments'[s].memory)
                               /\ Inside(Members(s), Members(s), segments[s].offset, segments[s].size, memory)'
  <2>1. PICK memory \in Int : /\ UpTo(memory, segments[s].memory)
                             /\ Inside(Members(s), Members(s), segments[s].offset, segments[s].size, memory)
    BY <1>3 DEF Whole
  <2>2. Inside(Members(s), Members(s), segments[s].offset, segments[s].size, memory)'
    BY <1>1, <2>1 DEF Inside
  <2> QED
    BY <2>1, <2>2
<1> QED
  BY <1>1, <1>2, <1>3 DEF Whole

\* Either the sections of a segment all have a place, in an earlier segment, or none has.
LEMMA AllOrNone ==
  ASSUME FileInv, SerialInv, PlacesInv, NestedNow, phase = "segment", order # <<>>
  PROVE  (\E i \in Members(Head(order)) : i \in generated) => Covered
<1>1. SUFFICES ASSUME NEW i \in Members(Head(order)), i \in generated PROVE Covered
  OBVIOUS
<1>2. PICK t \in Done : i \in Members(t)
  BY <1>1 DEF PlacesInv, Owned, Laid
<1>3. Head(order) \in Into(order) /\ Head(order) \in DOMAIN segments
  BY HeadIs
<1>4. t \in DOMAIN segments \ Into(order)
  BY DEF Done
<1>5. /\ ~ Smaller(segments[t].secs, segments[Head(order)].secs)
      /\ Rising(segments[t].secs) /\ Rising(segments[Head(order)].secs)
  BY <1>3, <1>4 DEF SerialInv, Laid
<1>6. CASE Members(Head(order)) \subseteq Members(t)
  BY <1>6 DEF Covered
<1>7. CASE Members(t) \subseteq Members(Head(order))
  <2>1. PICK q \in Seq(Nat) : q = segments[t].secs
    BY <1>4, MembersIs
  <2>2. PICK r \in Seq(Nat) : r = segments[Head(order)].secs
    BY <1>3, MembersIs
  <2>3. Into(q) \subseteq Into(r) /\ ~ (Len(q) < Len(r)) /\ Rising(q) /\ Rising(r)
    BY <1>5, <1>7, <2>1, <2>2 DEF Members, Smaller
  <2>4. Into(r) \subseteq Into(q)
    BY <2>3, RisingSame
  <2> QED
    BY <2>1, <2>2, <2>4 DEF Covered, Members
<1>8. Members(Head(order)) \cap Members(t) # {}
  BY <1>1, <1>2
<1> QED
  BY <1>3, <1>4, <1>6, <1>7, <1>8 DEF NestedNow

-----------------------------------------------------------------------------
(* The places of sections and segments, step by step *)

LEMMA StartSegmentPlaces ==
  ASSUME FileInv, SerialInv, PlacesInv, ~ back, StartSegment
  PROVE  PlacesInv'
<1>1. /\ phase = "segment" /\ order # <<>> /\ phase' = "section"
      /\ UNCHANGED <<sections, segments, todo, order, generated, file>>
      /\ \/ Current.secs = <<>> /\ pos' = pos
         \/ at' = AtOnce(1, 0, pos) /\ pos' = pos
         \/ Current.secs[1] \notin generated /\ pos' = Congruent(Current.align) /\ at' = AtOnce(1, pos', 0)
         \/ Current.secs[1] \in generated /\ at' = AtOnce(1, Sec(Current.secs[1]).offset, 0) /\ pos' = pos
  BY DEF StartSegment
<1>2. pos \in Nat /\ pos' \in Nat /\ pos <= pos'
  <2>1. pos \in Nat
    BY <1>1, PosIs
  <2>2. Current.vaddr \in Nat /\ Current.align \in Nat
    BY <1>1, CurrentIs
  <2>3. Congruent(Current.align) \in Int /\ pos <= Congruent(Current.align)
    BY <2>1, <2>2, CongruentIs
  <2>4. PICK c \in Int : c = Congruent(Current.align) /\ pos <= c
    BY <2>3
  <2> QED
    BY <1>1, <2>1, <2>4
<1>3. generated \subseteq Numbers /\ BeforePos /\ Owned
  BY <1>1 DEF PlacesInv, Laid
<1>4. /\ Kept /\ (Fresh' <=> Fresh) /\ Done' = Done /\ (NestedNow' <=> NestedNow)
      /\ \A s : Members(s)' = Members(s)
      /\ \A i : Sec(i)' = Sec(i)
  <2>1. Kept
    BY <1>1, UnchangedKept
  <2> QED
    BY <1>1, <2>1, KeptMembers DEF Fresh, Done, Members, Sec
<1>5. generated' \subseteq Numbers' /\ BeforePos' /\ Owned'
  <2>1. \A i \in generated : Sec(i) \in Header /\ Sec(i).offset \in Int /\ Sec(i).size \in Nat
    BY <1>3, SectionTypes, HeaderFields DEF FileInv
  <2>2. BeforePos'
    <3>1. SUFFICES ASSUME NEW i \in generated, Sec(i).type # "NULL"
                   PROVE  0 <= Sec(i).offset /\ Sec(i).offset <= pos' /\ (HasBytes(Sec(i)) => Sec(i).offset + Sec(i).size <= pos')
      BY <1>1, <1>4 DEF BeforePos
    <3>2. 0 <= Sec(i).offset /\ Sec(i).offset <= pos /\ (HasBytes(Sec(i)) => Sec(i).offset + Sec(i).size <= pos)
      BY <1>3, <3>1 DEF BeforePos
    <3> QED
      BY <1>2, <2>1, <3>2
  <2>3. Owned'
    BY <1>1, <1>3, <1>4 DEF Owned
  <2>4. Numbers' = Numbers
    BY <1>1 DEF Numbers
  <2> QED
    BY <1>1, <1>3, <2>2, <2>3, <2>4
<1>6. ASSUME NestedNow PROVE \A s \in Done : Whole(s)'
  <2>1. \A s \in Done : Whole(s) /\ s \in DOMAIN segments
    BY <1>1, <1>6, DoneIs DEF PlacesInv, Laid
  <2> QED
    BY <1>1, <1>4, <2>1, SameWhole
<1>7. ASSUME NestedNow, Current.secs # <<>> PROVE Underway'
  <2>1. /\ Current' = Current /\ Head(order)' = Head(order) /\ Members(Head(order))' = Members(Head(order))
        /\ Head(order) \in DOMAIN segments /\ Members(Head(order)) = Into(Current.secs)
        /\ Len(Current.secs) \in Nat /\ Current.secs \in Seq(Nat)
        /\ DOMAIN Current.secs = 1 .. Len(Current.secs) /\ 1 \in DOMAIN Current.secs
        /\ \A j \in DOMAIN Current.secs : Current.secs[j] \in Numbers
    <3>1. /\ Head(order) \in DOMAIN segments /\ Current = segments[Head(order)] /\ Current.secs \in Seq(Nat)
          /\ Len(Current.secs) \in Nat /\ DOMAIN Current.secs = 1 .. Len(Current.secs)
          /\ \A j \in DOMAIN Current.secs : Current.secs[j] \in Numbers
      BY <1>1, CurrentIs
    <3>2. Current' = Current /\ Head(order)' = Head(order) /\ Members(Head(order))' = Members(Head(order))
      BY <1>1 DEF Current, Members
    <3> QED
      BY <1>7, <3>1, <3>2 DEF Members
  <2>2. PICK start \in Int, size \in Int :
           /\ at' = AtOnce(1, start, size)
           /\ \/ start = 0 /\ size = pos /\ pos' = pos
              \/ Current.secs[1] \notin generated /\ start = pos' /\ size = 0
              \/ Current.secs[1] \in generated /\ start = Sec(Current.secs[1]).offset /\ size = 0
    <3>1. Sec(Current.secs[1]).offset \in Int
      BY <2>1, SectionTypes, HeaderFields DEF FileInv
    <3> QED
      BY <1>1, <1>2, <1>7, <3>1
  <2>3. at'.next = 1 /\ at'.start = start /\ at'.size = size /\ at'.memory = size
    BY <2>2 DEF AtOnce
  <2>4. Handled' = {}
    <3>1. \A k \in DOMAIN Current.secs : ~ (k < 1)
      BY <2>1
    <3> QED
      BY <2>1, <2>3, <3>1 DEF Handled
  <2>5. (\E i \in Members(Head(order)) : i \in generated) => Covered
    BY <1>1, <1>7, AllOrNone
  <2>6. Covered' <=> Covered
    BY <1>4, <2>1 DEF Covered
  <2>7. New' \/ Covered'
    <3>1. SUFFICES ASSUME ~ Covered PROVE New'
      BY <2>6
    <3>2. \A j \in DOMAIN Current.secs : Current.secs[j] \notin generated
      BY <2>1, <2>5, <3>1 DEF Into
    <3>3. start <= pos' /\ size = pos' - start
      <4>1. Current.secs[1] \notin generated
        BY <2>1, <3>2
      <4>2. (start = 0 /\ size = pos /\ pos' = pos) \/ (start = pos' /\ size = 0)
        BY <2>2, <4>1
      <4>3. CASE start = 0 /\ size = pos /\ pos' = pos
        <5>1. PICK p \in Nat : p = pos
          BY <1>2
        <5>2. start <= p /\ size = p - start
          BY <4>3, <5>1
        <5> QED
          BY <4>3, <5>1, <5>2
      <4>4. CASE start = pos' /\ size = 0
        <5>1. PICK p \in Nat : p = pos'
          BY <1>2
        <5>2. start = p /\ size = 0
          BY <4>4, <5>1
        <5>3. start <= p
          BY <5>2
        <5>4. size = p - start
          BY <5>2
        <5> QED
          BY <5>1, <5>3, <5>4
      <4> QED
        BY <4>2, <4>3, <4>4
    <3>4. InOrder(Handled)'
      BY <2>4 DEF InOrder
    <3> QED
      BY <1>1, <2>1, <2>3, <2>4, <3>2, <3>3, <3>4 DEF New
  <2>8. ASSUME BssLast(Current), Covered, NEW i \in Members(Head(order)), Sec(i).type # "NULL"
        PROVE  start <= Sec(i).offset
    <3>1. PICK t \in Done : Members(Head(order)) \subseteq Members(t)
      BY <2>8 DEF Covered
    <3>2. Members(t) \subseteq generated /\ Whole(t)
      BY <1>1, <1>7, DoneIs DEF PlacesInv, Laid
    <3>3. i \in generated /\ Current.secs[1] \in generated /\ Current.secs[1] \in Members(t) /\ i \in Members(t)
      BY <2>1, <2>8, <3>1, <3>2 DEF Into
    <3>4. CASE start = 0
      BY <1>3, <2>8, <3>3, <3>4 DEF BeforePos
    <3>5. CASE start = Sec(Current.secs[1]).offset
      <4>1. PICK j \in DOMAIN Current.secs : i = Current.secs[j]
        BY <2>1, <2>8 DEF Into
      <4>2. CASE j = 1
        <5>1. Sec(i).offset \in Int
          BY <2>1, <4>1, SectionTypes, HeaderFields DEF FileInv
        <5> QED
          BY <3>5, <4>1, <4>2, <5>1
      <4>3. CASE j # 1
        <5>1. 1 < j
          BY <2>1, <4>1, <4>3
        <5>2. Current.secs[1] < i /\ HasBytes(Sec(Current.secs[1]))
          <6>1. Rising(Current.secs)
            BY <1>1, <2>1, CurrentIs DEF SerialInv
          <6> QED
            BY <2>1, <2>8, <4>1, <5>1, <6>1 DEF Rising, BssLast
        <5>3. Sec(Current.secs[1]).type # "NULL"
          BY <5>2 DEF HasBytes
        <5>4. InOrder(Members(t))
          BY <3>2 DEF Whole
        <5> QED
          BY <2>8, <3>3, <3>5, <5>2, <5>3, <5>4 DEF InOrder
      <4> QED
        BY <4>2, <4>3
    <3> QED
      BY <2>2, <3>3, <3>4, <3>5
  <2>9. BssLast(Current)' <=> BssLast(Current)
    BY <1>4, <2>1 DEF BssLast
  <2>10. Inside(Handled, Members(Head(order)), at.start, at.size, at.memory)'
    BY <2>4 DEF Inside
  <2> QED
    BY <1>4, <2>1, <2>3, <2>6, <2>7, <2>8, <2>9, <2>10 DEF Underway
<1>8. Current'.secs = Current.secs
  BY <1>1 DEF Current
<1> QED
  BY <1>4, <1>5, <1>6, <1>7, <1>8 DEF PlacesInv

\* The section that is next in the segment is placed or counted.
LEMMA PlacedNext ==
  ASSUME FileInv, SerialInv, PlacesInv, HasNext, phase' = phase, UNCHANGED <<segments, order, file>>, Kept,
         at'.next = at.next + 1, generated' = generated \cup {Index}, pos' \in Int, pos <= pos',
         \A i \in generated : Sec(i)' = Sec(i),
         \A i : i = Index /\ Sec(i)'.type # "NULL" =>
           0 <= Sec(i)'.offset /\ Sec(i)'.offset <= pos' /\ (HasBytes(Sec(i))' => Sec(i)'.offset + Sec(i)'.size <= pos'),
         NestedNow => Underway'
  PROVE  PlacesInv'
<1>1. phase = "section" /\ Index \in Numbers
  BY NextIs
<1>2. generated \subseteq Numbers /\ BeforePos /\ Owned /\ Numbers' = Numbers
  BY <1>1 DEF PlacesInv, Laid, Kept
<1>3. Handled' = Handled \cup {Index} /\ Done' = Done
  BY HandledNext DEF Kept, SegmentKept
<1>4. BeforePos'
  <2>1. SUFFICES ASSUME NEW i \in generated', Sec(i)'.type # "NULL"
                 PROVE  /\ 0 <= Sec(i)'.offset /\ Sec(i)'.offset <= pos'
                        /\ (HasBytes(Sec(i))' => Sec(i)'.offset + Sec(i)'.size <= pos')
    BY DEF BeforePos
  <2>2. CASE i = Index
    BY <2>1, <2>2
  <2>3. CASE i \in generated
    <3>1. Sec(i)' = Sec(i) /\ (HasBytes(Sec(i))' <=> HasBytes(Sec(i)))
      BY <2>3 DEF HasBytes
    <3>2. 0 <= Sec(i).offset /\ Sec(i).offset <= pos /\ (HasBytes(Sec(i)) => Sec(i).offset + Sec(i).size <= pos)
      BY <1>2, <2>1, <2>3, <3>1 DEF BeforePos
    <3>3. pos \in Int /\ Sec(i).offset \in Int /\ Sec(i).size \in Nat
      BY <1>2, <2>3, SectionTypes, HeaderFields, Types DEF FileInv
    <3> QED
      BY <3>1, <3>2, <3>3
  <2> QED
    BY <2>1, <2>2, <2>3
<1>5. Owned'
  <2>1. \A t : Members(t)' = Members(t)
    BY DEF Members
  <2> QED
    BY <1>1, <1>2, <1>3, <2>1 DEF Owned
<1>6. ASSUME NestedNow PROVE \A s \in Done : Whole(s)'
  <2>1. \A s \in Done : Whole(s) /\ s \in DOMAIN segments /\ Members(s) \subseteq generated
    BY <1>1, <1>6, DoneIs DEF PlacesInv, Laid
  <2>2. Fresh' <=> Fresh
    BY DEF Fresh
  <2> QED
    BY <2>1, <2>2, SameWhole
<1>7. NestedNow' <=> NestedNow
  BY KeptMembers
<1>8. generated' \subseteq Numbers'
  BY <1>1, <1>2
<1> QED
  BY <1>3, <1>4, <1>5, <1>6, <1>7, <1>8 DEF PlacesInv

\* The segment of a section that has no place is new.
LEMMA NewIs ==
  ASSUME FileInv, SerialInv, PlacesInv, HasNext, NestedNow
  PROVE  /\ Underway
         /\ Index \notin generated => New /\ ~ Covered
         /\ Index \in generated => Covered
<1>1. phase = "section" /\ at.next \in 1 .. Len(Current.secs) /\ Index = Current.secs[at.next]
  BY NextIs
<1>2. Current.secs # <<>> /\ Index \in Members(Head(order))
  BY MoreIs
<1>3. Underway
  BY <1>1, <1>2 DEF PlacesInv, Laid
<1>4. Covered => Index \in generated
  BY <1>1, <1>2, DoneIs DEF Covered, Laid
<1>5. New => Index \notin generated
  <2>1. at.next \in 1 .. Len(Current.secs) /\ order # <<>>
    BY NextIs
  <2>2. DOMAIN Current.secs = 1 .. Len(Current.secs) /\ Len(Current.secs) \in Nat
    BY <1>1, <2>1, CurrentIs
  <2>3. at.next \in DOMAIN Current.secs /\ at.next <= at.next
    BY <2>1, <2>2
  <2> QED
    BY <1>1, <2>3 DEF New
<1> QED
  BY <1>3, <1>4, <1>5 DEF Underway

\* What the step leaves of the segment that is laid out
LEMMA UnderwayNext ==
  ASSUME FileInv, SerialInv, HasNext, UNCHANGED <<segments, order, file>>, Kept, at'.next = at.next + 1
  PROVE  /\ Current' = Current /\ Head(order)' = Head(order) /\ Members(Head(order))' = Members(Head(order))
         /\ (Covered' <=> Covered) /\ (Fresh' <=> Fresh) /\ Handled' = Handled \cup {Index}
         /\ (BssLast(Current)' <=> BssLast(Current))
         /\ (AllAlloc(Members(Head(order)))' <=> AllAlloc(Members(Head(order))))
         /\ \A i \in Members(Head(order)) : i \in Numbers /\ SectionKept(Sec(i), Sec(i)')
<1>1. Handled' = Handled \cup {Index} /\ Done' = Done
  BY HandledNext DEF Kept, SegmentKept
<1>2. Current' = Current /\ Head(order)' = Head(order) /\ Members(Head(order))' = Members(Head(order))
  BY DEF Current, Members
<1>3. Covered' <=> Covered
  BY <1>1, <1>2 DEF Covered, Members
<1>4. Fresh' <=> Fresh
  BY DEF Fresh
<1>5. Head(order) \in DOMAIN segments /\ Current = segments[Head(order)]
  BY NextIs, HandledIs
<1>6. PICK s \in DOMAIN segments : s = Head(order)
  BY <1>5
<1>7. /\ BssLast(segments[s])' <=> BssLast(segments[s])
      /\ AllAlloc(Members(s))' <=> AllAlloc(Members(s))
      /\ Members(s) \subseteq Numbers
  BY KeptMembers, MembersIs
<1>8. BssLast(Current)' <=> BssLast(Current)
  BY <1>2, <1>5, <1>6, <1>7
<1>9. AllAlloc(Members(Head(order)))' <=> AllAlloc(Members(Head(order)))
  BY <1>2, <1>6, <1>7
<1>10. \A i \in Members(Head(order)) : i \in Numbers /\ SectionKept(Sec(i), Sec(i)')
  BY <1>6, <1>7 DEF Kept
<1> QED
  BY <1>1, <1>2, <1>3, <1>4, <1>8, <1>9, <1>10

LEMMA PlaceNullPlaces ==
  ASSUME FileInv, SerialInv, AddressInv, PlacesInv, PlaceNull
  PROVE  PlacesInv'
<1>1. /\ HasNext /\ Place.type = "NULL" /\ at' = [at EXCEPT !.next = Stepped]
      /\ generated' = generated \cup {Index}
      /\ UNCHANGED <<sections, segments, phase, pos, order, file>>
  BY DEF PlaceNull
<1>2. phase = "section" /\ Place = Sec(Index) /\ pos \in Int
  BY <1>1, NextIs, Types
<1>3. /\ at'.next = at.next + 1 /\ at'.start = at.start /\ at'.size = at.size /\ at'.memory = at.memory
  BY SMTT(30), <1>1, Types DEF Stepped
<1>4. Kept /\ \A i : Sec(i)' = Sec(i)
  BY <1>1, UnchangedKept DEF Sec
<1>5. \A i : i = Index => Sec(i)'.type = "NULL"
  BY <1>1, <1>2, <1>4
<1>6. Index \in Members(Head(order)) /\ Head(order) \in DOMAIN segments
  BY <1>1, <1>2, MoreIs, HandledIs
<1>7. ~ Fresh
  BY <1>1, <1>2, <1>6 DEF AddressInv, LayoutPhases
<1>8. ASSUME NestedNow PROVE Underway'
  <2>1. /\ Current' = Current /\ Head(order)' = Head(order) /\ Members(Head(order))' = Members(Head(order))
        /\ (Covered' <=> Covered) /\ (Fresh' <=> Fresh) /\ Handled' = Handled \cup {Index}
        /\ (BssLast(Current)' <=> BssLast(Current))
    BY <1>1, <1>3, <1>4, UnderwayNext
  <2>8. AllAlloc(Members(Head(order)))' <=> AllAlloc(Members(Head(order)))
    BY <1>1, <1>3, <1>4, UnderwayNext
  <2>2. Underway /\ (Index \notin generated => New)
    BY <1>1, <1>8, NewIs
  <2>3. ~ HasBytes(Place) /\ \A i : i = Index => Sec(i)' = Place
    BY <1>1, <1>2, <1>4 DEF HasBytes
  <2>7. \A i \in Handled' : (Tied(i)' <=> Tied(i)) /\ (Tied(i) => i \in Handled)
    BY <1>1, <1>2, <1>4, <1>7, <2>1, <2>3 DEF Tied, Fresh, Filled, HasBytes
  <2>4. ASSUME New PROVE New'
    <3>1. \A j \in DOMAIN Current.secs : at.next + 1 <= j => Current.secs[j] \notin generated'
      BY <1>1, <2>4, MoreIs DEF New
    <3>2. InOrder(Handled)'
      <4>1. InOrder(Handled)
        BY <2>4 DEF New
      <4>2. \A i, j \in Handled' : Sec(i)'.type # "NULL" /\ Sec(j)'.type # "NULL" => i \in Handled /\ j \in Handled
        BY <1>5, <2>1
      <4> QED
        BY <1>4, <2>1, <2>7, <4>1, <4>2 DEF InOrder, HasBytes
    <3>3. ~ (BssLast(Current) /\ at.next + 1 <= Len(Current.secs))
      BY <1>1, <2>3, MoreIs
    <3> QED
      BY <1>1, <1>3, <1>4, <2>1, <2>4, <2>7, <3>1, <3>2, <3>3 DEF New
  <2>5. ASSUME BssLast(Current) PROVE Inside(Handled, Members(Head(order)), at.start, at.size, at.memory)'
    <3>1. Inside(Handled, Members(Head(order)), at.start, at.size, at.memory)
      BY <2>2, <2>5 DEF Underway
    <3>2. \A i \in Handled' : HasBytes(Sec(i))' => i \in Handled /\ HasBytes(Sec(i))
      BY <1>4, <1>5, <2>1 DEF HasBytes
    <3>3. \A i \in Handled' : InMemory(Sec(i))' => i \in Handled /\ InMemory(Sec(i))
      BY <1>4, <1>5, <2>1 DEF InMemory
    <3> QED
      BY <1>3, <1>4, <2>1, <2>8, <3>1, <3>2, <3>3 DEF Inside
  <2>6. ASSUME BssLast(Current), Covered, NEW i \in Members(Head(order)), Sec(i)'.type # "NULL"
        PROVE  at'.start <= Sec(i)'.offset
    BY <1>3, <1>4, <2>2, <2>6 DEF Underway
  <2>9. ~ (BssLast(Current) /\ at'.next <= Len(Current.secs))
    BY <1>1, <1>3, <2>3, MoreIs
  <2> QED
    BY <2>1, <2>2, <2>4, <2>5, <2>6, <2>9 DEF Underway
<1> QED
  BY <1>1, <1>2, <1>3, <1>4, <1>5, <1>8, PlacedNext

LEMMA CountedHas ==
  ASSUME FileInv, HasNext, NEW gap \in Int, at' = Counted(gap)
  PROVE  /\ at'.next = at.next + 1 /\ at'.start = at.start
         /\ at'.memory = IF TakesMemory(Place) THEN at.memory + (Place.size + gap) ELSE at.memory
         /\ at'.size = IF Place.type # "NOBITS" THEN at.size + (Place.size + gap) ELSE at.size
<1>1. /\ at \in [next : Nat, start : Int, memory : Int, size : Int]
      /\ at.next \in Nat /\ at.memory \in Int /\ at.size \in Int
  BY Types
<1>2. Place.size \in Nat
  BY NextIs, HeaderFields
<1>3. PICK m \in Int : m = IF TakesMemory(Place) THEN at.memory + (Place.size + gap) ELSE at.memory
  BY <1>1, <1>2
<1>4. PICK z \in Int : z = IF Place.type # "NOBITS" THEN at.size + (Place.size + gap) ELSE at.size
  BY <1>1, <1>2
<1>5. PICK n \in Nat : n = at.next + 1
  BY <1>1
<1>6. at' = [at EXCEPT !.next = n, !.memory = m, !.size = z]
  BY <1>3, <1>4, <1>5 DEF Counted, Stepped
<1>7. PICK a \in [next : Nat, start : Int, memory : Int, size : Int] : a = at
  BY <1>1
<1>8. PICK b : b = [a EXCEPT !.next = n, !.memory = m, !.size = z]
  OBVIOUS
<1>9. b.next = n /\ b.start = a.start /\ b.memory = m /\ b.size = z
  BY <1>8
<1> QED
  BY <1>3, <1>4, <1>5, <1>6, <1>7, <1>8, <1>9

LEMMA Takes ==
  ASSUME NEW sec
  PROVE  /\ sec.alloc /\ InMemory(sec) => TakesMemory(sec)
         /\ HasBytes(sec) => sec.type # "NOBITS" /\ sec.type # "NULL" /\ InMemory(sec)
BY DEF InMemory, TakesMemory, HasBytes

\* A section is placed, in a new segment.
LEMMA GenerateUnderway ==
  ASSUME FileInv, SerialInv, AddressInv, PlacesInv, HasNext, NestedNow, Index \notin generated,
         Place.type # "NULL", NEW gap \in Nat, Generate(gap),
         ~ Fresh /\ Filled(Place) => gap = Requested - Passed, pos \in Nat
  PROVE  Underway'
<1>1. /\ at' = Counted(gap) /\ generated' = generated \cup {Index}
      /\ pos' = pos + gap + (IF Place.type # "NOBITS" THEN Place.size ELSE 0)
      /\ UNCHANGED <<segments, phase, order, file>>
  BY DEF Generate
<1>2. /\ phase = "section" /\ order # <<>> /\ Index \in Numbers /\ Place = Sec(Index) /\ Place \in Header
      /\ at.next <= Len(Current.secs)
  BY NextIs DEF HasNext
<1>3. /\ at'.next = at.next + 1 /\ at'.start = at.start
      /\ at'.memory = IF TakesMemory(Place) THEN at.memory + (Place.size + gap) ELSE at.memory
      /\ at'.size = IF Place.type # "NOBITS" THEN at.size + (Place.size + gap) ELSE at.size
  BY <1>1, CountedHas
<1>4. Kept
  BY GeneratedIs
<1>5. PICK sec \in Header :
        /\ \A i : i = Index => sec = Sec(i)' 
        /\ SectionKept(Place, sec) /\ sec.offset = pos + gap
        /\ ~ Place.fixed => sec.address = Current.vaddr + (pos + gap) - at.start
  <2>1. PICK n \in Numbers : n = Index
    BY <1>2
  <2>2. /\ Sec(n)'.offset = pos + gap /\ SectionKept(Sec(n), Sec(n)')
        /\ ~ Place.fixed => Sec(n)'.address = Current.vaddr + (pos + gap) - at.start
    BY <2>1, GeneratedIs DEF Kept
  <2>3. Sec(n)' \in Header
    <3>1. sections' \in Seq(Header) /\ Len(sections') = Len(sections)
      BY <1>4 DEF Kept
    <3>2. n + 1 \in 1 .. Len(sections)
      BY SectionTypes DEF FileInv
    <3> QED
      BY <3>1, <3>2 DEF Sec
  <2> QED
    BY <1>2, <2>1, <2>2, <2>3
<1>6. /\ Current' = Current /\ Head(order)' = Head(order) /\ Members(Head(order))' = Members(Head(order))
      /\ (Covered' <=> Covered) /\ (Fresh' <=> Fresh) /\ Handled' = Handled \cup {Index}
      /\ (BssLast(Current)' <=> BssLast(Current))
      /\ (AllAlloc(Members(Head(order)))' <=> AllAlloc(Members(Head(order))))
      /\ \A i \in Members(Head(order)) : i \in Numbers /\ SectionKept(Sec(i), Sec(i)')
  BY <1>1, <1>3, <1>4, UnderwayNext
<1>7. Underway /\ New /\ ~ Covered
  BY NewIs
<1>8. PICK p \in Nat, start \in Int, size \in Int, memory \in Int, n \in Nat, o \in Nat, q \in Nat :
        /\ p = pos /\ start = at.start /\ size = at.size /\ memory = at.memory /\ n = Place.size
        /\ o = p + gap /\ q = pos' /\ q = o + (IF Place.type # "NOBITS" THEN n ELSE 0)
        /\ start <= p
  <2>1. /\ at.start \in Int /\ at.size \in Int /\ at.memory \in Int /\ Place.size \in Nat
        /\ at.start <= pos
    BY <1>2, <1>7, Types, HeaderFields DEF New
  <2>2. /\ pos + gap \in Nat /\ pos' \in Nat
        /\ pos' = (pos + gap) + (IF Place.type # "NOBITS" THEN Place.size ELSE 0)
    BY <1>1, <2>1
  <2> QED
    BY <2>1, <2>2
<1>9. /\ sec.offset = o /\ sec.size = n /\ sec.type = Place.type /\ sec.alloc = Place.alloc /\ sec.tls = Place.tls
      /\ (HasBytes(sec) <=> HasBytes(Place)) /\ (InMemory(sec) <=> InMemory(Place))
  BY <1>5, <1>8 DEF SectionKept, HasBytes, InMemory
<1>10. \A i \in Handled : /\ i # Index /\ Sec(i)' = Sec(i) /\ i < Index /\ i \in generated /\ i \in Numbers
                          /\ i \in Members(Head(order)) /\ Sec(i).offset \in Int /\ Sec(i).size \in Nat
                          /\ (BssLast(Current) => HasBytes(Sec(i)))
  <2> SUFFICES ASSUME NEW i \in Handled
               PROVE  /\ i # Index /\ Sec(i)' = Sec(i) /\ i < Index /\ i \in generated /\ i \in Numbers
                      /\ i \in Members(Head(order)) /\ Sec(i).offset \in Int /\ Sec(i).size \in Nat
                      /\ (BssLast(Current) => HasBytes(Sec(i)))
    OBVIOUS
  <2>1. i \in generated /\ i \in Members(Head(order))
    BY <1>2, HandledIs
  <2>2. i # Index
    BY <2>1
  <2>3. i \in Numbers /\ i < Index /\ (BssLast(Current) => HasBytes(Sec(i)))
    BY MoreIs
  <2>4. Sec(i)' = Sec(i)
    BY <2>2, <2>3, GeneratedIs
  <2>5. Sec(i).offset \in Int /\ Sec(i).size \in Nat
    BY <2>3, SectionTypes, HeaderFields DEF FileInv
  <2> QED
    BY <2>1, <2>2, <2>3, <2>4, <2>5
<1>14. Current.vaddr \in Nat /\ Place.address \in Int /\ sec.address \in Int
  BY <1>2, CurrentIs, HeaderFields
<1>11. ASSUME Fresh \/ Filled(Place)
       PROVE  sec.address - sec.offset = Current.vaddr - start
  <2>1. CASE Fresh
    <3>1. ~ Place.fixed
      BY <1>2, <2>1 DEF AddressInv, LayoutPhases
    <3>2. sec.address = Current.vaddr + o - start
      BY <1>5, <1>8, <3>1
    <3> QED
      BY <1>8, <1>9, <1>14, <3>2
  <2>2. CASE ~ Fresh
    <3>1. Filled(Place)
      BY <1>11, <2>2
    <3>2. Place.fixed
      <4>1. \A k \in DOMAIN sections : sections[k].fixed
        BY <1>2, <2>2 DEF AddressInv, LayoutPhases
      <4>2. Index + 1 \in DOMAIN sections /\ Place = sections[Index + 1]
        BY NextIs, SectionTypes DEF FileInv
      <4> QED
        BY <4>1, <4>2
    <3>3. sec.address = Place.address
      BY <1>5, <3>2 DEF SectionKept
    <3>4. gap = (Place.address - Current.vaddr) - (p - start)
      BY <1>8, <2>2, <3>1 DEF Requested, Passed
    <3>5. o = p + gap
      BY <1>8
    <3> QED
      BY <1>8, <1>9, <1>14, <3>3, <3>4, <3>5
  <2> QED
    BY <2>1, <2>2
<1>15. \A i \in Handled' : (i = Index => (Tied(i)' <=> Fresh \/ Filled(Place))) /\ (i \in Handled => (Tied(i)' <=> Tied(i)))
  <2>1. Filled(sec) <=> Filled(Place)
    BY <1>8, <1>9 DEF Filled
  <2>2. \A i : i = Index => (Tied(i)' <=> Fresh \/ Filled(sec))
    BY <1>5, <1>6 DEF Tied
  <2>3. \A i \in Handled : Tied(i)' <=> Tied(i)
    BY <1>6, <1>10 DEF Tied
  <2> QED
    BY <2>1, <2>2, <2>3
<1>12. New'
  <2>1. \A j \in DOMAIN Current.secs : at.next + 1 <= j => Current.secs[j] \notin generated'
    BY <1>1, <1>7, MoreIs DEF New
  <2>2. start <= q
    BY <1>8
  <2>3. ASSUME NEW i \in Handled', Tied(i)' PROVE Sec(i)'.address - Sec(i)'.offset = Current.vaddr - start
    <3>1. CASE i = Index
      BY <1>5, <1>11, <1>15, <2>3, <3>1
    <3>2. CASE i \in Handled
      BY <1>7, <1>8, <1>10, <1>15, <2>3, <3>2 DEF New
    <3> QED
      BY <1>6, <2>3, <3>1, <3>2
  <2>4. InOrder(Handled)'
    <3>1. ASSUME NEW i \in Handled', NEW j \in Handled', i < j, Sec(i)'.type # "NULL", Sec(j)'.type # "NULL"
          PROVE  /\ Sec(i)'.offset <= Sec(j)'.offset
                 /\ HasBytes(Sec(i))' => Sec(i)'.offset + Sec(i)'.size <= Sec(j)'.offset
      <4>1. CASE i \in Handled /\ j \in Handled
        <5>1. InOrder(Handled) /\ Sec(i)' = Sec(i) /\ Sec(j)' = Sec(j)
          BY <1>7, <1>10, <4>1 DEF New
        <5> QED
          BY <3>1, <4>1, <5>1 DEF InOrder, HasBytes
      <4>2. CASE i \in Handled /\ j = Index
        <5>1. Sec(i)' = Sec(i) /\ i \in generated /\ Sec(i).offset \in Int /\ Sec(i).size \in Nat
          BY <1>10, <4>2
        <5>2. Sec(i).offset <= p /\ (HasBytes(Sec(i)) => Sec(i).offset + Sec(i).size <= p)
          BY <1>2, <1>8, <3>1, <5>1 DEF PlacesInv, Laid, BeforePos
        <5>3. Sec(j)'.offset = o /\ p <= o
          BY <1>5, <1>8, <1>9, <4>2
        <5>4. HasBytes(Sec(i))' => HasBytes(Sec(i))
          BY <5>1 DEF HasBytes
        <5> QED
          BY <1>8, <5>1, <5>2, <5>3, <5>4
      <4>3. CASE i = Index
        <5>1. Index \in Nat /\ (j \in Handled => j < Index /\ j \in Numbers)
          BY <1>2, <1>10, NextIs
        <5>2. j \in Handled => j \in Nat
          BY <5>1, SectionTypes DEF FileInv
        <5> QED
          BY <1>6, <3>1, <4>3, <5>1, <5>2
      <4> QED
        BY <1>6, <3>1, <4>1, <4>2, <4>3
    <3>2. ASSUME NEW i \in Handled', NEW j \in Handled', Tied(i)', Tied(j)'
          PROVE  Sec(i)'.address - Sec(i)'.offset = Sec(j)'.address - Sec(j)'.offset
      BY <2>3, <3>2
    <3> QED
      BY <1>6, <3>1, <3>2 DEF InOrder
  <2>5. ASSUME BssLast(Current), at.next + 1 <= Len(Current.secs)
        PROVE  at'.size = q - start
    <3>1. size = p - start
      BY <1>2, <1>7, <1>8, <2>5 DEF New
    <3>2. Place.type # "NOBITS"
      BY <2>5, MoreIs, Takes
    <3>3. at'.size = size + (n + gap) /\ q = o + n
      BY <1>3, <1>8, <3>2
    <3> QED
      BY <1>8, <3>1, <3>3
  <2> QED
    BY <1>3, <1>6, <1>8, <2>1, <2>2, <2>3, <2>4, <2>5 DEF New
<1>13. ASSUME BssLast(Current)
       PROVE  /\ Inside(Handled, Members(Head(order)), at.start, at.size, at.memory)'
              /\ AllAlloc(Members(Head(order))) /\ at'.next <= Len(Current.secs) => at'.memory = at'.size
  <2>1. /\ Inside(Handled, Members(Head(order)), start, size, memory)
        /\ AllAlloc(Members(Head(order))) => memory = size
    BY <1>2, <1>7, <1>8, <1>13 DEF Underway
  <2>2. size = p - start
    BY <1>2, <1>7, <1>8, <1>13 DEF New
  <2>3. PICK z \in Int, m \in Int :
          /\ z = at'.size /\ m = at'.memory
          /\ z = IF Place.type # "NOBITS" THEN size + (n + gap) ELSE size
          /\ m = IF TakesMemory(Place) THEN memory + (n + gap) ELSE memory
    BY <1>3, <1>8
  <2>4. size <= z /\ memory <= m
    BY <1>8, <2>3
  <2>5. ASSUME NEW i \in Handled', HasBytes(Sec(i))'
        PROVE  start <= Sec(i)'.offset /\ Sec(i)'.offset + Sec(i)'.size <= start + z
    <3>1. CASE i = Index
      <4>1. HasBytes(sec) /\ Sec(i)' = sec
        BY <1>5, <2>5, <3>1 DEF HasBytes
      <4>2. z = size + (n + gap)
        BY <1>9, <2>3, <4>1, Takes
      <4> QED
        BY <1>8, <1>9, <2>2, <4>1, <4>2
    <3>2. CASE i \in Handled
      <4>1. Sec(i)' = Sec(i) /\ Sec(i).offset \in Int /\ Sec(i).size \in Nat
        BY <1>10, <3>2
      <4>2. start <= Sec(i).offset /\ Sec(i).offset + Sec(i).size <= start + size
        BY <2>1, <2>5, <3>2, <4>1 DEF Inside, HasBytes
      <4> QED
        BY <1>8, <2>3, <2>4, <4>1, <4>2
    <3> QED
      BY <1>6, <2>5, <3>1, <3>2
  <2>6. ASSUME AllAlloc(Members(Head(order))), NEW i \in Handled', InMemory(Sec(i))'
        PROVE  start <= Sec(i)'.offset /\ Sec(i)'.offset + Sec(i)'.size <= start + m
    <3>1. CASE i = Index
      <4>1. InMemory(sec) /\ Sec(i)' = sec
        BY <1>5, <2>6, <3>1 DEF InMemory
      <4>2. Place.alloc
        BY <1>2, <2>6, MoreIs DEF AllAlloc
      <4>3. m = memory + (n + gap) /\ memory = size
        BY <1>9, <2>1, <2>3, <2>6, <4>1, <4>2, Takes
      <4> QED
        BY <1>8, <1>9, <2>2, <4>1, <4>3
    <3>2. CASE i \in Handled
      <4>1. Sec(i)' = Sec(i) /\ Sec(i).offset \in Int /\ Sec(i).size \in Nat
        BY <1>10, <3>2
      <4>2. start <= Sec(i).offset /\ Sec(i).offset + Sec(i).size <= start + memory
        BY <2>1, <2>6, <3>2, <4>1 DEF Inside, InMemory
      <4> QED
        BY <1>8, <2>3, <2>4, <4>1, <4>2
    <3> QED
      BY <1>6, <2>6, <3>1, <3>2
  <2>7. ASSUME AllAlloc(Members(Head(order))), at'.next <= Len(Current.secs)
        PROVE  m = z
    <3>1. HasBytes(Place) /\ Place.alloc
      BY <1>2, <1>3, <1>13, <2>7, MoreIs DEF AllAlloc
    <3>2. TakesMemory(Place) /\ Place.type # "NOBITS"
      BY <3>1, Takes
    <3> QED
      BY <2>1, <2>3, <2>7, <3>2
  <2> QED
    BY <1>3, <1>6, <1>8, <2>3, <2>5, <2>6, <2>7 DEF Inside
<1> QED
  BY <1>6, <1>7, <1>12, <1>13 DEF Underway

LEMMA GeneratePlaces ==
  ASSUME FileInv, SerialInv, AddressInv, PlacesInv, ~ back, ~ back', PlaceFixed \/ PlaceNew
  PROVE  PlacesInv'
<1>1. HasNext /\ Place.type # "NULL" /\ Index \notin generated
  BY PlacedGap
<1>2. PICK gap \in Nat : Generate(gap) /\ (ByAddress => gap = Requested - Passed)
  BY PlacedGap
<1>3. /\ at' = Counted(gap) /\ generated' = generated \cup {Index}
      /\ pos' = pos + gap + (IF Place.type # "NOBITS" THEN Place.size ELSE 0)
      /\ UNCHANGED <<segments, phase, order, file>>
  BY <1>2 DEF Generate
<1>4. /\ phase = "section" /\ Index \in Numbers /\ Place = Sec(Index) /\ Place.size \in Nat /\ pos \in Nat
      /\ generated \subseteq Numbers
  BY <1>1, NextIs, HeaderFields, PosIs DEF PlacesInv, Laid
<1>5. PICK p \in Nat, o \in Nat, q \in Nat, n \in Nat :
        /\ p = pos /\ o = pos + gap /\ q = pos' /\ n = Place.size /\ p <= o
        /\ q = o + (IF Place.type # "NOBITS" THEN n ELSE 0)
  <2>1. /\ pos + gap \in Nat /\ pos' \in Nat /\ pos <= pos + gap
        /\ pos' = (pos + gap) + (IF Place.type # "NOBITS" THEN Place.size ELSE 0)
    BY <1>3, <1>4
  <2> QED
    BY <1>4, <2>1
<1>6. pos' \in Int /\ pos <= pos'
  BY <1>5
<1>7. at'.next = at.next + 1
  BY <1>1, <1>3, CountedHas
<1>8. Kept /\ \A i \in Numbers : i # Index => Sec(i)' = Sec(i)
  BY <1>1, <1>2, GeneratedIs
<1>9. \A i \in generated : Sec(i)' = Sec(i)
  BY <1>1, <1>4, <1>8
<1>10. \A i : i = Index /\ Sec(i)'.type # "NULL" =>
         0 <= Sec(i)'.offset /\ Sec(i)'.offset <= pos' /\ (HasBytes(Sec(i))' => Sec(i)'.offset + Sec(i)'.size <= pos')
  <2>1. SUFFICES ASSUME NEW i, i = Index
                 PROVE  /\ 0 <= Sec(i)'.offset /\ Sec(i)'.offset <= pos'
                        /\ (HasBytes(Sec(i))' => Sec(i)'.offset + Sec(i)'.size <= pos')
    OBVIOUS
  <2>2. i \in Numbers /\ Sec(i) = Place
    BY <1>4, <2>1
  <2>3. Sec(i)'.offset = o /\ SectionKept(Place, Sec(i)')
    BY <1>1, <1>2, <1>5, <2>1, <2>2, GeneratedIs DEF Kept
  <2>4. Sec(i)'.size = n /\ Sec(i)'.type = Place.type
    BY <1>5, <2>3 DEF SectionKept
  <2>5. HasBytes(Sec(i))' => Place.type # "NOBITS"
    BY <2>4 DEF HasBytes
  <2> QED
    BY <1>5, <2>3, <2>4, <2>5
<1>13. ~ Fresh /\ Filled(Place) => gap = Requested - Passed
  <2>1. SUFFICES ASSUME ~ Fresh, Filled(Place) PROVE ByAddress
    BY <1>2
  <2>2. Place.fixed
    <3>1. \A k \in DOMAIN sections : sections[k].fixed
      BY <1>4, <2>1 DEF AddressInv, LayoutPhases
    <3>2. Index + 1 \in DOMAIN sections /\ Place = sections[Index + 1]
      BY <1>1, NextIs, SectionTypes DEF FileInv
    <3> QED
      BY <3>1, <3>2
  <2> QED
    BY <2>1, <2>2 DEF ByAddress, Filled, HasBytes
<1>11. NestedNow => Underway'
  BY <1>1, <1>2, <1>4, <1>13, GenerateUnderway
<1>12. phase' = phase /\ UNCHANGED <<segments, order, file>> /\ generated' = generated \cup {Index}
  BY <1>3
<1> QED
  BY <1>1, <1>6, <1>7, <1>8, <1>9, <1>10, <1>11, <1>12, PlacedNext

\* A section of an earlier segment is counted, and so are the others of its segment.
LEMMA CountUnderway ==
  ASSUME FileInv, SerialInv, PlacesInv, CountGenerated, NestedNow
  PROVE  Underway'
<1>1. /\ HasNext /\ Place.type # "NULL" /\ Index \in generated
      /\ at' = Counted(Place.offset - at.start - at.size)
      /\ UNCHANGED <<sections, segments, phase, pos, order, generated, file>>
  BY DEF CountGenerated
<1>2. /\ phase = "section" /\ order # <<>> /\ Index \in Numbers /\ Place = Sec(Index) /\ Place \in Header
      /\ at.next <= Len(Current.secs)
  BY <1>1, NextIs DEF HasNext
<1>3. PICK start \in Int, size \in Int, memory \in Int, n \in Nat, o \in Int :
        start = at.start /\ size = at.size /\ memory = at.memory /\ n = Place.size /\ o = Place.offset
  BY <1>2, Types, HeaderFields
<1>4. PICK gap \in Int : gap = o - start - size /\ at' = Counted(gap)
  BY <1>1, <1>3
<1>5. PICK z \in Int, m \in Int :
        /\ at'.next = at.next + 1 /\ at'.start = start /\ at'.memory = m /\ at'.size = z
        /\ m = IF TakesMemory(Place) THEN memory + (n + gap) ELSE memory
        /\ z = IF Place.type # "NOBITS" THEN size + (n + gap) ELSE size
  BY <1>1, <1>3, <1>4, CountedHas
<1>6. Kept /\ \A i : Sec(i)' = Sec(i)
  BY <1>1, UnchangedKept DEF Sec
<1>7. /\ Current' = Current /\ Head(order)' = Head(order) /\ Members(Head(order))' = Members(Head(order))
      /\ (Covered' <=> Covered) /\ (Fresh' <=> Fresh) /\ Handled' = Handled \cup {Index}
      /\ (BssLast(Current)' <=> BssLast(Current))
      /\ (AllAlloc(Members(Head(order)))' <=> AllAlloc(Members(Head(order))))
      /\ \A i \in Members(Head(order)) : i \in Numbers
  BY <1>1, <1>5, <1>6, UnderwayNext
<1>8. Underway /\ Covered
  BY <1>1, NewIs
<1>9. PICK t \in Done : Members(Head(order)) \subseteq Members(t)
  BY <1>8 DEF Covered
<1>10. InOrder(Members(t))
  BY <1>2, <1>9 DEF PlacesInv, Whole, Laid
<1>11. Handled \subseteq Members(Head(order)) /\ Index \in Members(Head(order))
  BY <1>1, <1>2, HandledIs, MoreIs
<1>12. ASSUME BssLast(Current)
       PROVE  /\ Inside(Handled, Members(Head(order)), at.start, at.size, at.memory)'
              /\ \A i \in Members(Head(order)) : Sec(i).type # "NULL" => start <= Sec(i).offset
              /\ AllAlloc(Members(Head(order))) /\ at'.next <= Len(Current.secs) => m = z
  <2>1. /\ Inside(Handled, Members(Head(order)), start, size, memory)
        /\ \A i \in Members(Head(order)) : Sec(i).type # "NULL" => start <= Sec(i).offset
        /\ AllAlloc(Members(Head(order))) => memory = size
    BY <1>2, <1>3, <1>8, <1>12 DEF Underway
  <2>2. start <= o
    BY <1>1, <1>2, <1>3, <1>11, <2>1
  <2>3. ASSUME NEW i \in Handled
        PROVE  /\ Sec(i).offset \in Int /\ Sec(i).size \in Nat /\ HasBytes(Sec(i)) /\ InMemory(Sec(i))
               /\ start <= Sec(i).offset /\ Sec(i).offset + Sec(i).size <= start + size
               /\ Sec(i).offset + Sec(i).size <= o
    <3>1. i \in Numbers /\ i < Index /\ HasBytes(Sec(i))
      BY <1>1, <1>12, <2>3, MoreIs
    <3>2. Sec(i).offset \in Int /\ Sec(i).size \in Nat
      BY <3>1, SectionTypes, HeaderFields DEF FileInv
    <3>3. i \in Members(t) /\ Index \in Members(t)
      BY <1>9, <1>11, <2>3
    <3>4. Sec(i).type # "NULL" /\ InMemory(Sec(i))
      BY <3>1, Takes
    <3>5. Sec(i).offset + Sec(i).size <= o
      BY <1>1, <1>2, <1>3, <1>10, <3>1, <3>3, <3>4 DEF InOrder
    <3>6. start <= Sec(i).offset /\ Sec(i).offset + Sec(i).size <= start + size
      BY <2>1, <2>3, <3>1 DEF Inside
    <3> QED
      BY <3>1, <3>2, <3>4, <3>5, <3>6
  <2>4. ASSUME NEW i \in Handled', HasBytes(Sec(i))
        PROVE  start <= Sec(i).offset /\ Sec(i).offset + Sec(i).size <= start + z
    <3>1. CASE i = Index
      <4>1. Place.type # "NOBITS" /\ Sec(i) = Place
        BY <1>2, <2>4, <3>1, Takes
      <4>2. z = size + (n + gap)
        BY <1>5, <4>1
      <4> QED
        BY <1>3, <1>4, <2>2, <4>1, <4>2
    <3>2. CASE i \in Handled
      <4>1. /\ Sec(i).offset \in Int /\ Sec(i).size \in Nat
            /\ start <= Sec(i).offset /\ Sec(i).offset + Sec(i).size <= start + size
            /\ Sec(i).offset + Sec(i).size <= o
        BY <2>3, <3>2
      <4> QED
        BY <1>4, <1>5, <4>1
    <3> QED
      BY <1>7, <2>4, <3>1, <3>2
  <2>5. ASSUME AllAlloc(Members(Head(order))), NEW i \in Handled', InMemory(Sec(i))
        PROVE  start <= Sec(i).offset /\ Sec(i).offset + Sec(i).size <= start + m
    <3>1. memory = size
      BY <2>1, <2>5
    <3>2. CASE i = Index
      <4>1. TakesMemory(Place) /\ Sec(i) = Place
        BY <1>2, <1>11, <2>5, <3>2, Takes DEF AllAlloc
      <4>2. m = memory + (n + gap)
        BY <1>5, <4>1
      <4> QED
        BY <1>3, <1>4, <2>2, <3>1, <4>1, <4>2
    <3>3. CASE i \in Handled
      <4>1. /\ Sec(i).offset \in Int /\ Sec(i).size \in Nat
            /\ start <= Sec(i).offset /\ Sec(i).offset + Sec(i).size <= start + size
            /\ Sec(i).offset + Sec(i).size <= o
        BY <2>3, <3>3
      <4> QED
        BY <1>4, <1>5, <3>1, <4>1
    <3> QED
      BY <1>7, <2>5, <3>2, <3>3
  <2>6. ASSUME AllAlloc(Members(Head(order))), at'.next <= Len(Current.secs)
        PROVE  m = z
    <3>1. HasBytes(Place) /\ Place.alloc
      BY <1>1, <1>2, <1>5, <1>11, <1>12, <2>6, MoreIs DEF AllAlloc
    <3>2. TakesMemory(Place) /\ Place.type # "NOBITS"
      BY <3>1, Takes
    <3>3. memory = size
      BY <2>1, <2>6
    <3> QED
      BY <1>5, <3>2, <3>3
  <2> QED
    BY <1>5, <1>6, <1>7, <2>1, <2>4, <2>5, <2>6 DEF Inside, HasBytes, InMemory
<1> QED
  BY <1>5, <1>6, <1>7, <1>8, <1>12 DEF Underway

LEMMA CountGeneratedPlaces ==
  ASSUME FileInv, SerialInv, PlacesInv, CountGenerated
  PROVE  PlacesInv'
<1>1. /\ HasNext /\ Place.type # "NULL" /\ Index \in generated
      /\ at' = Counted(Place.offset - at.start - at.size)
      /\ UNCHANGED <<sections, segments, phase, pos, order, generated, file>>
  BY DEF CountGenerated
<1>2. /\ phase = "section" /\ Place \in Header /\ pos \in Int /\ Index \in Numbers /\ Place = Sec(Index)
  BY <1>1, NextIs, Types
<1>3. PICK gap \in Int : at' = Counted(gap)
  <2>1. Place.offset \in Int /\ at.start \in Int /\ at.size \in Int
    BY <1>2, HeaderFields, Types
  <2>2. Place.offset - at.start - at.size \in Int
    BY <2>1
  <2> QED
    BY <1>1, <2>2
<1>4. at'.next = at.next + 1
  BY <1>1, <1>3, CountedHas
<1>5. Kept /\ \A i : Sec(i)' = Sec(i)
  BY <1>1, UnchangedKept DEF Sec
<1>6. generated' = generated \cup {Index} /\ pos' \in Int /\ pos <= pos'
  BY <1>1, <1>2
<1>7. \A i : i = Index /\ Sec(i)'.type # "NULL" =>
        0 <= Sec(i)'.offset /\ Sec(i)'.offset <= pos' /\ (HasBytes(Sec(i))' => Sec(i)'.offset + Sec(i)'.size <= pos')
  BY <1>1, <1>2, <1>5 DEF PlacesInv, BeforePos, Laid, HasBytes
<1>8. NestedNow => Underway'
  BY CountUnderway
<1>9. phase' = phase /\ UNCHANGED <<segments, order, file>>
  BY <1>1
<1> QED
  BY <1>1, <1>4, <1>5, <1>6, <1>7, <1>8, <1>9, PlacedNext

\* A segment that is done has its place.
LEMMA FinishPlaces ==
  ASSUME FileInv, SerialInv, PlacesInv, FinishSegment
  PROVE  PlacesInv'
<1>1. /\ phase = "section" /\ phase' = "segment" /\ order' = Tail(order) /\ at.next > Len(Current.secs)
      /\ UNCHANGED <<file, generated, sections, pos>>
  BY DEF FinishSegment
<1>2. /\ Kept /\ \A s \in DOMAIN segments : s # Head(order) => segments'[s] = segments[s]
  BY FinishIs
<1>3. order # <<>>
  BY <1>1 DEF FileInv, OrderInv
<1>4. /\ Head(order) \notin Into(Tail(order)) /\ Into(order) = {Head(order)} \cup Into(Tail(order))
      /\ Head(order) \in DOMAIN segments
  BY <1>1, <1>3, HeadIs
<1>5. PICK h \in DOMAIN segments : h = Head(order)
  BY <1>4
<1>6. /\ Current = segments[h] /\ Handled = Members(h)
  BY <1>1, <1>5, HandledIs
<1>7. PICK y : /\ y = segments'[h] /\ y.offset = at.start /\ y.size = at.size /\ UpTo(at.memory, y.memory)
               /\ y \in SegmentHeader
  <2>1. /\ segments'[h].size = at.size /\ segments'[h].offset = at.start /\ UpTo(at.memory, segments'[h].memory)
    BY <1>5, FinishIs
  <2>2. segments'[h] \in SegmentHeader
    <3>1. h \in 1 .. Len(segments) /\ segments' \in Seq(SegmentHeader) /\ Len(segments') = Len(segments)
      BY <1>2, SegmentsInside DEF Kept
    <3> QED
      BY <3>1
  <2> QED
    BY <2>1, <2>2
<1>8. /\ DOMAIN segments' = DOMAIN segments /\ (NestedNow' <=> NestedNow)
      /\ \A s \in DOMAIN segments : /\ Members(s)' = Members(s)
                                    /\ (BssLast(segments[s])' <=> BssLast(segments[s]))
                                    /\ (AllAlloc(Members(s))' <=> AllAlloc(Members(s)))
  BY <1>2, KeptMembers
<1>9. Done' = Done \cup {h} /\ h \notin Done
  BY <1>1, <1>4, <1>5, <1>8 DEF Done
<1>10. (Fresh' <=> Fresh) /\ Numbers' = Numbers /\ \A i : Sec(i)' = Sec(i)
  BY <1>1 DEF Fresh, Numbers, Sec
<1>11. generated \subseteq Numbers /\ BeforePos /\ Owned
  BY <1>1 DEF PlacesInv, Laid
<1>12. generated' \subseteq Numbers' /\ BeforePos'
  BY <1>1, <1>10, <1>11 DEF BeforePos, HasBytes
<1>13. Owned'
  <2>1. \A t \in Done : t \in DOMAIN segments
    BY DEF Done
  <2> QED
    BY <1>1, <1>6, <1>8, <1>9, <1>11, <2>1 DEF Owned
<1>14. ASSUME NestedNow PROVE \A s \in Done' : Whole(s)'
  <2>1. \A s \in Done : Whole(s)'
    <3>1. \A s \in Done : Whole(s) /\ s \in DOMAIN segments /\ segments'[s] = segments[s]
      BY <1>1, <1>2, <1>5, <1>9, <1>14 DEF PlacesInv, Laid, Done
    <3> QED
      BY <1>2, <1>10, <3>1, SameWhole
  <2>2. Current.secs # <<>> => Underway
    BY <1>1, <1>14 DEF PlacesInv, Laid
  <2>3. Current.secs = <<>> => Members(h) = {}
    BY <1>6 DEF Members, Into
  <2>4. InOrder(Members(h))
    <3>1. CASE Members(h) = {}
      BY <3>1 DEF InOrder
    <3>2. CASE Underway /\ New
      BY <1>6, <3>2 DEF New
    <3>3. CASE Underway /\ Covered
      <4>1. PICK t \in Done : Members(h) \subseteq Members(t)
        BY <1>5, <3>3 DEF Covered
      <4>2. InOrder(Members(t))
        BY <1>1, <1>14, <4>1 DEF PlacesInv, Laid, Whole
      <4> QED
        BY <4>1, <4>2 DEF InOrder
    <3> QED
      BY <2>2, <2>3, <3>1, <3>2, <3>3 DEF Underway
  <2>5. ASSUME BssLast(Current), Current.secs # <<>>
        PROVE  Inside(Members(h), Members(h), at.start, at.size, at.memory)
    BY <1>5, <1>6, <2>2, <2>5 DEF Underway
  <2>6. InOrder(Members(h))'
    BY <1>8, <1>10, <2>4 DEF InOrder, HasBytes, Tied, Filled
  <2>7. ASSUME BssLast(segments[h]) PROVE Inside(Members(h), Members(h), y.offset, y.size, at.memory)
    <3>1. CASE Current.secs = <<>>
      BY <2>3, <3>1 DEF Inside
    <3>2. CASE Current.secs # <<>>
      <4>1. Inside(Members(h), Members(h), at.start, at.size, at.memory)
        BY <1>6, <2>5, <2>7, <3>2
      <4> QED
        BY <1>7, <4>1
    <3> QED
      BY <3>1, <3>2
  <2>8. PICK m \in Int : m = at.memory
    BY Types
  <2>9. ASSUME BssLast(segments[h])'
        PROVE  \E memory \in Int : /\ UpTo(memory, segments[h]'.memory)
                                 /\ Inside(Members(h), Members(h), segments[h].offset, segments[h].size, memory)'
    <3>1. Inside(Members(h), Members(h), y.offset, y.size, m) /\ UpTo(m, y.memory)
      BY <1>7, <1>8, <2>7, <2>8, <2>9
    <3>2. Inside(Members(h), Members(h), segments[h].offset, segments[h].size, m)'
      BY <1>7, <1>8, <1>10, <3>1 DEF Inside, HasBytes, InMemory
    <3> QED
      BY <1>7, <3>1, <3>2
  <2>10. Whole(h)'
    BY <2>6, <2>9 DEF Whole
  <2> QED
    BY <1>9, <2>1, <2>10
<1> QED
  BY <1>1, <1>8, <1>12, <1>13, <1>14 DEF PlacesInv

\* At first, no section has its place.
LEMMA StartLayoutPlaces ==
  ASSUME FileInv, StartLayout
  PROVE  PlacesInv'
<1>1. /\ phase = "order" /\ todo = <<>> /\ phase' = "segment"
      /\ UNCHANGED <<sections, segments, order, generated>>
  BY DEF StartLayout, layout
<1>2. generated = {} /\ DOMAIN segments = Into(order)
  BY <1>1 DEF FileInv, OrderInv, Into
<1>3. Done' = {} /\ generated' = {}
  BY <1>1, <1>2 DEF Done
<1> QED
  BY <1>1, <1>3 DEF PlacesInv, BeforePos, Owned

LEMMA StartLoosePlaces ==
  ASSUME FileInv, PlacesInv, StartLoose
  PROVE  PlacesInv'
<1>1. /\ phase = "segment" /\ phase' = "loose" /\ UNCHANGED <<sections, segments, pos, order, generated, file>>
  BY DEF StartLoose
<1>2. generated \subseteq Numbers /\ BeforePos /\ Owned
  BY <1>1 DEF PlacesInv, Laid
<1>3. Kept /\ (Fresh' <=> Fresh) /\ Done' = Done /\ Numbers' = Numbers
      /\ \A i : Sec(i)' = Sec(i) /\ Members(i)' = Members(i)
  BY <1>1, UnchangedKept DEF Fresh, Done, Numbers, Sec, Members
<1>4. generated' \subseteq Numbers' /\ BeforePos' /\ Owned'
  BY <1>1, <1>2, <1>3 DEF BeforePos, Owned, HasBytes
<1>5. ASSUME NestedNow PROVE \A s \in Done : Whole(s)'
  <2>1. \A s \in Done : Whole(s) /\ s \in DOMAIN segments
    BY <1>1, <1>5, DoneIs DEF PlacesInv, Laid
  <2> QED
    BY <1>1, <1>3, <2>1, SameWhole
<1>6. NestedNow' <=> NestedNow
  BY <1>3, KeptMembers
<1> QED
  BY <1>1, <1>3, <1>4, <1>5, <1>6 DEF PlacesInv

\* Sections without a segment change nothing for the segments.
LEMMA LoosePlaces ==
  ASSUME FileInv, PlacesInv, PlaceLoose
  PROVE  PlacesInv'
<1>1. /\ phase = "loose" /\ phase' = "loose" /\ at.next < Len(sections)
      /\ UNCHANGED <<segments, order, generated, file>>
  BY DEF PlaceLoose
<1>2. Kept /\ \A i \in Numbers : ~ Loose(i) => Sec(i)' = Sec(i)
  BY LooseIs
<1>3. generated \subseteq Numbers /\ BeforePos /\ Owned
  BY <1>1 DEF PlacesInv, Laid
<1>4. (Fresh' <=> Fresh) /\ Done' = Done /\ Numbers' = Numbers /\ \A s : Members(s)' = Members(s)
  BY <1>1, <1>2 DEF Fresh, Done, Members, Kept
<1>5. \A s \in DOMAIN segments : \A i \in Members(s) : ~ Loose(i) /\ i \in Numbers /\ Sec(i)' = Sec(i)
  <2>1. SUFFICES ASSUME NEW s \in DOMAIN segments, NEW i \in Members(s) PROVE ~ Loose(i) /\ i \in Numbers
    BY <1>2
  <2>2. i \in Numbers
    BY <2>1, MembersIs
  <2>3. ~ Loose(i)
    BY <2>1 DEF Members, Into, Loose
  <2> QED
    BY <2>2, <2>3
<1>6. \A i \in generated : Sec(i)' = Sec(i)
  BY <1>1, <1>3, <1>5 DEF Owned, Done
<1>7. pos \in Int /\ pos' \in Int /\ pos <= pos'
  <2>1. pos \in Int /\ at.next \in Nat /\ Len(sections) \in Nat
    BY Types
  <2>2. PICK n \in Numbers : n = at.next
    BY <1>1, <2>1, SectionTypes DEF FileInv
  <2>3. Sec(n).align \in Nat /\ Sec(n).size \in Nat
    BY SectionTypes, HeaderFields DEF FileInv
  <2>4. PICK here \in Int : here = RoundedUp(pos, Sec(n).align) /\ pos <= here
    BY <2>1, <2>3, RoundedUpIs
  <2>5. pos' = pos \/ pos' = here + (IF HasBytes(Sec(n)) THEN Sec(n).size ELSE 0)
    BY <2>2, <2>4 DEF PlaceLoose
  <2>6. PICK p \in Int : p = pos
    BY <2>1
  <2>7. PICK z \in Int : z = here + (IF HasBytes(Sec(n)) THEN Sec(n).size ELSE 0) /\ here <= z
    BY <2>3
  <2>8. p <= p /\ p <= z
    BY <2>4, <2>6, <2>7
  <2> QED
    BY <2>5, <2>6, <2>7, <2>8
<1>8. BeforePos'
  <2>1. SUFFICES ASSUME NEW i \in generated, Sec(i).type # "NULL"
                 PROVE  0 <= Sec(i).offset /\ Sec(i).offset <= pos' /\ (HasBytes(Sec(i)) => Sec(i).offset + Sec(i).size <= pos')
    BY <1>1, <1>6 DEF BeforePos, HasBytes
  <2>2. 0 <= Sec(i).offset /\ Sec(i).offset <= pos /\ (HasBytes(Sec(i)) => Sec(i).offset + Sec(i).size <= pos)
    BY <1>3, <2>1 DEF BeforePos
  <2>3. Sec(i).offset \in Int /\ Sec(i).size \in Nat
    BY <1>3, <2>1, SectionTypes, HeaderFields DEF FileInv
  <2> QED
    BY <1>7, <2>2, <2>3
<1>9. generated' \subseteq Numbers' /\ Owned'
  BY <1>1, <1>3, <1>4 DEF Owned
<1>10. ASSUME NestedNow PROVE \A s \in Done : Whole(s)'
  <2>1. \A s \in Done : Whole(s) /\ s \in DOMAIN segments
    BY <1>1, <1>10, DoneIs DEF PlacesInv, Laid
  <2> QED
    BY <1>1, <1>2, <1>4, <1>5, <2>1, SameWhole
<1>11. NestedNow' <=> NestedNow
  BY <1>2, KeptMembers
<1> QED
  BY <1>1, <1>4, <1>8, <1>9, <1>10, <1>11 DEF PlacesInv

-----------------------------------------------------------------------------
(* What is written can be found. *)

LEMMA WrittenIs ==
  ASSUME FileInv, WriteFile
  PROVE  /\ phase = "loose" /\ phase' = "saved" /\ order = <<>> /\ Done = DOMAIN segments
         /\ file'.sections = sections /\ file'.segments = segments
         /\ UNCHANGED <<sections, segments, layout>>
<1>1. /\ phase = "loose" /\ phase' = "saved" /\ UNCHANGED <<sections, segments, layout>>
      /\ file' = [sections |-> sections, segments |-> segments, names |-> file.names, table |-> Table,
                  length |-> Table + ShdrSize * Len(sections), whole |-> TRUE]
  BY DEF WriteFile
<1>2. order = <<>>
  BY <1>1 DEF FileInv, OrderInv
<1>3. file'.sections = sections /\ file'.segments = segments
  BY <1>1
<1>4. Done = DOMAIN segments
  <2>1. Into(order) = {}
    BY <1>2, Types, IntoIs
  <2> QED
    BY <2>1 DEF Done
<1> QED
  BY <1>1, <1>2, <1>3, <1>4

\* Sections that a segment maps are where loading looks for them.
LEMMA WholeIsFound ==
  ASSUME FileInv, AddressInv, phase \in LayoutPhases, NEW s \in DOMAIN segments, Whole(s),
         BssLast(segments[s]), segments[s].secs # <<>>,
         NEW a \in Header, a = Sec(segments[s].secs[1]),
         a.address - segments[s].vaddr = a.offset - segments[s].offset,
         NEW i \in Members(s), NEW sec \in Header, sec = Sec(i), \A j \in Members(s) : Sec(j).alloc = sec.alloc,
         sec.size > 0, HasBytes(sec) \/ (sec.alloc /\ ~ sec.tls),
         segments[s].memory >= 0, a.size > 0
  PROVE  InSegment(sec, segments[s])
<1>1. PICK y \in SegmentHeader : y = segments[s]
  BY MembersIs
<1>2. PICK memory \in Int : UpTo(memory, y.memory) /\ Inside(Members(s), Members(s), y.offset, y.size, memory)
  BY <1>1 DEF Whole
<1>7. InOrder(Members(s))
  BY DEF Whole
<1>3. /\ y.offset \in Int /\ y.size \in Int /\ y.memory \in Int /\ y.vaddr \in Nat
      /\ sec.offset \in Int /\ sec.size \in Nat /\ sec.address \in Int /\ a.offset \in Int /\ a.address \in Int
  BY HeaderFields, SegmentFields
<1>8. y.memory >= 0 /\ memory <= y.memory
  BY <1>1, <1>2, <1>3 DEF UpTo
<1>9. i \in Numbers /\ sec.type # "NULL"
  <2>1. i \in Numbers
    BY MembersIs
  <2>2. i + 1 \in DOMAIN sections /\ sec = sections[i + 1]
    BY <2>1, SectionTypes DEF FileInv
  <2>3. sections[i + 1].type = "NULL" => sections[i + 1].size = 0
    BY <2>2 DEF FileInv, SectionsInv
  <2> QED
    BY <2>1, <2>2, <2>3
<1>4. CASE ~ sec.alloc
  <2>1. y.offset <= sec.offset /\ sec.offset + sec.size <= y.offset + y.size
    BY <1>2, <1>4 DEF Inside
  <2>2. IsSectInSeg(sec.offset, sec.size, y.offset, y.offset + y.size)
    BY <1>3, <2>1 DEF IsSectInSeg
  <2> QED
    BY <1>1, <1>4, <2>2 DEF InSegment
<1>5. CASE sec.alloc /\ ~ Fresh /\ sec.type = "NOBITS"
  <2>1. Known(sec, y)
    BY <1>1, <1>5 DEF AddressInv
  <2>2. y.vaddr <= sec.address /\ sec.address + sec.size <= y.vaddr + y.memory /\ sec.address < y.vaddr + y.memory
    BY <1>5, <1>8, <2>1 DEF Known
  <2> QED
    BY <1>1, <1>5, <2>2 DEF InSegment, IsSectInSeg
<1>6. CASE sec.alloc /\ (Fresh \/ HasBytes(sec))
  <2>1. InMemory(sec) /\ AllAlloc(Members(s))
    BY <1>6, <1>9 DEF InMemory, AllAlloc, HasBytes
  <2>2. y.offset <= sec.offset /\ sec.offset + sec.size <= y.offset + y.memory
    <3>1. y.offset <= sec.offset /\ sec.offset + sec.size <= y.offset + memory
      BY <1>2, <1>6, <2>1 DEF Inside
    <3> QED
      BY <1>3, <1>8, <3>1
  <2>3. segments[s].secs[1] \in Members(s) /\ 1 \in DOMAIN segments[s].secs
    <3>1. 1 \in DOMAIN segments[s].secs
      BY MembersIs
    <3> QED
      BY <3>1 DEF Members, Into
  <2>7. Tied(i) /\ Tied(segments[s].secs[1])
    <3>1. Tied(i)
      BY <1>6 DEF Tied, Filled
    <3>2. CASE segments[s].secs[1] = i
      BY <3>1, <3>2
    <3>3. CASE segments[s].secs[1] # i
      <4>1. PICK j \in DOMAIN segments[s].secs : segments[s].secs[j] = i
        BY DEF Members, Into
      <4>2. 1 < j
        BY <3>3, <4>1, MembersIs
      <4>3. HasBytes(a)
        BY <2>3, <4>2 DEF BssLast
      <4> QED
        BY <3>1, <4>3 DEF Tied, Filled
    <3> QED
      BY <3>2, <3>3
  <2>4. sec.address - sec.offset = a.address - a.offset
    BY <1>7, <2>3, <2>7 DEF InOrder
  <2>5. sec.address = y.vaddr + (sec.offset - y.offset)
    <3>1. a.address - y.vaddr = a.offset - y.offset
      BY <1>1, Zenon
    <3>2. PICK sa \in Int, so \in Int : sa = sec.address /\ so = sec.offset
      BY <1>3
    <3>3. PICK aa \in Int, ao \in Int : aa = a.address /\ ao = a.offset
      BY <1>3
    <3>4. PICK v \in Int, o \in Int : v = y.vaddr /\ o = y.offset
      BY <1>3
    <3>5. sa - so = aa - ao
      BY <2>4, <3>2, <3>3
    <3>6. aa - v = ao - o
      BY <3>1, <3>3, <3>4
    <3>7. sa = v + (so - o)
      BY <3>5, <3>6
    <3> QED
      BY <3>2, <3>4, <3>7
  <2>6. IsSectInSeg(sec.address, sec.size, y.vaddr, y.vaddr + y.memory)
    <3>1. \A begin, size, place, start, large, vaddr \in Int :
            start <= place /\ place + size <= start + large /\ size > 0 /\ begin = vaddr + (place - start) =>
            vaddr <= begin /\ begin + size <= vaddr + large /\ begin < vaddr + large
      OBVIOUS
    <3>2. PICK begin \in Int, place \in Int : begin = sec.address /\ place = sec.offset
      BY <1>3
    <3>3. PICK size \in Int : size = sec.size
      BY <1>3
    <3>4. PICK start \in Int, large \in Int : start = y.offset /\ large = y.memory
      BY <1>3
    <3>5. PICK vaddr \in Int : vaddr = y.vaddr
      BY <1>3
    <3>6. start <= place /\ place + size <= start + large /\ size > 0 /\ begin = vaddr + (place - start)
      BY <2>2, <2>5, <3>2, <3>3, <3>4, <3>5
    <3>7. vaddr <= begin /\ begin + size <= vaddr + large /\ begin < vaddr + large
      BY <3>1, <3>6
    <3> QED
      BY <3>2, <3>3, <3>4, <3>5, <3>7 DEF IsSectInSeg
  <2> QED
    BY <1>1, <1>6, <2>6 DEF InSegment
<1> QED
  BY <1>4, <1>5, <1>6, <1>9 DEF HasBytes

LEMMA WriteFindable ==
  ASSUME FileInv, AddressInv, PlacesInv, WriteFile
  PROVE  Findable(file')
<1>1. phase = "loose" /\ Done = DOMAIN segments
  BY WrittenIs
<1>2. PICK f : f = file' /\ f.sections = sections /\ f.segments = segments
  BY WrittenIs
<1>3. \A i : SecOf(f, i) = Sec(i)
  BY <1>2 DEF SecOf, Sec
<1>4. NestedOf(f) => NestedNow
  BY <1>2 DEF NestedOf, NestedNow, Members
<1>5. SUFFICES ASSUME NestedOf(f), NEW s \in DOMAIN segments, NEW i \in Members(s)
               PROVE  /\ i < Len(sections)
                      /\ segments[s].memory >= 0 /\ MapsFirstOf(f, segments[s])
                         /\ Sec(segments[s].secs[1]).size > 0 /\ UniformOf(f, segments[s]) /\ Sec(i).size > 0
                         /\ (HasBytes(Sec(i)) \/ (Sec(i).alloc /\ ~ Sec(i).tls)) => InSegment(Sec(i), segments[s])
  BY <1>2, <1>3 DEF Findable, Members
<1>6. i \in Numbers /\ i < Len(sections)
  BY MembersIs DEF Numbers
<1>7. ASSUME segments[s].memory >= 0, Sec(segments[s].secs[1]).size > 0, MapsFirstOf(f, segments[s]), UniformOf(f, segments[s]), Sec(i).size > 0,
             HasBytes(Sec(i)) \/ (Sec(i).alloc /\ ~ Sec(i).tls)
      PROVE  InSegment(Sec(i), segments[s])
  <2>1. BssLast(segments[s]) /\ segments[s].secs # <<>>
    BY <1>3, <1>7 DEF MapsFirstOf, BssLastOf, BssLast
  <2>2. segments[s].secs[1] \in Numbers
    <3>1. 1 \in DOMAIN segments[s].secs
      BY <2>1, MembersIs
    <3>2. segments[s].secs[1] \in Members(s)
      BY <3>1 DEF Members, Into
    <3> QED
      BY <3>2, MembersIs
  <2>3. PICK a \in Header : a = Sec(segments[s].secs[1])
    BY <2>2, SectionTypes DEF FileInv
  <2>4. PICK sec \in Header : sec = Sec(i)
    BY <1>6, SectionTypes DEF FileInv
  <2>5. a.address - segments[s].vaddr = a.offset - segments[s].offset
    BY <1>3, <1>7, <2>3 DEF MapsFirstOf
  <2>6. \A j \in Members(s) : Sec(j).alloc = sec.alloc
    BY <1>3, <1>7, <2>4 DEF UniformOf, Members
  <2>7. Whole(s)
    BY <1>1, <1>4, <1>5 DEF PlacesInv, Laid
  <2>8. phase \in LayoutPhases
    BY <1>1 DEF LayoutPhases
  <2> QED
    BY <1>7, <2>1, <2>3, <2>4, <2>5, <2>6, <2>7, <2>8, WholeIsFound
<1> QED
  BY <1>6, <1>7

LEMMA WriteMaps ==
  ASSUME FileInv, MapInv, WriteFile
  PROVE  MapInv'
<1>1. /\ phase = "loose" /\ phase' = "saved" /\ UNCHANGED <<sections, segments, todo, order>>
  BY WrittenIs DEF layout
<1>2. Findable(file')
  BY WriteFindable DEF MapInv
<1>3. FoundInv'
  BY <1>1, <1>2 DEF FoundInv, Loading
<1>4. PlacesInv' /\ AddressInv'
  BY <1>1 DEF PlacesInv, AddressInv, Laid, LayoutPhases, Loading
<1>5. SerialInv'
  <2>1. phase' # "order" /\ phase' \notin Laid /\ phase' \notin LayoutPhases
    BY <1>1 DEF Laid, LayoutPhases
  <2> QED
    BY <1>1, <2>1, SameSegments, SerialKeeps DEF MapInv
<1> QED
  BY <1>3, <1>4, <1>5 DEF MapInv

-----------------------------------------------------------------------------
(* The places and addresses hold always. *)

\* Nothing is loaded by a step of the layout.
LEMMA LayFound ==
  ASSUME phase' \in LayoutPhases \cup {"failed"}
  PROVE  FoundInv'
BY DEF FoundInv, LayoutPhases, Loading

LEMMA LaySerial ==
  ASSUME FileInv, SerialInv, Kept, UNCHANGED <<todo, order>>, phase \in Laid,
         phase' \in Laid \cup {"failed"}
  PROVE  SerialInv'
<1>1. /\ segments' \in Seq(SegmentHeader) /\ Len(segments') = Len(segments)
      /\ \A s \in 1 .. Len(segments) : segments'[s].secs = segments[s].secs
  BY DEF Kept, SegmentKept
<1>2. phase \in LayoutPhases /\ phase' # "order"
  BY DEF Laid, LayoutPhases
<1> QED
  BY <1>1, <1>2, SerialKeeps

\* Steps that leave sections and segments alone, and where the sections have places
LEMMA SameMaps ==
  ASSUME FileInv, MapInv, phase \in Laid, UNCHANGED <<sections, segments, todo, order, file>>,
         phase' \in Laid \cup {"failed"}, generated \subseteq generated', PlacesInv'
  PROVE  MapInv'
<1>1. /\ phase \in LayoutPhases /\ phase' \in LayoutPhases \cup {"failed"}
      /\ phase' \in LayoutPhases \cup {"failed", "saved"}
  BY DEF Laid, LayoutPhases
<1>2. Kept /\ AddressInv'
  <2>1. Into(todo') \cup Into(order') \subseteq Into(todo) \cup Into(order)
    OBVIOUS
  <2> QED
    BY <1>1, <2>1, LayAddressSame DEF MapInv
<1>3. SerialInv'
  BY <1>2, LaySerial DEF MapInv
<1>4. FoundInv'
  BY <1>1, LayFound
<1> QED
  BY <1>2, <1>3, <1>4 DEF MapInv

LEMMA OrderSegmentMaps ==
  ASSUME FileInv, MapInv, OrderSegment
  PROVE  MapInv'
<1>1. /\ phase = "order" /\ todo # <<>> /\ phase' = "order"
      /\ \/ todo' = Append(Tail(todo), Head(todo)) /\ order' = order
         \/ todo' = Tail(todo) /\ order' = Append(order, Head(todo))
      /\ UNCHANGED <<sections, segments, generated, file>>
  BY DEF OrderSegment
<1>2. todo \in Seq(Nat) /\ order \in Seq(Nat)
  BY Types
<1>3. Head(todo) \in Nat /\ Tail(todo) \in Seq(Nat) /\ Into(todo) = {Head(todo)} \cup Into(Tail(todo))
  BY <1>1, <1>2, IntoIs
<1>4. /\ Into(Append(Tail(todo), Head(todo))) = Into(Tail(todo)) \cup {Head(todo)}
      /\ Into(Append(order, Head(todo))) = Into(order) \cup {Head(todo)}
  BY <1>2, <1>3, IntoIs
<1>5. Into(todo') \cup Into(order') \subseteq Into(todo) \cup Into(order)
  BY <1>1, <1>3, <1>4
<1>6. /\ phase \in LayoutPhases /\ phase' \in LayoutPhases \cup {"failed", "saved"}
      /\ phase' \in LayoutPhases \cup {"failed"} /\ phase' \notin Laid
  BY <1>1 DEF LayoutPhases, Laid
<1>7. AddressInv'
  BY <1>1, <1>5, <1>6, LayAddressSame DEF MapInv
<1>8. SerialInv'
  BY OrderSerial DEF MapInv
<1>9. PlacesInv' /\ FoundInv'
  BY <1>6, LayFound DEF PlacesInv
<1> QED
  BY <1>7, <1>8, <1>9 DEF MapInv

LEMMA StartLayoutMaps ==
  ASSUME FileInv, MapInv, StartLayout
  PROVE  MapInv'
<1>1. phase = "order" /\ phase' = "segment" /\ UNCHANGED <<sections, segments, todo, order, generated, file>>
  BY DEF StartLayout, layout
<1>2. /\ phase \in LayoutPhases /\ phase' \in LayoutPhases \cup {"failed", "saved"}
      /\ phase' \in LayoutPhases \cup {"failed"}
  BY <1>1 DEF LayoutPhases
<1>3. AddressInv'
  <2>1. Into(todo') \cup Into(order') \subseteq Into(todo) \cup Into(order)
    BY <1>1
  <2>2. generated \subseteq generated'
    BY <1>1
  <2> QED
    BY <1>1, <1>2, <2>1, <2>2, LayAddressSame DEF MapInv
<1>4. SerialInv' /\ PlacesInv' /\ FoundInv'
  BY <1>2, StartLayoutSerial, StartLayoutPlaces, LayFound DEF MapInv
<1> QED
  BY <1>3, <1>4 DEF MapInv

LEMMA GenerateMaps ==
  ASSUME FileInv, MapInv, ~ back, ~ back', PlaceFixed \/ PlaceNew
  PROVE  MapInv'
<1>1. PICK gap \in Nat : HasNext /\ Generate(gap)
  BY PlacedGap
<1>2. phase = "section" /\ UNCHANGED <<phase, todo, order>>
  BY <1>1 DEF HasNext, Generate
<1>3. Kept /\ AddressInv'
  BY <1>1, GenerateAddress DEF MapInv
<1>4. phase \in Laid /\ phase' \in Laid \cup {"failed"} /\ phase' \in LayoutPhases \cup {"failed"}
  BY <1>2 DEF Laid, LayoutPhases
<1>5. SerialInv' /\ FoundInv' /\ PlacesInv'
  BY <1>2, <1>3, <1>4, LaySerial, LayFound, GeneratePlaces DEF MapInv
<1> QED
  BY <1>3, <1>5 DEF MapInv

LEMMA FinishMaps ==
  ASSUME FileInv, MapInv, FinishSegment
  PROVE  MapInv'
<1>1. phase' \in LayoutPhases \cup {"failed"}
  BY DEF FinishSegment, LayoutPhases
<1>2. Kept /\ AddressInv'
  BY FinishAddress DEF MapInv
<1>3. SerialInv'
  BY <1>2, FinishSerial DEF MapInv, Kept, SegmentKept
<1> QED
  BY <1>1, <1>2, <1>3, FinishPlaces, LayFound DEF MapInv

LEMMA PlaceLooseMaps ==
  ASSUME FileInv, MapInv, PlaceLoose
  PROVE  MapInv'
<1>1. phase = "loose" /\ UNCHANGED <<phase, todo, order>>
  BY DEF PlaceLoose
<1>2. phase \in Laid /\ phase' \in Laid \cup {"failed"} /\ phase' \in LayoutPhases \cup {"failed"}
  BY <1>1 DEF Laid, LayoutPhases
<1>3. Kept /\ AddressInv'
  BY LooseAddress DEF MapInv
<1> QED
  BY <1>1, <1>2, <1>3, LaySerial, LoosePlaces, LayFound DEF MapInv

LEMMA LayOutMaps ==
  ASSUME FileInv, MapInv, ~ back, ~ back', LayOut
  PROVE  MapInv'
<1>1. ASSUME StartSegment PROVE MapInv'
  <2>1. /\ phase \in Laid /\ phase' \in Laid \cup {"failed"} /\ generated \subseteq generated'
        /\ UNCHANGED <<sections, segments, todo, order, file>>
    BY <1>1 DEF StartSegment, Laid
  <2> QED
    BY <1>1, <2>1, SameMaps, StartSegmentPlaces DEF MapInv
<1>2. ASSUME PlaceNull PROVE MapInv'
  <2>1. /\ phase \in Laid /\ phase' \in Laid \cup {"failed"} /\ generated \subseteq generated'
        /\ UNCHANGED <<sections, segments, todo, order, file>>
    BY <1>2 DEF PlaceNull, HasNext, Laid
  <2> QED
    BY <1>2, <2>1, SameMaps, PlaceNullPlaces DEF MapInv
<1>3. ASSUME SaveAborts PROVE MapInv'
  <2>1. /\ phase \in Laid /\ phase' = "failed" /\ generated \subseteq generated'
        /\ UNCHANGED <<sections, segments, todo, order, file>>
    BY <1>3 DEF SaveAborts, HasNext, Laid, layout
  <2>2. PlacesInv'
    BY <2>1 DEF PlacesInv, Laid
  <2> QED
    BY <2>1, <2>2, SameMaps
<1>4. ASSUME CountGenerated PROVE MapInv'
  <2>1. /\ phase \in Laid /\ phase' \in Laid \cup {"failed"} /\ generated \subseteq generated'
        /\ UNCHANGED <<sections, segments, todo, order, file>>
    BY <1>4 DEF CountGenerated, HasNext, Laid
  <2> QED
    BY <1>4, <2>1, SameMaps, CountGeneratedPlaces DEF MapInv
<1>5. ASSUME StartLoose PROVE MapInv'
  <2>1. /\ phase \in Laid /\ phase' \in Laid \cup {"failed"} /\ generated \subseteq generated'
        /\ UNCHANGED <<sections, segments, todo, order, file>>
    BY <1>5 DEF StartLoose, Laid
  <2> QED
    BY <1>5, <2>1, SameMaps, StartLoosePlaces DEF MapInv
<1> QED
  BY <1>1, <1>2, <1>3, <1>4, <1>5, OrderSegmentMaps, StartLayoutMaps, GenerateMaps, FinishMaps,
     PlaceLooseMaps, WriteMaps DEF LayOut

\* Addresses are not known when an object is created.
LEMMA NothingFixed == ~ Created.fixed /\ ~ Shstrtab.fixed
<1>1. Created.fixed = FALSE
  BY DEF Created
<1>2. PICK sec : sec = [Created EXCEPT !.type = "STRTAB"]
  OBVIOUS
<1>3. sec \in Header /\ sec.size = 0 /\ sec.cap = 0 /\ sec.data = FALSE /\ sec.fixed = FALSE
  <2>1. Created \in Header /\ Created.size = 0 /\ Created.cap = 0 /\ Created.data = FALSE /\ "STRTAB" \in STRING
    BY CreatedIs, FileAssumption
  <2> QED
    BY <1>1, <1>2, <2>1 DEF Header
<1>4. Fits(sec)
  BY <1>3 DEF Fits
<1>5. PICK r \in Header : r = StringAdded(sec, NameSize) /\ r.fixed = FALSE
  <2>1. StringAdded(sec, NameSize) \in Header /\ SamePlace(StringAdded(sec, NameSize), sec)
    BY <1>3, <1>4, StringAddedIs, Sizes
  <2> QED
    BY <1>3, <2>1 DEF SamePlace
<1>6. PICK v : v = [r EXCEPT !.name = ".shstrtab", !.align = 1]
  OBVIOUS
<1>7. v.fixed = r.fixed
  BY <1>6 DEF Header
<1>8. Shstrtab = v
  BY <1>2, <1>5, <1>6 DEF Shstrtab
<1> QED
  BY <1>1, <1>5, <1>7, <1>8

LEMMA MapBegins ==
  ASSUME FileInit
  PROVE  MapInv
<1>1. /\ segments = <<>> /\ saves = 0 /\ phase \in {"edit", "saved"}
      /\ phase = "edit" => sections = <<Created, Shstrtab>> /\ file = NoFile
  BY DEF FileInit
<1>2. SerialInv /\ PlacesInv /\ FoundInv
  BY <1>1 DEF SerialInv, PlacesInv, FoundInv, LayoutPhases, Laid, Loading
<1>3. AddressInv
  <2>1. ASSUME phase = "edit" PROVE \A k \in DOMAIN sections : ~ sections[k].fixed
    <3>1. sections = <<Created, Shstrtab>>
      BY <1>1, <2>1
    <3>2. DOMAIN sections = 1 .. 2 /\ sections[1] = Created /\ sections[2] = Shstrtab
      BY <3>1
    <3>3. ~ Created.fixed /\ ~ Shstrtab.fixed
      BY NothingFixed
    <3>4. \A k \in 1 .. 2 : k = 1 \/ k = 2
      OBVIOUS
    <3> QED
      BY <3>2, <3>3, <3>4
  <2> QED
    BY <1>1, <2>1 DEF AddressInv, Fresh, LayoutPhases, Loading
<1> QED
  BY <1>2, <1>3 DEF MapInv

LEMMA MapStays ==
  ASSUME MapInv, UNCHANGED fileVars
  PROVE  MapInv'
<1>1. UNCHANGED <<sections, segments, phase, pos, todo, order, generated, at, file, good, saves, back>>
  BY DEF fileVars
<1>2. SerialInv'
  BY <1>1 DEF MapInv, SerialInv
<1>3. AddressInv'
  BY <1>1 DEF MapInv, AddressInv, Fresh, Numbers, Sec, Members
<1>4. PlacesInv'
  <2>1. /\ \A i : Sec(i)' = Sec(i) /\ Members(i)' = Members(i)
        /\ Current' = Current /\ Done' = Done /\ Numbers' = Numbers /\ (Fresh' <=> Fresh)
    BY <1>1 DEF Sec, Members, Current, Done, Numbers, Fresh
  <2>2. Handled' = Handled
    BY <1>1, <2>1 DEF Handled
  <2>3. /\ \A S : (InOrder(S)' <=> InOrder(S)) /\ (AllAlloc(S)' <=> AllAlloc(S))
        /\ \A seg : BssLast(seg)' <=> BssLast(seg)
    BY <2>1 DEF InOrder, AllAlloc, BssLast, HasBytes, Tied, Filled
  <2>4. \A S, T, start, size, memory : Inside(S, T, start, size, memory)' <=> Inside(S, T, start, size, memory)
    BY <2>1, <2>3 DEF Inside, HasBytes, InMemory
  <2>5. (NestedNow' <=> NestedNow) /\ (Covered' <=> Covered) /\ (BeforePos' <=> BeforePos) /\ (Owned' <=> Owned)
    BY <1>1, <2>1, <2>2 DEF NestedNow, Covered, BeforePos, Owned, HasBytes
  <2>6. \A s : Whole(s)' <=> Whole(s)
    BY <1>1, <2>1, <2>3, <2>4 DEF Whole
  <2>7. New' <=> New
    BY <1>1, <2>1, <2>2, <2>3 DEF New, Tied, Filled, HasBytes
  <2>8. Underway' <=> Underway
    BY <1>1, <2>1, <2>2, <2>3, <2>4, <2>5, <2>7 DEF Underway
  <2> QED
    BY <1>1, <2>1, <2>5, <2>6, <2>8 DEF MapInv, PlacesInv
<1>5. FoundInv'
  BY <1>1 DEF MapInv, FoundInv, SectionsOf, Numbers, Sec
<1> QED
  BY <1>2, <1>3, <1>4, <1>5 DEF MapInv

LEMMA MapStep ==
  ASSUME FileInv, MapInv, ~ back, ~ back', FileNext
  PROVE  MapInv'
<1>1. ASSUME Edit PROVE MapInv'
  <2>1. FileInv /\ SerialInv /\ AddressInv
    BY DEF MapInv
  <2>2. ASSUME NEW recipe \in Recipes, AddSection(recipe) PROVE MapInv'
    BY <2>1, <2>2, AddSectionMaps
  <2>3. ASSUME NEW i \in Numbers, AppendData(i, NameSize) PROVE MapInv'
    BY <2>3, AppendDataMaps
  <2>4. ASSUME NEW t \in Templates, AddSegment(t) PROVE MapInv'
    BY <2>1, <2>4, AddSegmentMaps
  <2>5. ASSUME NEW i \in Numbers, AddSectionIndex(i) PROVE MapInv'
    BY <2>1, <2>5, AddSectionIndexMaps
  <2> QED
    BY <1>1, <2>2, <2>3, <2>4, <2>5 DEF Edit
<1>2. ASSUME NEW length \in Cuts, Truncate(length) PROVE MapInv'
  BY <1>2, TruncateMaps
<1>3. ASSUME Read PROVE MapInv'
  <2>1. FoundInv
    BY DEF MapInv
  <2> QED
    BY <1>3, <2>1, LoadMaps, LoadSectionMaps, NameSectionsMaps, LoadSegmentMaps, EndLoadMaps DEF Read
<1> QED
  BY <1>1, <1>2, <1>3, LayOutMaps, SaveMaps DEF FileNext

\* No step forgets that a save went back.
LEMMA StaysBack ==
  ASSUME [ObjectNext]_objectVars, back
  PROVE  back'
<1>2. ASSUME LayOut PROVE back'
  BY <1>2 DEF LayOut, OrderSegment, StartLayout, StartSegment, PlaceNull, PlaceFixed, SaveAborts, PlaceNew,
     CountGenerated, FinishSegment, StartLoose, PlaceLoose, WriteFile, layout
<1>3. ASSUME Edit PROVE back'
  BY <1>3 DEF Edit, AddSection, AppendData, AddSegment, AddSectionIndex, layout
<1>4. ASSUME Read PROVE back'
  BY <1>4 DEF Read, Load, LoadSection, NameSections, LoadSegment, FinishLoad, ElfValid, layout
<1>5. ASSUME Save \/ \E length \in Cuts : Truncate(length) PROVE back'
  BY <1>5 DEF Save, Truncate, layout
<1>6. ASSUME UseTables PROVE back'
  BY <1>6 DEF UseTables, fileVars, layout
<1>7. ASSUME UNCHANGED objectVars PROVE back'
  BY <1>7 DEF objectVars, fileVars
<1> QED
  BY <1>2, <1>3, <1>4, <1>5, <1>6, <1>7 DEF ObjectNext, UseFile, FileNext

\* Places and addresses belong together always, if no save went back.
LEMMA MapHolds == ObjectSpec => [](~ back => MapInv)
<1>1. ObjectInit => MapInv
  BY MapBegins DEF ObjectInit
<1>2. FileInv /\ (~ back => MapInv) /\ [ObjectNext]_objectVars => (~ back => MapInv)'
  <2> SUFFICES ASSUME FileInv, ~ back => MapInv, [ObjectNext]_objectVars, ~ back' PROVE MapInv'
    OBVIOUS
  <2>4. ~ back /\ MapInv
    BY StaysBack
  <2>1. CASE UseTables
    BY <2>1, <2>4, UseTablesMaps DEF MapInv
  <2>2. CASE UseFile
    BY <2>2, <2>4, MapStep DEF UseFile
  <2>3. CASE UNCHANGED objectVars
    BY <2>3, <2>4, MapStays DEF objectVars
  <2> QED
    BY <2>1, <2>2, <2>3 DEF ObjectNext
<1> QED
  BY <1>1, <1>2, FileHolds, PTL DEF ObjectSpec

\* Loading finds the sections of a segment that maps them where saving put them, save the
\* empty ones, .tbss and those with neither bytes nor memory, if no save went back
\* (elfio.hpp:542-621, 779-947).
THEOREM SectionsAreFound == ObjectSpec => []SectionsFound
<1>1. FileInv /\ (~ back => MapInv) => SectionsFound
  <2> SUFFICES ASSUME FileInv, ~ back => MapInv, phase = "loaded", file.whole, saves > 0, Nested,
                      NEW s \in DOMAIN segments, MapsFirst(file.segments[s]), Uniform(file.segments[s]),
                      Sec(file.segments[s].secs[1]).size > 0, NEW j \in DOMAIN file.segments[s].secs,
                      NEW i, i = file.segments[s].secs[j], Sec(i).size > 0,
                      HasBytes(Sec(i)) \/ (Sec(i).alloc /\ ~ Sec(i).tls)
               PROVE  \E k \in DOMAIN segments[s].secs : segments[s].secs[k] = i
    BY DEF SectionsFound
  <2>15. MapInv
    BY DEF FileInv, FileTypeInv, BackPhases
  <2>1. /\ Findable(file) /\ file.segments[s].memory >= 0 /\ s \in DOMAIN file.segments /\ segments[s].secs = SectionsOf(file.segments[s])
    BY <2>15 DEF MapInv, FoundInv, Loading
  <2>2. /\ WellFormed(file) /\ Len(sections) = Len(file.sections) /\ ReadWhole
    BY <2>15 DEF FileInv, LoadInv, Loading, FileTypeInv, BackPhases
  <2>3. PICK seg : seg = file.segments[s]
    OBVIOUS
  <2>4. seg \in SegmentHeader
    <3>1. file.segments \in Seq(SegmentHeader)
      BY <2>2 DEF WellFormed
    <3> QED
      BY <2>1, <2>3, <3>1
  <2>5. NestedOf(file)
    BY DEF Nested, NestedOf, Into
  <2>6. \A n \in Into(seg.secs) : n \in Numbers
    <3>1. \A n \in Into(seg.secs) : n < Len(sections)
      BY <2>1, <2>2, <2>3, <2>5 DEF Findable
    <3>2. \A n \in Into(seg.secs) : n \in Nat
      BY <2>4, SegmentFields DEF Into
    <3> QED
      BY <3>1, <3>2, SectionTypes DEF FileInv
  <2>7. \A n \in Into(seg.secs) : SameHeader(Sec(n), SecOf(file, n))
    <3>1. \A n \in Numbers : n + 1 \in DOMAIN sections /\ Sec(n) = sections[n + 1]
      BY SectionTypes DEF FileInv
    <3> QED
      BY <2>2, <2>6, <3>1 DEF ReadWhole, SecOf
  <2>8. \A k \in DOMAIN seg.secs : seg.secs[k] \in Into(seg.secs)
    BY DEF Into
  <2>9. MapsFirstOf(file, seg)
    <3>1. BssLast(seg) /\ seg.secs # <<>>
      BY <2>3 DEF MapsFirst
    <3>2. BssLastOf(file, seg)
      BY <2>7, <2>8, <3>1 DEF BssLast, BssLastOf, HasBytes, SameHeader
    <3>3. 1 \in DOMAIN seg.secs
      BY <2>4, <3>1, SegmentFields
    <3> QED
      BY <2>3, <2>7, <2>8, <3>1, <3>2, <3>3 DEF MapsFirst, MapsFirstOf, SameHeader
  <2>10. UniformOf(file, seg)
    <3>1. \A k, l \in DOMAIN seg.secs : Sec(seg.secs[k]).alloc = Sec(seg.secs[l]).alloc
      BY <2>3 DEF Uniform
    <3>2. \A n, m \in Into(seg.secs) : Sec(n).alloc = Sec(m).alloc
      BY <3>1 DEF Into
    <3> QED
      BY <2>7, <3>2 DEF UniformOf, SameHeader
  <2>11. i \in Into(seg.secs)
    BY <2>3, <2>8
  <2>12. InSegment(SecOf(file, i), seg)
    <3>1. PICK b : b = SecOf(file, i)
      OBVIOUS
    <3>2. b.size > 0 /\ (HasBytes(b) \/ (b.alloc /\ ~ b.tls))
      BY <2>7, <2>11, <3>1 DEF SameHeader, HasBytes
    <3>3. SecOf(file, seg.secs[1]).size > 0
      <4>1. 1 \in DOMAIN seg.secs
        BY <2>4, <2>9, SegmentFields DEF MapsFirstOf
      <4> QED
        BY <2>3, <2>7, <2>8, <4>1 DEF SameHeader
    <3> QED
      BY <2>1, <2>3, <2>5, <2>9, <2>10, <2>11, <3>1, <3>2, <3>3 DEF Findable
  <2>13. InSegment(Sec(i), seg)
    BY <2>7, <2>11, <2>12 DEF InSegment, SameHeader
  <2>14. i \in Into(segments[s].secs)
    BY <2>1, <2>3, <2>6, <2>11, <2>13, SectionsOfHas
  <2> QED
    BY <2>14 DEF Into
<1> QED
  BY <1>1, FileHolds, MapHolds, PTL

\* A save goes back only for a section of a loaded file that is not in memory: those in
\* memory were found by their addresses, and a section that is made has none yet
\* (elfio.hpp:590-611, 877-891).
THEOREM BackForUnloaded == ObjectSpec => GoesBack
<1> DEFINE Kind == back' /\ ~ back => file # NoFile /\ ~ Place.alloc
<1>1. FileInv /\ (~ back => MapInv) /\ [ObjectNext]_objectVars => Kind
  <2> SUFFICES ASSUME FileInv, MapInv, [ObjectNext]_objectVars, ~ back, back'
               PROVE  file # NoFile /\ ~ Place.alloc
    OBVIOUS
  <2>1. PlaceFixed
    BY DEF ObjectNext, objectVars, fileVars, UseTables, UseFile, FileNext, Edit, AddSection, AppendData, AddSegment,
           AddSectionIndex, Save, Read, Load, LoadSection, NameSections, LoadSegment, FinishLoad, ElfValid, Truncate,
           LayOut, OrderSegment, StartLayout, StartSegment, PlaceNull, SaveAborts, PlaceNew, CountGenerated,
           FinishSegment, StartLoose, PlaceLoose, WriteFile, layout
  <2>2. HasNext /\ Index \notin generated /\ Place.fixed /\ ~ Below(Requested, Passed) /\ Requested < Passed
    BY <2>1 DEF PlaceFixed, ByAddress
  <2>3. /\ phase = "section" /\ order # <<>> /\ at.next \in 1 .. Len(Current.secs) /\ Index \in Numbers
        /\ Index = Current.secs[at.next] /\ Place = Sec(Index) /\ Place \in Header
    BY <2>2, NextIs
  <2>4. ~ Fresh
    BY <2>2, <2>3 DEF MapInv, AddressInv, LayoutPhases
  <2>5. Head(order) \in DOMAIN segments /\ Index \in Members(Head(order)) /\ Current = segments[Head(order)]
    BY <2>2, <2>3, MoreIs, HandledIs DEF MapInv
  <2>6. Known(Place, Current)
    BY <2>3, <2>4, <2>5 DEF MapInv, AddressInv, LayoutPhases
  <2>7. PICK r \in Int, p \in Int, a \in Int, v \in Int :
          r = Requested /\ p = Passed /\ a = Place.address /\ v = Current.vaddr /\ r = a - v
    <3>1. Place.address \in Int /\ Current.vaddr \in Int
      BY <2>3, HeaderFields, CurrentIs
    <3>2. pos \in Int /\ at.start \in Int
      BY Types
    <3> QED
      BY <3>1, <3>2 DEF Requested, Passed
  <2>8. r < 0
    BY <2>2, <2>7 DEF Below
  <2>9. ~ (v <= a)
    BY <2>7, <2>8
  <2> QED
    BY <2>4, <2>6, <2>7, <2>9 DEF Known, Fresh
<1>2. [][Kind]_fileVars => GoesBack
  BY PTL DEF GoesBack
<1> HIDE DEF Kind
<1> QED
  BY <1>1, <1>2, FileHolds, MapHolds, PTL DEF ObjectSpec
-----------------------------------------------------------------------------
(* How segments map their sections, in an object of one's own.  SpanInv says *)
(* what is so while segments are laid out; it needs the alignments to be     *)
(* those of the sections.                                                    *)

Alignments == {0, 1} \cup UNION {{r[k].align : k \in DOMAIN r} : r \in Recipes}
\* Of two alignments, the greater is a multiple of the smaller, as of powers of two.
Chained == \A a, b \in Alignments : 0 < a /\ a <= b => b % a = 0

\* What was saved once was not loaded.
OwnInv ==
  /\ saves = 0 => phase \in {"edit", "crashed"}
  /\ saves = 1 /\ phase \in LayoutPhases => Fresh

\* The alignment of a segment is the greatest of those of its sections.
AlignInv ==
  phase = "edit" \/ (phase \in LayoutPhases /\ Fresh) =>
    /\ \A k \in DOMAIN sections : sections[k].align \in Alignments
    /\ \A s \in DOMAIN segments :
         /\ segments[s].align \in {0} \cup {Sec(i).align : i \in Members(s)}
         /\ \A i \in Members(s) : Sec(i).align <= segments[s].align

\* Objects that SegmentsMap is about, as far as it is known before their segments have places
Mappable == Fresh /\ NestedNow /\ \A s \in DOMAIN segments : BssLast(segments[s]) /\ segments[s].secs # <<>>

\* In a place of a segment are only sections that have their addresses from where those
\* in S have them.
Room(S, start, size) ==
  /\ start + size <= pos
  /\ size > 0 => \A i \in Placed : Filled(Sec(i)) /\ start < Sec(i).offset + Sec(i).size /\ Sec(i).offset < start + size =>
       \A j \in S : Sec(i).address - Sec(i).offset = Sec(j).address - Sec(j).offset
\* The address and the place are congruent.
Tuned(vaddr, start, align) == align > 1 => \E k \in Int : vaddr - start = k * align
\* The sections of earlier segments lie in front.
Clear == \A i \in generated \ Handled : Filled(Sec(i)) => Sec(i).offset + Sec(i).size <= at.start
\* The segment that is laid out
Spanning ==
  /\ at.start + at.size <= pos
  /\ \/ New /\ Clear /\ Tuned(Current.vaddr, at.start, Current.align)
     \/ Covered /\ at.start = Sec(Current.secs[1]).offset /\ Room(Members(Head(order)), at.start, at.size)
\* The segments that have a place
DoneSpan ==
  /\ \A s \in Done : Room(Members(s), segments[s].offset, segments[s].size)
  /\ (\A s \in Done : MapsFirst(segments[s])) =>
       \A s \in Done : Tuned(segments[s].vaddr, segments[s].offset, segments[s].align)
SpanInv == phase \in Laid /\ Mappable => DoneSpan /\ (phase = "section" => Spanning)


-----------------------------------------------------------------------------
(* Alignments *)

LEMMA ModSame ==
  ASSUME NEW a \in Int, NEW k \in Int, NEW n \in Nat \ {0}
  PROVE  (a + k * n) % n = a % n
<1>1. PICK q \in Int, r \in 0 .. n - 1 : a = n * q + r /\ r = a % n
  <2>1. a = n * (a \div n) + (a % n) /\ a % n \in 0 .. n - 1 /\ a \div n \in Int
    OBVIOUS
  <2> QED
    BY <2>1
<1>2. a + k * n = n * (q + k) + r
  BY <1>1
<1>3. PICK m \in Int : m = q + k
  OBVIOUS
<1>4. (n * m + r) % n = r
  <2>1. n * m \in Int /\ n * m + r \in Int
    OBVIOUS
  <2> QED
    BY <2>1
<1> QED
  BY <1>1, <1>2, <1>3, <1>4

\* A place and an address that are apart by a multiple of the alignment
LEMMA TunedMod ==
  ASSUME NEW v \in Int, NEW o \in Int, NEW a \in Nat, Tuned(v, o, a), a > 1
  PROVE  o % a = v % a
<1>1. PICK k \in Int : v - o = k * a
  BY DEF Tuned
<1>2. v = o + k * a
  BY <1>1
<1>3. a \in Nat \ {0}
  OBVIOUS
<1>4. (o + k * a) % a = o % a
  BY <1>3, ModSame
<1> QED
  BY <1>2, <1>4

LEMMA CongruentTuned ==
  ASSUME pos \in Nat, Current.vaddr \in Nat, NEW a \in Nat
  PROVE  Tuned(Current.vaddr, Congruent(a), a)
<1>1. SUFFICES ASSUME a > 1 PROVE \E k \in Int : Current.vaddr - Congruent(a) = k * a
  BY DEF Tuned
<1>2. PICK v \in Nat, p \in Nat : v = Current.vaddr /\ p = pos
  OBVIOUS
<1>3. a \in Nat \ {0}
  BY <1>1
<1>4. \A x \in Nat : \E q \in Int, r \in 0 .. a - 1 : x = a * q + r /\ r = x % a
  <2>1. ASSUME NEW x \in Nat PROVE x \div a \in Int /\ x % a \in 0 .. a - 1 /\ x = a * (x \div a) + (x % a)
    BY <1>3, DivMod
  <2> QED
    BY <2>1
<1>5. PICK qv \in Int, rv \in 0 .. a - 1 : v = a * qv + rv /\ rv = v % a
  BY <1>4
<1>6. PICK qp \in Int, rp \in 0 .. a - 1 : p = a * qp + rp /\ rp = p % a
  BY <1>4
<1>7. PICK x \in Nat : x = a + rv - rp
  OBVIOUS
<1>8. PICK qx \in Int, rx \in 0 .. a - 1 : x = a * qx + rx /\ rx = x % a
  BY <1>4
<1>9. Congruent(a) = p + rx
  <2>1. Congruent(a) = pos + ((a + (Current.vaddr % a) - (pos % a)) % a)
    BY <1>1 DEF Congruent
  <2> QED
    BY <1>2, <1>5, <1>6, <1>7, <1>8, <2>1
<1>10. PICK mv \in Int, mp \in Int, mx \in Int : mv = a * qv /\ mp = a * qp /\ mx = a * qx
  OBVIOUS
<1>11. v - (p + rx) = mv - mp + mx - a
  BY <1>5, <1>6, <1>7, <1>8, <1>10
<1>12. mv - mp + mx - a = (qv - qp + qx - 1) * a
  BY <1>10
<1>13. qv - qp + qx - 1 \in Int
  OBVIOUS
<1> QED
  BY <1>2, <1>9, <1>11, <1>12, <1>13

\* An alignment that divides another one
LEMMA TunedPart ==
  ASSUME NEW v \in Int, NEW o \in Int, NEW a \in Nat, NEW b \in Nat, Tuned(v, o, a),
         b = 0 \/ (b <= a /\ a % b = 0)
  PROVE  Tuned(v, o, b)
<1>1. SUFFICES ASSUME b > 1 PROVE \E k \in Int : v - o = k * b
  BY DEF Tuned
<1>2. b <= a /\ a % b = 0 /\ a > 1
  BY <1>1
<1>3. PICK m \in Int : a = m * b
  <2>1. a = b * (a \div b) + (a % b) /\ a \div b \in Int
    BY <1>1, DivMod
  <2> QED
    BY <1>2, <2>1
<1>4. PICK k \in Int : v - o = k * a
  BY <1>2 DEF Tuned
<1>5. k * m \in Int /\ k * (m * b) = (k * m) * b
  OBVIOUS
<1> QED
  BY <1>3, <1>4, <1>5

-----------------------------------------------------------------------------
(* An object of one's own *)

LEMMA OwnStep ==
  ASSUME FileInv, AddressInv, OwnInv, FileNext
  PROVE  OwnInv'
<1>1. saves \in Nat
  BY DEF FileInv, FileTypeInv
<1>2. ASSUME Edit PROVE OwnInv'
  BY <1>2 DEF Edit, AddSection, AppendData, AddSegment, AddSectionIndex, OwnInv, LayoutPhases, layout
<1>3. ASSUME Save PROVE OwnInv'
  <2>1. phase \in {"edit", "loaded", "amended"} /\ phase' = "order" /\ saves' = saves + 1 /\ file' = file
    BY <1>3 DEF Save
  <2>2. saves' # 0 /\ (saves' = 1 => phase = "edit")
    <3>1. saves' # 0 /\ (saves' = 1 => saves = 0)
      BY <1>1, <2>1
    <3> QED
      BY <2>1, <3>1 DEF OwnInv
  <2>3. phase = "edit" => Fresh
    BY DEF AddressInv
  <2> QED
    BY <2>1, <2>2, <2>3 DEF OwnInv, Fresh
<1>4. ASSUME LayOut PROVE OwnInv'
  <2>1. /\ saves' = saves /\ phase \in LayoutPhases
        /\ phase' \in {"saved", "failed"} \/ (phase' \in LayoutPhases /\ file' = file)
    BY <1>4 DEF LayOut, OrderSegment, StartLayout, StartSegment, PlaceNull, PlaceFixed, SaveAborts, PlaceNew,
                Generate, CountGenerated, FinishSegment, StartLoose, PlaceLoose, WriteFile, HasNext, LayoutPhases
  <2> QED
    BY <2>1 DEF OwnInv, Fresh, LayoutPhases
<1>5. ASSUME NEW length \in Cuts, Truncate(length) PROVE OwnInv'
  BY <1>5 DEF Truncate, OwnInv
<1>6. ASSUME Read PROVE OwnInv'
  <2>1. saves' = saves /\ phase \notin {"edit", "crashed"} /\ phase' \notin LayoutPhases
    BY <1>6 DEF Read, Load, LoadSection, NameSections, LoadSegment, FinishLoad, ElfValid, LayoutPhases
  <2> QED
    BY <2>1 DEF OwnInv
<1> QED
  BY <1>2, <1>3, <1>4, <1>5, <1>6 DEF FileNext

LEMMA AlignsKept ==
  ASSUME FileInv, AlignInv, phase = "edit" \/ (phase \in LayoutPhases /\ Fresh),
         DOMAIN sections' = DOMAIN sections, \A k \in DOMAIN sections : sections'[k].align = sections[k].align,
         DOMAIN segments' = DOMAIN segments,
         \A s \in DOMAIN segments : segments'[s].align = segments[s].align /\ segments'[s].secs = segments[s].secs
  PROVE  AlignInv'
<1>1. /\ \A k \in DOMAIN sections : sections[k].align \in Alignments
      /\ \A s \in DOMAIN segments :
           /\ segments[s].align \in {0} \cup {Sec(i).align : i \in Members(s)}
           /\ \A i \in Members(s) : Sec(i).align <= segments[s].align
  BY DEF AlignInv
<1>2. \A i \in Numbers : i + 1 \in DOMAIN sections
  BY SectionTypes DEF FileInv
<1>3. ASSUME NEW s \in DOMAIN segments
      PROVE  /\ segments'[s].align \in {0} \cup {Sec(i)'.align : i \in Members(s)'}
             /\ \A i \in Members(s)' : Sec(i)'.align <= segments'[s].align
  <2>1. Members(s)' = Members(s) /\ \A i \in Members(s) : i \in Numbers
    BY MembersIs DEF Members
  <2>2. \A i \in Members(s) : Sec(i)'.align = Sec(i).align
    BY <1>2, <2>1 DEF Sec
  <2> QED
    BY <1>1, <2>1, <2>2
<1>4. \A k \in DOMAIN sections' : sections'[k].align \in Alignments
  BY <1>1
<1> QED
  BY <1>3, <1>4 DEF AlignInv

LEMMA LayAligns ==
  ASSUME FileInv, AlignInv, Kept, phase \in LayoutPhases, phase' # "edit", file' = file,
         \A s \in DOMAIN segments : segments'[s].align = segments[s].align
  PROVE  AlignInv'
<1>1. CASE Fresh
  <2>1. /\ Len(sections) \in Nat /\ DOMAIN sections = 1 .. Len(sections) /\ Numbers = 0 .. Len(sections) - 1
        /\ \A i \in Numbers : Sec(i) = sections[i + 1]
    BY SectionTypes DEF FileInv
  <2>2. DOMAIN sections' = 1 .. Len(sections)
    BY DEF Kept
  <2>3. ASSUME NEW k \in DOMAIN sections PROVE sections'[k].align = sections[k].align
    <3>1. PICK i \in Numbers : k = i + 1
      <4>1. k \in Int /\ k - 1 \in Numbers /\ k = (k - 1) + 1
        BY <2>1, <2>3
      <4> QED
        BY <4>1
    <3>2. Sec(i)' = sections'[k] /\ Sec(i) = sections[k]
      BY <3>1 DEF Sec
    <3> QED
      BY <3>1, <3>2 DEF Kept, SectionKept
  <2> QED
    BY <1>1, <2>1, <2>2, <2>3, KeptMembers, AlignsKept
<1>2. CASE ~ Fresh
  BY <1>2 DEF AlignInv, Fresh
<1> QED
  BY <1>1, <1>2

LEMMA AddSectionAligns ==
  ASSUME FileInv, AlignInv, NEW recipe \in Recipes, AddSection(recipe)
  PROVE  AlignInv'
<1>1. PICK n \in Nat : /\ n = Len(sections) - 2 /\ n < Len(recipe) /\ segments = <<>> /\ segments' = segments
                       /\ phase = "edit" /\ sections' = WithSection(recipe[n + 1])
  <2>1. Len(sections) \in Nat /\ phase = "edit"
    BY SectionTypes DEF FileInv, AddSection
  <2> QED
    BY <2>1, EditFacts DEF AddSection
<1>2. PICK k : /\ k = recipe[n + 1] /\ k.align \in Alignments
  <2>1. recipe \in Seq([name : STRING, type : STRING \ {"NULL"}, alloc : BOOLEAN,
                        tls : BOOLEAN, size : Nat, align : Nat])
    BY FileAssumption
  <2>2. Len(recipe) \in Nat /\ DOMAIN recipe = 1 .. Len(recipe)
    BY <2>1
  <2>3. n + 1 \in DOMAIN recipe
    BY <1>1, <2>2
  <2> QED
    BY <2>3 DEF Alignments
<1>3. /\ Len(sections) \in Nat /\ Len(sections) >= 2 /\ sections \in Seq(Header)
      /\ \A l \in 1 .. Len(sections) : sections[l] \in Header /\ Fits(sections[l]) /\ sections[l].align \in Alignments
      /\ DOMAIN sections = 1 .. Len(sections)
  BY <1>1, EditFacts, SectionTypes DEF FileInv, AlignInv, Sound
<1> DEFINE named == [sections EXCEPT ![2] = StringAdded(@, NameSize)]
           made == [Created EXCEPT !.name = k.name, !.type = k.type, !.alloc = k.alloc,
                                   !.tls = k.tls, !.align = k.align]
           filled == IF k.type = "NOBITS" THEN [made EXCEPT !.size = k.size] ELSE SetData(made, k.size)
<1>4. sections' = Append(named, filled)
  BY <1>1, <1>2 DEF WithSection
<1>5. filled.align = k.align
  <2>1. made.align = k.align
    BY DEF Created
  <2>2. \A b, c : /\ [made EXCEPT !.size = b].align = made.align
                  /\ [made EXCEPT !.size = b, !.cap = c, !.room = c, !.data = TRUE].align = made.align
    BY DEF Created
  <2> HIDE DEF made
  <2> QED
    BY <2>1, <2>2 DEF SetData
<1>6. /\ Len(named) = Len(sections) /\ named \in Seq(Header)
      /\ \A l \in 1 .. Len(sections) : named[l].align \in Alignments
  <2>1. 2 \in 1 .. Len(sections)
    BY <1>3
  <2>2. PICK v \in Header : v = StringAdded(sections[2], NameSize) /\ v.align = sections[2].align
    BY <1>3, <2>1, StringAddedIs, Sizes DEF SamePlace
  <2>3. named = [sections EXCEPT ![2] = v]
    BY <2>2
  <2> HIDE DEF named
  <2>4. /\ named \in Seq(Header) /\ Len(named) = Len(sections)
        /\ \A l \in 1 .. Len(sections) : named[l] = IF l = 2 THEN v ELSE sections[l]
    BY <1>3, <2>1, <2>3
  <2> QED
    BY <1>3, <2>1, <2>2, <2>4
<1> HIDE DEF named, filled
<1>7. /\ DOMAIN sections' = 1 .. Len(sections) + 1 /\ sections'[Len(sections) + 1] = filled
      /\ \A l \in 1 .. Len(sections) : sections'[l] = named[l]
  BY <1>3, <1>4, <1>6
<1>8. \A l \in DOMAIN sections' : l \in 1 .. Len(sections) \/ l = Len(sections) + 1
  BY <1>3, <1>7
<1>9. \A l \in DOMAIN sections' : sections'[l].align \in Alignments
  BY <1>2, <1>5, <1>6, <1>7, <1>8
<1>10. DOMAIN segments' = {}
  BY <1>1
<1> QED
  BY <1>9, <1>10 DEF AlignInv

\* Contents are appended to sections.
LEMMA ContentsAligns ==
  ASSUME FileInv, AlignInv, UseTables \/ (\E i \in Numbers : AppendData(i, NameSize))
  PROVE  AlignInv'
<1>1. segments' = segments /\ (phase # "edit" => phase' \notin {"edit"} \cup LayoutPhases)
  BY DEF UseTables, AppendData, LayoutPhases
<1>0. SUFFICES ASSUME phase = "edit" PROVE AlignInv'
  BY <1>1 DEF AlignInv
<1>2. /\ \A l \in 1 .. Len(sections) : sections[l] \in Header /\ Sound(sections[l])
      /\ DOMAIN sections = 1 .. Len(sections) /\ sections \in Seq(Header)
      /\ \A i \in Numbers : i + 1 \in 1 .. Len(sections)
  BY <1>0, EditFacts, SectionTypes DEF FileInv
<1>3. CASE UseTables
  <2>1. sections' = [k \in DOMAIN sections |-> WriteThrough(sections[k])]
    BY <1>3 DEF UseTables
  <2>2. ASSUME NEW l \in DOMAIN sections PROVE sections'[l].align = sections[l].align
    <3>1. PICK sec \in Header : sec = sections[l] /\ Sound(sec)
      BY <1>2, <2>2
    <3>2. WriteThrough(sec).align = sec.align
      BY <3>1, WriteThroughIs DEF SamePlace
    <3> QED
      BY <2>1, <2>2, <3>1, <3>2
  <2> QED
    BY <1>0, <1>1, <2>1, <2>2, AlignsKept
<1>4. ASSUME NEW i \in Numbers, AppendData(i, NameSize) PROVE AlignInv'
  <2>0. CASE phase' = "crashed"
    BY <2>0 DEF AlignInv, LayoutPhases
  <2> SUFFICES ASSUME phase' # "crashed" PROVE AlignInv'
    BY <2>0
  <2>1. /\ i + 1 \in 1 .. Len(sections)
        /\ \/ sections' = [sections EXCEPT ![i + 1] = Appended(@, NameSize)]
           \/ sections' = [sections EXCEPT ![i + 1] = NotGrown(@, NameSize)]
    BY <1>2, <1>4 DEF AppendData
  <2>2. PICK v : v.align = sections[i + 1].align /\ sections' = [sections EXCEPT ![i + 1] = v]
    <3>1. PICK sec \in Header : sec = sections[i + 1] /\ Fits(sec)
      BY <1>2, <2>1 DEF Sound
    <3>2. PICK a : a = Appended(sec, NameSize) /\ a.align = sec.align
      BY <3>1, AppendedIs, FitsIs, Sizes DEF SamePlace
    <3>3. PICK b : b = NotGrown(sec, NameSize) /\ b.align = sec.align
      BY <3>1, NotGrownIs, Sizes DEF SamePlace
    <3>4. \/ sections' = [sections EXCEPT ![i + 1] = a]
          \/ sections' = [sections EXCEPT ![i + 1] = b]
      BY <2>1, <3>1, <3>2, <3>3
    <3> QED
      BY <3>1, <3>2, <3>3, <3>4
  <2>4. /\ DOMAIN sections' = DOMAIN sections
        /\ \A l \in DOMAIN sections : sections'[l] = IF l = i + 1 THEN v ELSE sections[l]
    BY <1>2, <2>1, <2>2
  <2>5. \A l \in DOMAIN sections : sections'[l].align = sections[l].align
    BY <2>2, <2>4
  <2> QED
    BY <1>0, <1>1, <2>4, <2>5, AlignsKept
<1> QED
  BY <1>3, <1>4

LEMMA AddSegmentAligns ==
  ASSUME FileInv, AlignInv, NEW t, AddSegment(t)
  PROVE  AlignInv'
<1> DEFINE new == [type |-> t.type, vaddr |-> t.vaddr, align |-> 0, memory |-> 0,
                   size |-> 0, offset |-> 0, fixed |-> FALSE, secs |-> <<>>]
<1>1. phase = "edit" /\ segments' = Append(segments, new) /\ sections' = sections
  BY DEF AddSegment
<1>2. new.secs = <<>> /\ new.align = 0
  OBVIOUS
<1> HIDE DEF new
<1>3. PICK n \in Nat : n = Len(segments) /\ DOMAIN segments = 1 .. n /\ segments \in Seq(SegmentHeader)
  BY SegmentsInside
<1>4. /\ DOMAIN segments' = 1 .. n + 1 /\ segments'[n + 1] = new
      /\ \A s \in 1 .. n : segments'[s] = segments[s]
  BY <1>1, <1>3
<1>5. \A s \in 1 .. n + 1 : s \in 1 .. n \/ s = n + 1
  BY <1>3
<1>6. /\ \A k \in DOMAIN sections : sections[k].align \in Alignments
      /\ \A s \in DOMAIN segments :
           /\ segments[s].align \in {0} \cup {Sec(i).align : i \in Members(s)}
           /\ \A i \in Members(s) : Sec(i).align <= segments[s].align
  BY <1>1 DEF AlignInv
<1>7. \A i : Sec(i)' = Sec(i)
  BY <1>1 DEF Sec
<1>8. \A s \in 1 .. n : Members(s)' = Members(s)
  BY <1>4 DEF Members
<1>9. Members(n + 1)' = {}
  BY <1>2, <1>4 DEF Members, Into
<1>10. ASSUME NEW s \in DOMAIN segments'
       PROVE  /\ segments'[s].align \in {0} \cup {Sec(i)'.align : i \in Members(s)'}
              /\ \A i \in Members(s)' : Sec(i)'.align <= segments'[s].align
  <2>1. CASE s \in 1 .. n
    BY <1>3, <1>4, <1>6, <1>7, <1>8, <2>1
  <2>2. CASE s = n + 1
    BY <1>2, <1>4, <1>9, <2>2
  <2> QED
    BY <1>4, <1>5, <2>1, <2>2
<1> QED
  BY <1>1, <1>6, <1>10 DEF AlignInv

LEMMA AddSectionIndexAligns ==
  ASSUME FileInv, AlignInv, NEW i, AddSectionIndex(i)
  PROVE  AlignInv'
<1>1. PICK s : /\ s = Len(segments) /\ phase = "edit" /\ s > 0 /\ i \in Numbers
               /\ segments' = [segments EXCEPT ![s].secs = Append(@, i),
                                 ![s].align = IF Sec(i).align > @ THEN Sec(i).align ELSE @]
               /\ sections' = sections
  BY DEF AddSectionIndex
<1>2. /\ Len(segments) \in Nat /\ segments \in Seq(SegmentHeader) /\ s \in 1 .. Len(segments)
      /\ DOMAIN segments = 1 .. Len(segments) /\ segments[s] \in SegmentHeader
      /\ segments[s].secs \in Seq(Nat) /\ i \in Nat /\ segments[s].align \in Nat
  <2>1. i \in Nat
    BY <1>1, SectionTypes DEF FileInv
  <2> QED
    BY <1>1, <2>1, SegmentsInside, SegmentFields
<1>3. PICK q \in Seq(Nat), r \in Seq(Nat) : q = segments[s].secs /\ r = Append(q, i) /\ Into(r) = Into(q) \cup {i}
  BY <1>2, IntoIs
<1>4. PICK b \in Nat, c \in Nat : b = segments[s].align /\ c = Sec(i).align
  BY <1>1, <1>2, SectionTypes, HeaderFields DEF FileInv
<1>5. PICK a \in Nat : a = IF c > b THEN c ELSE b
  OBVIOUS
<1>6. PICK v : v = [segments[s] EXCEPT !.secs = r, !.align = a]
  OBVIOUS
<1>7. segments' = [segments EXCEPT ![s] = v]
  BY <1>1, <1>2, <1>3, <1>4, <1>5, <1>6
<1>8. v.secs = r /\ v.align = a
  BY <1>2, <1>6 DEF SegmentHeader
<1>9. /\ DOMAIN segments' = DOMAIN segments
      /\ \A x \in DOMAIN segments : segments'[x] = IF x = s THEN v ELSE segments[x]
  BY <1>2, <1>7
<1>10. /\ \A k \in DOMAIN sections : sections[k].align \in Alignments
       /\ \A x \in DOMAIN segments :
            /\ segments[x].align \in {0} \cup {Sec(j).align : j \in Members(x)}
            /\ \A j \in Members(x) : Sec(j).align <= segments[x].align
  BY <1>1 DEF AlignInv
<1>11. \A j : Sec(j)' = Sec(j)
  BY <1>1 DEF Sec
<1>12. ASSUME NEW x \in DOMAIN segments'
       PROVE  /\ segments'[x].align \in {0} \cup {Sec(j)'.align : j \in Members(x)'}
              /\ \A j \in Members(x)' : Sec(j)'.align <= segments'[x].align
  <2>1. CASE x # s
    <3>1. Members(x)' = Members(x)
      BY <1>9, <1>12, <2>1 DEF Members
    <3> QED
      BY <1>9, <1>10, <1>11, <1>12, <2>1, <3>1
  <2>2. CASE x = s
    <3>1. Members(s) = Into(q) /\ Members(s)' = Into(r) /\ segments'[s].align = a
      BY <1>2, <1>3, <1>8, <1>9 DEF Members
    <3>2. b \in {0} \cup {Sec(j).align : j \in Into(q)} /\ \A j \in Into(q) : Sec(j).align <= b
      BY <1>2, <1>4, <1>10, <3>1
    <3>3. \A j \in Into(q) : Sec(j).align \in Nat
      <4>1. \A j \in Into(q) : j \in Numbers
        BY <1>2, <3>1, MembersIs
      <4> QED
        BY <4>1, SectionTypes, HeaderFields DEF FileInv
    <3>4. a \in {0} \cup {Sec(j).align : j \in Into(r)}
      BY <1>3, <1>4, <1>5, <3>2
    <3>5. \A j \in Into(r) : Sec(j).align <= a
      BY <1>3, <1>4, <1>5, <3>2, <3>3
    <3> QED
      BY <1>11, <2>2, <3>1, <3>4, <3>5
  <2> QED
    BY <2>1, <2>2
<1> QED
  BY <1>1, <1>10, <1>12 DEF AlignInv

\* The greatest of the alignments
LEMMA AlignedTo ==
  ASSUME FileInv, NEW s \in DOMAIN segments
  PROVE  /\ AlignedSegments[s].align \in {segments[s].align} \cup {Sec(i).align : i \in Members(s)}
         /\ \A i \in Members(s) : Sec(i).align <= AlignedSegments[s].align
<1>1. /\ segments[s] \in SegmentHeader /\ segments[s].align \in Nat
      /\ \A i \in Members(s) : i \in Numbers /\ Sec(i).align \in Nat
  <2>1. \A i \in Members(s) : i \in Numbers
    BY MembersIs
  <2> QED
    BY <2>1, MembersIs, SegmentFields, SectionTypes, HeaderFields DEF FileInv
<1>2. PICK n \in Nat : n = Len(segments[s].secs) /\ DOMAIN segments[s].secs = 1 .. n
  BY <1>1, SegmentFields
<1> DEFINE f == [j \in 1 .. n |-> Sec(segments[s].secs[j]).align]
           S == {segments[s].align} \cup {f[j] : j \in 1 .. n}
<1>3. f \in [1 .. n -> Nat]
  BY <1>1, <1>2 DEF Members, Into
<1>4. S = {segments[s].align} \cup {Sec(i).align : i \in Members(s)}
  BY <1>2 DEF Members, Into
<1>5. S = {segments[s].align} \cup {Sec(segments[s].secs[j]).align : j \in DOMAIN segments[s].secs}
  BY <1>2
<1>6. PICK m \in S : \A x \in S : x <= m
  <2> HIDE DEF f
  <2> QED
    BY <1>1, <1>3, GreatestOf
<1>7. AlignedSegments[s].align = LargestOf(S, 0)
  <2>1. AlignedSegments[s] = [segments[s] EXCEPT !.align = LargestOf({segments[s].align} \cup
           {Sec(segments[s].secs[j]).align : j \in DOMAIN segments[s].secs}, 0)]
    BY DEF AlignedSegments
  <2>2. AlignedSegments[s] = [segments[s] EXCEPT !.align = LargestOf(S, 0)]
    BY <1>5, <2>1
  <2> HIDE DEF S
  <2> QED
    BY <1>1, <2>2 DEF SegmentHeader
<1> HIDE DEF S
<1>8. LargestOf(S, 0) = CHOOSE x \in S : \A y \in S : y <= x
  BY <1>6 DEF LargestOf
<1>9. LargestOf(S, 0) \in S /\ \A y \in S : y <= LargestOf(S, 0)
  BY <1>6, <1>8
<1>10. \A i \in Members(s) : Sec(i).align \in S
  BY <1>4
<1> QED
  BY <1>4, <1>7, <1>9, <1>10

LEMMA SaveAligns ==
  ASSUME FileInv, AddressInv, AlignInv, Save
  PROVE  AlignInv'
<1>1. /\ phase \in {"edit", "loaded", "amended"} /\ phase' = "order" /\ file' = file /\ sections' = sections
      /\ segments' = AlignedSegments
  BY DEF Save
<1>2. CASE phase # "edit"
  <2>1. ~ Fresh
    BY <1>1, <1>2, LoadingIs DEF Loading, AddressInv
  <2> QED
    BY <1>1, <2>1 DEF AlignInv, Fresh
<1>3. CASE phase = "edit"
  <2>1. /\ DOMAIN segments' = DOMAIN segments
        /\ \A s \in DOMAIN segments : Members(s)' = Members(s)
    BY SaveIs, KeptMembers
  <2>2. \A i : Sec(i)' = Sec(i)
    BY <1>1 DEF Sec
  <2>3. ASSUME NEW s \in DOMAIN segments
        PROVE  /\ segments'[s].align \in {0} \cup {Sec(i).align : i \in Members(s)}
               /\ \A i \in Members(s) : Sec(i).align <= segments'[s].align
    <3>1. segments[s].align \in {0} \cup {Sec(i).align : i \in Members(s)}
      BY <1>3 DEF AlignInv
    <3> QED
      BY <1>1, <3>1, AlignedTo
  <2>4. \A k \in DOMAIN sections' : sections'[k].align \in Alignments
    BY <1>1, <1>3 DEF AlignInv
  <2> QED
    BY <2>1, <2>2, <2>3, <2>4 DEF AlignInv
<1> QED
  BY <1>1, <1>2, <1>3

LEMMA LayOutAligns ==
  ASSUME FileInv, AlignInv, ~ back', LayOut
  PROVE  AlignInv'
<1>1. ASSUME \/ OrderSegment \/ StartLayout \/ StartSegment \/ PlaceNull \/ SaveAborts
             \/ CountGenerated \/ StartLoose
      PROVE  AlignInv'
  <2>1. /\ sections' = sections /\ segments' = segments /\ file' = file
        /\ phase \in LayoutPhases /\ phase' # "edit"
    BY <1>1 DEF OrderSegment, StartLayout, StartSegment, PlaceNull, SaveAborts, CountGenerated, StartLoose,
                HasNext, LayoutPhases
  <2> QED
    BY <2>1, UnchangedKept, LayAligns
<1>2. ASSUME PlaceFixed \/ PlaceNew PROVE AlignInv'
  <2>1. PICK gap \in Nat : HasNext /\ Generate(gap)
    BY <1>2, PlacedGap
  <2>2. segments' = segments /\ file' = file /\ phase \in LayoutPhases /\ phase' # "edit"
    BY <2>1 DEF Generate, HasNext, LayoutPhases
  <2> QED
    BY <2>1, <2>2, GeneratedIs, LayAligns
<1>3. ASSUME FinishSegment PROVE AlignInv'
  <2>1. file' = file /\ phase = "section" /\ phase' = "segment"
    BY <1>3 DEF FinishSegment
  <2>2. order # <<>>
    BY <2>1 DEF FileInv, OrderInv
  <2>3. Current = segments[Head(order)]
    BY <2>1, <2>2, CurrentIs
  <2>4. \A s \in DOMAIN segments : segments'[s].align = segments[s].align
    BY <1>3, <2>3, FinishIs
  <2>5. Kept
    BY <1>3, FinishIs
  <2> QED
    BY <2>1, <2>4, <2>5, LayAligns DEF LayoutPhases
<1>4. ASSUME PlaceLoose PROVE AlignInv'
  <2>1. segments' = segments /\ file' = file /\ phase = "loose" /\ phase' = "loose"
    BY <1>4 DEF PlaceLoose
  <2> QED
    BY <1>4, <2>1, LooseIs, LayAligns DEF LayoutPhases
<1>5. ASSUME WriteFile PROVE AlignInv'
  BY <1>5 DEF WriteFile, AlignInv, LayoutPhases
<1> QED
  BY <1>1, <1>2, <1>3, <1>4, <1>5 DEF LayOut

LEMMA AlignStep ==
  ASSUME FileInv, AddressInv, AlignInv, ~ back', FileNext
  PROVE  AlignInv'
<1>1. ASSUME Edit PROVE AlignInv'
  BY <1>1, AddSectionAligns, ContentsAligns, AddSegmentAligns, AddSectionIndexAligns DEF Edit
<1>2. ASSUME NEW length \in Cuts, Truncate(length) PROVE AlignInv'
  BY <1>2 DEF Truncate, AlignInv, LayoutPhases
<1>3. ASSUME Read PROVE AlignInv'
  <2>1. phase' # "edit" /\ phase' \notin LayoutPhases
    BY <1>3 DEF Read, Load, LoadSection, NameSections, LoadSegment, FinishLoad, ElfValid, LayoutPhases
  <2> QED
    BY <2>1 DEF AlignInv
<1> QED
  BY <1>1, <1>2, <1>3, SaveAligns, LayOutAligns DEF FileNext

LEMMA AlignBegins ==
  ASSUME FileInit, phase = "edit"
  PROVE  AlignInv
<1>1. segments = <<>> /\ sections = <<Created, Shstrtab>>
  BY DEF FileInit
<1>2. Created.align = 0
  BY DEF Created
<1>3. Shstrtab.align = 1
  <2>1. PICK sec : sec = [Created EXCEPT !.type = "STRTAB"]
    OBVIOUS
  <2>2. sec \in Header /\ sec.size = 0 /\ sec.cap = 0 /\ sec.data = FALSE
    <3>1. Created \in Header /\ Created.size = 0 /\ Created.cap = 0 /\ Created.data = FALSE /\ "STRTAB" \in STRING
      BY CreatedIs, FileAssumption
    <3> QED
      BY <2>1, <3>1 DEF Header
  <2>3. Fits(sec)
    BY <2>2 DEF Fits
  <2>4. PICK r \in Header : r = StringAdded(sec, NameSize)
    BY <2>2, <2>3, StringAddedIs, Sizes
  <2>5. Shstrtab = [r EXCEPT !.name = ".shstrtab", !.align = 1]
    BY <2>1, <2>4 DEF Shstrtab
  <2> QED
    BY <2>4, <2>5 DEF Header
<1>4. \A k \in DOMAIN sections : sections[k].align \in Alignments
  <2>1. DOMAIN sections = 1 .. 2 /\ sections[1] = Created /\ sections[2] = Shstrtab
    BY <1>1
  <2>2. \A k \in 1 .. 2 : k = 1 \/ k = 2
    OBVIOUS
  <2>3. 0 \in Alignments /\ 1 \in Alignments
    BY DEF Alignments
  <2> QED
    BY <1>2, <1>3, <2>1, <2>2, <2>3
<1>5. DOMAIN segments = {}
  BY <1>1
<1> QED
  BY <1>4, <1>5 DEF AlignInv

LEMMA AlignStays ==
  ASSUME UNCHANGED fileVars
  PROVE  (AlignInv => AlignInv') /\ (OwnInv => OwnInv')
<1>1. UNCHANGED <<sections, segments, phase, file, saves>>
  BY DEF fileVars
<1>2. AlignInv => AlignInv'
  BY <1>1 DEF AlignInv, Fresh, Members, Sec
<1>3. OwnInv => OwnInv'
  BY <1>1 DEF OwnInv, Fresh
<1> QED
  BY <1>2, <1>3

-----------------------------------------------------------------------------
(* What is in the place of a segment *)

LEMMA MappableKept ==
  ASSUME FileInv, Kept, file' = file
  PROVE  Mappable' <=> Mappable
<1>1. /\ DOMAIN segments' = DOMAIN segments /\ (NestedNow' <=> NestedNow) /\ (Fresh' <=> Fresh)
      /\ \A s \in DOMAIN segments : /\ segments'[s].secs = segments[s].secs
                                    /\ (BssLast(segments[s])' <=> BssLast(segments[s]))
  BY KeptMembers DEF Fresh
<1> QED
  BY <1>1 DEF Mappable

\* Sections that have no place yet go behind the position.
LEMMA RoomKept ==
  ASSUME pos \in Nat, pos' \in Nat, pos <= pos', NEW S, NEW start \in Int, NEW size \in Int, Room(S, start, size),
         \A i \in S : Sec(i)' = Sec(i),
         \A i \in Placed' : \/ i \in Placed /\ Sec(i)' = Sec(i)
                            \/ Sec(i)'.offset \in Int /\ pos <= Sec(i)'.offset
                            \/ ~ Filled(Sec(i)')
  PROVE  Room(S, start, size)'
<1>1. start + size <= pos'
  BY DEF Room
<1>2. ASSUME size > 0, NEW i \in Placed', Filled(Sec(i)'), start < Sec(i)'.offset + Sec(i)'.size,
             Sec(i)'.offset < start + size, NEW j \in S
      PROVE  Sec(i)'.address - Sec(i)'.offset = Sec(j)'.address - Sec(j)'.offset
  <2>1. ~ (Sec(i)'.offset \in Int /\ pos <= Sec(i)'.offset)
    BY <1>2 DEF Room
  <2>2. i \in Placed /\ Sec(i)' = Sec(i) /\ Sec(j)' = Sec(j)
    BY <1>2, <2>1
  <2> QED
    BY <1>2, <2>2 DEF Room
<1> QED
  BY <1>1, <1>2 DEF Room, Filled, HasBytes

LEMMA DoneSpanKept ==
  ASSUME FileInv, ~ back, phase \in Laid, Kept, UNCHANGED <<segments, order>>, DoneSpan,
         pos' \in Nat, pos <= pos', \A i \in generated : Sec(i)' = Sec(i),
         \A i \in Placed' : \/ i \in Placed /\ Sec(i)' = Sec(i)
                            \/ Sec(i)'.offset \in Int /\ pos <= Sec(i)'.offset
                            \/ ~ Filled(Sec(i)')
  PROVE  DoneSpan'
<1>1. Done' = Done /\ \A s \in Done : s \in DOMAIN segments /\ Members(s) \subseteq generated /\ Members(s)' = Members(s)
  BY DoneIs DEF Done, Members
<1>2. pos \in Nat
  BY PosIs DEF Laid
<1>3. \A s \in Done : segments[s].offset \in Int /\ segments[s].size \in Int
  BY <1>1, SegmentsInside, SegmentFields
<1>4. ASSUME NEW s \in Done PROVE Room(Members(s), segments[s].offset, segments[s].size)'
  <2>0. PICK S : S = Members(s)
    OBVIOUS
  <2>1. PICK o \in Int, z \in Int : o = segments[s].offset /\ z = segments[s].size
    BY <1>3
  <2>2. Room(S, o, z) /\ \A i \in S : Sec(i)' = Sec(i)
    BY <1>1, <2>0, <2>1 DEF DoneSpan
  <2>3. Room(S, o, z)'
    BY <1>2, <2>2, RoomKept
  <2>4. Members(s)' = S /\ segments'[s].offset = o /\ segments'[s].size = z
    BY <1>1, <2>0, <2>1
  <2> QED
    BY <2>3, <2>4
<1>5. ASSUME NEW s \in Done PROVE MapsFirst(segments[s])' <=> MapsFirst(segments[s])
  <2>1. BssLast(segments[s])' <=> BssLast(segments[s])
    BY <1>1, KeptMembers
  <2>2. ASSUME segments[s].secs # <<>> PROVE Sec(segments[s].secs[1])' = Sec(segments[s].secs[1])
    <3>1. 1 \in DOMAIN segments[s].secs
      <4>1. segments[s] \in SegmentHeader
        BY <1>1, SegmentsInside
      <4> QED
        BY <2>2, <4>1, SegmentFields
    <3>2. segments[s].secs[1] \in Members(s)
      BY <3>1 DEF Members, Into
    <3>3. \A i \in Members(s) : Sec(i)' = Sec(i)
      BY <1>1
    <3>4. \A i : i = segments[s].secs[1] => Sec(i)' = Sec(i)
      BY <3>2, <3>3
    <3> QED
      BY <3>4
  <2>3. segments' = segments
    OBVIOUS
  <2> QED
    BY <2>1, <2>2, <2>3 DEF MapsFirst
<1> QED
  BY <1>1, <1>4, <1>5 DEF DoneSpan, Tuned

\* Steps that leave the regions of the segments alone, and what is next in the segment
LEMMA SpanKept ==
  ASSUME FileInv, ~ back, phase \in Laid, SpanInv, Kept, UNCHANGED <<segments, order, file>>,
         pos' \in Nat, pos <= pos', \A i \in generated : Sec(i)' = Sec(i),
         \A i \in Placed' : \/ i \in Placed /\ Sec(i)' = Sec(i)
                            \/ Sec(i)'.offset \in Int /\ pos <= Sec(i)'.offset
                            \/ ~ Filled(Sec(i)'),
         phase' = "section" /\ Mappable => Spanning'
  PROVE  SpanInv'
<1>1. Mappable' <=> Mappable
  BY MappableKept
<1>2. ASSUME Mappable PROVE DoneSpan'
  BY <1>2, DoneSpanKept DEF SpanInv
<1> QED
  BY <1>1, <1>2 DEF SpanInv

\* The contents of sections with a place lie before the position.
LEMMA PlacedBefore ==
  ASSUME FileInv, PlacesInv, AddressInv, Fresh, phase \in Laid, NEW s \in DOMAIN segments,
         NEW i \in Members(s), i \in generated
  PROVE  /\ i \in Numbers /\ Sec(i) \in Header /\ Sec(i).offset \in Int /\ Sec(i).size \in Nat
         /\ 0 <= Sec(i).offset /\ Sec(i).offset <= pos
         /\ HasBytes(Sec(i)) => Sec(i).offset + Sec(i).size <= pos
<1>1. i \in Numbers
  BY MembersIs
<1>2. Sec(i) \in Header /\ Sec(i).offset \in Int /\ Sec(i).size \in Nat
  BY <1>1, SectionTypes, HeaderFields DEF FileInv
<1>3. Sec(i).type # "NULL"
  BY DEF AddressInv, LayoutPhases, Laid
<1> QED
  BY <1>1, <1>2, <1>3 DEF PlacesInv, BeforePos

LEMMA StartSegmentSpan ==
  ASSUME FileInv, SerialInv, AddressInv, PlacesInv, SpanInv, ~ back, StartSegment
  PROVE  SpanInv'
<1>1. /\ phase = "segment" /\ order # <<>> /\ phase' = "section"
      /\ UNCHANGED <<sections, segments, todo, order, generated, file>>
  BY DEF StartSegment
<1>2. pos \in Nat /\ pos' \in Nat /\ pos <= pos'
  <2>1. pos \in Nat
    BY <1>1, PosIs
  <2>2. Current.vaddr \in Nat /\ Current.align \in Nat
    BY <1>1, CurrentIs
  <2>3. Congruent(Current.align) \in Int /\ pos <= Congruent(Current.align)
    BY <2>1, <2>2, CongruentIs
  <2>4. PICK c \in Int : c = Congruent(Current.align) /\ pos <= c
    BY <2>3
  <2>5. pos' = pos \/ pos' = Congruent(Current.align)
    BY DEF StartSegment
  <2> QED
    BY <2>1, <2>4, <2>5
<1>3. Kept /\ \A i : Sec(i)' = Sec(i)
  BY <1>1, UnchangedKept DEF Sec
<1>4. Placed' = Placed /\ phase \in Laid
  BY <1>1 DEF Placed, Numbers, Laid
<1>5. /\ Head(order) \in DOMAIN segments /\ Current = segments[Head(order)] /\ Head(order) \in Into(order)
      /\ Current.secs \in Seq(Nat) /\ Len(Current.secs) \in Nat /\ DOMAIN Current.secs = 1 .. Len(Current.secs)
      /\ Current.vaddr \in Nat /\ Current.align \in Nat /\ Members(Head(order)) = Into(Current.secs)
      /\ Current' = Current /\ Head(order)' = Head(order) /\ Members(Head(order))' = Members(Head(order))
  <2>1. Head(order) \in Into(order)
    BY <1>1, CurrentIs
  <2>2. Current' = Current /\ Head(order)' = Head(order) /\ Members(Head(order))' = Members(Head(order))
    BY <1>1 DEF Current, Members
  <2> QED
    BY <1>1, <2>1, <2>2, CurrentIs DEF Members
<1>6. ASSUME Mappable PROVE Spanning'
  <2>1. Fresh /\ NestedNow /\ Current.secs # <<>> /\ BssLast(Current)
    BY <1>5, <1>6 DEF Mappable
  <2>2. ~ Current.fixed
    BY <1>1, <1>5, <2>1 DEF AddressInv, LayoutPhases
  <2>3. 1 \in DOMAIN Current.secs /\ Current.secs[1] \in Members(Head(order))
    BY <1>5, <2>1 DEF Into
  <2>4. \/ Current.secs[1] \notin generated /\ pos' = Congruent(Current.align) /\ at' = AtOnce(1, pos', 0)
        \/ Current.secs[1] \in generated /\ at' = AtOnce(1, Sec(Current.secs[1]).offset, 0) /\ pos' = pos
    BY <2>1, <2>2 DEF StartSegment
  <2>5. CASE Current.secs[1] \notin generated
    <3>1. pos' = Congruent(Current.align) /\ at'.start = pos' /\ at'.size = 0 /\ at'.next = 1
      BY <2>4, <2>5 DEF AtOnce
    <3>2. PlacesInv'
      BY StartSegmentPlaces
    <3>3. NestedNow' /\ Current'.secs # <<>>
      BY <1>3, <1>5, <2>1, KeptMembers
    <3>4. New' \/ Covered'
      BY <1>1, <3>2, <3>3 DEF PlacesInv, Laid, Underway
    <3>5. ~ Covered'
      <4>1. \A t \in Done : Members(t) \subseteq generated
        BY <1>4, DoneIs
      <4>2. Done' = Done /\ \A t : Members(t)' = Members(t)
        BY <1>1 DEF Done, Members
      <4> QED
        BY <1>5, <2>3, <2>5, <4>1, <4>2 DEF Covered
    <3>6. Tuned(Current.vaddr, at.start, Current.align)'
      <4>1. Tuned(Current.vaddr, Congruent(Current.align), Current.align)
        BY <1>2, <1>5, CongruentTuned
      <4>2. at'.start = Congruent(Current.align)
        BY <3>1
      <4> QED
        BY <1>5, <4>1, <4>2 DEF Tuned
    <3>7. Clear'
      <4>1. \A i \in generated : Filled(Sec(i)) => Sec(i).offset + Sec(i).size <= pos
        BY <1>1 DEF PlacesInv, BeforePos, Laid, Filled, HasBytes
      <4>2. ASSUME NEW i \in generated, Filled(Sec(i)) PROVE Sec(i).offset + Sec(i).size <= pos'
        <5>1. Sec(i).offset + Sec(i).size <= pos
          BY <4>1, <4>2
        <5>2. i \in Numbers
          BY <1>1, <4>2 DEF PlacesInv, Laid
        <5>3. Sec(i).offset \in Int /\ Sec(i).size \in Nat
          BY <5>2, SectionTypes, HeaderFields DEF FileInv
        <5> QED
          BY <1>2, <5>1, <5>3
      <4> QED
        BY <1>1, <1>3, <3>1, <4>2 DEF Clear, Filled, HasBytes
    <3>8. at'.start + at'.size <= pos'
      <4>1. PICK p \in Nat : p = pos'
        BY <1>2
      <4>2. p + 0 <= p
        OBVIOUS
      <4> QED
        BY <3>1, <4>1, <4>2
    <3> QED
      BY <3>4, <3>5, <3>6, <3>7, <3>8 DEF Spanning
  <2>6. CASE Current.secs[1] \in generated
    <3>1. at'.start = Sec(Current.secs[1]).offset /\ at'.size = 0
      BY <2>4, <2>6 DEF AtOnce
    <3>2. Covered'
      <4>1. Covered
        BY <1>1, <2>1, <2>3, <2>6, AllOrNone
      <4>2. Done' = Done /\ \A t : Members(t)' = Members(t)
        BY <1>1 DEF Done, Members
      <4> QED
        BY <1>5, <4>1, <4>2 DEF Covered
    <3>3. PICK o \in Int : o = Sec(Current.secs[1]).offset /\ o <= pos
      BY <1>4, <1>5, <2>1, <2>3, <2>6, PlacedBefore
    <3>4. PICK q \in Nat : q = pos'
      BY <1>2
    <3>5. o + 0 <= q
      BY <1>2, <3>3, <3>4
    <3>6. at'.start + at'.size <= pos'
      BY <3>1, <3>3, <3>4, <3>5
    <3>7. Room(Members(Head(order)), at.start, at.size)'
      BY <3>1, <3>6 DEF Room
    <3>9. \A i : i = Current'.secs[1] => at'.start = Sec(i)'.offset
      BY <1>3, <1>5, <3>1
    <3> QED
      BY <3>2, <3>6, <3>7, <3>9 DEF Spanning
  <2> QED
    BY <2>5, <2>6
<1> QED
  BY <1>1, <1>2, <1>3, <1>4, <1>6, SpanKept

LEMMA GenerateSpan ==
  ASSUME FileInv, SerialInv, AddressInv, PlacesInv, SpanInv, ~ back, ~ back', PlaceFixed \/ PlaceNew
  PROVE  SpanInv'
<1>1. PICK gap \in Nat : HasNext /\ Place.type # "NULL" /\ Index \notin generated /\ Generate(gap)
  BY PlacedGap
<1>2. /\ at' = Counted(gap) /\ generated' = generated \cup {Index}
      /\ pos' = pos + gap + (IF Place.type # "NOBITS" THEN Place.size ELSE 0)
      /\ UNCHANGED <<segments, phase, order, file>>
  BY <1>1 DEF Generate
<1>3. /\ phase = "section" /\ order # <<>> /\ Index \in Numbers /\ Place = Sec(Index) /\ Place \in Header
      /\ at.next <= Len(Current.secs) /\ generated \subseteq Numbers
  BY <1>1, NextIs DEF HasNext, PlacesInv, Laid
<1>4. PICK p \in Nat, n \in Nat, o \in Nat, q \in Nat :
        /\ p = pos /\ n = Place.size /\ o = p + gap /\ q = pos'
        /\ q = o + (IF Place.type # "NOBITS" THEN n ELSE 0) /\ p <= o /\ p <= q
  <2>1. pos \in Nat /\ Place.size \in Nat
    BY <1>3, PosIs, HeaderFields
  <2>2. pos + gap \in Nat /\ pos' = (pos + gap) + (IF Place.type # "NOBITS" THEN Place.size ELSE 0) /\ pos' \in Nat
    BY <1>2, <2>1
  <2>3. pos <= pos + gap /\ pos <= pos'
    BY <1>2, <2>1, <2>2
  <2> QED
    BY <2>1, <2>2, <2>3
<1>5. Kept /\ \A i \in Numbers : i # Index => Sec(i)' = Sec(i)
  BY <1>1, GeneratedIs
<1>6. \A i \in generated : Sec(i)' = Sec(i)
  BY <1>1, <1>3, <1>5
<1>7. \A i : i = Index => Sec(i)'.offset = o
  BY <1>1, <1>4, GeneratedIs
<1>8. \A i \in Placed' : \/ i \in Placed /\ Sec(i)' = Sec(i)
                         \/ Sec(i)'.offset \in Int /\ pos <= Sec(i)'.offset
  <2>1. \A i \in Placed' : i \in generated \/ i = Index
    BY <1>2, <1>3 DEF Placed
  <2>2. \A i \in generated : i \in Placed
    BY <1>3 DEF Placed
  <2>3. o \in Int /\ pos <= o
    BY <1>4
  <2> QED
    BY <1>6, <1>7, <2>1, <2>2, <2>3
<1>9. /\ at'.next = at.next + 1 /\ at'.start = at.start
      /\ at'.size = IF Place.type # "NOBITS" THEN at.size + (Place.size + gap) ELSE at.size
  BY <1>1, <1>2, CountedHas
<1>10. ASSUME Mappable PROVE Spanning'
  <2>1. Fresh /\ NestedNow /\ Head(order) \in DOMAIN segments /\ Current = segments[Head(order)]
    BY <1>3, <1>10, HandledIs DEF Mappable
  <2>2. BssLast(Current) /\ Current.secs # <<>>
    BY <1>10, <2>1 DEF Mappable
  <2>3. Underway' /\ New /\ ~ Covered
    <3>1. pos \in Nat
      BY <1>4
    <3>2. Underway'
      BY <1>1, <2>1, <3>1, GenerateUnderway
    <3> QED
      BY <1>1, <2>1, <3>2, NewIs
  <2>4. /\ Current' = Current /\ (Covered' <=> Covered) /\ Handled' = Handled \cup {Index}
    BY <1>1, <1>2, <1>5, <1>9, UnderwayNext
  <2>5. New'
    BY <2>3, <2>4 DEF Underway
  <2>6. Spanning
    BY <1>3, <1>10 DEF SpanInv, Laid
  <2>7. Clear /\ Tuned(Current.vaddr, at.start, Current.align) /\ at.start + at.size <= pos
    BY <2>3, <2>6 DEF Spanning
  <2>8. Clear'
    <3>1. \A i \in generated' \ Handled' : i \in generated \ Handled /\ Sec(i)' = Sec(i)
      BY <1>2, <1>6, <2>4
    <3> QED
      BY <1>9, <2>7, <3>1 DEF Clear, Filled, HasBytes
  <2>9. Tuned(Current.vaddr, at.start, Current.align)'
    BY <1>9, <2>4, <2>7 DEF Tuned
  <2>10. at'.start + at'.size <= pos'
    <3>1. at.size = pos - at.start
      BY <1>3, <2>2, <2>3 DEF New
    <3>2. PICK start \in Int, size \in Int : start = at.start /\ size = at.size
      BY Types
    <3>3. size = p - start
      BY <1>4, <3>1, <3>2
    <3>4. at'.start = start /\ at'.size = IF Place.type # "NOBITS" THEN size + (n + gap) ELSE size
      BY <1>4, <1>9, <3>2
    <3>5. CASE Place.type # "NOBITS"
      <4>1. at'.size = size + (n + gap) /\ q = o + n
        BY <1>4, <3>4, <3>5
      <4>2. start + (size + (n + gap)) <= q
        BY <1>4, <3>3, <4>1
      <4> QED
        BY <1>4, <3>4, <4>1, <4>2
    <3>6. CASE Place.type = "NOBITS"
      <4>1. start + size <= q
        BY <1>4, <3>3
      <4> QED
        BY <1>4, <3>4, <3>6, <4>1
    <3> QED
      BY <3>5, <3>6
  <2> QED
    BY <2>5, <2>8, <2>9, <2>10 DEF Spanning
<1>11. pos' \in Nat /\ pos <= pos' /\ phase \in Laid
  BY <1>3, <1>4 DEF Laid
<1>12. UNCHANGED <<segments, order, file>>
  BY <1>2
<1> QED
  BY <1>5, <1>6, <1>8, <1>10, <1>11, <1>12, SpanKept

\* A place inside another segment
LEMMA RoomInside ==
  ASSUME NEW S, NEW T, T \subseteq S, NEW b \in Int, NEW n \in Int, Room(S, b, n),
         NEW c \in Int, NEW m \in Int, m > 0 => b <= c /\ c + m <= b + n, c + m <= pos,
         \A i \in Placed : Sec(i).offset \in Int /\ Sec(i).size \in Int
  PROVE  Room(T, c, m)
<1>1. SUFFICES ASSUME m > 0, NEW i \in Placed, Filled(Sec(i)), c < Sec(i).offset + Sec(i).size,
                      Sec(i).offset < c + m, NEW j \in T
               PROVE  Sec(i).address - Sec(i).offset = Sec(j).address - Sec(j).offset
  BY DEF Room
<1>2. n > 0 /\ b < Sec(i).offset + Sec(i).size /\ Sec(i).offset < b + n
  <2>1. Sec(i).offset \in Int /\ Sec(i).size \in Int
    OBVIOUS
  <2> QED
    BY <1>1, <2>1
<1> QED
  BY <1>1, <1>2 DEF Room

LEMMA CountSpan ==
  ASSUME FileInv, SerialInv, AddressInv, PlacesInv, SpanInv, ~ back, CountGenerated
  PROVE  SpanInv'
<1>1. /\ HasNext /\ Place.type # "NULL" /\ Index \in generated
      /\ at' = Counted(Place.offset - at.start - at.size)
      /\ UNCHANGED <<sections, segments, phase, pos, order, generated, file>>
  BY DEF CountGenerated
<1>2. /\ phase = "section" /\ order # <<>> /\ Index \in Numbers /\ Place = Sec(Index) /\ Place \in Header
      /\ at.next \in 1 .. Len(Current.secs) /\ Index = Current.secs[at.next]
  BY <1>1, NextIs
<1>3. PICK start \in Int, size \in Int, n \in Nat, o \in Int :
        start = at.start /\ size = at.size /\ n = Place.size /\ o = Place.offset
  BY <1>2, Types, HeaderFields
<1>4. PICK gap \in Int : gap = o - start - size /\ at' = Counted(gap)
  BY <1>1, <1>3
<1>5. /\ at'.next = at.next + 1 /\ at'.start = start
      /\ at'.size = IF Place.type # "NOBITS" THEN size + (n + gap) ELSE size
  BY <1>1, <1>3, <1>4, CountedHas
<1>6. Kept /\ \A i : Sec(i)' = Sec(i)
  BY <1>1, UnchangedKept DEF Sec
<1>7. Placed' = Placed /\ pos \in Nat /\ phase \in Laid
  BY <1>1, <1>2, PosIs DEF Placed, Numbers, Laid
<1>8. ASSUME Mappable PROVE Spanning'
  <2>1. Fresh /\ NestedNow /\ Head(order) \in DOMAIN segments /\ Current = segments[Head(order)]
    BY <1>2, <1>8, HandledIs DEF Mappable
  <2>2. BssLast(Current) /\ Current.secs # <<>>
    BY <1>8, <2>1 DEF Mappable
  <2>3. Covered
    BY <1>1, <2>1, NewIs
  <2>4. ~ New
    <3>1. at.next \in DOMAIN Current.secs /\ at.next <= at.next
      BY <1>2, CurrentIs
    <3> QED
      BY <1>1, <1>2, <3>1 DEF New
  <2>5. Spanning /\ DoneSpan
    BY <1>2, <1>8 DEF SpanInv, Laid
  <2>6. /\ at.start = Sec(Current.secs[1]).offset /\ Room(Members(Head(order)), start, size)
    BY <1>3, <2>4, <2>5 DEF Spanning
  <2>7. /\ Current' = Current /\ Head(order)' = Head(order) /\ Members(Head(order))' = Members(Head(order))
        /\ (Covered' <=> Covered)
    BY <1>1, <1>5, <1>6, UnderwayNext
  <2>8. PICK z \in Int : z = at'.size /\ z = IF Place.type # "NOBITS" THEN size + (n + gap) ELSE size
    BY <1>5
  <2>9. \A i \in Placed : Sec(i).offset \in Int /\ Sec(i).size \in Int
    BY SectionTypes, HeaderFields DEF FileInv, Placed
  <2>10. Room(Members(Head(order)), start, z)
    <3>1. CASE Place.type = "NOBITS"
      BY <2>6, <2>8, <3>1
    <3>2. CASE Place.type # "NOBITS"
      <4>1. HasBytes(Place) /\ z = n + o - start
        BY <1>1, <1>4, <2>8, <3>2 DEF HasBytes
      <4>2. PICK t \in Done : Members(Head(order)) \subseteq Members(t)
        BY <2>3 DEF Covered
      <4>3. PICK f : f = Current.secs[1]
        OBVIOUS
      <4>4. f \in Members(Head(order)) /\ Index \in Members(Head(order)) /\ HasBytes(Sec(f))
        <5>1. /\ 1 \in DOMAIN Current.secs /\ at.next \in DOMAIN Current.secs /\ at.next \in Nat
              /\ Members(Head(order)) = Into(Current.secs)
          <6>1. /\ Current.secs \in Seq(Nat) /\ Len(Current.secs) \in Nat /\ at.next \in Nat
                /\ DOMAIN Current.secs = 1 .. Len(Current.secs)
            BY <1>2, CurrentIs, Types
          <6>2. Members(Head(order)) = Into(Current.secs)
            BY <1>2, HandledIs
          <6> QED
            BY <1>2, <2>2, <6>1, <6>2
        <5>2. CASE at.next = 1
          BY <1>2, <4>1, <4>3, <5>1, <5>2 DEF Into
        <5>3. CASE at.next # 1
          <6>1. 1 < at.next
            BY <1>2, <5>3
          <6> QED
            BY <1>2, <2>2, <4>3, <5>1, <6>1 DEF BssLast, Into
        <5> QED
          BY <5>2, <5>3
      <4>5. /\ t \in DOMAIN segments /\ Members(t) \subseteq generated /\ Whole(t) /\ BssLast(segments[t])
        BY <1>7, <1>8, <2>1, DoneIs DEF PlacesInv, Mappable
      <4>6. PICK b \in Int, m \in Int : b = segments[t].offset /\ m = segments[t].size
        BY <4>5, SegmentsInside, SegmentFields
      <4>7. PICK d \in Int : d = Sec(f).offset /\ d = start
        BY <1>3, <2>6, <4>3
      <4>8. b <= start /\ o + n <= b + m
        <5>1. PICK memory \in Int : Inside(Members(t), Members(t), b, m, memory)
          BY <4>5, <4>6 DEF Whole
        <5>2. f \in Members(t) /\ Index \in Members(t)
          BY <4>2, <4>4
        <5>3. b <= d
          BY <4>4, <4>7, <5>1, <5>2 DEF Inside
        <5>4. Sec(Index).offset + Sec(Index).size <= b + m
          BY <1>2, <4>1, <5>1, <5>2 DEF Inside
        <5> QED
          BY <1>2, <1>3, <4>7, <5>3, <5>4
      <4>9. o + n <= pos
        BY <1>1, <1>2, <1>3, <1>7, <2>1, <4>1, <4>2, <4>4, <4>5, PlacedBefore
      <4>10. start + z = o + n
        BY <4>1
      <4>11. Room(Members(t), b, m)
        BY <2>5, <4>6 DEF DoneSpan
      <4> QED
        BY <2>9, <4>2, <4>8, <4>9, <4>10, <4>11, RoomInside
    <3> QED
      BY <3>1, <3>2
  <2>11. Room(Members(Head(order)), at.start, at.size)' /\ at'.start + at'.size <= pos'
    <3>1. PICK S : S = Members(Head(order))
      OBVIOUS
    <3>2. Room(S, start, z)' /\ start + z <= pos'
      BY <1>1, <1>6, <1>7, <2>10, <3>1 DEF Room, Filled, HasBytes
    <3>3. Members(Head(order))' = S /\ at'.start = start /\ at'.size = z
      BY <1>5, <2>7, <2>8, <3>1
    <3> QED
      BY <3>2, <3>3
  <2>12. \A i : i = Current'.secs[1] => at'.start = Sec(i)'.offset
    BY <1>3, <1>5, <1>6, <2>6, <2>7
  <2> QED
    BY <2>3, <2>7, <2>11, <2>12 DEF Spanning
<1>9. pos' \in Nat /\ pos <= pos' /\ UNCHANGED <<segments, order, file>>
  BY <1>1, <1>7
<1> QED
  BY <1>6, <1>7, <1>8, <1>9, SpanKept

LEMMA PlaceNullSpan ==
  ASSUME FileInv, SerialInv, AddressInv, PlaceNull
  PROVE  SpanInv'
<1>1. HasNext /\ Place.type = "NULL" /\ UNCHANGED <<sections, segments, file>>
  BY DEF PlaceNull
<1>2. phase = "section" /\ Place = Sec(Index)
  BY <1>1, NextIs
<1>3. Index \in Members(Head(order)) /\ Head(order) \in DOMAIN segments
  BY <1>1, <1>2, MoreIs, HandledIs
<1>4. ~ Fresh
  BY <1>1, <1>2, <1>3 DEF AddressInv, LayoutPhases
<1> QED
  BY <1>1, <1>4 DEF SpanInv, Mappable, Fresh

\* A segment that is done is in tune with its address, too.
LEMMA FinishTuned ==
  ASSUME FileInv, AlignInv, PlacesInv, Chained, phase = "section", Mappable, Spanning, DoneSpan,
         \A t \in Done : MapsFirst(segments[t]),
         NEW f, f = Current.secs[1], Sec(f).address - Current.vaddr = Sec(f).offset - at.start
  PROVE  Tuned(Current.vaddr, at.start, Current.align)
<1>1. Fresh /\ NestedNow /\ Head(order) \in DOMAIN segments /\ Current = segments[Head(order)] /\ order # <<>>
  BY HandledIs DEF Mappable
<1>2. /\ Current.vaddr \in Nat /\ Current.align \in Nat /\ Current.secs # <<>>
      /\ Current.secs \in Seq(Nat) /\ Len(Current.secs) \in Nat /\ DOMAIN Current.secs = 1 .. Len(Current.secs)
      /\ Members(Head(order)) = Into(Current.secs)
  <2>1. Current.secs # <<>>
    BY <1>1 DEF Mappable
  <2>2. Members(Head(order)) = Into(Current.secs)
    BY HandledIs
  <2> QED
    BY <1>1, <2>1, <2>2, CurrentIs
<1>3. CASE New /\ Clear /\ Tuned(Current.vaddr, at.start, Current.align)
  BY <1>3
<1>4. CASE Covered
  <2>1. PICK t \in Done : Members(Head(order)) \subseteq Members(t)
    BY <1>4 DEF Covered
  <2>2. t \in DOMAIN segments /\ Whole(t) /\ MapsFirst(segments[t])
    BY <1>1, <2>1 DEF Done, PlacesInv, Laid
  <2>3. PICK y \in SegmentHeader : y = segments[t]
    BY <2>2, MembersIs
  <2>4. /\ y.vaddr \in Nat /\ y.offset \in Int /\ y.align \in Nat
        /\ y.secs \in Seq(Nat) /\ Len(y.secs) \in Nat /\ DOMAIN y.secs = 1 .. Len(y.secs)
    BY SegmentFields
  <2>5. PICK g : g = y.secs[1]
    OBVIOUS
  <2>6. y.secs # <<>> /\ Sec(g).address - y.vaddr = Sec(g).offset - y.offset
    BY <2>2, <2>3, <2>5 DEF MapsFirst
  <2>7. f \in Members(t) /\ g \in Members(t)
    <3>1. 1 \in DOMAIN Current.secs /\ 1 \in DOMAIN y.secs
      BY <1>2, <2>4, <2>6
    <3>2. f \in Members(Head(order))
      BY <1>2, <3>1 DEF Into
    <3>3. g \in Members(t)
      BY <2>3, <2>5, <3>1 DEF Members, Into
    <3> QED
      BY <2>1, <3>2, <3>3
  <2>8. Sec(f).address - Sec(f).offset = Sec(g).address - Sec(g).offset
    BY <1>1, <2>2, <2>7 DEF Whole, InOrder, Tied
  <2>9. Current.vaddr - at.start = y.vaddr - y.offset
    <3>1. f \in Numbers /\ g \in Numbers
      BY <2>2, <2>7, MembersIs
    <3>2. PICK fa \in Int, fo \in Int : fa = Sec(f).address /\ fo = Sec(f).offset
      BY <3>1, SectionTypes, HeaderFields DEF FileInv
    <3>3. PICK ga \in Int, go \in Int : ga = Sec(g).address /\ go = Sec(g).offset
      BY <3>1, SectionTypes, HeaderFields DEF FileInv
    <3>4. PICK cv \in Int, co \in Int : cv = Current.vaddr /\ co = at.start
      <4>1. Current.vaddr \in Int
        BY <1>2
      <4>2. at.start \in Int
        BY Types
      <4> QED
        BY <4>1, <4>2
    <3>5. PICK yv \in Int, yo \in Int : yv = y.vaddr /\ yo = y.offset
      BY <2>4
    <3>6. fa - cv = fo - co
      BY <3>2, <3>4
    <3>7. ga - yv = go - yo
      BY <2>6, <3>3, <3>5
    <3>8. fa - fo = ga - go
      BY <2>8, <3>2, <3>3
    <3>9. cv - co = yv - yo
      BY <3>6, <3>7, <3>8
    <3> QED
      BY <3>4, <3>5, <3>9
  <2>10. Tuned(y.vaddr, y.offset, y.align)
    BY <2>1, <2>3 DEF DoneSpan
  <2>11. PICK v \in Int, o \in Int, a \in Nat, b \in Nat :
           v = Current.vaddr /\ o = at.start /\ a = y.align /\ b = Current.align
    <3>1. Current.vaddr \in Int /\ at.start \in Int /\ y.align \in Nat /\ Current.align \in Nat
      <4>1. at.start \in Int
        BY Types
      <4> QED
        BY <1>2, <2>4, <4>1
    <3> QED
      BY <3>1
  <2>12. Tuned(v, o, a)
    BY <2>9, <2>10, <2>11 DEF Tuned
  <2>13. b = 0 \/ (b <= a /\ a % b = 0)
    <3>1. /\ \A k \in DOMAIN sections : sections[k].align \in Alignments
          /\ \A s \in DOMAIN segments :
               /\ segments[s].align \in {0} \cup {Sec(i).align : i \in Members(s)}
               /\ \A i \in Members(s) : Sec(i).align <= segments[s].align
      BY <1>1 DEF AlignInv, LayoutPhases
    <3>2. \A i \in Numbers : Sec(i).align \in Alignments
      <4>1. \A i \in Numbers : i + 1 \in DOMAIN sections
        BY SectionTypes DEF FileInv
      <4> QED
        BY <3>1, <4>1 DEF Sec
    <3>3. a \in Alignments
      <4>1. a \in {0} \cup {Sec(i).align : i \in Members(t)}
        BY <2>2, <2>3, <2>11, <3>1
      <4>2. 0 \in Alignments
        BY DEF Alignments
      <4>3. \A i \in Members(t) : i \in Numbers
        BY <2>2, MembersIs
      <4> QED
        BY <3>2, <4>1, <4>2, <4>3
    <3>4. SUFFICES ASSUME b # 0 PROVE b <= a /\ a % b = 0
      OBVIOUS
    <3>5. PICK i \in Members(Head(order)) : b = Sec(i).align
      BY <1>1, <2>11, <3>1, <3>4
    <3>6. b \in Alignments
      <4>1. i \in Numbers
        BY <1>1, MembersIs
      <4> QED
        BY <3>2, <3>5, <4>1
    <3>7. b <= a
      BY <2>1, <2>2, <2>3, <2>11, <3>1, <3>5
    <3>8. 0 < b
      BY <3>4
    <3> QED
      BY <3>3, <3>6, <3>7, <3>8 DEF Chained
  <2>14. Tuned(v, o, b)
    BY <2>12, <2>13, TunedPart
  <2> QED
    BY <2>11, <2>14
<1> QED
  BY <1>3, <1>4 DEF Spanning

LEMMA FinishSpan ==
  ASSUME FileInv, SerialInv, AlignInv, PlacesInv, SpanInv, Chained, FinishSegment
  PROVE  SpanInv'
<1>1. /\ phase = "section" /\ phase' = "segment" /\ order' = Tail(order) /\ at.next > Len(Current.secs)
      /\ UNCHANGED <<file, generated, sections, pos, at>>
  BY DEF FinishSegment
<1>2. Kept /\ \A s \in DOMAIN segments : s # Head(order) => segments'[s] = segments[s]
  BY FinishIs
<1>3. order # <<>> /\ Handled = Members(Head(order)) /\ Current = segments[Head(order)]
  BY <1>1, HandledIs
<1>4. /\ Head(order) \notin Into(Tail(order)) /\ Into(order) = {Head(order)} \cup Into(Tail(order))
      /\ Head(order) \in DOMAIN segments
  BY <1>1, <1>3, HeadIs
<1>5. PICK h \in DOMAIN segments : h = Head(order)
  BY <1>4
<1>6. /\ DOMAIN segments' = DOMAIN segments
      /\ \A s \in DOMAIN segments : Members(s)' = Members(s) /\ (BssLast(segments[s])' <=> BssLast(segments[s]))
  BY <1>2, KeptMembers
<1>7. Done' = Done \cup {h} /\ h \notin Done /\ \A s \in Done : s \in DOMAIN segments /\ segments'[s] = segments[s]
  <2>1. Done' = Done \cup {h} /\ h \notin Done
    BY <1>1, <1>4, <1>5, <1>6 DEF Done
  <2>2. \A s \in Done : s \in DOMAIN segments
    BY DEF Done
  <2> QED
    BY <1>2, <1>5, <2>1, <2>2
<1>8. /\ segments'[h].size = at.size /\ segments'[h].offset = at.start /\ segments'[h].align = Current.align
      /\ segments'[h].vaddr = Current.vaddr /\ segments'[h].secs = Current.secs
  <2>1. SegmentKept(segments[h], segments'[h])
    BY <1>2, KeptMembers
  <2> QED
    BY <1>3, <1>5, <2>1, FinishIs DEF SegmentKept
<1>9. Placed' = Placed /\ \A i : Sec(i)' = Sec(i)
  BY <1>1 DEF Placed, Numbers, Sec
<1>10. Mappable' <=> Mappable
  BY <1>1, <1>2, MappableKept
<1>11. \A S, start, size : Room(S, start, size) => Room(S, start, size)'
  BY <1>1, <1>9 DEF Room, Filled, HasBytes
<1>12. ASSUME Mappable PROVE DoneSpan'
  <2>1. Fresh /\ NestedNow /\ DoneSpan /\ Spanning
    BY <1>1, <1>12 DEF SpanInv, Laid, Mappable
  <2>2. Room(Members(h), at.start, at.size)
    <3>1. CASE New /\ Clear
      <4>1. at.start + at.size <= pos
        BY <2>1 DEF Spanning
      <4>2. ASSUME NEW i \in Placed, Filled(Sec(i)), at.start < Sec(i).offset + Sec(i).size, NEW j \in Members(h)
            PROVE  Sec(i).address - Sec(i).offset = Sec(j).address - Sec(j).offset
        <5>1. i \in generated /\ i \in Numbers
          BY <1>1, <4>2 DEF Placed
        <5>2. i \in Handled
          <6>1. Sec(i).offset \in Int /\ Sec(i).size \in Int /\ at.start \in Int
            BY <5>1, SectionTypes, HeaderFields, Types DEF FileInv
          <6>2. ~ (Sec(i).offset + Sec(i).size <= at.start)
            BY <4>2, <6>1
          <6> QED
            BY <3>1, <4>2, <5>1, <6>2 DEF Clear
        <5> QED
          BY <1>3, <1>5, <2>1, <3>1, <4>2, <5>2 DEF New, InOrder, Tied
      <4> QED
        BY <4>1, <4>2 DEF Room
    <3>2. CASE Covered
      BY <1>5, <2>1, <3>1, <3>2 DEF Spanning
    <3> QED
      BY <2>1, <3>1, <3>2 DEF Spanning
  <2>3. ASSUME NEW s \in Done' PROVE Room(Members(s), segments[s].offset, segments[s].size)'
    <3>1. CASE s \in Done
      <4>1. PICK S, x, z : S = Members(s) /\ x = segments[s].offset /\ z = segments[s].size
        OBVIOUS
      <4>2. Room(S, x, z)'
        BY <1>11, <2>1, <3>1, <4>1 DEF DoneSpan
      <4>3. Members(s)' = S /\ segments'[s].offset = x /\ segments'[s].size = z
        BY <1>6, <1>7, <3>1, <4>1
      <4> QED
        BY <4>2, <4>3
    <3>2. CASE s = h
      <4>1. PICK S, x, z : S = Members(h) /\ x = at.start /\ z = at.size
        OBVIOUS
      <4>2. Room(S, x, z)'
        BY <1>11, <2>2, <4>1
      <4>3. Members(s)' = S /\ segments'[s].offset = x /\ segments'[s].size = z
        BY <1>6, <1>8, <3>2, <4>1
      <4> QED
        BY <4>2, <4>3
    <3> QED
      BY <1>7, <2>3, <3>1, <3>2
  <2>4. ASSUME \A s \in Done' : MapsFirst(segments[s])'
        PROVE  \A s \in Done' : Tuned(segments[s].vaddr, segments[s].offset, segments[s].align)'
    <3>1. \A s \in Done : MapsFirst(segments[s])
      <4>1. SUFFICES ASSUME NEW s \in Done PROVE MapsFirst(segments[s])
        OBVIOUS
      <4>2. MapsFirst(segments[s])' /\ segments'[s] = segments[s]
        BY <1>7, <2>4
      <4>3. PICK y : y = segments[s]
        OBVIOUS
      <4>4. MapsFirst(y)'
        BY <4>2, <4>3 DEF MapsFirst, BssLast
      <4>5. MapsFirst(y)
        BY <1>9, <4>4 DEF MapsFirst, BssLast, HasBytes
      <4> QED
        BY <4>3, <4>5
    <3>2. PICK f : f = Current.secs[1]
      OBVIOUS
    <3>3. Sec(f).address - Current.vaddr = Sec(f).offset - at.start
      <4>1. MapsFirst(segments[h])'
        BY <1>7, <2>4
      <4>2. \A i : i = segments'[h].secs[1] => Sec(i)'.address - segments'[h].vaddr = Sec(i)'.offset - segments'[h].offset
        BY <4>1 DEF MapsFirst
      <4>3. Sec(f)'.address - segments'[h].vaddr = Sec(f)'.offset - segments'[h].offset
        BY <1>8, <3>2, <4>2
      <4> QED
        BY <1>8, <1>9, <4>3
    <3>4. Tuned(Current.vaddr, at.start, Current.align)
      BY <1>1, <1>12, <2>1, <3>1, <3>2, <3>3, FinishTuned
    <3>5. \A s \in Done : Tuned(segments[s].vaddr, segments[s].offset, segments[s].align)
      BY <2>1, <3>1 DEF DoneSpan
    <3> QED
      BY <1>7, <1>8, <3>4, <3>5 DEF Tuned
  <2> QED
    BY <2>3, <2>4 DEF DoneSpan
<1> QED
  BY <1>1, <1>10, <1>12 DEF SpanInv

LEMMA StartLayoutSpan ==
  ASSUME FileInv, StartLayout
  PROVE  SpanInv'
<1>1. /\ phase = "order" /\ todo = <<>> /\ phase' = "segment" /\ UNCHANGED <<segments, order>>
  BY DEF StartLayout, layout
<1>2. DOMAIN segments = Into(order)
  BY <1>1 DEF FileInv, OrderInv, Into
<1>3. Done' = {}
  BY <1>1, <1>2 DEF Done
<1> QED
  BY <1>1, <1>3 DEF SpanInv, DoneSpan

LEMMA StartLooseSpan ==
  ASSUME FileInv, SpanInv, ~ back, StartLoose
  PROVE  SpanInv'
<1>1. /\ phase = "segment" /\ phase' = "loose" /\ at' = AtOnce(0, 0, 0)
      /\ UNCHANGED <<sections, segments, pos, order, generated, file>>
  BY DEF StartLoose
<1>2. Kept /\ (\A i : Sec(i)' = Sec(i)) /\ Numbers' = Numbers /\ pos \in Nat
  BY <1>1, UnchangedKept, PosIs DEF Sec, Numbers
<1>3. \A i \in Placed' : i \in Placed
  <2>1. at'.next = 0
    BY <1>1 DEF AtOnce
  <2>2. \A i \in Numbers : ~ (i < 0)
    BY SectionTypes DEF FileInv
  <2> QED
    BY <1>1, <1>2, <2>1, <2>2 DEF Placed
<1>4. pos' \in Nat /\ pos <= pos' /\ phase \in Laid /\ UNCHANGED <<segments, order, file>>
  BY <1>1, <1>2 DEF Laid
<1> QED
  BY <1>1, <1>2, <1>3, <1>4, SpanKept

\* A section without a segment goes behind the position.
LEMMA LooseSpan ==
  ASSUME FileInv, PlacesInv, SpanInv, ~ back, PlaceLoose
  PROVE  SpanInv'
<1>1. /\ phase = "loose" /\ phase' = "loose" /\ at.next < Len(sections)
      /\ UNCHANGED <<segments, order, generated, file>> /\ at' = [at EXCEPT !.next = Stepped]
  BY DEF PlaceLoose
<1>2. Kept /\ \A i \in Numbers : ~ Loose(i) => Sec(i)' = Sec(i)
  BY LooseIs
<1>3. pos \in Nat /\ at.next \in Nat /\ Len(sections) \in Nat /\ at'.next = at.next + 1
  BY <1>1, PosIs, Types DEF Stepped
<1>4. PICK n \in Numbers : n = at.next
  BY <1>1, <1>3, SectionTypes DEF FileInv
<1>5. Sec(n) \in Header /\ Sec(n).align \in Nat /\ Sec(n).size \in Nat
  BY SectionTypes, HeaderFields DEF FileInv
<1>6. PICK here \in Nat : here = RoundedUp(pos, Sec(n).align) /\ pos <= here
  <2>1. PICK p \in Int, a \in Nat : p = pos /\ a = Sec(n).align /\ 0 <= p
    BY <1>3, <1>5
  <2>2. RoundedUp(p, a) \in Int /\ p <= RoundedUp(p, a)
    BY RoundedUpIs
  <2>3. PICK h \in Int : h = RoundedUp(p, a) /\ p <= h
    BY <2>2
  <2>4. h \in Nat
    BY <2>1, <2>3
  <2> QED
    BY <2>1, <2>3, <2>4
<1>7. pos' \in Nat /\ pos <= pos'
  <2>1. pos' = pos \/ pos' = here + (IF HasBytes(Sec(n)) THEN Sec(n).size ELSE 0)
    BY <1>4, <1>6 DEF PlaceLoose
  <2>2. PICK p \in Nat : p = pos
    BY <1>3
  <2>3. PICK z \in Nat : z = here + (IF HasBytes(Sec(n)) THEN Sec(n).size ELSE 0) /\ here <= z
    BY <1>5
  <2>4. p <= p /\ p <= z
    BY <1>6, <2>2, <2>3
  <2> QED
    BY <2>1, <2>2, <2>3, <2>4
<1>8. /\ \A i \in Numbers : i # n => Sec(i)' = Sec(i)
      /\ Loose(n) /\ n # 0 => Sec(n)'.offset = here
  <2>1. PICK v : v = [Sec(n) EXCEPT !.offset = IF n = 0 THEN @ ELSE here]
    OBVIOUS
  <2>2. v \in Header /\ (n # 0 => v.offset = here)
    <3>1. here \in Int
      BY <1>6
    <3> QED
      BY <1>5, <2>1, <3>1 DEF Header
  <2>3. CASE Loose(n)
    <3>1. sections' = [sections EXCEPT ![n + 1].offset = IF n = 0 THEN @ ELSE RoundedUp(pos, Sec(n).align)]
      BY <1>4, <2>3 DEF PlaceLoose
    <3>2. sections \in Seq(Header) /\ n + 1 \in DOMAIN sections /\ sections[n + 1] = Sec(n)
      BY SectionTypes DEF FileInv, FileTypeInv
    <3>3. sections' = [sections EXCEPT ![n + 1] = v]
      BY <1>6, <2>1, <3>1, <3>2
    <3> QED
      BY <2>2, <3>3, ReplacedIs
  <2>4. CASE ~ Loose(n)
    <3>1. sections' = sections
      BY <1>4, <2>4 DEF PlaceLoose
    <3> QED
      BY <2>4, <3>1 DEF Sec
  <2> QED
    BY <2>3, <2>4
<1>9. Numbers' = Numbers /\ \A i : Loose(i)' <=> Loose(i)
  BY <1>1, <1>2 DEF Kept, Loose
<1>10. \A i \in generated : i \in Numbers /\ ~ Loose(i) /\ Sec(i)' = Sec(i)
  <2>1. ASSUME NEW i \in generated PROVE i \in Numbers /\ ~ Loose(i)
    <3>1. i \in Numbers /\ \E t \in Done : i \in Members(t)
      BY <1>1 DEF PlacesInv, Laid, Owned
    <3> QED
      BY <3>1 DEF Done, Members, Into, Loose
  <2> QED
    BY <1>2, <2>1
<1>11. ASSUME NEW i \in Placed'
       PROVE  \/ i \in Placed /\ Sec(i)' = Sec(i)
              \/ Sec(i)'.offset \in Int /\ pos <= Sec(i)'.offset
              \/ ~ Filled(Sec(i)')
  <2>1. i \in Numbers /\ i \in Nat /\ (i \in generated \/ (i < at.next + 1 /\ Loose(i)))
    BY <1>1, <1>3, <1>9, <1>11, SectionTypes DEF Placed, FileInv
  <2>2. CASE i \in generated
    BY <1>10, <2>2 DEF Placed
  <2>3. CASE Loose(i) /\ i # n /\ i < at.next + 1
    <3>1. i < at.next
      BY <1>3, <1>4, <2>1, <2>3
    <3> QED
      BY <1>1, <1>8, <2>1, <2>3, <3>1 DEF Placed
  <2>4. CASE Loose(i) /\ i = n /\ n # 0
    BY <1>6, <1>8, <2>4
  <2>5. CASE i = n /\ n = 0
    <3>1. Sec(0).type = "NULL" /\ 0 \in Numbers
      <4>1. sections # <<>> /\ 0 + 1 = 1
        BY <1>1, <1>3
      <4> QED
        BY <1>4, <2>5, <4>1 DEF FileInv, SectionsInv, Sec
    <3>2. SectionKept(Sec(0), Sec(0)')
      BY <1>2, <3>1 DEF Kept
    <3> QED
      BY <2>5, <3>1, <3>2 DEF SectionKept, Filled, HasBytes
  <2> QED
    BY <2>1, <2>2, <2>3, <2>4, <2>5
<1>12. \A i \in generated : Sec(i)' = Sec(i)
  BY <1>10
<1>13. phase \in Laid /\ phase' # "section" /\ UNCHANGED <<segments, order, file>>
  BY <1>1 DEF Laid
<1> QED
  BY <1>2, <1>7, <1>11, <1>12, <1>13, SpanKept

LEMMA SpanStays ==
  ASSUME SpanInv, UNCHANGED fileVars
  PROVE  SpanInv'
<1>1. UNCHANGED <<sections, segments, phase, pos, order, generated, at, file>>
  BY DEF fileVars
<1>2. /\ \A i : Sec(i)' = Sec(i) /\ Members(i)' = Members(i)
      /\ Current' = Current /\ Done' = Done /\ Numbers' = Numbers /\ (Fresh' <=> Fresh)
      /\ \A i : Loose(i)' <=> Loose(i)
  BY <1>1 DEF Sec, Members, Current, Done, Numbers, Fresh, Loose
<1>3. Handled' = Handled /\ Placed' = Placed
  BY <1>1, <1>2 DEF Handled, Placed
<1>4. /\ \A S : InOrder(S)' <=> InOrder(S)
      /\ \A seg : BssLast(seg)' <=> BssLast(seg)
  BY <1>2 DEF InOrder, Tied, Filled, BssLast, HasBytes
<1>5. \A S, start, size : Room(S, start, size)' <=> Room(S, start, size)
  BY <1>1, <1>2, <1>3 DEF Room, Filled, HasBytes
<1>6. (NestedNow' <=> NestedNow) /\ (Covered' <=> Covered) /\ (New' <=> New) /\ (Clear' <=> Clear)
  BY <1>1, <1>2, <1>3, <1>4 DEF NestedNow, Covered, New, Tied, Clear, Filled, HasBytes
<1>7. Mappable' <=> Mappable
  BY <1>1, <1>2, <1>4, <1>6 DEF Mappable
<1>8. \A seg : MapsFirst(seg)' <=> MapsFirst(seg)
  BY <1>2, <1>4 DEF MapsFirst
<1>9. DoneSpan' <=> DoneSpan
  BY <1>1, <1>2, <1>5, <1>8 DEF DoneSpan, Tuned
<1>10. Spanning' <=> Spanning
  BY <1>1, <1>2, <1>5, <1>6 DEF Spanning, Tuned
<1> QED
  BY <1>1, <1>7, <1>9, <1>10 DEF SpanInv

LEMMA SpanStep ==
  ASSUME FileInv, SerialInv, AddressInv, PlacesInv, AlignInv, SpanInv, Chained, ~ back, ~ back', FileNext
  PROVE  SpanInv'
<1>1. ASSUME LayOut PROVE SpanInv'
  <2>1. ASSUME OrderSegment \/ SaveAborts \/ WriteFile PROVE SpanInv'
    <3>1. phase' \notin Laid
      BY <2>1 DEF OrderSegment, SaveAborts, WriteFile, Laid
    <3> QED
      BY <3>1 DEF SpanInv
  <2> QED
    BY <1>1, <2>1, StartLayoutSpan, StartSegmentSpan, PlaceNullSpan, GenerateSpan, CountSpan, FinishSpan,
       StartLooseSpan, LooseSpan DEF LayOut
<1>2. ASSUME \/ Edit \/ Save \/ Read \/ \E length \in Cuts : Truncate(length)
      PROVE  SpanInv'
  <2>1. phase' \notin Laid
    BY <1>2 DEF Edit, AddSection, AppendData, AddSegment, AddSectionIndex, Save, Truncate, Read, Load, LoadSection,
                NameSections, LoadSegment, FinishLoad, ElfValid, Laid
  <2> QED
    BY <2>1 DEF SpanInv
<1> QED
  BY <1>1, <1>2 DEF FileNext

\* Every section has a place when the last one without a segment has.
LEMMA AllPlaced ==
  ASSUME FileInv, phase = "loose", at.next >= Len(sections)
  PROVE  Numbers \subseteq Placed /\ Done = DOMAIN segments
<1>1. order = <<>> /\ at.next \in Nat /\ Len(sections) \in Nat
  BY Types DEF FileInv, OrderInv
<1>2. Done = DOMAIN segments
  <2>1. Into(order) = {}
    BY <1>1, Types, IntoIs
  <2> QED
    BY <2>1 DEF Done
<1>3. ASSUME NEW i \in Numbers PROVE i \in Placed
  <2>1. CASE Loose(i)
    <3>1. i \in Nat /\ i < Len(sections)
      BY SectionTypes DEF FileInv, Numbers
    <3>2. i < at.next
      BY <1>1, <3>1
    <3> QED
      BY <2>1, <3>2 DEF Placed
  <2>2. CASE ~ Loose(i)
    <3>1. PICK s \in DOMAIN segments : \E j \in DOMAIN segments[s].secs : segments[s].secs[j] = i
      BY <2>2 DEF Loose
    <3>2. i \in Members(s) /\ s \in Done
      BY <1>2, <3>1 DEF Members, Into
    <3>3. i \in generated
      BY <3>2, DoneIs DEF Laid
    <3> QED
      BY <3>3 DEF Placed
  <2> QED
    BY <2>1, <2>2
<1> QED
  BY <1>2, <1>3

\* A segment that is mapped by its first section is mapped whole.
LEMMA SegmentMapped ==
  ASSUME FileInv, PlacesInv, SpanInv, phase = "loose", at.next >= Len(sections), Mappable,
         \A s \in DOMAIN segments : MapsFirst(segments[s]),
         NEW s \in DOMAIN segments, NEW seg, seg = segments[s]
  PROVE  /\ ~ Conflict(seg)
         /\ seg.align > 1 => seg.offset % seg.align = seg.vaddr % seg.align
         /\ \A j \in DOMAIN seg.secs :
              LET i == seg.secs[j]
                  off == Sec(i).offset - seg.offset
              IN  /\ HasBytes(Sec(i)) => off >= 0 /\ off + Sec(i).size <= seg.size
                  /\ Sec(i).size > 0 => Sec(i).address - seg.vaddr = off
<1>1. Numbers \subseteq Placed /\ Done = DOMAIN segments
  BY AllPlaced
<1>2. Fresh /\ NestedNow /\ Whole(s) /\ DoneSpan
  BY <1>1 DEF Mappable, PlacesInv, SpanInv, Laid
<1>3. /\ seg \in SegmentHeader /\ seg.vaddr \in Nat /\ seg.offset \in Int /\ seg.align \in Nat /\ seg.size \in Int
      /\ seg.secs \in Seq(Nat) /\ Len(seg.secs) \in Nat /\ DOMAIN seg.secs = 1 .. Len(seg.secs)
  BY MembersIs, SegmentFields
<1>4. PICK f : f = seg.secs[1]
  OBVIOUS
<1>5. BssLast(seg) /\ seg.secs # <<>> /\ Sec(f).address - seg.vaddr = Sec(f).offset - seg.offset
  BY <1>4 DEF MapsFirst
<1>6. f \in Members(s)
  <2>1. 1 \in DOMAIN seg.secs
    BY <1>3, <1>5
  <2> QED
    BY <1>4, <2>1 DEF Members, Into
<1>7. PICK vaddr \in Nat, start \in Int, size \in Int, align \in Nat :
        vaddr = seg.vaddr /\ start = seg.offset /\ size = seg.size /\ align = seg.align
  BY <1>3
<1>8. ASSUME NEW i \in Numbers, Sec(i).address - Sec(i).offset = Sec(f).address - Sec(f).offset
      PROVE  /\ Sec(i).address - vaddr = Sec(i).offset - start
             /\ Sec(i).address + start - Sec(i).offset = vaddr
  <2>1. f \in Numbers
    BY <1>6, MembersIs
  <2>2. PICK fa \in Int, fo \in Int : fa = Sec(f).address /\ fo = Sec(f).offset
    BY <2>1, SectionTypes, HeaderFields DEF FileInv
  <2>3. PICK ia \in Int, io \in Int : ia = Sec(i).address /\ io = Sec(i).offset
    BY SectionTypes, HeaderFields DEF FileInv
  <2>4. fa - vaddr = fo - start
    BY <1>5, <1>7, <2>2
  <2>5. ia - io = fa - fo
    BY <1>8, <2>2, <2>3
  <2>6. ia - vaddr = io - start /\ ia + start - io = vaddr
    BY <2>4, <2>5
  <2> QED
    BY <2>3, <2>6
<1>9. ~ Conflict(seg)
  <2> DEFINE At(place) == {i \in Numbers : /\ Sec(i).type = "PROGBITS" /\ Sec(i).offset <= place
                                           /\ place < Sec(i).offset + Sec(i).size}
  <2>1. PICK S : S = At(start)
    OBVIOUS
  <2>2. SUFFICES ASSUME size > 0, S # {}, NEW i, i = CHOOSE k \in S : \A j \in S : k <= j
                 PROVE  Sec(i).address + start - Sec(i).offset = vaddr
    BY <1>7, <2>1 DEF Conflict
  <2>3. i \in S
    <3>1. S \subseteq Nat
      BY <2>1, SectionTypes DEF FileInv
    <3>2. \E n \in S : \A m \in S : n <= m
      BY <2>2, <3>1, LeastNumber
    <3> QED
      BY <2>2, <3>2
  <2>4. /\ i \in Numbers /\ Sec(i).type = "PROGBITS" /\ Sec(i).offset <= start
        /\ start < Sec(i).offset + Sec(i).size
    BY <2>1, <2>3
  <2>5. PICK o \in Int, n \in Nat : o = Sec(i).offset /\ n = Sec(i).size
    BY <2>4, SectionTypes, HeaderFields DEF FileInv
  <2>6. n > 0 /\ start < o + n /\ o < start + size
    BY <1>7, <2>2, <2>4, <2>5
  <2>7. i \in Placed /\ Filled(Sec(i))
    BY <1>1, <2>4, <2>5, <2>6 DEF Filled, HasBytes
  <2>8. Room(Members(s), start, size)
    BY <1>1, <1>2, <1>7 DEF DoneSpan
  <2>9. Sec(i).address - Sec(i).offset = Sec(f).address - Sec(f).offset
    BY <1>6, <2>2, <2>5, <2>6, <2>7, <2>8 DEF Room
  <2> QED
    BY <1>8, <2>4, <2>9
<1>10. ASSUME align > 1 PROVE start % align = vaddr % align
  <2>1. Tuned(vaddr, start, align)
    BY <1>1, <1>2, <1>7 DEF DoneSpan
  <2> QED
    BY <1>10, <2>1, TunedMod
<1>11. ASSUME NEW j \in DOMAIN seg.secs, NEW i, i = seg.secs[j]
       PROVE  /\ HasBytes(Sec(i)) => Sec(i).offset - start >= 0 /\ Sec(i).offset - start + Sec(i).size <= size
              /\ Sec(i).address - vaddr = Sec(i).offset - start
  <2>1. i \in Members(s) /\ i \in Numbers
    <3>1. i \in Members(s)
      BY <1>11 DEF Members, Into
    <3> QED
      BY <3>1, MembersIs
  <2>2. ASSUME HasBytes(Sec(i))
        PROVE  Sec(i).offset - start >= 0 /\ Sec(i).offset - start + Sec(i).size <= size
    <3>1. PICK o \in Int, n \in Nat : o = Sec(i).offset /\ n = Sec(i).size
      BY <2>1, SectionTypes, HeaderFields DEF FileInv
    <3>2. start <= o /\ o + n <= start + size
      <4>1. PICK memory \in Int : Inside(Members(s), Members(s), start, size, memory)
        BY <1>2, <1>5, <1>7 DEF Whole
      <4> QED
        BY <2>1, <2>2, <3>1, <4>1 DEF Inside
    <3>3. o - start >= 0 /\ o - start + n <= size
      BY <3>2
    <3> QED
      BY <3>1, <3>3
  <2>3. Sec(i).address - Sec(i).offset = Sec(f).address - Sec(f).offset
    BY <1>2, <1>6, <2>1 DEF Whole, InOrder, Tied
  <2> QED
    BY <1>8, <2>1, <2>2, <2>3
<1> QED
  BY <1>7, <1>9, <1>10, <1>11

\* Writing the file keeps the segments as they are.
LEMMA WriteMapped ==
  ASSUME FileInv, PlacesInv, OwnInv, SpanInv, WriteFile, saves = 1
  PROVE  SegmentsMap'
<1>1. /\ phase = "loose" /\ at.next >= Len(sections) /\ UNCHANGED <<sections, segments>>
      /\ file'.segments = segments
  BY WrittenIs DEF WriteFile
<1>2. Fresh
  BY <1>1 DEF OwnInv, LayoutPhases
<1>3. Numbers' = Numbers /\ \A i : Sec(i)' = Sec(i)
  BY <1>1 DEF Numbers, Sec
<1>4. /\ \A seg : MapsFirst(seg)' <=> MapsFirst(seg)
      /\ \A seg : Conflict(seg)' <=> Conflict(seg)
  <2>1. \A seg : BssLast(seg)' <=> BssLast(seg)
    BY <1>3 DEF BssLast, HasBytes
  <2> QED
    BY <1>3, <2>1 DEF MapsFirst, Conflict
<1>5. Nested' => NestedNow
  <2>1. PICK f : f = file' /\ f.segments = segments
    BY <1>1
  <2>2. ASSUME Nested', NEW s \in DOMAIN f.segments, NEW t \in DOMAIN f.segments
        PROVE  \/ Into(f.segments[s].secs) \cap Into(f.segments[t].secs) = {}
               \/ Into(f.segments[s].secs) \subseteq Into(f.segments[t].secs)
               \/ Into(f.segments[t].secs) \subseteq Into(f.segments[s].secs)
    <3>1. /\ Into(f.segments[s].secs) = {file'.segments[s].secs[j] : j \in DOMAIN file'.segments[s].secs}
          /\ Into(f.segments[t].secs) = {file'.segments[t].secs[j] : j \in DOMAIN file'.segments[t].secs}
      BY <2>1 DEF Into
    <3> QED
      BY <2>1, <2>2, <3>1 DEF Nested
  <2>3. Nested' => NestedOf(f)
    BY <2>2 DEF NestedOf
  <2> QED
    BY <2>1, <2>3 DEF NestedOf, NestedNow, Members
<1>6. SUFFICES ASSUME Nested', \A s \in DOMAIN segments : MapsFirst(segments[s]),
                      NEW s \in DOMAIN segments, NEW seg, seg = segments[s]
               PROVE  /\ ~ Conflict(seg)
                      /\ seg.align > 1 => seg.offset % seg.align = seg.vaddr % seg.align
                      /\ \A j \in DOMAIN seg.secs :
                           LET i == seg.secs[j]
                               off == Sec(i).offset - seg.offset
                           IN  /\ HasBytes(Sec(i)) => off >= 0 /\ off + Sec(i).size <= seg.size
                               /\ Sec(i).size > 0 => Sec(i).address - seg.vaddr = off
  BY <1>1, <1>3, <1>4 DEF SegmentsMap, HasBytes
<1>7. Mappable
  BY <1>2, <1>5, <1>6 DEF Mappable, MapsFirst
<1> QED
  BY <1>1, <1>6, <1>7, SegmentMapped

LEMMA MappedStep ==
  ASSUME FileInv, PlacesInv, OwnInv, SpanInv, SegmentsMap, FileNext
  PROVE  SegmentsMap'
<1>1. ASSUME NEW length \in Cuts, Truncate(length) PROVE SegmentsMap'
  BY <1>1 DEF Truncate, OwnInv
<1>2. ASSUME WriteFile PROVE SegmentsMap'
  <2>1. saves' = saves
    BY <1>2 DEF WriteFile
  <2>2. CASE saves = 1
    BY <1>2, <2>2, WriteMapped
  <2>3. CASE saves # 1
    BY <2>1, <2>3 DEF SegmentsMap
  <2> QED
    BY <2>2, <2>3
<1>3. ASSUME \/ OrderSegment \/ StartLayout \/ StartSegment \/ PlaceNull \/ PlaceFixed \/ SaveAborts \/ PlaceNew
             \/ CountGenerated \/ FinishSegment \/ StartLoose \/ PlaceLoose
      PROVE  SegmentsMap'
  <2>1. phase' # "saved"
    BY <1>3 DEF OrderSegment, StartLayout, StartSegment, PlaceNull, PlaceFixed, SaveAborts, PlaceNew, Generate,
                CountGenerated, FinishSegment, StartLoose, PlaceLoose, HasNext
  <2> QED
    BY <2>1 DEF SegmentsMap
<1>4. ASSUME Edit \/ Save \/ Read PROVE SegmentsMap'
  <2>1. phase' # "saved"
    BY <1>4 DEF Edit, AddSection, AppendData, AddSegment, AddSectionIndex, Save, Read, Load, LoadSection,
                NameSections, LoadSegment, FinishLoad, ElfValid
  <2> QED
    BY <2>1 DEF SegmentsMap
<1> QED
  BY <1>1, <1>2, <1>3, <1>4 DEF FileNext, LayOut

LEMMA MappedStays ==
  ASSUME SegmentsMap, UNCHANGED fileVars
  PROVE  SegmentsMap'
<1>1. UNCHANGED <<sections, segments, phase, file, saves, back>>
  BY DEF fileVars
<1>2. Numbers' = Numbers /\ (\A i : Sec(i)' = Sec(i)) /\ (Nested' <=> Nested)
  BY <1>1 DEF Numbers, Sec, Nested
<1>3. \A seg : (MapsFirst(seg)' <=> MapsFirst(seg)) /\ (Conflict(seg)' <=> Conflict(seg))
  <2>1. \A seg : BssLast(seg)' <=> BssLast(seg)
    BY <1>2 DEF BssLast, HasBytes
  <2>2. \A seg : MapsFirst(seg)' <=> MapsFirst(seg)
    BY <1>2, <2>1 DEF MapsFirst
  <2>3. \A seg : Conflict(seg)' <=> Conflict(seg)
    BY <1>2 DEF Conflict
  <2> QED
    BY <2>2, <2>3
<1> QED
  BY <1>1, <1>2, <1>3 DEF SegmentsMap, HasBytes

\* An object is put together and has no places yet.
LEMMA UseTablesSpan ==
  ASSUME FileInv, OwnInv, AlignInv, UseTables
  PROVE  OwnInv' /\ AlignInv' /\ SpanInv' /\ SegmentsMap'
<1>1. phase = "edit" /\ phase' = "edit" /\ UNCHANGED <<saves, file>>
  BY DEF UseTables
<1>2. OwnInv'
  BY <1>1 DEF OwnInv, LayoutPhases
<1>3. AlignInv'
  BY ContentsAligns
<1>4. SpanInv' /\ SegmentsMap'
  BY <1>1 DEF SpanInv, SegmentsMap, Laid
<1> QED
  BY <1>2, <1>3, <1>4

\* A segment that maps its first section to its address maps all of them, those that
\* another segment placed too, at a place congruent to its address, and has no conflict
\* with another section, in an object that is put together and saved, if each alignment
\* is a multiple of the smaller ones, as powers of two are (elfio.hpp:779-947).
THEOREM SegmentsAreMapped ==
  ASSUME Chained
  PROVE  ObjectSpec /\ phase = "edit" => []SegmentsMap
<1> DEFINE Inv == OwnInv /\ AlignInv /\ SpanInv /\ SegmentsMap
<1>1. ObjectInit /\ phase = "edit" => Inv
  <2> SUFFICES ASSUME ObjectInit, phase = "edit" PROVE Inv
    OBVIOUS
  <2>1. FileInit
    BY DEF ObjectInit
  <2>2. AlignInv
    BY <2>1, AlignBegins
  <2>3. OwnInv
    BY <2>1 DEF OwnInv, FileInit
  <2>4. SpanInv /\ SegmentsMap
    BY DEF SpanInv, SegmentsMap, Laid
  <2> QED
    BY <2>2, <2>3, <2>4
<1>2. FileInv /\ (~ back => MapInv) /\ (~ back => Inv) /\ [ObjectNext]_objectVars => (~ back => Inv)'
  <2> SUFFICES ASSUME FileInv, ~ back => MapInv, ~ back => Inv, [ObjectNext]_objectVars, ~ back' PROVE Inv'
    OBVIOUS
  <2>0. ~ back /\ MapInv /\ Inv
    BY StaysBack
  <2>1. SerialInv /\ AddressInv /\ PlacesInv
    BY <2>0 DEF MapInv
  <2>2. CASE UseTables
    BY <2>0, <2>2, UseTablesSpan
  <2>3. CASE UseFile
    <3>1. FileNext
      BY <2>3 DEF UseFile
    <3>2. OwnInv'
      BY <2>0, <2>1, <3>1, OwnStep
    <3>3. AlignInv'
      BY <2>0, <2>1, <3>1, AlignStep
    <3>4. SpanInv'
      BY <2>0, <2>1, <3>1, SpanStep
    <3>5. SegmentsMap'
      BY <2>0, <2>1, <3>1, MappedStep
    <3> QED
      BY <3>2, <3>3, <3>4, <3>5
  <2>4. CASE UNCHANGED objectVars
    <3>1. UNCHANGED fileVars
      BY <2>4 DEF objectVars
    <3> QED
      BY <2>0, <3>1, AlignStays, SpanStays, MappedStays
  <2> QED
    BY <2>2, <2>3, <2>4 DEF ObjectNext
<1>3. (~ back => Inv) => SegmentsMap
  BY DEF SegmentsMap
<1> QED
  BY <1>1, <1>2, <1>3, FileHolds, MapHolds, PTL DEF ObjectSpec

=============================================================================

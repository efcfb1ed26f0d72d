--------------------------- MODULE UsoImageProofs ---------------------------
(***************************************************************************)
(* Where the parts of a USO are, for any sections, sizes and alignments,   *)
(* names, tables and addresses: elf2uso writes no part over another, and   *)
(* the loader finds its tables and sections aligned in memory that holds   *)
(* them.  A search of a loaded table finds what the ELF had, and           *)
(* relocations get the addresses of their symbols.                         *)
(***************************************************************************)
EXTENDS UsoTables, UsoLemmas

-----------------------------------------------------------------------------
(* Multiples and maxima. *)

LEMMA MultipleOf ==
  ASSUME NEW n \in Nat, NEW d \in Nat \ {0}, n % d = 0
  PROVE  \E q \in Nat : n = d * q
<1>1. n = d * (n \div d) + (n % d) /\ n \div d \in Nat
  BY DivMod
<1> QED
  BY <1>1

LEMMA IsMultiple ==
  ASSUME NEW d \in Nat \ {0}, NEW q \in Nat
  PROVE  d * q \in Nat /\ (d * q) % d = 0
<1>1. 0 \in 0 .. d - 1 /\ d * q \in Nat
  OBVIOUS
<1>2. (d * q + 0) % d = 0
  BY <1>1, DivModOf
<1>3. d * q + 0 = d * q
  BY <1>1
<1> QED
  BY <1>1, <1>2, <1>3, Zenon

LEMMA SumOfMultiples ==
  ASSUME NEW m \in Nat, NEW n \in Nat, NEW d \in Nat \ {0}, m % d = 0, n % d = 0
  PROVE  (m + n) % d = 0
<1>1. PICK p \in Nat, q \in Nat : m = d * p /\ n = d * q
  BY MultipleOf
<1>2. m + n = d * (p + q) /\ p + q \in Nat
  BY <1>1
<1> QED
  BY <1>2, IsMultiple

LEMMA DividesThrough ==
  ASSUME NEW n \in Nat, NEW m \in Nat \ {0}, NEW d \in Nat \ {0}, n % m = 0, m % d = 0
  PROVE  n % d = 0
<1>1. PICK p \in Nat, q \in Nat : n = m * p /\ m = d * q
  BY ZenonT(30), MultipleOf
<1>2. PICK r \in Nat : r = q * p
  OBVIOUS
<1>3. (d * q) * p = d * (q * p)
  OBVIOUS
<1>4. n = d * r
  BY <1>1, <1>2, <1>3
<1> QED
  BY <1>4, IsMultiple

\* Rounding up gives a multiple, at most one step away.
LEMMA AlignUp ==
  ASSUME NEW val \in Nat, NEW to \in Nat \ {0}
  PROVE  /\ AlignVal(val, to) \in Nat /\ AlignVal(val, to) >= val
         /\ AlignVal(val, to) % to = 0
         /\ val % to = 0 => AlignVal(val, to) = val
<1> DEFINE q == (val + to - 1) \div to
           r == (val + to - 1) % to
<1>1. val + to - 1 \in Nat
  OBVIOUS
<1>2. val + to - 1 = to * q + r /\ r \in 0 .. to - 1 /\ q \in Nat
  BY <1>1, DivMod
<1> HIDE DEF q, r
<1>3. q * to = to * q /\ to * q \in Nat /\ (to * q) % to = 0
  <2>1. q \in Nat /\ q \in Int /\ to \in Int
    BY <1>2
  <2>2. q * to = to * q
    BY <2>1, Distribute
  <2> QED
    BY <2>1, <2>2, IsMultiple
<1>4. AlignVal(val, to) = to * q
  BY <1>3 DEF AlignVal, q
<1>5. to * q >= val
  BY <1>2, <1>3
<1>6. ASSUME val % to = 0
      PROVE  to * q = val
  <2>1. PICK p \in Nat : val = to * p
    BY <1>6, MultipleOf
  <2>2. val + to - 1 = to * p + (to - 1) /\ to - 1 \in 0 .. to - 1
    BY <2>1
  <2>3. (to * p + (to - 1)) \div to = p
    BY <2>2, DivModOf
  <2> QED
    BY <2>1, <2>2, <2>3 DEF q
<1> QED
  BY <1>3, <1>4, <1>5, <1>6

LEMMA MaxOfIs ==
  ASSUME NEW S, S \subseteq Nat, IsFiniteSet(S), S # {}
  PROVE  MaxOf(S) \in S /\ \A y \in S : y <= MaxOf(S)
<1> DEFINE above == [x \in S |-> {y \in S : x <= y}]
           T == {above[x] : x \in S}
           R == StrictSubsetOrdering(S)
<1>1. IsWellFoundedOn(R, FiniteSubsetsOf(S))
  BY FS_StrictSubsetOrderingWellFounded
<1>2. \A x \in S : above[x] \in SUBSET S
  OBVIOUS
<1>3. T \subseteq FiniteSubsetsOf(S) /\ T # {}
  <2> HIDE DEF above
  <2>1. T \subseteq SUBSET S /\ T # {}
    BY <1>2
  <2> QED
    BY <2>1, FS_FiniteSubsetsOfFinite
<1>4. \E t \in T : \A u \in T : ~ (<<u, t>> \in R)
  <2> HIDE DEF T, R
  <2> QED
    BY <1>1, <1>3, WFMin, ZenonT(60)
<1>5. PICK x \in S : \A y \in S : ~ (<<above[y], above[x]>> \in R)
  <2> HIDE DEF above, R
  <2> QED
    BY <1>4
<1>6. ASSUME NEW y \in S, ~ (y <= x)
      PROVE  FALSE
  <2>1. x \in Nat /\ y \in Nat /\ \A z \in S : z \in Nat
    OBVIOUS
  <2>2. above[x] = {z \in S : x <= z} /\ above[y] = {z \in S : y <= z}
    OBVIOUS
  <2> HIDE DEF above
  <2>3. ASSUME NEW z \in above[y]
        PROVE  z \in above[x]
    <3>1. z \in S /\ y <= z
      BY <2>2
    <3>2. z \in Nat /\ x <= z
      BY <1>6, <2>1, <3>1
    <3> QED
      BY <2>2, <3>1, <3>2
  <2>4. x \in above[x] /\ x \notin above[y]
    BY <1>6, <2>1, <2>2
  <2>5. above[y] \in SUBSET S /\ above[x] \in SUBSET S /\ above[y] \subseteq above[x]
        /\ above[y] # above[x]
    BY <1>2, <2>3, <2>4
  <2>6. <<above[y], above[x]>> \in R
    BY <2>5 DEF StrictSubsetOrdering
  <2> QED
    BY <1>5, <2>6
<1>7. \E z \in S : \A y \in S : y <= z
  BY <1>6
<1> QED
  BY <1>7 DEF MaxOf

-----------------------------------------------------------------------------
(* The sections and what comes before them in the file. *)

Last == Len(sections)
Extent(p) == p.from \in Nat /\ p.to \in Nat /\ p.from <= p.to

LEMMA SectionFacts ==
  ASSUME sections \in Layouts
  PROVE  /\ Last \in Nat /\ DOMAIN sections = 1 .. Last
         /\ HasData \subseteq 1 .. Last /\ NoData = (1 .. Last) \ HasData
         /\ \A k \in 1 .. Last :
              /\ sections[k].size \in Nat /\ sections[k].align \in Nat \ {0}
              /\ sections[k].internal \in Nat /\ sections[k].external \in Nat
              /\ sections[k].data \in BOOLEAN /\ (sections[k].data <=> k \in HasData)
              /\ 4 % sections[k].align = 0 \/ sections[k].align % 4 = 0
         /\ \A k, m \in 1 .. Last : sections[k].align <= sections[m].align =>
              sections[m].align % sections[k].align = 0
<1> DEFINE Section == [data : BOOLEAN, size : Nat, align : Nat \ {0},
                       internal : Nat, external : Nat]
<1>1. sections \in Seq(Section)
  BY LayoutsAssumption
<1>2. Last \in Nat /\ DOMAIN sections = 1 .. Last /\ \A k \in 1 .. Last : sections[k] \in Section
  <2> HIDE DEF Section
  <2> QED
    BY <1>1 DEF Last
<1>3. /\ \A k \in 1 .. Last : 4 % sections[k].align = 0 \/ sections[k].align % 4 = 0
      /\ \A k, m \in 1 .. Last : sections[k].align <= sections[m].align =>
           sections[m].align % sections[k].align = 0
  BY <1>2, LayoutsAssumption
<1>4. \A k \in 1 .. Last :
        /\ sections[k].size \in Nat /\ sections[k].align \in Nat \ {0}
        /\ sections[k].internal \in Nat /\ sections[k].external \in Nat
        /\ sections[k].data \in BOOLEAN
  BY <1>2
<1>5. /\ HasData \subseteq 1 .. Last /\ NoData = (1 .. Last) \ HasData
      /\ \A k \in 1 .. Last : sections[k].data <=> k \in HasData
  BY <1>2 DEF HasData, NoData
<1> QED
  BY <1>2, <1>3, <1>4, <1>5

Heads == [name : Names, import : Tables, export : Tables]

LEMMA HeadFacts ==
  ASSUME sections \in Layouts, head \in Heads
  PROVE  /\ head.name \in Nat /\ head.import \in Nat /\ head.export \in Nat
         /\ ImportOfs \in Nat /\ ExportOfs \in Nat /\ SectionsOfs \in Nat
         /\ ImportOfs % 4 = 0 /\ ExportOfs % 4 = 0 /\ SectionsOfs % 4 = 0
         /\ HeaderSize + head.name <= ImportOfs /\ HeaderSize + head.name <= ExportOfs
         /\ HeaderSize + head.name <= SectionsOfs
         /\ head.import # 0 => ImportOfs + head.import <= ExportOfs
         /\ head.import # 0 => ImportOfs + head.import <= SectionsOfs
         /\ head.export # 0 => ExportOfs + head.export <= SectionsOfs
<1>1. head.name \in Nat /\ head.import \in Nat /\ head.export \in Nat /\ 4 \in Nat \ {0}
  <2>1. Names \subseteq Nat /\ Tables \subseteq Nat
    BY LayoutsAssumption
  <2>2. head.name \in Names /\ head.import \in Tables /\ head.export \in Tables
    BY DEF Heads
  <2>3. head.name \in Nat /\ head.import \in Nat /\ head.export \in Nat
    BY <2>1, <2>2
  <2> QED
    BY <2>3
<1>2. HeaderSize + head.name \in Nat
  BY <1>1 DEF HeaderSize
<1>3. /\ ImportOfs \in Nat /\ ImportOfs % 4 = 0 /\ HeaderSize + head.name <= ImportOfs
  BY <1>1, <1>2, AlignUp DEF ImportOfs
<1>4. /\ AfterImport \in Nat /\ HeaderSize + head.name <= AfterImport
      /\ head.import # 0 => ImportOfs + head.import <= AfterImport
  BY <1>1, <1>2, <1>3 DEF AfterImport
<1>5. ExportOfs \in Nat /\ ExportOfs % 4 = 0 /\ AfterImport <= ExportOfs
  BY <1>1, <1>4, AlignUp DEF ExportOfs
<1>6. /\ AfterExport \in Nat /\ AfterImport <= AfterExport
      /\ head.export # 0 => ExportOfs + head.export <= AfterExport
  BY <1>1, <1>4, <1>5 DEF AfterExport
<1>7. SectionsOfs \in Nat /\ SectionsOfs % 4 = 0 /\ AfterExport <= SectionsOfs
  BY <1>1, <1>6, AlignUp DEF SectionsOfs
<1> HIDE DEF Heads
<1> QED
  BY <1>1, <1>2, <1>3, <1>4, <1>5, <1>6, <1>7

LEMMA DataStartIs ==
  ASSUME sections \in Layouts, head \in Heads
  PROVE  DataStart \in Nat /\ SectionsOfs + SectionSize * (Last + 1) <= DataStart
<1> DEFINE end == SectionsOfs + SectionSize * (Last + 1)
           k == CHOOSE x \in HasData : \A y \in HasData : x <= y
<1>1. end \in Nat
  BY HeadFacts, SectionFacts DEF SectionSize
<1>2. DataStart = IF HasData = {} THEN end ELSE AlignVal(end, sections[k].align)
  BY DEF DataStart, Last
<1>3. HasData # {} => sections[k].align \in Nat \ {0}
  <2>1. HasData # {} => \E x \in HasData : \A y \in HasData : x <= y
    BY SectionFacts, LeastIndex
  <2>2. HasData # {} => k \in HasData
    BY <2>1
  <2> HIDE DEF k
  <2> QED
    BY <2>2, SectionFacts
<1> HIDE DEF end, k
<1>4. DataStart \in Nat /\ end <= DataStart
  BY <1>1, <1>2, <1>3, AlignUp
<1> QED
  BY <1>4 DEF end

HeadPart(p) == /\ p.kind \in {"head", "import", "export", "sections"}
               /\ p.to <= DataStart /\ p.from % 4 = 0

\* Header, name, symbol tables and section table follow one another.
LEMMA HeadPartsApart ==
  ASSUME sections \in Layouts, head \in Heads
  PROVE  /\ \A p \in HeadParts : Extent(p) /\ HeadPart(p)
         /\ \A p, q \in HeadParts : p = q \/ Disjoint(p, q)
         /\ \E p \in HeadParts : p.from < p.to
<1> DEFINE a == Part("head", 0, 0, HeaderSize + head.name)
           b == Part("import", 0, ImportOfs, head.import)
           c == Part("export", 0, ExportOfs, head.export)
           d == Part("sections", 0, SectionsOfs, SectionSize * (Last + 1))
<1>1. /\ \A p \in HeadParts : \/ p = a
                              \/ p = b /\ head.import # 0
                              \/ p = c /\ head.export # 0
                              \/ p = d
      /\ a \in HeadParts
  BY DEF HeadParts, Last
<1>2. SectionSize * (Last + 1) \in Nat /\ HeaderSize \in Nat \ {0} /\ 0 % 4 = 0
  BY SectionFacts DEF SectionSize, HeaderSize
<1>3. /\ a.from = 0 /\ a.to = HeaderSize + head.name /\ a.kind = "head"
      /\ b.from = ImportOfs /\ b.to = ImportOfs + head.import /\ b.kind = "import"
      /\ c.from = ExportOfs /\ c.to = ExportOfs + head.export /\ c.kind = "export"
      /\ d.from = SectionsOfs /\ d.to = SectionsOfs + SectionSize * (Last + 1)
      /\ d.kind = "sections"
  BY HeadFacts, <1>2 DEF Part
<1> HIDE DEF a, b, c, d
<1>4. /\ Extent(a) /\ Extent(b) /\ Extent(c) /\ Extent(d) /\ a.from < a.to
  <2>1. /\ head.name \in Nat /\ head.import \in Nat /\ head.export \in Nat
        /\ ImportOfs \in Nat /\ ExportOfs \in Nat /\ SectionsOfs \in Nat
    BY HeadFacts
  <2> QED
    BY <1>2, <1>3, <2>1 DEF Extent
<1>5. /\ HeadPart(a) /\ HeadPart(d)
      /\ head.import # 0 => HeadPart(b)
      /\ head.export # 0 => HeadPart(c)
  <2>1. DataStart \in Nat /\ d.to <= DataStart
    BY <1>3, DataStartIs
  <2>2. /\ a.to <= d.from
        /\ head.import # 0 => b.to <= d.from
        /\ head.export # 0 => c.to <= d.from
    BY <1>3, HeadFacts
  <2>3. /\ a.to <= DataStart
        /\ head.import # 0 => b.to <= DataStart
        /\ head.export # 0 => c.to <= DataStart
    BY <1>4, <2>1, <2>2 DEF Extent
  <2>4. a.from % 4 = 0 /\ b.from % 4 = 0 /\ c.from % 4 = 0 /\ d.from % 4 = 0
    BY <1>2, <1>3, HeadFacts
  <2> QED
    BY <1>3, <2>1, <2>3, <2>4 DEF HeadPart
<1>6. /\ a.to <= b.from /\ a.to <= c.from /\ a.to <= d.from
      /\ head.import # 0 => b.to <= c.from /\ b.to <= d.from
      /\ head.export # 0 => c.to <= d.from
  BY <1>3, HeadFacts
<1>7. \A p, q \in HeadParts : p = q \/ Disjoint(p, q)
  BY <1>1, <1>6 DEF Disjoint
<1> QED
  BY <1>1, <1>4, <1>5, <1>7

-----------------------------------------------------------------------------
(* Alignments are powers of two: the greatest one is a multiple of the others. *)

Aligns == {1, 4} \cup {sections[k].align : k \in 1 .. Last}

LEMMA AlignsDivide ==
  ASSUME sections \in Layouts
  PROVE  /\ Aligns \subseteq Nat \ {0}
         /\ \A x, y \in Aligns : x <= y => y % x = 0
<1>1. Aligns \subseteq Nat \ {0}
  BY SectionFacts DEF Aligns
<1>2. ASSUME NEW x \in Nat \ {0}
      PROVE  x % 1 = 0 /\ x % x = 0
  <2>1. 1 * x = x /\ x * 1 = x
    OBVIOUS
  <2>2. (1 * x) % 1 = 0 /\ (x * 1) % x = 0
    BY IsMultiple
  <2> QED
    BY <2>1, <2>2, Zenon
<1>3. ASSUME NEW a \in Nat \ {0}, 4 % a = 0 \/ a % 4 = 0
      PROVE  (a <= 4 => 4 % a = 0) /\ (4 <= a => a % 4 = 0)
  <2>1. CASE 4 % a = 0
    <3>1. PICK q \in Nat : 4 = a * q
      BY <2>1, MultipleOf
    <3>2. 4 <= a => a = 4
      BY <3>1
    <3> QED
      BY <2>1, <3>2
  <2>2. CASE a % 4 = 0
    BY <2>2
  <2> QED
    BY <1>3, <2>1, <2>2
<1>4. ASSUME NEW x \in Aligns, NEW y \in Aligns, x <= y
      PROVE  y % x = 0
  <2>1. x \in Nat \ {0} /\ y \in Nat \ {0}
    BY <1>1
  <2>2. CASE x = 1 \/ x = y
    BY <1>2, <2>1, <2>2
  <2>3. CASE y = 1
    BY <1>2, <1>4, <2>1, <2>3
  <2>4. ASSUME NEW k \in 1 .. Last, x = 4, y = sections[k].align
        PROVE  y % x = 0
    BY <1>3, <1>4, <2>1, <2>4, SectionFacts
  <2>5. ASSUME NEW k \in 1 .. Last, y = 4, x = sections[k].align
        PROVE  y % x = 0
    BY <1>3, <1>4, <2>1, <2>5, SectionFacts
  <2>6. ASSUME NEW k \in 1 .. Last, NEW m \in 1 .. Last,
               x = sections[k].align, y = sections[m].align
        PROVE  y % x = 0
    BY <1>4, <2>6, SectionFacts
  <2> QED
    BY <2>2, <2>3, <2>4, <2>5, <2>6 DEF Aligns
<1> QED
  BY <1>1, <1>4

LEMMA GreatestAlign ==
  ASSUME sections \in Layouts, NEW K \in SUBSET (1 .. Last), NEW least \in {1, 4}
  PROVE  LET M == MaxOf({least} \cup {sections[k].align : k \in K})
         IN  /\ M \in Aligns /\ M % least = 0
             /\ \A k \in K : M % sections[k].align = 0
<1> DEFINE f == [k \in K |-> sections[k].align]
           S == {sections[k].align : k \in K}
           M == MaxOf({least} \cup S)
<1>1. IsFiniteSet(K)
  <2>1. IsFiniteSet(1 .. Last)
    BY SectionFacts, FS_Interval
  <2> QED
    BY <2>1, FS_Subset
<1>2. IsFiniteSet({least} \cup S)
  <2>1. f \in Surjection(K, S)
    BY DEF Surjection
  <2>2. IsFiniteSet(S)
    BY <1>1, <2>1, FS_Surjection
  <2>3. IsFiniteSet(S \cup {least})
    BY <2>2, FS_AddElement
  <2>4. {least} \cup S = S \cup {least}
    OBVIOUS
  <2> QED
    BY <2>3, <2>4
<1>3. {least} \cup S \subseteq Aligns /\ \A k \in K : sections[k].align \in S
  BY DEF Aligns
<1>4. M \in {least} \cup S /\ \A y \in {least} \cup S : y <= M
  <2>1. {least} \cup S \subseteq Nat /\ {least} \cup S # {}
    BY <1>3, AlignsDivide
  <2> HIDE DEF S
  <2> QED
    BY <1>2, <2>1, MaxOfIs
<1> HIDE DEF S, M
<1>5. M \in Aligns /\ \A y \in {least} \cup S : M % y = 0
  BY <1>3, <1>4, AlignsDivide
<1>6. M \in Aligns /\ M % least = 0 /\ \A k \in K : M % sections[k].align = 0
  BY <1>3, <1>5
<1> QED
  BY <1>6 DEF M, S

LEMMA AlignFacts ==
  ASSUME sections \in Layouts
  PROVE  /\ UsoAlign \in Aligns /\ UsoAlign \in Nat \ {0} /\ UsoAlign % 4 = 0
         /\ \A k \in HasData : UsoAlign % sections[k].align = 0
         /\ NoloadAlign \in Aligns /\ NoloadAlign \in Nat \ {0}
         /\ \A k \in NoData : NoloadAlign % sections[k].align = 0
<1>1. HasData \subseteq 1 .. Last /\ NoData \subseteq 1 .. Last
  BY SectionFacts
<1>2. /\ UsoAlign \in Aligns /\ UsoAlign % 4 = 0
      /\ \A k \in HasData : UsoAlign % sections[k].align = 0
  BY <1>1, GreatestAlign DEF UsoAlign
<1>3. /\ NoloadAlign \in Aligns
      /\ \A k \in NoData : NoloadAlign % sections[k].align = 0
  BY <1>1, GreatestAlign DEF NoloadAlign
<1> QED
  BY <1>2, <1>3, AlignsDivide

-----------------------------------------------------------------------------
(* The invariant. *)

\* Every section without data leaves the next ones aligned.
Padded ==
  \A l \in Layouts : \A k, m \in DOMAIN l :
    k < m /\ ~ l[k].data /\ ~ l[m].data => l[k].size % l[m].align = 0

\* The sections that each loop is done with, and 0 for its start
Placed == IF phase = "place" THEN 0 .. i - 1 ELSE 0 .. Last
Written ==
  IF phase = "place" THEN {} ELSE IF phase = "write" THEN 1 .. i - 1 ELSE 1 .. Last
Summed ==
  IF phase \in {"place", "write"} THEN {0}
  ELSE IF phase = "sum" THEN 0 .. i - 1 ELSE 0 .. Last
Addressed ==
  IF phase = "fixup" THEN 1 .. i - 1 ELSE IF phase = "done" THEN 1 .. Last ELSE {}

SizeOf(k) == IF sections[k].data THEN 0 ELSE sections[k].size

\* The positions that both passes over the sections agree on
EndsInv ==
  /\ ends[0] = DataStart
  /\ \A k \in Placed \ {0} : ends[k] = EndOf(k, ends[k - 1])
  /\ \A k, m \in Placed : k <= m => ends[k] <= ends[m]

SumsInv ==
  /\ sums[0] = 0
  /\ \A k \in Summed \ {0} : sums[k] = sums[k - 1] + SizeOf(k)
  /\ \A k, m \in Summed : k <= m => sums[k] <= sums[m]
  /\ Padded => \A k \in Summed, m \in NoData : k < m => sums[k] % sections[m].align = 0

DataPart(p) ==
  /\ p.kind = "data" /\ p.section \in HasData \cap Written
  /\ p.from % sections[p.section].align = 0
  /\ p.to = p.from + sections[p.section].size
  /\ DataStart <= p.from /\ p.to <= dataOfs

RelocPart(p) ==
  /\ p.kind \in {"internal", "external"} /\ phase # "place"
  /\ p.from % 4 = 0 /\ RelocStart <= p.from /\ p.to <= relocsOfs

FileInv ==
  /\ \A p \in written : Extent(p) /\ (HeadPart(p) \/ DataPart(p) \/ RelocPart(p))
  /\ \A k \in HasData \cap Written : \E p \in written : p.kind = "data" /\ p.section = k
  /\ \E p \in written : p.from < p.to
  /\ FilePartsDisjoint
  /\ phase = "place" => dataOfs = DataStart
  /\ phase = "write" => dataOfs = ends[i - 1]
  /\ phase # "place" => DataStart <= dataOfs /\ dataOfs <= RelocStart /\ RelocStart <= relocsOfs

InfoInv ==
  /\ phase \in {"open", "fixup", "done"} =>
       /\ info.uso_align = UsoAlign /\ info.noload_align = NoloadAlign
       /\ info.noload_size = sums[Last]
       /\ \A p \in written : p.from < p.to => p.to <= info.uso_size
  /\ phase = "open" => i = 1

MemoryInv ==
  /\ phase \in {"fixup", "done"} => base % RamAlign = 0
  /\ phase = "fixup" =>
       /\ base + NoloadStart <= noload
       /\ Padded => noload = base + NoloadStart + sums[i - 1]
  /\ \A k \in Addressed :
       IF k \in HasData THEN address[k] = base + OffsetInFile(k)
       ELSE /\ address[k] % sections[k].align = 0
            /\ Padded => address[k] = base + NoloadStart + sums[k - 1]

ImageInv == TypeOK /\ EndsInv /\ SumsInv /\ FileInv /\ InfoInv /\ MemoryInv

-----------------------------------------------------------------------------
LEMMA TypeFacts ==
  ASSUME TypeOK
  PROVE  /\ sections \in Layouts /\ head \in Heads
         /\ i \in Nat /\ 1 <= i /\ i <= Last + 1 /\ Last \in Nat
         /\ ends \in [0 .. Last -> Nat] /\ sums \in [0 .. Last -> Nat]
         /\ dataOfs \in Nat /\ relocsOfs \in Nat /\ relocsOfs % 4 = 0
         /\ noload \in Nat /\ base \in Nat
         /\ DOMAIN sections = 1 .. Last /\ address \in [1 .. Last -> Nat]
         /\ DataStart \in Nat
<1>1. /\ sections \in Layouts /\ head \in Heads /\ i \in 1 .. Len(sections) + 1
      /\ ends \in [0 .. Last -> Nat] /\ sums \in [0 .. Last -> Nat]
      /\ dataOfs \in Nat /\ relocsOfs \in Nat /\ relocsOfs % 4 = 0
      /\ noload \in Nat /\ base \in Nat
      /\ address \in [DOMAIN sections -> Nat]
  BY DEF TypeOK, Heads, Last
<1>2. Last \in Nat /\ DOMAIN sections = 1 .. Last
  BY <1>1, SectionFacts
<1>3. i \in Nat /\ 1 <= i /\ i <= Last + 1
  BY <1>1, <1>2 DEF Last
<1>4. DataStart \in Nat
  BY <1>1, DataStartIs
<1> QED
  BY <1>1, <1>2, <1>3, <1>4

\* Looking for a place goes up.
LEMMA EndOfIs ==
  ASSUME sections \in Layouts, NEW k \in 1 .. Last, NEW from \in Nat
  PROVE  /\ EndOf(k, from) \in Nat /\ from <= EndOf(k, from)
         /\ AlignVal(from, sections[k].align) \in Nat
         /\ from <= AlignVal(from, sections[k].align)
         /\ AlignVal(from, sections[k].align) % sections[k].align = 0
         /\ sections[k].data =>
              EndOf(k, from) = AlignVal(from, sections[k].align) + sections[k].size
         /\ ~ sections[k].data => EndOf(k, from) = from
<1>1. sections[k].align \in Nat \ {0} /\ sections[k].size \in Nat
  BY SectionFacts
<1>2. /\ AlignVal(from, sections[k].align) \in Nat
      /\ from <= AlignVal(from, sections[k].align)
      /\ AlignVal(from, sections[k].align) % sections[k].align = 0
  BY <1>1, AlignUp
<1> QED
  BY <1>1, <1>2 DEF EndOf

LEMMA ImageStarts == Init => ImageInv
<1> SUFFICES ASSUME Init PROVE ImageInv
  OBVIOUS
<1>1. sections \in Layouts /\ head \in Heads /\ phase = "place" /\ i = 1
  BY DEF Init, Heads
<1>2. Last \in Nat /\ DOMAIN sections = 1 .. Last /\ DataStart \in Nat
  BY <1>1, SectionFacts, DataStartIs
<1>3. TypeOK
  <2>1. i \in 1 .. Last + 1 /\ relocsOfs % 4 = 0
    BY <1>1, <1>2 DEF Init
  <2> QED
    BY <1>1, <1>2, <2>1 DEF Init, TypeOK, Last
<1>4. Placed = {0} /\ Summed = {0} /\ Written = {} /\ Addressed = {}
  BY <1>1 DEF Placed, Summed, Written, Addressed
<1>5. /\ 0 \in 0 .. Last /\ ends[0] = DataStart /\ sums[0] = 0
  BY <1>2 DEF Init, Last
<1>6. EndsInv
  BY <1>2, <1>4, <1>5 DEF EndsInv
<1>7. SumsInv
  <2>1. ASSUME NEW m \in NoData
        PROVE  0 % sections[m].align = 0
    <3>1. sections[m].align \in Nat \ {0}
      BY <1>1, SectionFacts
    <3>2. sections[m].align * 0 = 0 /\ (sections[m].align * 0) % sections[m].align = 0
      BY <3>1, IsMultiple
    <3> QED
      BY <3>2
  <2> QED
    BY <1>4, <1>5, <2>1 DEF SumsInv
<1>8. FileInv
  BY <1>1, <1>4, HeadPartsApart DEF Init, FileInv, FilePartsDisjoint
<1>9. InfoInv /\ MemoryInv
  BY <1>1, <1>4 DEF InfoInv, MemoryInv
<1> QED
  BY <1>3, <1>6, <1>7, <1>8, <1>9 DEF ImageInv

-----------------------------------------------------------------------------
(* The first pass over the sections. *)

LEMMA SectionsStay ==
  ASSUME UNCHANGED <<sections, head>>
  PROVE  /\ DataStart' = DataStart /\ Last' = Last /\ Heads' = Heads
         /\ HasData' = HasData /\ NoData' = NoData
         /\ UsoAlign' = UsoAlign /\ NoloadAlign' = NoloadAlign
<1>1. Last' = Last /\ HasData' = HasData /\ NoData' = NoData
  BY DEF Last, HasData, NoData
<1>2. DataStart' = DataStart
  BY <1>1 DEF DataStart, SectionsOfs, AfterExport, ExportOfs, AfterImport, ImportOfs
<1>3. UsoAlign' = UsoAlign /\ NoloadAlign' = NoloadAlign
  BY <1>1 DEF UsoAlign, NoloadAlign
<1> QED
  BY <1>1, <1>2, <1>3 DEF Heads

LEMMA EndsStay ==
  ASSUME EndsInv, UNCHANGED <<sections, head, ends>>, Placed' = Placed
  PROVE  EndsInv'
BY SectionsStay DEF EndsInv, EndOf

LEMMA SumsStay ==
  ASSUME SumsInv, UNCHANGED <<sections, head, sums>>, Summed' = Summed
  PROVE  SumsInv'
BY SectionsStay DEF SumsInv, SizeOf, Padded

LEMMA FileStays ==
  ASSUME FileInv, UNCHANGED <<sections, head, ends, dataOfs, relocsOfs, written>>,
         Written' = Written, phase' = "place" <=> phase = "place", phase' # "write"
  PROVE  FileInv'
<1>1. /\ DataStart' = DataStart /\ HasData' = HasData /\ RelocStart' = RelocStart
  BY SectionsStay DEF RelocStart
<1>2. ASSUME NEW p \in written
      PROVE  /\ HeadPart(p) => HeadPart(p)'
             /\ DataPart(p) => DataPart(p)'
             /\ RelocPart(p) => RelocPart(p)'
  BY <1>1 DEF HeadPart, DataPart, RelocPart
<1>3. FilePartsDisjoint'
  BY DEF FileInv, FilePartsDisjoint
<1> QED
  BY <1>1, <1>2, <1>3 DEF FileInv

LEMMA PlaceStep ==
  ASSUME ImageInv, PlaceSection
  PROVE  ImageInv'
<1>1. TypeOK /\ EndsInv /\ SumsInv /\ FileInv
  BY DEF ImageInv
<1>2. /\ phase = "place" /\ i <= Last /\ i' = i + 1 /\ phase' = phase
      /\ ends' = [ends EXCEPT ![i] = EndOf(i, ends[i - 1])]
      /\ UNCHANGED <<sections, head, sums, dataOfs, relocsOfs, written, info, base, noload, address>>
  BY DEF PlaceSection, Last
<1>3. /\ i \in 1 .. Last /\ i \in 0 .. Last /\ i - 1 \in 0 .. Last /\ i + 1 \in 1 .. Last + 1
      /\ ends \in [0 .. Last -> Nat] /\ Last \in Nat /\ sections \in Layouts
  BY SMTT(30), <1>1, <1>2, TypeFacts
<1>4. ends[i - 1] \in Nat /\ EndOf(i, ends[i - 1]) \in Nat /\ ends[i - 1] <= EndOf(i, ends[i - 1])
  <2>1. ends[i - 1] \in Nat
    BY <1>3
  <2> QED
    BY <1>3, <2>1, EndOfIs
<1>5. TypeOK'
  <2>1. ends' \in [0 .. Last -> Nat]
    BY <1>2, <1>3, <1>4
  <2> QED
    BY <1>1, <1>2, <1>3, <2>1 DEF TypeOK, Last
<1>6. EndsInv'
  <2>1. /\ Placed = 0 .. i - 1 /\ Placed' = 0 .. i
        /\ \A k \in 0 .. i : k \in 0 .. i - 1 \/ k = i
        /\ \A k \in 0 .. i - 1 : k \in 0 .. Last /\ k # i /\ k <= i - 1
    BY <1>2, <1>3 DEF Placed
  <2>2. ends'[i] = EndOf(i, ends[i - 1]) /\ \A k \in 0 .. i - 1 : ends'[k] = ends[k]
    BY <1>2, <1>3, <2>1
  <2>3. \A k \in 0 .. i - 1 : ends[k] \in Nat /\ ends[k] <= ends[i - 1]
    BY <1>1, <1>3, <2>1 DEF EndsInv
  <2>4. \A k \in 0 .. i - 1 : ends'[k] <= ends'[i]
    BY <1>4, <2>2, <2>3
  <2>5. \A k, m \in 0 .. i : k <= m => ends'[k] <= ends'[m]
    <3>1. ASSUME NEW k \in 0 .. i, NEW m \in 0 .. i, k <= m PROVE ends'[k] <= ends'[m]
      <4>1. CASE m \in 0 .. i - 1
        <5>1. k \in 0 .. i - 1
          BY <1>3, <3>1, <4>1
        <5> QED
          BY <1>1, <2>1, <2>2, <3>1, <4>1, <5>1 DEF EndsInv
      <4>2. CASE m = i /\ k \in 0 .. i - 1
        BY <2>4, <4>2
      <4>3. CASE m = i /\ k = i
        BY <1>4, <2>2, <4>3
      <4> QED
        BY <2>1, <3>1, <4>1, <4>2, <4>3
    <3> QED
      BY <3>1
  <2>6. \A k \in (0 .. i) \ {0} : k - 1 \in 0 .. i - 1
    BY <1>3
  <2>7. ASSUME NEW k \in (0 .. i) \ {0}
        PROVE  ends'[k] = EndOf(k, ends'[k - 1])
    <3>1. ends'[k - 1] = ends[k - 1]
      BY <2>2, <2>6
    <3>2. CASE k = i
      BY <2>2, <3>1, <3>2
    <3>3. CASE k \in 0 .. i - 1
      BY <1>1, <2>1, <2>2, <3>1, <3>3 DEF EndsInv
    <3> QED
      BY <2>1, <3>2, <3>3
  <2>8. ends'[0] = DataStart /\ DataStart' = DataStart
    BY <1>1, <1>2, <1>3, <2>2, SectionsStay DEF EndsInv
  <2>9. \A k \in (0 .. i) \ {0} : ends'[k] = EndOf(k, ends[k - 1])'
    BY <1>2, <2>7 DEF EndOf
  <2> QED
    BY <2>1, <2>5, <2>8, <2>9 DEF EndsInv
<1>7. SumsInv'
  <2>1. Summed' = Summed
    BY <1>2 DEF Summed
  <2> QED
    BY <1>1, <1>2, <2>1, SumsStay
<1>8. FileInv'
  <2>1. \A p \in written : HeadPart(p) /\ Extent(p)
    BY <1>1, <1>2 DEF FileInv, DataPart, RelocPart, Written
  <2>2. Written' = {} /\ DataStart' = DataStart
    BY <1>2, SectionsStay DEF Written
  <2>3. \A p \in written' : HeadPart(p)' /\ Extent(p)'
    BY <1>2, <2>1, <2>2 DEF HeadPart, Extent
  <2>4. FilePartsDisjoint'
    BY <1>1, <1>2 DEF FileInv, FilePartsDisjoint
  <2> QED
    BY <1>1, <1>2, <2>2, <2>3, <2>4 DEF FileInv
<1>9. InfoInv' /\ MemoryInv'
  BY <1>2 DEF InfoInv, MemoryInv, Addressed
<1> QED
  BY <1>5, <1>6, <1>7, <1>8, <1>9 DEF ImageInv

LEMMA SumStep ==
  ASSUME ImageInv, SumSection
  PROVE  ImageInv'
<1>1. TypeOK /\ EndsInv /\ SumsInv /\ FileInv
  BY DEF ImageInv
<1>2. /\ phase = "sum" /\ i <= Last /\ i' = i + 1 /\ phase' = phase
      /\ sums' = [sums EXCEPT ![i] = sums[i - 1] + SizeOf(i)]
      /\ UNCHANGED <<sections, head, ends, dataOfs, relocsOfs, written, info, base, noload, address>>
  BY DEF SumSection, Last, SizeOf
<1>3. /\ i \in 1 .. Last /\ i \in 0 .. Last /\ i - 1 \in 0 .. Last /\ i + 1 \in 1 .. Last + 1
      /\ sums \in [0 .. Last -> Nat] /\ Last \in Nat /\ sections \in Layouts
  BY SMTT(30), <1>1, <1>2, TypeFacts
<1>4. /\ SizeOf(i) \in Nat /\ sums[i - 1] \in Nat /\ sums[i - 1] + SizeOf(i) \in Nat
      /\ sums[i - 1] <= sums[i - 1] + SizeOf(i)
  <2>1. sums[i - 1] \in Nat
    BY <1>3
  <2>2. SizeOf(i) \in Nat
    BY <1>3, SectionFacts DEF SizeOf
  <2> QED
    BY <2>1, <2>2
<1>5. TypeOK'
  <2>1. sums' \in [0 .. Last -> Nat]
    BY <1>2, <1>3, <1>4
  <2> QED
    BY <1>1, <1>2, <1>3, <2>1 DEF TypeOK, Last
<1>6. SumsInv'
  <2>1. /\ Summed = 0 .. i - 1 /\ Summed' = 0 .. i
        /\ \A k \in 0 .. i : k \in 0 .. i - 1 \/ k = i
        /\ \A k \in 0 .. i - 1 : k \in 0 .. Last /\ k # i /\ k <= i - 1
    BY <1>2, <1>3 DEF Summed
  <2>2. sums'[i] = sums[i - 1] + SizeOf(i) /\ \A k \in 0 .. i - 1 : sums'[k] = sums[k]
    BY <1>2, <1>3, <2>1
  <2>3. \A k \in 0 .. i - 1 : sums[k] \in Nat /\ sums[k] <= sums[i - 1]
    BY <1>1, <1>3, <2>1 DEF SumsInv
  <2>4. \A k \in 0 .. i - 1 : sums'[k] <= sums'[i]
    BY <1>4, <2>2, <2>3
  <2>5. ASSUME NEW k \in 0 .. i, NEW m \in 0 .. i, k <= m PROVE sums'[k] <= sums'[m]
    <3>1. CASE m \in 0 .. i - 1
      <4>1. k \in 0 .. i - 1
        BY <1>3, <2>5, <3>1
      <4> QED
        BY <1>1, <2>1, <2>2, <2>5, <3>1, <4>1 DEF SumsInv
    <3>2. CASE m = i /\ k \in 0 .. i - 1
      BY <2>4, <3>2
    <3>3. CASE m = i /\ k = i
      BY <1>4, <2>2, <3>3
    <3> QED
      BY <2>1, <2>5, <3>1, <3>2, <3>3
  <2>6. \A k \in (0 .. i) \ {0} : k - 1 \in 0 .. i - 1
    BY <1>3
  <2>7. ASSUME NEW k \in (0 .. i) \ {0}
        PROVE  sums'[k] = sums'[k - 1] + SizeOf(k)
    <3>1. sums'[k - 1] = sums[k - 1]
      BY <2>2, <2>6
    <3>2. CASE k = i
      BY <2>2, <3>1, <3>2
    <3>3. CASE k \in 0 .. i - 1
      BY <1>1, <2>1, <2>2, <3>1, <3>3 DEF SumsInv
    <3> QED
      BY <2>1, <3>2, <3>3
  <2>8. sums'[0] = 0
    BY <1>1, <1>3, <2>2 DEF SumsInv
  <2>9. ASSUME Padded, NEW k \in 0 .. i, NEW m \in NoData, k < m
        PROVE  sums'[k] % sections[m].align = 0
    <3>1. CASE k \in 0 .. i - 1
      BY <1>1, <2>1, <2>2, <2>9, <3>1 DEF SumsInv
    <3>2. CASE k = i
      <4>1. sections[m].align \in Nat \ {0} /\ m \in 1 .. Last /\ i - 1 < m /\ i < m
        BY <1>3, <2>9, <3>2, SectionFacts
      <4>2. sums[i - 1] % sections[m].align = 0
        <5>1. i - 1 \in Summed
          BY <1>3, <2>1
        <5> QED
          BY <1>1, <2>9, <4>1, <5>1 DEF SumsInv
      <4>3. SizeOf(i) % sections[m].align = 0
        <5>1. CASE sections[i].data
          <6>1. sections[m].align * 0 = 0 /\ (sections[m].align * 0) % sections[m].align = 0
            BY <4>1, IsMultiple
          <6> QED
            BY <5>1, <6>1 DEF SizeOf
        <5>2. CASE ~ sections[i].data
          <6>1. i \in DOMAIN sections /\ m \in DOMAIN sections /\ ~ sections[m].data
            BY <1>3, <4>1, SectionFacts
          <6> QED
            BY <1>3, <2>9, <4>1, <5>2, <6>1 DEF Padded, SizeOf
        <5> QED
          BY <5>1, <5>2
      <4>4. (sums[i - 1] + SizeOf(i)) % sections[m].align = 0
        BY <1>4, <4>1, <4>2, <4>3, SumOfMultiples
      <4> QED
        BY <2>2, <3>2, <4>4
    <3> QED
      BY <2>1, <3>1, <3>2
  <2>10. NoData' = NoData /\ \A k \in (0 .. i) \ {0} : sums'[k] = (sums[k - 1] + SizeOf(k))'
    BY <1>2, <2>7, SectionsStay DEF SizeOf
  <2> QED
    BY <1>2, <2>1, <2>5, <2>8, <2>9, <2>10 DEF SumsInv, Padded
<1>7. EndsInv'
  <2>1. Placed' = Placed
    BY <1>2 DEF Placed, Last
  <2> QED
    BY <1>1, <1>2, <2>1, EndsStay
<1>8. FileInv'
  <2>1. Written' = Written
    BY <1>2 DEF Written, Last
  <2> QED
    BY <1>1, <1>2, <2>1, FileStays
<1>9. InfoInv' /\ MemoryInv'
  BY <1>2 DEF InfoInv, MemoryInv, Addressed
<1> QED
  BY <1>5, <1>6, <1>7, <1>8, <1>9 DEF ImageInv

-----------------------------------------------------------------------------
(* The second pass, which writes. *)

LEMMA TableSizeIs ==
  ASSUME NEW n \in Nat
  PROVE  RelocTableSize(n) \in Nat /\ RelocTableSize(n) % 4 = 0
<1>1. CASE n = 0
  BY <1>1 DEF RelocTableSize
<1>2. CASE n # 0
  <2>1. RelocTableSize(n) = 4 * (1 + 3 * n) /\ 1 + 3 * n \in Nat
    BY <1>2 DEF RelocTableSize
  <2> QED
    BY <2>1, IsMultiple
<1> QED
  BY <1>1, <1>2

\* The first pass left room for the section and those after it.
LEMMA RoomForSection ==
  ASSUME TypeOK, EndsInv, FileInv, phase = "write", i <= Last
  PROVE  /\ EndOf(i, dataOfs) = ends[i] /\ i \in 1 .. Last
         /\ EndOf(i, dataOfs) <= RelocStart
         /\ RelocStart \in Nat /\ RelocStart % 4 = 0
<1>1. /\ i \in 1 .. Last /\ i \in 0 .. Last /\ i # 0 /\ Last \in 0 .. Last /\ Last \in Nat
      /\ ends \in [0 .. Last -> Nat]
  BY TypeFacts
<1>2. dataOfs = ends[i - 1] /\ Placed = 0 .. Last
  BY DEF FileInv, Placed
<1>3. EndOf(i, dataOfs) = ends[i] /\ ends[i] <= ends[Last]
  BY <1>1, <1>2 DEF EndsInv
<1>4. ends[i] \in Nat /\ ends[Last] \in Nat
  BY <1>1
<1>5. RelocStart \in Nat /\ RelocStart % 4 = 0 /\ ends[Last] <= RelocStart
  BY <1>4, AlignUp DEF RelocStart, Last
<1> QED
  BY <1>1, <1>3, <1>4, <1>5

LEMMA WriteStep ==
  ASSUME ImageInv, WriteSection
  PROVE  ImageInv'
<1> DEFINE s == sections[i]
<1>0. PICK at, external, d, x, e :
        /\ at = AlignVal(dataOfs, s.align)
        /\ external = relocsOfs + RelocTableSize(s.internal)
        /\ d = Part("data", i, at, s.size)
        /\ x = Part("internal", i, relocsOfs, RelocTableSize(s.internal))
        /\ e = Part("external", i, external, RelocTableSize(s.external))
  OBVIOUS
<1>1. TypeOK /\ EndsInv /\ SumsInv /\ FileInv
  BY DEF ImageInv
<1>2. /\ phase = "write" /\ i <= Last /\ i' = i + 1 /\ phase' = phase
      /\ UNCHANGED <<sections, head, ends, sums, info, base, noload, address>>
  BY DEF WriteSection, Last, plan
<1>3. /\ dataOfs' = IF s.data THEN at + s.size ELSE dataOfs
      /\ relocsOfs' = external + RelocTableSize(s.external)
      /\ \A p \in written' : p \in written \/ (p = d /\ s.data) \/ p = x \/ p = e
      /\ written \subseteq written' /\ (s.data => d \in written')
  <2>1. /\ dataOfs' = IF s.data THEN at + s.size ELSE dataOfs
        /\ relocsOfs' = external + RelocTableSize(s.external)
    BY <1>0 DEF WriteSection
  <2>2. PICK D, X, E :
          /\ D = {Part("data", i, at, s.size) : z \in {s.data} \ {FALSE}}
          /\ X = {Part("internal", i, relocsOfs, RelocTableSize(n)) : n \in {s.internal} \ {0}}
          /\ E = {Part("external", i, external, RelocTableSize(n)) : n \in {s.external} \ {0}}
    OBVIOUS
  <2>3. written' = ((written \cup D) \cup X) \cup E
    BY <1>0, <2>2 DEF WriteSection
  <2>4. /\ \A p \in D : p = d /\ s.data # FALSE
        /\ s.data # FALSE => d \in D
        /\ \A p \in X : p = x
        /\ \A p \in E : p = e
    BY <1>0, <2>2
  <2>5. s.data \in BOOLEAN
    BY <1>1, <1>2, TypeFacts, SectionFacts
  <2> HIDE DEF s
  <2>6. s.data <=> s.data # FALSE
    BY <2>5
  <2> QED
    BY <2>1, <2>3, <2>4, <2>6
<1>4. /\ i \in 1 .. Last /\ dataOfs \in Nat /\ relocsOfs \in Nat /\ relocsOfs % 4 = 0
      /\ Last \in Nat /\ sections \in Layouts /\ DataStart \in Nat
      /\ EndOf(i, dataOfs) = ends[i] /\ ends[i] <= RelocStart
      /\ RelocStart \in Nat /\ RelocStart % 4 = 0
  BY <1>1, <1>2, TypeFacts, RoomForSection
<1>5. /\ s.size \in Nat /\ s.align \in Nat \ {0} /\ (s.data <=> i \in HasData)
      /\ s.internal \in Nat /\ s.external \in Nat
  BY <1>4, SectionFacts
<1>6. DataStart <= dataOfs /\ RelocStart <= relocsOfs
  BY <1>1, <1>2 DEF FileInv
<1>7. /\ at \in Nat /\ dataOfs <= at /\ at % s.align = 0
      /\ s.data => at + s.size = ends[i]
      /\ ~ s.data => dataOfs = ends[i]
  BY <1>0, <1>4, EndOfIs
<1>8. /\ RelocTableSize(s.internal) \in Nat /\ RelocTableSize(s.internal) % 4 = 0
      /\ RelocTableSize(s.external) \in Nat /\ RelocTableSize(s.external) % 4 = 0
  BY <1>5, TableSizeIs
<1>9. /\ d.kind = "data" /\ d.section = i /\ d.from = at /\ d.to = at + s.size
      /\ x.kind = "internal" /\ x.from = relocsOfs /\ x.to = external
      /\ e.kind = "external" /\ e.from = external /\ e.to = relocsOfs'
  BY <1>0, <1>3 DEF Part
<1>10. external \in Nat /\ relocsOfs <= external /\ external % 4 = 0
  <2>1. external \in Nat /\ relocsOfs <= external
    BY <1>0, <1>4, <1>8
  <2>2. 4 \in Nat \ {0}
    OBVIOUS
  <2>3. external % 4 = 0
    BY <1>0, <1>4, <1>8, <2>2, SumOfMultiples
  <2> QED
    BY <2>1, <2>3
<1>11. relocsOfs' \in Nat /\ external <= relocsOfs' /\ relocsOfs' % 4 = 0
  <2>1. relocsOfs' \in Nat /\ external <= relocsOfs'
    BY <1>3, <1>8, <1>10
  <2>2. 4 \in Nat \ {0}
    OBVIOUS
  <2>3. relocsOfs' % 4 = 0
    BY <1>3, <1>8, <1>10, <2>2, SumOfMultiples
  <2> QED
    BY <2>1, <2>3
<1>12. dataOfs' = ends[i] /\ dataOfs' \in Nat /\ dataOfs <= dataOfs'
  BY <1>3, <1>4, <1>5, <1>7
<1>13. TypeOK'
  <2>1. i + 1 \in 1 .. Last + 1
    BY <1>4
  <2> QED
    BY <1>1, <1>2, <1>11, <1>12, <2>1 DEF TypeOK, Last
<1>14. EndsInv' /\ SumsInv'
  <2>1. Placed' = Placed /\ Summed' = Summed
    BY <1>2 DEF Placed, Summed, Last
  <2> QED
    BY <1>1, <1>2, <2>1, EndsStay, SumsStay
<1>15. FileInv'
  <2>1. /\ Written = 1 .. i - 1 /\ Written' = 1 .. i /\ Written \subseteq Written'
        /\ i \in 1 .. i /\ \A k \in 1 .. i : k \in 1 .. i - 1 \/ k = i
    BY <1>2, <1>4 DEF Written
  <2>2. /\ DataStart' = DataStart /\ HasData' = HasData /\ RelocStart' = RelocStart
    BY <1>2, SectionsStay DEF RelocStart
  <2>3. \A p \in written : /\ Extent(p) /\ (HeadPart(p) \/ DataPart(p) \/ RelocPart(p))
    BY <1>1 DEF FileInv
  <2>4. ASSUME NEW p \in written
        PROVE  HeadPart(p)' \/ DataPart(p)' \/ RelocPart(p)'
    <3>1. Extent(p)
      BY <2>3
    <3>2. CASE HeadPart(p)
      BY <2>2, <3>2 DEF HeadPart
    <3>3. CASE DataPart(p)
      <4>1. p.to <= dataOfs'
        BY <1>4, <1>12, <3>1, <3>3 DEF DataPart, Extent
      <4> QED
        BY <1>2, <2>1, <2>2, <3>3, <4>1 DEF DataPart
    <3>4. CASE RelocPart(p)
      <4>1. p.to <= relocsOfs'
        BY <1>4, <1>10, <1>11, <3>1, <3>4 DEF RelocPart, Extent
      <4> QED
        BY <1>2, <2>2, <3>4, <4>1 DEF RelocPart
    <3> QED
      BY <2>3, <3>2, <3>3, <3>4
  <2>5. s.data => Extent(d) /\ DataPart(d)'
    <3>1. /\ Extent(d) /\ DataStart <= d.from
      BY <1>4, <1>5, <1>6, <1>7, <1>9 DEF Extent
    <3>2. s.data => d.to = dataOfs' /\ d.to <= dataOfs' /\ i \in HasData
      BY <1>5, <1>7, <1>9, <1>12
    <3> QED
      BY <1>2, <1>7, <1>9, <2>1, <2>2, <3>1, <3>2 DEF DataPart
  <2>6. Extent(x) /\ Extent(e) /\ RelocPart(x)' /\ RelocPart(e)'
    <3>1. Extent(x) /\ Extent(e)
      BY <1>4, <1>9, <1>10, <1>11 DEF Extent
    <3>2. RelocStart <= x.from /\ RelocStart <= e.from /\ x.to <= relocsOfs' /\ e.to <= relocsOfs'
      BY <1>4, <1>6, <1>9, <1>10, <1>11
    <3> QED
      BY <1>2, <1>4, <1>9, <1>10, <2>2, <3>1, <3>2 DEF RelocPart
  <2>7. \A p \in written' : Extent(p)' /\ (HeadPart(p) \/ DataPart(p) \/ RelocPart(p))'
    BY <1>3, <2>3, <2>4, <2>5, <2>6 DEF Extent
  <2>8. \A p \in written :
          p.to <= dataOfs \/ (RelocStart <= p.from /\ p.to <= relocsOfs)
    <3>1. ASSUME NEW p \in written, HeadPart(p) PROVE p.to <= dataOfs
      BY <1>4, <1>6, <2>3, <3>1 DEF HeadPart, Extent
    <3> QED
      BY <2>3, <3>1 DEF DataPart, RelocPart
  <2>9. \A p \in written : /\ s.data => Disjoint(p, d) /\ Disjoint(d, p)
                           /\ Disjoint(p, x) /\ Disjoint(x, p)
                           /\ Disjoint(p, e) /\ Disjoint(e, p)
    <3>1. ASSUME NEW p \in written
          PROVE  /\ s.data => p.to <= d.from \/ d.to <= p.from
                 /\ p.to <= x.from /\ p.to <= e.from
      <4>1. p.to \in Nat /\ p.from \in Nat
        BY <2>3 DEF Extent
      <4>2. CASE p.to <= dataOfs
        BY <1>4, <1>6, <1>7, <1>9, <1>10, <1>12, <4>1, <4>2
      <4>3. CASE RelocStart <= p.from /\ p.to <= relocsOfs
        BY <1>4, <1>6, <1>7, <1>9, <1>10, <1>12, <4>1, <4>3
      <4> QED
        BY <2>8, <4>2, <4>3
    <3> QED
      BY <3>1 DEF Disjoint
  <2>10. /\ Disjoint(x, e) /\ Disjoint(e, x)
         /\ s.data => Disjoint(d, x) /\ Disjoint(x, d) /\ Disjoint(d, e) /\ Disjoint(e, d)
    <3>1. x.to <= e.from
      BY <1>9, <1>10
    <3>2. s.data => d.to <= x.from /\ d.to <= e.from
      BY <1>4, <1>6, <1>7, <1>9, <1>10, <1>12
    <3> QED
      BY <3>1, <3>2 DEF Disjoint
  <2>11. \A p, q \in written' : p = q \/ Disjoint(p, q)
    <3>1. \A p, q \in written : p = q \/ Disjoint(p, q)
      BY <1>1 DEF FileInv, FilePartsDisjoint
    <3> QED
      BY <1>3, <2>9, <2>10, <3>1
  <2>12. \A k \in HasData \cap (1 .. i) : \E p \in written' : p.kind = "data" /\ p.section = k
    <3>1. ASSUME NEW k \in HasData \cap (1 .. i - 1)
          PROVE  \E p \in written' : p.kind = "data" /\ p.section = k
      BY <1>1, <1>3, <2>1, <3>1 DEF FileInv
    <3>2. i \in HasData => \E p \in written' : p.kind = "data" /\ p.section = i
      BY <1>3, <1>5, <1>9
    <3> QED
      BY <2>1, <3>1, <3>2
  <2>13. \E p \in written' : p.from < p.to
    BY <1>1, <1>3 DEF FileInv
  <2>14. phase' = "write" /\ i' - 1 = i /\ dataOfs' = ends'[i]
    BY <1>2, <1>4, <1>12
  <2>15. DataStart <= dataOfs' /\ dataOfs' <= RelocStart /\ RelocStart <= relocsOfs'
    BY <1>4, <1>6, <1>10, <1>11, <1>12
  <2> QED
    BY <1>2, <2>1, <2>2, <2>7, <2>11, <2>12, <2>13, <2>14, <2>15 DEF FileInv, FilePartsDisjoint, Disjoint
<1>16. InfoInv' /\ MemoryInv'
  BY <1>2 DEF InfoInv, MemoryInv, Addressed
<1> QED
  BY <1>13, <1>14, <1>15, <1>16 DEF ImageInv

-----------------------------------------------------------------------------
(* From one loop to the next. *)

LEMMA NextLoopStep ==
  ASSUME ImageInv, NextLoop
  PROVE  ImageInv'
<1>1. TypeOK /\ EndsInv /\ SumsInv /\ FileInv /\ InfoInv /\ MemoryInv
  BY DEF ImageInv
<1>2. /\ phase \in {"place", "write", "fixup"} /\ i > Last /\ i' = 1
      /\ relocsOfs' = IF phase = "place" THEN RelocStart ELSE relocsOfs
      /\ phase' = IF phase = "place" THEN "write" ELSE IF phase = "write" THEN "sum" ELSE "done"
      /\ UNCHANGED <<sections, head, ends, sums, dataOfs, written, info, base, noload, address>>
  BY DEF NextLoop, Follows, Last, plan
<1>3. /\ i = Last + 1 /\ i - 1 = Last /\ Last \in Nat /\ sections \in Layouts /\ head \in Heads
      /\ ends \in [0 .. Last -> Nat] /\ 0 \in 0 .. Last /\ Last \in 0 .. Last
      /\ 0 <= Last /\ 1 \in 1 .. Last + 1 /\ DataStart \in Nat /\ relocsOfs \in Nat
      /\ relocsOfs % 4 = 0 /\ Last' = Last
  <2>1. i \in Nat /\ i <= Last + 1 /\ Last \in Nat
    BY <1>1, TypeFacts
  <2>2. i = Last + 1
    BY <1>2, <2>1
  <2>3. Last' = Last
    BY <1>2 DEF Last
  <2> QED
    BY <1>1, <2>1, <2>2, <2>3, TypeFacts
<1>4. /\ Placed' = Placed /\ Placed = 0 .. Last /\ Summed' = Summed
      /\ phase = "place" => Written' = {} /\ Written = {}
      /\ phase # "place" => Written' = Written
  BY <1>2, <1>3 DEF Placed, Summed, Written
<1>5. /\ RelocStart \in Nat /\ RelocStart % 4 = 0
      /\ DataStart <= RelocStart /\ ends[0] = DataStart
  <2>1. ends[0] = DataStart /\ ends[0] <= ends[Last] /\ ends[Last] \in Nat
    BY <1>1, <1>3, <1>4 DEF EndsInv
  <2>2. RelocStart \in Nat /\ RelocStart % 4 = 0 /\ ends[Last] <= RelocStart
    BY <2>1, AlignUp DEF RelocStart, Last
  <2> QED
    BY <1>3, <2>1, <2>2
<1>6. TypeOK'
  BY <1>1, <1>2, <1>3, <1>5 DEF TypeOK, Last
<1>7. EndsInv' /\ SumsInv'
  BY <1>1, <1>2, <1>4, EndsStay, SumsStay
<1>8. FileInv'
  <2>1. CASE phase = "place"
    <3>1. /\ DataStart' = DataStart /\ HasData' = HasData
          /\ dataOfs' = DataStart /\ relocsOfs' = RelocStart /\ phase' = "write" /\ i' - 1 = 0
          /\ RelocStart' = RelocStart
      BY <1>1, <1>2, <2>1, SectionsStay DEF FileInv, RelocStart
    <3>2. \A p \in written : Extent(p) /\ HeadPart(p)
      BY <1>1, <1>4, <2>1 DEF FileInv, DataPart, RelocPart
    <3>3. \A p \in written' : Extent(p)' /\ HeadPart(p)'
      BY <1>2, <3>1, <3>2 DEF HeadPart, Extent
    <3>4. FilePartsDisjoint' /\ \E p \in written' : p.from < p.to
      BY <1>1, <1>2 DEF FileInv, FilePartsDisjoint
    <3>5. dataOfs' = ends'[i' - 1]
      BY <1>2, <1>5, <3>1
    <3>6. DataStart' <= dataOfs' /\ dataOfs' <= RelocStart' /\ RelocStart' <= relocsOfs'
      BY <1>3, <1>5, <3>1
    <3> QED
      BY <1>4, <2>1, <3>1, <3>3, <3>4, <3>5, <3>6 DEF FileInv
  <2>2. CASE phase # "place"
    BY <1>1, <1>2, <1>4, <2>2, FileStays
  <2> QED
    BY <2>1, <2>2
<1>9. InfoInv' /\ MemoryInv'
  <2>1. CASE phase # "fixup"
    BY <1>2, <2>1 DEF InfoInv, MemoryInv, Addressed
  <2>2. CASE phase = "fixup"
    <3>1. phase' = "done"
      BY <1>2, <2>2
    <3>2. InfoInv'
      BY <1>1, <1>2, <1>3, <2>2, <3>1, SectionsStay DEF InfoInv
    <3>3. Addressed' = Addressed
      BY <1>3, <2>2, <3>1 DEF Addressed
    <3>4. /\ RamAlign' = RamAlign /\ NoloadStart' = NoloadStart /\ HasData' = HasData
          /\ \A k : OffsetInFile(k)' = OffsetInFile(k)
      BY <1>2, SectionsStay DEF RamAlign, NoloadStart, OffsetInFile
    <3> QED
      BY <1>1, <1>2, <2>2, <3>1, <3>2, <3>3, <3>4 DEF MemoryInv, Padded
  <2> QED
    BY <2>1, <2>2
<1> QED
  BY <1>6, <1>7, <1>8, <1>9 DEF ImageInv

-----------------------------------------------------------------------------
(* What the file tells the loader. *)

LEMMA FileSize ==
  ASSUME TypeOK, FileInv, phase = "sum"
  PROVE  LET size == AlignVal(MaxOf({p.to : p \in {q \in written : q.from < q.to}}), 2)
         IN  size \in Nat /\ \A p \in written : p.from < p.to => p.to <= size
<1> DEFINE tos == {p.to : p \in {q \in written : q.from < q.to}}
           size == AlignVal(MaxOf(tos), 2)
<1>1. DataStart \in Nat /\ dataOfs \in Nat /\ relocsOfs \in Nat /\ RelocStart \in Nat
  <2>1. /\ DataStart \in Nat /\ dataOfs \in Nat /\ relocsOfs \in Nat /\ Last \in 0 .. Last
        /\ ends \in [0 .. Last -> Nat]
    BY TypeFacts
  <2>2. ends[Last] \in Nat
    BY <2>1
  <2>3. RelocStart \in Nat
    BY <2>2, AlignUp DEF RelocStart, Last
  <2> QED
    BY <2>1, <2>3
<1>2. DataStart <= dataOfs /\ dataOfs <= RelocStart /\ RelocStart <= relocsOfs
  BY DEF FileInv
<1>3. ASSUME NEW p \in written
      PROVE  p.to \in Nat /\ p.to <= relocsOfs
  <2>1. p.to \in Nat /\ (HeadPart(p) \/ DataPart(p) \/ RelocPart(p))
    BY DEF FileInv, Extent
  <2>2. CASE HeadPart(p)
    <3>1. p.to <= DataStart
      BY <2>2 DEF HeadPart
    <3> QED
      BY <1>1, <1>2, <2>1, <3>1
  <2>3. CASE DataPart(p)
    <3>1. p.to <= dataOfs
      BY <2>3 DEF DataPart
    <3> QED
      BY <1>1, <1>2, <2>1, <3>1
  <2>4. CASE RelocPart(p)
    BY <2>1, <2>4 DEF RelocPart
  <2> QED
    BY <2>1, <2>2, <2>3, <2>4
<1>4. /\ tos \subseteq Nat /\ tos # {} /\ \A n \in tos : n <= relocsOfs
      /\ \A p \in written : p.from < p.to => p.to \in tos
  BY <1>3 DEF FileInv
<1> HIDE DEF tos
<1>5. IsFiniteSet(tos)
  BY <1>1, <1>4, FS_BoundedSetOfNaturals
<1>6. MaxOf(tos) \in tos /\ MaxOf(tos) \in Nat /\ \A n \in tos : n <= MaxOf(tos)
  BY <1>4, <1>5, MaxOfIs
<1>7. size \in Nat /\ MaxOf(tos) <= size
  <2>1. 2 \in Nat \ {0}
    OBVIOUS
  <2> QED
    BY <1>6, <2>1, AlignUp
<1> HIDE DEF size
<1>8. \A p \in written : p.from < p.to => p.to <= size
  <2>1. ASSUME NEW p \in written, p.from < p.to PROVE p.to <= size
    <3>1. p.to \in Nat /\ p.to <= MaxOf(tos)
      BY <1>3, <1>4, <1>6, <2>1
    <3> QED
      BY <1>6, <1>7, <3>1
  <2> QED
    BY <2>1
<1> QED
  BY <1>7, <1>8 DEF size, tos

LEMMA LoadInfoStep ==
  ASSUME ImageInv, WriteLoadInfo
  PROVE  ImageInv'
<1>1. TypeOK /\ EndsInv /\ SumsInv /\ FileInv
  BY DEF ImageInv
<1>2. PICK size :
        /\ size = AlignVal(MaxOf({p.to : p \in {q \in written : q.from < q.to}}), 2)
  OBVIOUS
<1>3. /\ phase = "sum" /\ i > Last /\ phase' = "open" /\ i' = 1
      /\ info' = [uso_size |-> size, uso_align |-> UsoAlign,
                  noload_size |-> sums[Last], noload_align |-> NoloadAlign]
      /\ UNCHANGED <<sections, head, ends, sums, dataOfs, relocsOfs, written, base, noload, address>>
  BY <1>2 DEF WriteLoadInfo, Last, plan
<1>4. size \in Nat /\ \A p \in written : p.from < p.to => p.to <= size
  BY <1>1, <1>2, <1>3, FileSize
<1>5. /\ i = Last + 1 /\ i - 1 = Last /\ Last \in Nat /\ sections \in Layouts
      /\ Last \in 0 .. Last /\ 1 \in 1 .. Last + 1 /\ sums \in [0 .. Last -> Nat] /\ Last' = Last
  <2>1. i \in Nat /\ i <= Last + 1 /\ Last \in Nat /\ sections \in Layouts
        /\ sums \in [0 .. Last -> Nat]
    BY <1>1, TypeFacts
  <2>2. i = Last + 1
    BY <1>3, <2>1
  <2>3. Last' = Last
    BY <1>3 DEF Last
  <2> QED
    BY <2>1, <2>2, <2>3
<1>6. UsoAlign \in Nat /\ NoloadAlign \in Nat /\ sums[Last] \in Nat
  BY <1>5, AlignFacts
<1>7. TypeOK'
  <2>1. info' \in [uso_size : Nat, uso_align : Nat, noload_size : Nat, noload_align : Nat]
    BY <1>3, <1>4, <1>6
  <2> QED
    BY <1>1, <1>3, <1>5, <2>1 DEF TypeOK, Last
<1>8. Placed' = Placed /\ Summed' = Summed /\ Written' = Written
  BY <1>3, <1>5 DEF Placed, Summed, Written
<1>9. EndsInv' /\ SumsInv' /\ FileInv'
  BY <1>1, <1>3, <1>8, EndsStay, SumsStay, FileStays
<1>10. InfoInv'
  <2>1. /\ info'.uso_size = size /\ info'.uso_align = UsoAlign
        /\ info'.noload_align = NoloadAlign /\ info'.noload_size = sums[Last]
    BY <1>3
  <2> QED
    BY <1>3, <1>4, <1>5, <2>1, SectionsStay DEF InfoInv
<1>11. MemoryInv'
  BY <1>3 DEF MemoryInv, Addressed
<1> QED
  BY <1>7, <1>9, <1>10, <1>11 DEF ImageInv

-----------------------------------------------------------------------------
(* The memory that the loader allocates. *)

\* The greater of two alignments is a multiple of both.
LEMMA RamAlignIs ==
  ASSUME TypeOK, InfoInv, phase \in {"open", "fixup", "done"}
  PROVE  /\ info.uso_size \in Nat /\ info.noload_align \in Nat \ {0}
         /\ NoloadStart \in Nat /\ info.uso_size <= NoloadStart
         /\ NoloadStart % info.noload_align = 0
         /\ RamAlign \in Nat \ {0} /\ RamAlign % 4 = 0
         /\ \A k \in HasData : RamAlign % sections[k].align = 0
         /\ \A k \in NoData : /\ info.noload_align % sections[k].align = 0
                              /\ RamAlign % sections[k].align = 0
<1>1. /\ sections \in Layouts /\ info.uso_size \in Nat
      /\ info.uso_align = UsoAlign /\ info.noload_align = NoloadAlign
  BY DEF TypeOK, InfoInv
<1>2. /\ info.noload_align \in Aligns /\ info.uso_align \in Aligns
      /\ info.noload_align \in Nat \ {0} /\ info.uso_align \in Nat \ {0}
      /\ info.uso_align % 4 = 0
      /\ \A k \in HasData : info.uso_align % sections[k].align = 0
      /\ \A k \in NoData : info.noload_align % sections[k].align = 0
  BY <1>1, AlignFacts
<1>3. /\ NoloadStart \in Nat /\ info.uso_size <= NoloadStart
      /\ NoloadStart % info.noload_align = 0
  BY <1>1, <1>2, AlignUp DEF NoloadStart
<1> DEFINE both == {info.uso_align, info.noload_align}
<1>4. RamAlign \in both /\ \A y \in both : y <= RamAlign
  <2>1. IsFiniteSet(both)
    <3>1. IsFiniteSet({info.uso_align})
      BY FS_Singleton
    <3>2. IsFiniteSet({info.uso_align} \cup {info.noload_align})
      BY <3>1, FS_AddElement
    <3>3. both = {info.uso_align} \cup {info.noload_align}
      OBVIOUS
    <3> QED
      BY <3>2, <3>3
  <2>2. both \subseteq Nat /\ both # {}
    BY <1>2
  <2> HIDE DEF both
  <2>3. MaxOf(both) \in both /\ \A y \in both : y <= MaxOf(both)
    BY <2>1, <2>2, MaxOfIs
  <2> QED
    BY <2>3 DEF RamAlign, both
<1>5. /\ RamAlign \in Aligns /\ RamAlign \in Nat \ {0}
      /\ RamAlign % info.uso_align = 0 /\ RamAlign % info.noload_align = 0
  BY <1>1, <1>2, <1>4, AlignsDivide
<1>6. RamAlign % 4 = 0
  <2>1. 4 \in Nat \ {0} /\ RamAlign \in Nat
    BY <1>5
  <2> QED
    BY <1>2, <1>5, <2>1, DividesThrough
<1>7. ASSUME NEW k \in HasData
      PROVE  RamAlign % sections[k].align = 0
  <2>1. sections[k].align \in Nat \ {0} /\ RamAlign \in Nat
    BY <1>1, <1>5, SectionFacts
  <2> QED
    BY <1>2, <1>5, <2>1, DividesThrough
<1>8. ASSUME NEW k \in NoData
      PROVE  RamAlign % sections[k].align = 0
  <2>1. sections[k].align \in Nat \ {0} /\ RamAlign \in Nat
    BY <1>1, <1>5, SectionFacts
  <2> QED
    BY <1>2, <1>5, <2>1, DividesThrough
<1> QED
  BY <1>1, <1>2, <1>3, <1>5, <1>6, <1>7, <1>8

LEMMA AllocateStep ==
  ASSUME ImageInv, Allocate
  PROVE  ImageInv'
<1>1. TypeOK /\ EndsInv /\ SumsInv /\ FileInv /\ InfoInv
  BY DEF ImageInv
<1>2. PICK b \in Bases :
        /\ phase = "open" /\ b % RamAlign = 0 /\ base' = b /\ noload' = b + NoloadStart
        /\ phase' = "fixup"
        /\ UNCHANGED <<sections, head, i, ends, sums, dataOfs, relocsOfs, written, info, address>>
  BY DEF Allocate, plan
<1>3. b \in Nat /\ NoloadStart \in Nat /\ i = 1 /\ Last \in Nat /\ sections \in Layouts
  BY <1>1, <1>2, LayoutsAssumption, RamAlignIs, TypeFacts DEF InfoInv
<1>4. TypeOK'
  BY <1>1, <1>2, <1>3 DEF TypeOK
<1>5. Placed' = Placed /\ Summed' = Summed /\ Written' = Written
  BY <1>2 DEF Placed, Summed, Written, Last
<1>6. EndsInv' /\ SumsInv' /\ FileInv'
  BY <1>1, <1>2, <1>5, EndsStay, SumsStay, FileStays
<1>7. InfoInv'
  <2>1. Last' = Last /\ UsoAlign' = UsoAlign /\ NoloadAlign' = NoloadAlign
    BY <1>2, SectionsStay
  <2> QED
    BY <1>1, <1>2, <2>1 DEF InfoInv
<1>8. MemoryInv'
  <2>1. RamAlign' = RamAlign /\ NoloadStart' = NoloadStart
    BY <1>2 DEF RamAlign, NoloadStart
  <2>2. sums'[i' - 1] = 0 /\ Addressed' = {}
    BY <1>1, <1>2, <1>3 DEF SumsInv, Addressed
  <2>3. /\ base' % RamAlign' = 0 /\ base' + NoloadStart' <= noload'
        /\ noload' = base' + NoloadStart' + sums'[i' - 1]
    BY <1>2, <1>3, <2>1, <2>2
  <2> QED
    BY <1>2, <2>2, <2>3 DEF MemoryInv
<1> QED
  BY <1>4, <1>6, <1>7, <1>8 DEF ImageInv

\* The loader finds a section's data where elf2uso wrote it.
LEMMA DataInFile ==
  ASSUME TypeOK, FileInv, phase \in {"fixup", "done"}, NEW k \in HasData
  PROVE  \E p \in written : /\ OffsetInFile(k) = p.from /\ Extent(p) /\ DataPart(p)
                            /\ p.section = k
<1>1. k \in HasData \cap Written
  BY TypeFacts, SectionFacts DEF Written
<1>2. \E p \in written : p.kind = "data" /\ p.section = k
  BY <1>1 DEF FileInv
<1>3. PICK p \in written : p.kind = "data" /\ p.section = k /\ OffsetInFile(k) = p.from
  BY <1>2 DEF OffsetInFile
<1>4. Extent(p) /\ DataPart(p)
  BY <1>3 DEF FileInv, HeadPart, RelocPart
<1> QED
  BY <1>3, <1>4

LEMMA FixupStep ==
  ASSUME ImageInv, FixupSection
  PROVE  ImageInv'
<1>1. TypeOK /\ EndsInv /\ SumsInv /\ FileInv /\ InfoInv /\ MemoryInv
  BY DEF ImageInv
<1>2. PICK at :
        /\ at = IF sections[i].align > 0 THEN AlignVal(noload, sections[i].align) ELSE noload
        /\ phase = "fixup" /\ i <= Last /\ i' = i + 1 /\ phase' = phase
        /\ IF sections[i].data
           THEN address' = [address EXCEPT ![i] = base + OffsetInFile(i)] /\ noload' = noload
           ELSE address' = [address EXCEPT ![i] = at] /\ noload' = at + sections[i].size
        /\ UNCHANGED <<sections, head, ends, sums, dataOfs, relocsOfs, written, info, base>>
  BY DEF FixupSection, Last, plan
<1>3. /\ i \in 1 .. Last /\ i \in 0 .. Last /\ i # 0 /\ i - 1 \in 0 .. Last /\ i - 1 < i
      /\ i + 1 \in 1 .. Last + 1 /\ Last \in Nat
      /\ sections \in Layouts /\ address \in [1 .. Last -> Nat] /\ DOMAIN sections = 1 .. Last
      /\ noload \in Nat /\ base \in Nat /\ sums \in [0 .. Last -> Nat]
  <2>1. /\ i \in Nat /\ 1 <= i /\ Last \in Nat
        /\ sections \in Layouts /\ address \in [1 .. Last -> Nat] /\ DOMAIN sections = 1 .. Last
        /\ noload \in Nat /\ base \in Nat /\ sums \in [0 .. Last -> Nat]
    BY <1>1, TypeFacts
  <2>2. /\ i \in 1 .. Last /\ i \in 0 .. Last /\ i # 0 /\ i - 1 \in 0 .. Last /\ i - 1 < i
        /\ i + 1 \in 1 .. Last + 1
    BY <1>2, <2>1
  <2> QED
    BY <2>1, <2>2
<1>4. /\ sections[i].align \in Nat \ {0} /\ sections[i].size \in Nat
      /\ sections[i].data <=> i \in HasData
      /\ i \in HasData \/ i \in NoData
  BY <1>3, SectionFacts
<1>18. at = AlignVal(noload, sections[i].align)
  BY <1>2, <1>4
<1>5. at \in Nat /\ noload <= at
  BY <1>3, <1>4, <1>18, AlignUp
<1>6. at % sections[i].align = 0 /\ (noload % sections[i].align = 0 => at = noload)
  BY <1>3, <1>4, <1>18, AlignUp
<1>7. i \in HasData => OffsetInFile(i) \in Nat
  BY <1>1, <1>2, DataInFile DEF Extent
<1>8. address' \in [1 .. Last -> Nat] /\ noload' \in Nat /\ noload <= noload'
  <2>1. i \in HasData => base + OffsetInFile(i) \in Nat
    BY <1>3, <1>7
  <2>2. PICK size \in Nat : size = sections[i].size
    BY <1>4
  <2>3. at + size \in Nat /\ noload <= at + size /\ noload <= noload
    BY SMTT(30), <1>3, <1>5, <2>2
  <2>4. CASE sections[i].data
    BY <1>2, <1>3, <1>4, <2>1, <2>3, <2>4
  <2>5. CASE ~ sections[i].data
    BY <1>2, <1>3, <1>5, <2>2, <2>3, <2>5
  <2> QED
    BY <2>4, <2>5
<1>9. TypeOK'
  BY <1>1, <1>2, <1>3, <1>8 DEF TypeOK, Last
<1>10. Placed' = Placed /\ Summed' = Summed /\ Written' = Written
  BY <1>2 DEF Placed, Summed, Written, Last
<1>11. EndsInv' /\ SumsInv' /\ FileInv'
  BY <1>1, <1>2, <1>10, EndsStay, SumsStay, FileStays
<1>12. Last' = Last /\ HasData' = HasData /\ UsoAlign' = UsoAlign /\ NoloadAlign' = NoloadAlign
  BY <1>2, SectionsStay
<1>13. InfoInv'
  BY <1>1, <1>2, <1>12 DEF InfoInv
<1>14. /\ NoloadStart \in Nat /\ base % RamAlign = 0 /\ base + NoloadStart <= noload
       /\ Padded => noload = base + NoloadStart + sums[i - 1]
  BY <1>1, <1>2, RamAlignIs DEF MemoryInv
\* Whatever was placed so far leaves the next section aligned.
<1>15. ASSUME Padded, i \in NoData
       PROVE  at = noload
  <2>1. /\ info.noload_align \in Nat \ {0} /\ NoloadStart % info.noload_align = 0
        /\ info.noload_align % sections[i].align = 0
        /\ RamAlign \in Nat \ {0} /\ RamAlign % sections[i].align = 0
    BY <1>1, <1>2, <1>15, RamAlignIs
  <2>2. base % sections[i].align = 0 /\ NoloadStart % sections[i].align = 0
    BY <1>3, <1>4, <1>14, <2>1, DividesThrough
  <2>3. sums[i - 1] % sections[i].align = 0 /\ sums[i - 1] \in Nat
    <3>1. i - 1 \in Summed
      BY <1>2, <1>3 DEF Summed
    <3> QED
      BY <1>1, <1>3, <1>15, <3>1 DEF SumsInv
  <2>4. PICK align \in Nat \ {0} : align = sections[i].align
    BY <1>4
  <2>5. PICK start \in Nat : start = base + NoloadStart
    BY <1>3, <1>14
  <2>6. start % align = 0
    BY <1>3, <1>14, <2>2, <2>4, <2>5, SumOfMultiples
  <2>7. (start + sums[i - 1]) % align = 0
    BY <2>3, <2>4, <2>5, <2>6, SumOfMultiples
  <2>8. noload = start + sums[i - 1]
    BY <1>14, <1>15, <2>5
  <2>9. noload % sections[i].align = 0
    BY <2>4, <2>7, <2>8, Zenon
  <2> QED
    BY <1>6, <2>9, Zenon
<1>16. MemoryInv'
  <2>1. /\ RamAlign' = RamAlign /\ NoloadStart' = NoloadStart
        /\ \A k : OffsetInFile(k)' = OffsetInFile(k)
    BY <1>2 DEF RamAlign, NoloadStart, OffsetInFile
  <2>2. base + NoloadStart <= noload'
    BY <1>3, <1>8, <1>14
  <2>3. sums[i] = sums[i - 1] + SizeOf(i) /\ sums[i - 1] \in Nat
    <3>1. i \in Summed \ {0}
      BY <1>2, <1>3 DEF Summed
    <3> QED
      BY <1>1, <1>3, <3>1 DEF SumsInv
  <2>4. Padded => noload' = base + NoloadStart + sums[i]
    <3>1. CASE sections[i].data
      BY <1>2, <1>3, <1>14, <2>3, <3>1 DEF SizeOf
    <3>2. CASE ~ sections[i].data
      BY SMTT(30), <1>2, <1>3, <1>4, <1>14, <1>15, <2>3, <3>2 DEF SizeOf
    <3> QED
      BY <3>1, <3>2
  <2>5. i' - 1 = i
    BY <1>2, <1>3
  <2>6. /\ Addressed = 1 .. i - 1 /\ Addressed' = 1 .. i
        /\ \A k \in 1 .. i : k = i \/ k \in 1 .. i - 1
        /\ \A k \in 1 .. i - 1 : k # i /\ k \in 1 .. Last
    BY <1>2, <1>3 DEF Addressed
  <2>7. ASSUME NEW k \in 1 .. i
        PROVE  IF k \in HasData THEN address'[k] = base + OffsetInFile(k)
               ELSE /\ address'[k] % sections[k].align = 0
                    /\ Padded => address'[k] = base + NoloadStart + sums[k - 1]
    <3>1. CASE k = i /\ i \in HasData
      BY <1>2, <1>3, <1>4, <3>1
    <3>2. CASE k = i /\ i \notin HasData
      <4>1. address'[i] = at
        BY <1>2, <1>3, <1>4, <3>2
      <4>2. address'[i] % sections[i].align = 0
        BY <1>6, <4>1, Zenon
      <4>3. Padded => address'[i] = base + NoloadStart + sums[i - 1]
        BY <1>4, <1>14, <1>15, <3>2, <4>1, Zenon
      <4> QED
        BY <3>2, <4>2, <4>3, Zenon
    <3>3. CASE k \in 1 .. i - 1
      <4>1. address'[k] = address[k]
        BY <1>2, <1>3, <2>6, <3>3
      <4> QED
        BY <1>1, <2>6, <3>3, <4>1 DEF MemoryInv
    <3> QED
      BY <2>6, <3>1, <3>2, <3>3
  <2> QED
    BY <1>2, <1>12, <1>14, <2>1, <2>2, <2>4, <2>5, <2>6, <2>7 DEF MemoryInv, Padded
<1> QED
  BY <1>9, <1>11, <1>13, <1>16 DEF ImageInv

-----------------------------------------------------------------------------
(* The invariant holds in every state. *)

LEMMA ImageSteps == ImageInv /\ [Next]_vars => ImageInv'
<1> SUFFICES ASSUME ImageInv, [Next]_vars PROVE ImageInv'
  OBVIOUS
<1>1. CASE Next
  BY <1>1, PlaceStep, WriteStep, SumStep, NextLoopStep, LoadInfoStep, AllocateStep, FixupStep
     DEF Next
<1>2. CASE UNCHANGED vars
  <2>1. /\ UNCHANGED <<sections, head, phase, i, ends, sums, dataOfs, relocsOfs, written>>
        /\ UNCHANGED <<info, base, noload, address>>
    BY <1>2 DEF vars, plan
  <2>2. TypeOK /\ EndsInv /\ SumsInv /\ FileInv /\ InfoInv /\ MemoryInv
    BY DEF ImageInv
  <2>3. /\ Last' = Last /\ Placed' = Placed /\ Summed' = Summed /\ Written' = Written
        /\ Addressed' = Addressed /\ RelocStart' = RelocStart
        /\ RamAlign' = RamAlign /\ NoloadStart' = NoloadStart
        /\ \A k : OffsetInFile(k)' = OffsetInFile(k)
    BY <2>1 DEF Last, Placed, Summed, Written, Addressed, RelocStart, RamAlign, NoloadStart,
                OffsetInFile
  <2>4. /\ DataStart' = DataStart /\ HasData' = HasData
        /\ UsoAlign' = UsoAlign /\ NoloadAlign' = NoloadAlign
    BY <2>1, SectionsStay
  <2>5. TypeOK'
    BY <2>1, <2>2 DEF TypeOK
  <2>6. EndsInv' /\ SumsInv'
    BY <2>1, <2>2, <2>3, EndsStay, SumsStay
  <2>7. FileInv'
    <3>1. \A p \in written : HeadPart(p)' = HeadPart(p)
      BY <2>1, <2>4 DEF HeadPart
    <3>2. \A p \in written : DataPart(p)' = DataPart(p)
      BY <2>1, <2>3, <2>4 DEF DataPart
    <3>3. \A p \in written : RelocPart(p)' = RelocPart(p)
      BY <2>1, <2>3 DEF RelocPart
    <3>4. FilePartsDisjoint'
      BY <2>1, <2>2 DEF FileInv, FilePartsDisjoint
    <3> QED
      BY <2>1, <2>2, <2>3, <2>4, <3>1, <3>2, <3>3, <3>4 DEF FileInv
  <2>8. InfoInv'
    BY <2>1, <2>2, <2>3, <2>4 DEF InfoInv
  <2>9. MemoryInv'
    BY <2>1, <2>2, <2>3, <2>4 DEF MemoryInv, Padded
  <2> QED
    BY <2>5, <2>6, <2>7, <2>8, <2>9 DEF ImageInv
<1> QED
  BY <1>1, <1>2

\* Whatever becomes of the symbols, the file is laid out and loaded by UsoImage.
LEMMA TablesStep == [TablesNext]_<<vars, tableVars>> => [Next]_vars
<1> SUFFICES ASSUME [TablesNext]_<<vars, tableVars>> PROVE [Next]_vars
  OBVIOUS
<1>1. CASE TablesNext
  BY <1>1 DEF TablesNext, SortSymbols, StartTable, WriteSymbol, FixupName, LayOutAndLoad,
              FixupPtr, BindImport, EndLoop
<1>2. CASE UNCHANGED <<vars, tableVars>>
  BY <1>2
<1> QED
  BY <1>1, <1>2

LEMMA ImageHolds == TablesSpec => []ImageInv
<1>1. TablesInit => Init
  BY DEF TablesInit
<1> QED
  BY <1>1, TablesStep, ImageStarts, ImageSteps, PTL DEF TablesSpec

-----------------------------------------------------------------------------
(* What follows from it. *)

\* Every variable keeps its type, and relocation tables are at word boundaries of the
\* file, over all that elf2uso and the loader do with a USO (elf2uso.cpp:410-677,
\* uso.c:33-65, 145-256, 524-575).
THEOREM TypeCorrect == TablesSpec => []TypeOK
<1>1. ImageInv => TypeOK
  BY DEF ImageInv
<1> QED
  BY <1>1, ImageHolds, PTL

\* No part of a file is written over another, whatever the sections, their sizes, their
\* alignments and their relocations: the pass that places the tables and the one that
\* writes them agree on the end of every section (elf2uso.cpp:460-470, 541-588).
THEOREM FilePartsApart == TablesSpec => []FilePartsDisjoint
<1>1. ImageInv => FilePartsDisjoint
  BY DEF ImageInv, FileInv
<1> QED
  BY <1>1, ImageHolds, PTL

LEMMA BaseAligned ==
  ASSUME ImageInv, phase \in {"fixup", "done"}
  PROVE  /\ base % 4 = 0
         /\ \A k \in DOMAIN sections : base % sections[k].align = 0
<1>1. TypeOK /\ InfoInv /\ base \in Nat /\ base % RamAlign = 0 /\ sections \in Layouts
  BY TypeFacts DEF ImageInv, MemoryInv
<1>2. /\ RamAlign \in Nat \ {0} /\ RamAlign % 4 = 0
      /\ \A k \in HasData \cup NoData : RamAlign % sections[k].align = 0
  BY <1>1, RamAlignIs
<1>3. base % 4 = 0
  <2>1. 4 \in Nat \ {0}
    OBVIOUS
  <2> QED
    BY <1>1, <1>2, <2>1, DividesThrough
<1>4. ASSUME NEW k \in DOMAIN sections
      PROVE  base % sections[k].align = 0
  <2>1. k \in HasData \cup NoData /\ sections[k].align \in Nat \ {0}
    BY <1>1, SectionFacts
  <2> QED
    BY <1>1, <1>2, <2>1, DividesThrough
<1> QED
  BY <1>3, <1>4

\* The loader reads every table of a file at a word boundary of memory, wherever memalign
\* puts the file (elf2uso.cpp:460-470, 626-658, uso.c:57-65).
THEOREM TablesReadable == TablesSpec => []TablesAligned
<1>1. ASSUME ImageInv PROVE TablesAligned
  <2> SUFFICES ASSUME phase \in {"fixup", "done"}, NEW p \in written, p.kind # "data"
               PROVE  (base + p.from) % 4 = 0
    BY DEF TablesAligned
  <2>1. p.from \in Nat /\ p.from % 4 = 0
    BY <1>1 DEF ImageInv, FileInv, Extent, HeadPart, DataPart, RelocPart
  <2>2. base \in Nat /\ base % 4 = 0 /\ 4 \in Nat \ {0}
    BY <1>1, BaseAligned, TypeFacts DEF ImageInv
  <2> QED
    BY <2>1, <2>2, SumOfMultiples
<1> QED
  BY <1>1, ImageHolds, PTL

\* Every loaded section is as aligned as its ELF section asks, for alignments that are
\* powers of two (elf2uso.cpp:410-434, uso.c:39-65, 152-179).
THEOREM SectionsWellPlaced == TablesSpec => []SectionsAligned
<1>1. ASSUME ImageInv PROVE SectionsAligned
  <2> SUFFICES ASSUME phase = "done", NEW k \in DOMAIN sections
               PROVE  address[k] % sections[k].align = 0
    BY DEF SectionsAligned
  <2>1. /\ TypeOK /\ FileInv /\ MemoryInv /\ sections \in Layouts /\ base \in Nat
        /\ k \in 1 .. Last /\ Addressed = 1 .. Last
    BY <1>1, TypeFacts DEF ImageInv, Addressed
  <2>2. PICK align \in Nat \ {0} : align = sections[k].align
    BY <2>1, SectionFacts
  <2>3. CASE k \in HasData
    <3>1. PICK p \in written : /\ OffsetInFile(k) = p.from /\ Extent(p) /\ DataPart(p)
                               /\ p.section = k
      BY <2>1, <2>3, DataInFile
    <3>2. p.from \in Nat /\ p.from % align = 0
      BY <2>2, <3>1 DEF Extent, DataPart
    <3>3. base % align = 0
      BY <1>1, <2>2, BaseAligned
    <3>4. (base + p.from) % align = 0
      BY <2>1, <3>2, <3>3, SumOfMultiples
    <3>5. address[k] = base + p.from
      BY <2>1, <2>3, <3>1 DEF MemoryInv
    <3> QED
      BY <2>2, <3>4, <3>5, Zenon
  <2>4. CASE k \notin HasData
    BY <2>1, <2>4 DEF MemoryInv
  <2> QED
    BY <2>3, <2>4
<1> QED
  BY <1>1, ImageHolds, PTL

\* When every section without data leaves the next ones aligned, the sections without
\* data lie after the file's contents, apart from each other and inside the memory that
\* uso_open allocated and cleared.  Nothing in elf2uso sees to the hypothesis, and
\* without it uso_get_noload_size is too small (elf2uso.cpp:436-446, uso.c:39-55,
\* 152-179, 541-551).
THEOREM MemoryHolds ==
  ASSUME Padded
  PROVE  TablesSpec => []InsideAllocation
<1>1. ASSUME ImageInv PROVE InsideAllocation
  <2> SUFFICES ASSUME phase = "done"
               PROVE  \A k \in NoData :
                        /\ sections[k].size > 0 =>
                             /\ address[k] >= base + info.uso_size
                             /\ InMemory(k).to <= base + RamSize
                        /\ \A m \in DOMAIN sections \ {k} : Disjoint(InMemory(m), InMemory(k))
    BY DEF InsideAllocation
  <2>1. TypeOK /\ SumsInv /\ FileInv /\ InfoInv /\ MemoryInv
    BY <1>1 DEF ImageInv
  <2>2. /\ Last \in Nat /\ sections \in Layouts /\ DOMAIN sections = 1 .. Last
        /\ base \in Nat /\ sums \in [0 .. Last -> Nat]
        /\ NoData = (1 .. Last) \ HasData
        /\ Summed = 0 .. Last /\ Addressed = 1 .. Last
    BY <2>1, TypeFacts, SectionFacts DEF Summed, Addressed
  <2>3. PICK start : start = base + NoloadStart
    OBVIOUS
  <2>4. /\ start \in Nat /\ base + info.uso_size \in Nat /\ base + info.uso_size <= start
        /\ base + RamSize = start + sums[Last]
    <3>1. /\ info.uso_size \in Nat /\ NoloadStart \in Nat /\ info.uso_size <= NoloadStart
      BY <2>1, RamAlignIs
    <3>2. info.noload_size = sums[Last] /\ sums[Last] \in Nat
      BY <2>1, <2>2 DEF InfoInv
    <3> QED
      BY <2>2, <2>3, <3>1, <3>2 DEF RamSize
  <2>5. \A k, m \in 0 .. Last : k <= m => sums[k] <= sums[m]
    BY <2>1, <2>2 DEF SumsInv
  \* A section without data takes its share of the sum of their sizes.
  <2>6. ASSUME NEW k \in NoData
        PROVE  /\ InMemory(k).from = start + sums[k - 1] /\ InMemory(k).to = start + sums[k]
               /\ address[k] = start + sums[k - 1] /\ k \in 1 .. Last
               /\ k \in 0 .. Last /\ k - 1 \in 0 .. Last
               /\ sums[k - 1] \in Nat /\ sums[k] \in Nat
    <3>1. /\ k \in 1 .. Last /\ k \notin HasData /\ k \in 0 .. Last /\ k - 1 \in 0 .. Last
          /\ k # 0
      BY <2>2
    <3>2. sums[k - 1] \in Nat /\ sums[k] \in Nat
      BY <2>2, <3>1
    <3>3. sums[k] = sums[k - 1] + sections[k].size /\ sections[k].size \in Nat
      BY <2>1, <2>2, <3>1, SectionFacts DEF SumsInv, SizeOf
    <3>4. address[k] = start + sums[k - 1]
      BY <2>1, <2>2, <2>3, <3>1 DEF MemoryInv
    <3>5. InMemory(k).from = address[k] /\ InMemory(k).to = address[k] + sections[k].size
      BY DEF InMemory, Part
    <3> QED
      BY <2>4, <3>1, <3>2, <3>3, <3>4, <3>5
  \* A section with data has its place in the file.
  <2>7. ASSUME NEW k \in HasData
        PROVE  /\ InMemory(k).to \in Nat
               /\ InMemory(k).from = InMemory(k).to \/ InMemory(k).to <= start
    <3>1. PICK p \in written : /\ OffsetInFile(k) = p.from /\ Extent(p) /\ DataPart(p)
                               /\ p.section = k
      BY <2>1, DataInFile
    <3>2. k \in 1 .. Last
      BY <2>2, SectionFacts
    <3>3. address[k] = base + p.from
      BY <2>1, <2>2, <3>1, <3>2 DEF MemoryInv
    <3>4. p.from \in Nat /\ p.to \in Nat /\ p.to = p.from + sections[k].size
      BY <3>1 DEF Extent, DataPart
    <3>5. sections[k].size \in Nat
      BY <2>2, <3>2, SectionFacts
    <3>6. InMemory(k).from = base + p.from /\ InMemory(k).to = base + p.to
      <4>1. InMemory(k).from = address[k] /\ InMemory(k).to = address[k] + sections[k].size
        BY DEF InMemory, Part
      <4> QED
        BY <2>2, <3>3, <3>4, <3>5, <4>1
    <3>7. p.from = p.to \/ p.to <= info.uso_size
      BY <2>1, <3>1, <3>4, <3>5 DEF InfoInv
    <3>8. info.uso_size \in Nat
      BY <2>1, RamAlignIs
    <3>9. base \in Nat /\ base + info.uso_size <= start
      BY <2>2, <2>4, <3>8
    <3>10. InMemory(k).to \in Nat
      BY <3>4, <3>6, <3>9
    <3>11. p.from = p.to => InMemory(k).from = InMemory(k).to
      BY <3>6
    <3>12. p.to <= info.uso_size => InMemory(k).to <= start
      <4>1. start \in Nat
        BY <2>4
      <4> QED
        BY <3>4, <3>6, <3>8, <3>9, <4>1
    <3> QED
      BY <3>7, <3>10, <3>11, <3>12
  <2>8. ASSUME NEW k \in NoData
        PROVE  address[k] >= base + info.uso_size /\ InMemory(k).to <= base + RamSize
    <3>1. sums[k] <= sums[Last] /\ sums[Last] \in Nat
      BY <2>2, <2>5, <2>6
    <3> QED
      BY <2>4, <2>6, <3>1
  <2>9. ASSUME NEW k \in NoData, NEW m \in DOMAIN sections \ {k}
        PROVE  Disjoint(InMemory(m), InMemory(k))
    <3>1. CASE m \in HasData
      BY <2>4, <2>6, <2>7, <3>1 DEF Disjoint
    <3>2. CASE m \notin HasData
      <4>1. m \in NoData /\ m # k
        BY <2>2, <3>2
      <4>2. CASE m < k
        <5>1. m <= k - 1
          BY <2>6, <4>1, <4>2
        <5>2. sums[m] <= sums[k - 1]
          BY <2>5, <2>6, <4>1, <5>1
        <5>3. start + sums[m] <= start + sums[k - 1]
          BY <2>4, <2>6, <4>1, <5>2
        <5> QED
          BY <2>6, <4>1, <5>3 DEF Disjoint
      <4>3. CASE k < m
        <5>1. k <= m - 1
          BY <2>6, <4>1, <4>3
        <5>2. sums[k] <= sums[m - 1]
          BY <2>5, <2>6, <4>1, <5>1
        <5>3. start + sums[k] <= start + sums[m - 1]
          BY <2>4, <2>6, <4>1, <5>2
        <5> QED
          BY <2>6, <4>1, <5>3 DEF Disjoint
      <4> QED
        BY <2>6, <4>1, <4>2, <4>3
    <3> QED
      BY <3>1, <3>2
  <2> QED
    BY <2>8, <2>9
<1> QED
  BY <1>1, ImageHolds, PTL

-----------------------------------------------------------------------------
(* The tables.  They are built and changed by loops; TablesInv says of each   *)
(* loop how far it is and what the rows hold so far, next to ImageInv, which  *)
(* says where the tables are.  The recursive definitions, the sum of the      *)
(* lengths and the search, are shown to have a value by induction on the size *)
(* of their domain, and that value to be right by another.                    *)

Sides == {"import", "export"}
Order(s) == Sorted(collected[s])

-----------------------------------------------------------------------------
(* The search. *)

NameOf(s, k) == NameAt(s, rows[s][k].name)

\* One step of BinarySearch on a stretch r, with f for the searches that it goes on with
Halve(f, s, n, r) ==
  LET half == r[2] \div 2
      at == r[1] + half
  IN  IF r[2] = 0 THEN 0
      ELSE IF NameOf(s, at) = n THEN at
      ELSE IF Rank[n] < Rank[NameOf(s, at)] THEN f[<<r[1], half>>]
      ELSE f[<<at + 1, r[2] - half - 1>>]

Search(s, n) ==
  CHOOSE f : f = [r \in Stretches(Len(rows[s])) |-> Halve(f, s, n, r)]

LEMMA SearchIs ==
  ASSUME NEW s, NEW n
  PROVE  BinarySearch(s, n) = Search(s, n)[<<1, Len(rows[s])>>]
BY Zenon DEF BinarySearch, Search, Halve, NameOf

\* Both parts of a stretch are shorter stretches.
LEMMA Halves ==
  ASSUME NEW N \in Nat, NEW r \in Stretches(N), r[2] # 0
  PROVE  /\ r[1] \in Nat /\ 1 <= r[1] /\ r[2] \in Nat /\ r[1] + r[2] <= N + 1
         /\ r[2] \div 2 \in Nat /\ r[2] \div 2 < r[2]
         /\ r[1] + r[2] \div 2 \in 1 .. N
         /\ <<r[1], r[2] \div 2>> \in Stretches(N)
         /\ <<r[1] + r[2] \div 2 + 1, r[2] - r[2] \div 2 - 1>> \in Stretches(N)
<1>1. PICK a \in 1 .. N + 1, b \in 0 .. N : r = <<a, b>> /\ a + b <= N + 1
  BY DEF Stretches
<1>2. PICK h \in Nat : h = b \div 2 /\ h < b
  <2>1. b \in Nat /\ b # 0
    BY <1>1
  <2> QED
    BY <2>1
<1>3. <<a, h>> \in Stretches(N)
  BY <1>1, <1>2 DEF Stretches
<1>4. <<a + h + 1, b - h - 1>> \in Stretches(N)
  BY <1>1, <1>2 DEF Stretches
<1> QED
  BY <1>1, <1>2, <1>3, <1>4

\* The recursive definition has a value.
LEMMA SearchStep ==
  ASSUME NEW s, NEW n, Len(rows[s]) \in Nat
  PROVE  \A r \in Stretches(Len(rows[s])) : Search(s, n)[r] = Halve(Search(s, n), s, n, r)
<1>1. PICK N \in Nat : N = Len(rows[s])
  OBVIOUS
<1> DEFINE Short(m) == {r \in Stretches(N) : r[2] <= m}
           Is(f, m) == \A r \in Short(m) : f[r] = Halve(f, s, n, r)
           Some(m) == \E f : Is(f, m) /\ DOMAIN f = Short(m) /\ f = [r \in Short(m) |-> f[r]]
           S == {m \in 0 .. N : Some(m)}
<1>2. \A r \in Stretches(N) : r[2] \in 0 .. N
  BY DEF Stretches
<1>3. \A r \in Short(0) : \A f : Halve(f, s, n, r) = 0
  BY <1>2 DEF Halve
<1>4. Some(0)
  <2> DEFINE f == [r \in Short(0) |-> 0]
  <2>1. Is(f, 0) /\ DOMAIN f = Short(0) /\ f = [r \in Short(0) |-> f[r]]
    BY <1>3
  <2> QED
    BY <2>1
\* A step on a stretch looks at shorter ones only.
<1>5. ASSUME NEW f, NEW g, NEW r \in Stretches(N),
             \A q \in Stretches(N) : q[2] < r[2] => f[q] = g[q]
      PROVE  Halve(f, s, n, r) = Halve(g, s, n, r)
  <2>1. CASE r[2] = 0
    BY <2>1 DEF Halve
  <2>2. CASE r[2] # 0
    <3> DEFINE half == r[2] \div 2
               at == r[1] + half
    <3>1. /\ <<r[1], half>> \in Stretches(N) /\ half < r[2]
          /\ <<at + 1, r[2] - half - 1>> \in Stretches(N) /\ r[2] - half - 1 < r[2]
      BY SMTT(30), <2>2, Halves
    <3>2. f[<<r[1], half>>] = g[<<r[1], half>>]
      BY <1>5, <3>1
    <3>3. f[<<at + 1, r[2] - half - 1>>] = g[<<at + 1, r[2] - half - 1>>]
      BY <1>5, <3>1
    <3> QED
      BY <3>2, <3>3, Zenon DEF Halve
  <2> QED
    BY <2>1, <2>2
<1>6. ASSUME NEW m \in 0 .. N - 1, Some(m)
      PROVE  Some(m + 1)
  <2>1. PICK f : Is(f, m)
    BY <1>6
  <2> DEFINE g == [r \in Short(m + 1) |-> IF r \in Short(m) THEN f[r] ELSE Halve(f, s, n, r)]
  <2>2. Short(m) \subseteq Short(m + 1)
    BY <1>2
  <2>3. \A r \in Short(m) : g[r] = f[r]
    BY <2>2
  <2>4. \A r \in Short(m + 1) : g[r] = Halve(f, s, n, r)
    BY <2>1
  <2>5. ASSUME NEW r \in Short(m + 1)
        PROVE  Halve(f, s, n, r) = Halve(g, s, n, r)
    <3>1. \A q \in Stretches(N) : q[2] < r[2] => q \in Short(m)
      BY <1>2
    <3> HIDE DEF g, Short
    <3>2. \A q \in Stretches(N) : q[2] < r[2] => f[q] = g[q]
      BY <2>3, <3>1
    <3> QED
      BY <1>5, <3>2 DEF Short
  <2>6. Is(g, m + 1)
    <3> HIDE DEF g, Short
    <3> QED
      BY <2>4, <2>5
  <2>7. DOMAIN g = Short(m + 1) /\ g = [r \in Short(m + 1) |-> g[r]]
    OBVIOUS
  <2> QED
    BY <2>6, <2>7
<1>7. \A m \in 0 .. N : m \in S
  <2> HIDE DEF Some
  <2>1. 0 \in S /\ \A m \in 0 .. N - 1 : m \in S => m + 1 \in S
    BY <1>4, <1>6
  <2> HIDE DEF S
  <2> QED
    BY <2>1, Upwards
<1>8. PICK f : Is(f, N) /\ DOMAIN f = Short(N) /\ f = [r \in Short(N) |-> f[r]]
  <2>1. Some(N)
    <3> HIDE DEF Some
    <3>1. N \in S
      BY <1>7
    <3> QED
      BY <3>1
  <2> QED
    BY <2>1, Zenon
<1>9. Short(N) = Stretches(N)
  BY <1>2
<1>10. f = [r \in Stretches(Len(rows[s])) |-> Halve(f, s, n, r)]
  <2>1. \A r \in Stretches(N) : f[r] = Halve(f, s, n, r)
    BY <1>8, <1>9
  <2>2. f = [r \in Stretches(N) |-> f[r]]
    BY <1>8, <1>9
  <2> HIDE DEF Short
  <2>3. f = [r \in Stretches(N) |-> Halve(f, s, n, r)]
    BY <2>1, <2>2
  <2> QED
    BY <1>1, <2>3
<1>11. Search(s, n) = [r \in Stretches(Len(rows[s])) |-> Halve(Search(s, n), s, n, r)]
  BY <1>10, Zenon DEF Search
<1> QED
  BY <1>11, Zenon

\* In rows in the order of their names the search finds a name where it is.
LEMMA SearchFinds ==
  ASSUME NEW s, NEW n \in SymNames, Len(rows[s]) \in Nat,
         \A k \in 1 .. Len(rows[s]) : NameOf(s, k) \in SymNames,
         \A k, l \in 1 .. Len(rows[s]) : k < l => Rank[NameOf(s, k)] < Rank[NameOf(s, l)]
  PROVE  /\ \A k \in 1 .. Len(rows[s]) : NameOf(s, k) = n => BinarySearch(s, n) = k
         /\ (\A k \in 1 .. Len(rows[s]) : NameOf(s, k) # n) => BinarySearch(s, n) = 0
<1>1. PICK N \in Nat : N = Len(rows[s])
  OBVIOUS
<1> DEFINE f == Search(s, n)
           Right(r) == /\ \A k \in r[1] .. r[1] + r[2] - 1 : NameOf(s, k) = n => f[r] = k
                       /\ (\A k \in r[1] .. r[1] + r[2] - 1 : NameOf(s, k) # n) => f[r] = 0
           S == {m \in 0 .. N : \A r \in Stretches(N) : r[2] = m => Right(r)}
<1>2. \A r \in Stretches(N) : f[r] = Halve(f, s, n, r)
  BY <1>1, SearchStep
<1>3. \A m, x \in SymNames : Rank[m] \in Nat /\ (Rank[m] = Rank[x] => m = x)
  BY CollectedAssumption
<1>4. /\ \A k \in 1 .. N : NameOf(s, k) \in SymNames
      /\ \A k, l \in 1 .. N : k < l => Rank[NameOf(s, k)] < Rank[NameOf(s, l)]
  BY <1>1
<1> HIDE DEF f
<1>5. ASSUME NEW m \in 0 .. N, \A x \in 0 .. m - 1 : x \in S
      PROVE  m \in S
  <2>1. SUFFICES ASSUME NEW r \in Stretches(N), r[2] = m PROVE Right(r)
    OBVIOUS
  <2>2. CASE m = 0
    <3>1. f[r] = 0
      BY <1>2, <2>1, <2>2 DEF Halve
    <3>2. r[1] .. r[1] + r[2] - 1 = {}
      BY <2>1, <2>2 DEF Stretches
    <3> QED
      BY <3>1, <3>2
  <2>3. CASE m # 0
    <3>1. PICK a, half, at : a = r[1] /\ half = r[2] \div 2 /\ at = a + half
      OBVIOUS
    <3>2. /\ a \in Nat /\ 1 <= a /\ m \in Nat /\ a + m <= N + 1
          /\ half \in Nat /\ half < m /\ at \in 1 .. N /\ at = a + half
          /\ <<a, half>> \in Stretches(N)
          /\ <<at + 1, m - half - 1>> \in Stretches(N)
      BY <2>1, <2>3, <3>1, Halves
    <3>3. f[r] = IF NameOf(s, at) = n THEN at
                 ELSE IF Rank[n] < Rank[NameOf(s, at)] THEN f[<<a, half>>]
                 ELSE f[<<at + 1, m - half - 1>>]
      BY <1>2, <2>1, <2>3, <3>1 DEF Halve
    <3>4. a .. a + m - 1 \subseteq 1 .. N /\ at \in a .. a + m - 1
      BY <3>2
    <3>5. \A k \in a .. a + m - 1 : NameOf(s, k) \in SymNames /\ Rank[NameOf(s, k)] \in Nat
      BY <1>3, <1>4, <3>4
    <3>6. CASE NameOf(s, at) = n
      <4>1. \A k \in a .. a + m - 1 : NameOf(s, k) = n => k = at
        <5>1. SUFFICES ASSUME NEW k \in a .. a + m - 1, NameOf(s, k) = n, k # at PROVE FALSE
          OBVIOUS
        <5>2. k \in 1 .. N /\ (k < at \/ at < k)
          BY <3>2, <3>4, <5>1
        <5>3. Rank[NameOf(s, k)] < Rank[NameOf(s, at)] \/ Rank[NameOf(s, at)] < Rank[NameOf(s, k)]
          BY <1>4, <3>2, <5>2
        <5> QED
          BY <1>3, <3>6, <5>1, <5>3
      <4> QED
        BY <2>1, <3>1, <3>3, <3>4, <3>6, <4>1
    <3>7. CASE NameOf(s, at) # n /\ Rank[n] < Rank[NameOf(s, at)]
      <4>1. Right(<<a, half>>)
        <5>1. half \in S
          BY <1>5, <3>2
        <5> QED
          BY <3>2, <5>1
      <4>2. ASSUME NEW k \in a .. a + m - 1, NameOf(s, k) = n
            PROVE  k \in a .. a + half - 1
        <5>1. CASE k \in at + 1 .. a + m - 1
          <6>1. at < k /\ k \in 1 .. N
            BY <3>2, <3>4, <5>1
          <6>2. Rank[NameOf(s, at)] < Rank[NameOf(s, k)]
            BY <1>4, <3>2, <6>1
          <6> QED
            BY <1>3, <3>2, <3>4, <3>5, <3>7, <4>2, <6>2
        <5>2. CASE k = at
          BY <3>7, <4>2, <5>2
        <5> QED
          BY <3>2, <5>1, <5>2
      <4>3. a .. a + half - 1 \subseteq a .. a + m - 1
        BY <3>2
      <4>4. f[r] = f[<<a, half>>]
        BY <3>3, <3>7
      <4>5. /\ \A k \in a .. a + half - 1 : NameOf(s, k) = n => f[r] = k
            /\ (\A k \in a .. a + half - 1 : NameOf(s, k) # n) => f[r] = 0
        BY <4>1, <4>4
      <4>6. /\ \A k \in a .. a + m - 1 : NameOf(s, k) = n => f[r] = k
            /\ (\A k \in a .. a + m - 1 : NameOf(s, k) # n) => f[r] = 0
        BY <4>2, <4>3, <4>5
      <4> QED
        BY <2>1, <3>1, <4>6
    <3>8. CASE NameOf(s, at) # n /\ ~ (Rank[n] < Rank[NameOf(s, at)])
      <4> DEFINE rest == m - half - 1
      <4>1. Right(<<at + 1, rest>>)
        <5>1. rest \in 0 .. m - 1
          BY <3>2
        <5>2. rest \in S
          BY <1>5, <5>1
        <5> QED
          BY <3>2, <5>2
      <4>2. ASSUME NEW k \in a .. a + m - 1, NameOf(s, k) = n
            PROVE  k \in at + 1 .. at + 1 + rest - 1
        <5>1. CASE k \in a .. at - 1
          <6>1. k < at /\ k \in 1 .. N
            BY <3>2, <3>4, <5>1
          <6>2. Rank[NameOf(s, k)] < Rank[NameOf(s, at)]
            BY <1>4, <3>2, <6>1
          <6> QED
            BY <1>3, <3>2, <3>4, <3>5, <3>8, <4>2, <6>2
        <5>2. CASE k = at
          BY <3>8, <4>2, <5>2
        <5> QED
          BY <3>2, <5>1, <5>2
      <4>3. at + 1 .. at + 1 + rest - 1 \subseteq a .. a + m - 1
        BY <3>2
      <4>4. f[r] = f[<<at + 1, rest>>]
        BY <3>3, <3>8
      <4>5. /\ \A k \in at + 1 .. at + 1 + rest - 1 : NameOf(s, k) = n => f[r] = k
            /\ (\A k \in at + 1 .. at + 1 + rest - 1 : NameOf(s, k) # n) => f[r] = 0
        BY <4>1, <4>4
      <4>6. /\ \A k \in a .. a + m - 1 : NameOf(s, k) = n => f[r] = k
            /\ (\A k \in a .. a + m - 1 : NameOf(s, k) # n) => f[r] = 0
        <5> HIDE DEF rest
        <5> QED
          BY <4>2, <4>3, <4>5
      <4> QED
        BY <2>1, <3>1, <4>6
    <3> QED
      BY <3>6, <3>7, <3>8
  <2> QED
    BY <2>2, <2>3
<1>6. \A m \in 0 .. N : m \in S
  <2> HIDE DEF S
  <2> QED
    BY <1>5, UpwardsFromAll
<1>7. <<1, N>> \in Stretches(N)
  BY DEF Stretches
<1>8. Right(<<1, N>>)
  <2>1. N \in S
    BY <1>6
  <2> QED
    BY <1>7, <2>1
<1>9. BinarySearch(s, n) = f[<<1, N>>]
  BY <1>1, SearchIs DEF f
<1>10. 1 .. 1 + N - 1 = 1 .. N
  OBVIOUS
<1> QED
  BY <1>1, <1>8, <1>9, <1>10

-----------------------------------------------------------------------------
(* The order of the symbols and the places of their names. *)

LEMMA CollectedFacts ==
  ASSUME NEW c \in Collected, NEW s \in Sides
  PROVE  /\ c[s] \in Seq(Symbols) /\ Len(c[s]) \in Nat /\ DOMAIN c[s] = 1 .. Len(c[s])
         /\ \A k \in 1 .. Len(c[s]) :
              /\ c[s][k] \in Symbols /\ c[s][k].name \in SymNames
              /\ Rank[c[s][k].name] \in Nat /\ NameLen[c[s][k].name] \in Nat
         /\ \A k, l \in 1 .. Len(c[s]) :
              c[s][k].name = c[s][l].name \/ c[s][k].src = c[s][l].src => k = l
<1>1. c[s] \in Seq(Symbols)
  BY CollectedAssumption DEF Sides
<1>2. Len(c[s]) \in Nat /\ DOMAIN c[s] = 1 .. Len(c[s])
  BY <1>1
<1>3. ASSUME NEW k \in 1 .. Len(c[s])
      PROVE  /\ c[s][k] \in Symbols /\ c[s][k].name \in SymNames
             /\ Rank[c[s][k].name] \in Nat /\ NameLen[c[s][k].name] \in Nat
  <2>1. c[s][k] \in Symbols
    BY <1>1
  <2>2. c[s][k].name \in SymNames
    BY <2>1 DEF Symbols
  <2> QED
    BY <2>1, <2>2, CollectedAssumption
<1>4. \A k, l \in 1 .. Len(c[s]) :
        c[s][k].name = c[s][l].name \/ c[s][k].src = c[s][l].src => k = l
  BY <1>2, CollectedAssumption DEF Sides
<1> QED
  BY <1>1, <1>2, <1>3, <1>4

\* sym_sort orders the names strictly and keeps every symbol.
LEMMA SortedIs ==
  ASSUME NEW c \in Collected, NEW s \in Sides
  PROVE  LET t == Sorted(c[s])
         IN  /\ t \in Seq(Symbols) /\ Len(t) = Len(c[s]) /\ Len(t) \in Nat
             /\ DOMAIN t = 1 .. Len(t)
             /\ \A k, l \in 1 .. Len(t) : k < l => Rank[t[k].name] < Rank[t[l].name]
             /\ \A k, l \in 1 .. Len(t) : t[k].src = t[l].src => k = l
             /\ \A k \in 1 .. Len(t) :
                  t[k] \in Symbols /\ \E l \in 1 .. Len(c[s]) : t[k] = c[s][l]
             /\ \A l \in 1 .. Len(c[s]) : \E k \in 1 .. Len(t) : t[k] = c[s][l]
<1> DEFINE q == c[s]
           n == Len(q)
           f == [k \in 1 .. n |-> Rank[q[k].name]]
           Ordered(p) == \A k, l \in DOMAIN q : k < l => Rank[q[p[k]].name] <= Rank[q[p[l]].name]
           p == CHOOSE p \in Arrangements(q) : Ordered(p)
           t == Sorted(q)
<1>1. n \in Nat /\ DOMAIN q = 1 .. n /\ f \in [1 .. n -> Nat] /\ q \in Seq(Symbols)
  BY CollectedFacts
<1>2. \E r \in Arrangements(q) : Ordered(r)
  <2>1. PICK r \in [1 .. n -> 1 .. n] :
          /\ \A k, l \in 1 .. n : r[k] = r[l] => k = l
          /\ \A k, l \in 1 .. n : k < l => f[r[k]] <= f[r[l]]
    <3> HIDE DEF f, n
    <3> QED
      BY <1>1, SortingOrder
  <2>2. r \in Arrangements(q)
    BY <1>1, <2>1 DEF Arrangements
  <2>3. Ordered(r)
    <3>1. \A k \in 1 .. n : f[r[k]] = Rank[q[r[k]].name]
      BY <2>1
    <3> HIDE DEF f, q, n
    <3>2. \A k, l \in 1 .. n : k < l => Rank[q[r[k]].name] <= Rank[q[r[l]].name]
      <4>1. SUFFICES ASSUME NEW k \in 1 .. n, NEW l \in 1 .. n, k < l
                     PROVE  Rank[q[r[k]].name] <= Rank[q[r[l]].name]
        OBVIOUS
      <4>2. f[r[k]] <= f[r[l]]
        BY <2>1, <4>1
      <4> QED
        BY <3>1, <4>2
    <3> QED
      BY <1>1, <3>2, Zenon
  <2> QED
    BY <2>2, <2>3
<1>3. p \in Arrangements(q) /\ Ordered(p)
  <2> HIDE DEF Ordered
  <2> QED
    BY <1>2, Zenon
<1>4. t = [k \in 1 .. n |-> q[p[k]]]
  BY <1>1 DEF Sorted
<1> HIDE DEF p, t
<1>5. p \in [1 .. n -> 1 .. n] /\ \A k, l \in 1 .. n : p[k] = p[l] => k = l
  BY <1>1, <1>3 DEF Arrangements
<1>6. \A k \in 1 .. n : \E l \in 1 .. n : p[l] = k
  <2> HIDE DEF n
  <2> QED
    BY <1>1, <1>5, Onto
<1>7. \A k \in 1 .. n : p[k] \in 1 .. n /\ t[k] = q[p[k]]
  BY <1>4, <1>5
<1> HIDE DEF n
<1>8. \A k \in 1 .. n : t[k] \in Symbols
  BY <1>1, <1>7
<1>9. t \in Seq(Symbols) /\ Len(t) = n /\ DOMAIN t = 1 .. n
  <2>1. t \in [1 .. n -> Symbols]
    BY <1>4, <1>8
  <2> QED
    BY <1>1, <2>1
<1>10. \A k \in 1 .. n : /\ Rank[q[k].name] \in Nat
                         /\ \A l \in 1 .. n : q[k].name = q[l].name \/ q[k].src = q[l].src => k = l
  BY CollectedFacts DEF n
<1>11. ASSUME NEW k \in 1 .. n, NEW l \in 1 .. n, k < l
       PROVE  Rank[t[k].name] < Rank[t[l].name]
  <2>1. Rank[q[p[k]].name] <= Rank[q[p[l]].name]
    BY <1>1, <1>3, <1>11
  <2>2. Rank[q[p[k]].name] # Rank[q[p[l]].name]
    <3>1. p[k] # p[l]
      BY <1>5, <1>11
    <3>2. q[p[k]].name # q[p[l]].name
      BY <1>7, <1>10, <3>1
    <3>3. q[p[k]].name \in SymNames /\ q[p[l]].name \in SymNames
      BY <1>7, <1>8 DEF Symbols
    <3> QED
      BY <3>2, <3>3, CollectedAssumption
  <2>3. Rank[q[p[k]].name] \in Nat /\ Rank[q[p[l]].name] \in Nat
    BY <1>7, <1>10
  <2> QED
    BY <1>7, <2>1, <2>2, <2>3
<1>12. \A k, l \in 1 .. n : t[k].src = t[l].src => k = l
  BY <1>5, <1>7, <1>10
<1>13. \A l \in 1 .. n : \E k \in 1 .. n : t[k] = q[l]
  BY <1>6, <1>7
<1>14. \A k \in 1 .. n : \E l \in 1 .. n : t[k] = q[l]
  BY <1>7
<1> QED
  BY <1>1, <1>8, <1>9, <1>11, <1>12, <1>13, <1>14 DEF t, n

\* Where the names of a table begin, and where each of them ends
Ends(s) ==
  CHOOSE total : total =
    [k \in 0 .. Len(s) |->
       IF k = 0 THEN 4 + SymbolSize * Len(s) ELSE total[k - 1] + NameLen[s[k].name] + 1]

LEMMA SizeIs ==
  ASSUME NEW s
  PROVE  DataSize(s) = IF s = << >> THEN 0 ELSE Ends(s)[Len(s)]
BY DEF DataSize, Ends

LEMMA EndsAre ==
  ASSUME NEW s \in Seq(Symbols)
  PROVE  /\ Ends(s) \in [0 .. Len(s) -> Nat] /\ Ends(s)[0] = 4 + SymbolSize * Len(s)
         /\ \A k \in 1 .. Len(s) : /\ Ends(s)[k] = Ends(s)[k - 1] + (NameLen[s[k].name] + 1)
                                   /\ Ends(s)[k] \in Nat /\ Ends(s)[k - 1] \in Nat
                                   /\ NameLen[s[k].name] \in Nat
         /\ \A k, l \in 0 .. Len(s) : k < l => Ends(s)[k] < Ends(s)[l]
<1> DEFINE n == Len(s)
           a == 4 + SymbolSize * n
           d == [k \in 1 .. n |-> NameLen[s[k].name]]
           sum == Ends(s)
<1>1. n \in Nat /\ a \in Nat
  BY DEF SymbolSize
<1>2. \A k \in 1 .. n : NameLen[s[k].name] \in Nat
  <2>1. \A k \in 1 .. n : s[k] \in Symbols
    OBVIOUS
  <2>2. \A k \in 1 .. n : s[k].name \in SymNames
    BY <2>1 DEF Symbols
  <2> QED
    BY <2>2, CollectedAssumption
<1>3. \A k \in 1 .. n : d[k] = NameLen[s[k].name] /\ d[k] \in Nat
  BY <1>2
<1> HIDE DEF d, n, a
<1>4. \E g : g = [k \in 0 .. n |-> IF k = 0 THEN a ELSE g[k - 1] + NameLen[s[k].name] + 1]
  <2>1. PICK g \in [0 .. n -> Nat] :
          g[0] = a /\ \A k \in 1 .. n : g[k] = g[k - 1] + d[k] + 1
    <3>1. d \in [1 .. n -> Nat]
      BY <1>2 DEF d
    <3> QED
      BY <1>1, <3>1, RunningSum
  <2>2. \A k \in 0 .. n : g[k] = IF k = 0 THEN a ELSE g[k - 1] + NameLen[s[k].name] + 1
    BY <1>1, <1>3, <2>1
  <2>3. g = [k \in 0 .. n |-> IF k = 0 THEN a ELSE g[k - 1] + NameLen[s[k].name] + 1]
    BY <2>1, <2>2
  <2> QED
    BY <2>3
<1>5. sum = [k \in 0 .. n |-> IF k = 0 THEN a ELSE sum[k - 1] + NameLen[s[k].name] + 1]
  BY <1>4, Zenon DEF Ends, n, a
<1> HIDE DEF sum
<1>6. sum[0] = a /\ \A k \in 1 .. n : sum[k] = sum[k - 1] + d[k] + 1
  <2>1. 0 \in 0 .. n /\ \A k \in 1 .. n : k \in 0 .. n /\ k # 0
    BY <1>1
  <2>2. sum[0] = a /\ \A k \in 1 .. n : sum[k] = sum[k - 1] + NameLen[s[k].name] + 1
    BY <1>5, <2>1, Zenon
  <2> QED
    BY <1>3, <2>2
<1>7. /\ \A k \in 0 .. n : sum[k] \in Nat
      /\ \A k, l \in 0 .. n : k < l => sum[k] < sum[l]
  BY <1>1, <1>3, <1>6, SumGrows
<1>8. sum \in [0 .. n -> Nat]
  <2>1. DOMAIN sum = 0 .. n /\ sum = [k \in 0 .. n |-> sum[k]]
    BY <1>5
  <2> QED
    BY <1>7, <2>1
<1>9. ASSUME NEW k \in 1 .. n
      PROVE  /\ sum[k] = sum[k - 1] + (NameLen[s[k].name] + 1)
             /\ sum[k] \in Nat /\ sum[k - 1] \in Nat /\ NameLen[s[k].name] \in Nat
  <2>1. k \in 0 .. n /\ k - 1 \in 0 .. n
    BY <1>1
  <2>2. sum[k] \in Nat /\ sum[k - 1] \in Nat
    BY <1>7, <2>1
  <2>3. d[k] = NameLen[s[k].name] /\ d[k] \in Nat /\ sum[k] = sum[k - 1] + d[k] + 1
    BY <1>3, <1>6
  <2>4. sum[k] = sum[k - 1] + (d[k] + 1)
    BY <2>2, <2>3
  <2> QED
    BY <2>2, <2>3, <2>4
<1> QED
  BY <1>6, <1>7, <1>8, <1>9 DEF n, a, sum

-----------------------------------------------------------------------------
(* The invariant. *)

\* The place of the stage in the sequence of stages
Now ==
  CASE stage = "sort" -> 0
    [] stage = "table" -> IF table = "import" THEN 1 ELSE 3
    [] stage = "write" -> IF table = "import" THEN 2 ELSE 4
    [] stage = "image" -> 5
    [] stage = "names" -> IF table = "export" THEN 6 ELSE 8
    [] stage = "ptrs" -> IF table = "export" THEN 7 ELSE 9
    [] stage \in {"linked", "failed"} -> 10

\* The loops that write table s, fix its names and fix its pointers
WriteLoop(s) == IF s = "import" THEN 2 ELSE 4
NameLoop(s) == IF s = "export" THEN 6 ELSE 8
PtrLoop(s) == IF s = "export" THEN 7 ELSE 9

\* How many symbols a loop over table s is done with
DoneBy(loop, s) == IF Now < loop THEN 0 ELSE IF Now = loop THEN j - 1 ELSE Len(Order(s))

\* Row k of table s: an offset until its name is fixed, the symbol's own address until
\* its pointer is
NameOfs(s, k) == Ends(Order(s))[k - 1]
Target(s, sym) == IF s = "import" THEN Provided[sym.name] ELSE AddressOf(sym)
RowOf(s, k) ==
  LET sym == Order(s)[k]
  IN  [name |-> IF k <= DoneBy(NameLoop(s), s) THEN TableAt(s) + NameOfs(s, k) ELSE NameOfs(s, k),
       ptr |-> IF k <= DoneBy(PtrLoop(s), s) THEN Target(s, sym) ELSE sym.addr,
       section |-> sym.section, weak |-> sym.weak]
Text(s, k) == Part(Order(s)[k].name, k, NameOfs(s, k), NameLen[Order(s)[k].name] + 1)

InputInv ==
  collected \in Collected /\ \A s \in Sides : head[s] = DataSize(Order(s))

StageInv ==
  /\ stage \in {"sort", "table", "write", "image", "names", "ptrs", "linked", "failed"}
  /\ table \in Sides /\ j \in Nat
  /\ stage = "sort" => table = "import"
  /\ stage = "image" => table = "export" /\ j = 1
  /\ stage \in {"write", "names", "ptrs"} => 1 <= j /\ j <= Len(Order(table)) + 1
  /\ stage # "sort" => syms = [s \in Sides |-> Order(s)] /\ importMap = Numbered(Order("import"))
  /\ stage = "write" => nameOfs = NameOfs(table, j)

RowsInv ==
  /\ rows = [s \in Sides |-> [k \in 1 .. DoneBy(WriteLoop(s), s) |-> RowOf(s, k)]]
  /\ texts = [s \in Sides |-> {Text(s, k) : k \in 1 .. DoneBy(WriteLoop(s), s)}]

EndInv == stage \in {"linked", "failed"} => (stage = "failed" <=> Unresolved)

TablesInv == InputInv /\ StageInv /\ RowsInv /\ EndInv

LEMMA OrderFacts ==
  ASSUME InputInv, NEW s \in Sides
  PROVE  /\ Order(s) \in Seq(Symbols) /\ Len(Order(s)) \in Nat
         /\ \A k, l \in 1 .. Len(Order(s)) : k < l => Rank[Order(s)[k].name] < Rank[Order(s)[l].name]
         /\ \A k, l \in 1 .. Len(Order(s)) : Order(s)[k].src = Order(s)[l].src => k = l
         /\ \A k \in 1 .. Len(Order(s)) :
              Order(s)[k].name \in SymNames /\ Order(s)[k] \in Entries(s)
         /\ \A c \in Entries(s) : \E k \in 1 .. Len(Order(s)) : c = Order(s)[k]
<1>1. collected \in Collected
  BY DEF InputInv
<1>2. DOMAIN collected[s] = 1 .. Len(collected[s])
  BY <1>1, CollectedFacts
<1> DEFINE t == Order(s)
<1>3. /\ t \in Seq(Symbols) /\ Len(t) \in Nat
      /\ \A k, l \in 1 .. Len(t) : k < l => Rank[t[k].name] < Rank[t[l].name]
      /\ \A k, l \in 1 .. Len(t) : t[k].src = t[l].src => k = l
      /\ \A k \in 1 .. Len(t) :
           t[k] \in Symbols /\ \E l \in 1 .. Len(collected[s]) : t[k] = collected[s][l]
      /\ \A l \in 1 .. Len(collected[s]) : \E k \in 1 .. Len(t) : t[k] = collected[s][l]
  BY <1>1, SortedIs DEF Order
<1>4. \A x \in Symbols : x.name \in SymNames
  BY DEF Symbols
<1> HIDE DEF t
<1>5. \A k \in 1 .. Len(t) : t[k].name \in SymNames /\ t[k] \in Entries(s)
  BY <1>2, <1>3, <1>4 DEF Entries
<1>6. \A c \in Entries(s) : \E k \in 1 .. Len(t) : c = t[k]
  BY <1>2, <1>3 DEF Entries
<1> QED
  BY <1>3, <1>5, <1>6 DEF t

LEMMA OffsetFacts ==
  ASSUME InputInv, NEW s \in Sides
  PROVE  /\ Ends(Order(s))[0] = 4 + SymbolSize * Len(Order(s))
         /\ \A k \in 1 .. Len(Order(s)) :
              /\ NameOfs(s, k) \in Nat /\ Ends(Order(s))[k] \in Nat
              /\ NameOfs(s, k) < Ends(Order(s))[k]
              /\ Ends(Order(s))[k] = NameOfs(s, k) + (NameLen[Order(s)[k].name] + 1)
              /\ Ends(Order(s))[0] <= NameOfs(s, k)
              /\ Ends(Order(s))[k] <= head[s]
         /\ \A k, l \in 1 .. Len(Order(s)) : k < l => Ends(Order(s))[k] <= NameOfs(s, l)
         /\ NameOfs(s, 1) = Ends(Order(s))[0]
<1> DEFINE t == Order(s)
           n == Len(t)
<1>1. t \in Seq(Symbols) /\ n \in Nat
  BY OrderFacts
<1>2. /\ Ends(t) \in [0 .. n -> Nat] /\ Ends(t)[0] = 4 + SymbolSize * n
      /\ \A k \in 1 .. n : /\ Ends(t)[k] = Ends(t)[k - 1] + (NameLen[t[k].name] + 1)
                           /\ Ends(t)[k] \in Nat /\ Ends(t)[k - 1] \in Nat
                           /\ NameLen[t[k].name] \in Nat
      /\ \A k, l \in 0 .. n : k < l => Ends(t)[k] < Ends(t)[l]
  BY <1>1, EndsAre
<1>3. head[s] = IF t = << >> THEN 0 ELSE Ends(t)[n]
  BY SizeIs DEF InputInv
<1> HIDE DEF t
<1>4. \A k, l \in 0 .. n : k <= l => Ends(t)[k] <= Ends(t)[l]
  <2>1. SUFFICES ASSUME NEW k \in 0 .. n, NEW l \in 0 .. n, k <= l
                 PROVE  Ends(t)[k] <= Ends(t)[l]
    OBVIOUS
  <2>2. Ends(t)[k] \in Nat /\ Ends(t)[l] \in Nat /\ (k < l \/ k = l)
    BY <1>2, <2>1
  <2> QED
    BY <1>2, <2>2
<1>5. ASSUME NEW k \in 1 .. n
      PROVE  /\ Ends(t)[k - 1] \in Nat /\ Ends(t)[k] \in Nat
             /\ Ends(t)[k] = Ends(t)[k - 1] + (NameLen[t[k].name] + 1)
             /\ Ends(t)[k - 1] < Ends(t)[k]
             /\ Ends(t)[0] <= Ends(t)[k - 1] /\ Ends(t)[k] <= head[s]
             /\ \A l \in 1 .. n : k < l => Ends(t)[k] <= Ends(t)[l - 1]
  <2>1. /\ k \in 0 .. n /\ k - 1 \in 0 .. n /\ 0 \in 0 .. n /\ n \in 0 .. n
        /\ 0 <= k - 1 /\ k <= n /\ k - 1 < k
        /\ \A l \in 1 .. n : k < l => l - 1 \in 0 .. n /\ k <= l - 1
    BY <1>1
  <2>2. head[s] = Ends(t)[n]
    <3>1. t # << >>
      BY <1>1
    <3> QED
      BY <1>3, <3>1
  <2> QED
    BY <1>2, <1>4, <2>1, <2>2
<1>6. 1 - 1 = 0
  OBVIOUS
<1> QED
  BY <1>2, <1>5, <1>6 DEF NameOfs, t

\* A name is read whole where it was written.
LEMMA NameRead ==
  ASSUME InputInv, NEW s \in Sides, NEW k \in 1 .. Len(Order(s)), TableAt(s) \in Nat,
         DOMAIN rows[s] = 1 .. Len(Order(s)),
         texts[s] = {Text(s, l) : l \in 1 .. Len(Order(s))}
  PROVE  NameAt(s, TableAt(s) + NameOfs(s, k)) = Order(s)[k].name
<1> DEFINE n == Len(Order(s))
           place == TableAt(s) + NameOfs(s, k)
           found == {p \in texts[s] : TableAt(s) + p.from = place /\ Intact(s, p)}
<1>1. \A l \in 1 .. n : /\ Text(s, l).from = NameOfs(s, l) /\ Text(s, l).to = Ends(Order(s))[l]
                        /\ Text(s, l).kind = Order(s)[l].name
  BY OffsetFacts DEF Text, Part
<1>2. n \in Nat
  BY OrderFacts
<1>3. /\ \A l \in 1 .. n : /\ NameOfs(s, l) \in Nat /\ Ends(Order(s))[l] \in Nat
                           /\ NameOfs(s, l) < Ends(Order(s))[l]
                           /\ Ends(Order(s))[0] <= NameOfs(s, l) /\ Ends(Order(s))[l] <= head[s]
      /\ \A m, l \in 1 .. n : m < l => Ends(Order(s))[m] <= NameOfs(s, l)
      /\ Ends(Order(s))[0] = 4 + SymbolSize * n
  BY OffsetFacts
<1>4. ASSUME NEW q \in Rows(s)
      PROVE  Disjoint(Text(s, k), q)
  <2>1. PICK l \in 1 .. n : q = Part("symbol", l, 4 + SymbolSize * (l - 1), SymbolSize)
    BY DEF Rows
  <2>2. q.to = 4 + SymbolSize * (l - 1) + SymbolSize
    BY <2>1 DEF Part
  <2>3. q.to \in Nat /\ q.to <= 4 + SymbolSize * n
    BY <1>2, <2>2 DEF SymbolSize
  <2>4. 4 + SymbolSize * n <= NameOfs(s, k)
    BY <1>3
  <2>5. q.to <= Text(s, k).from
    <3>1. NameOfs(s, k) \in Nat /\ 4 + SymbolSize * n \in Nat
      BY <1>2, <1>3 DEF SymbolSize
    <3> QED
      BY <1>1, <2>3, <2>4, <3>1
  <2> QED
    BY <2>5 DEF Disjoint
<1>5. ASSUME NEW q \in texts[s]
      PROVE  q = Text(s, k) \/ Disjoint(Text(s, k), q)
  <2>1. PICK l \in 1 .. n : q = Text(s, l)
    OBVIOUS
  <2>2. l = k \/ l < k \/ k < l
    BY <1>2
  <2>3. CASE l < k
    BY <1>1, <1>3, <2>1, <2>3 DEF Disjoint
  <2>4. CASE k < l
    BY <1>1, <1>3, <2>1, <2>4 DEF Disjoint
  <2> QED
    BY <2>1, <2>2, <2>3, <2>4
<1>6. Text(s, k) \in found
  <2>1. Text(s, k) \in texts[s] /\ TableAt(s) + Text(s, k).from = place
    BY <1>1
  <2>2. Text(s, k).to <= head[s]
    BY <1>1, <1>3
  <2> QED
    BY <1>4, <1>5, <2>1, <2>2 DEF Intact
<1>7. ASSUME NEW p \in found
      PROVE  p.kind = Order(s)[k].name
  <2>1. PICK l \in 1 .. n : p = Text(s, l)
    OBVIOUS
  <2>2. NameOfs(s, l) = NameOfs(s, k)
    <3>1. TableAt(s) + NameOfs(s, l) = TableAt(s) + NameOfs(s, k)
      BY <1>1, <2>1
    <3> QED
      BY <1>3, <3>1
  <2>3. l = k
    <3>1. l = k \/ l < k \/ k < l
      BY <1>2
    <3>2. CASE l < k
      BY <1>3, <2>2, <3>2
    <3>3. CASE k < l
      BY <1>3, <2>2, <3>3
    <3> QED
      BY <3>1, <3>2, <3>3
  <2> QED
    BY <1>1, <2>1, <2>3
<1> HIDE DEF found
<1>8. (CHOOSE p \in found : TRUE) \in found
  BY <1>6, Zenon
<1>9. NameAt(s, place) = (CHOOSE p \in found : TRUE).kind
  BY <1>6 DEF NameAt, found
<1> QED
  BY <1>7, <1>8, <1>9

-----------------------------------------------------------------------------
(* It holds at the start and every step keeps it. *)

LEMMA TablesStart == TablesInit => TablesInv
<1> SUFFICES ASSUME TablesInit PROVE TablesInv
  OBVIOUS
<1>1. /\ collected \in Collected
      /\ \A s \in {"import", "export"} : head[s] = DataSize(Sorted(collected[s]))
      /\ rows = [s \in {"import", "export"} |-> << >>]
      /\ texts = [s \in {"import", "export"} |-> {}]
      /\ stage = "sort" /\ table = "import" /\ j = 1
  BY DEF TablesInit, Empty
<1>2. InputInv
  BY <1>1 DEF InputInv, Sides, Order
<1>3. StageInv
  BY <1>1 DEF StageInv, Sides
<1>4. \A s \in Sides : DoneBy(WriteLoop(s), s) = 0
  BY <1>1 DEF DoneBy, WriteLoop, Now
<1>5. \A s \in Sides : /\ [k \in 1 .. DoneBy(WriteLoop(s), s) |-> RowOf(s, k)] = << >>
                       /\ {Text(s, k) : k \in 1 .. DoneBy(WriteLoop(s), s)} = {}
  BY <1>4
<1>6. RowsInv
  BY <1>1, <1>5 DEF RowsInv, Sides
<1>7. EndInv
  BY <1>1 DEF EndInv
<1> QED
  BY <1>2, <1>3, <1>6, <1>7 DEF TablesInv

\* What a step that leaves the file and the ELF alone cannot change
LEMMA Unmoved ==
  ASSUME UNCHANGED <<vars, collected>>
  PROVE  /\ InputInv => InputInv'
         /\ \A s \in Sides : /\ Order(s)' = Order(s) /\ TableAt(s)' = TableAt(s)
                             /\ \A k : NameOfs(s, k)' = NameOfs(s, k) /\ Text(s, k)' = Text(s, k)
                             /\ \A x : Target(s, x)' = Target(s, x)
<1>1. head' = head /\ base' = base /\ address' = address /\ collected' = collected
  BY DEF vars
<1>2. ImportOfs' = ImportOfs /\ ExportOfs' = ExportOfs
  BY <1>1 DEF ImportOfs, ExportOfs, AfterImport
<1>3. \A s \in Sides : Order(s)' = Order(s)
  BY <1>1 DEF Order
<1> QED
  BY <1>1, <1>2, <1>3 DEF InputInv, TableAt, NameOfs, Text, Target, AddressOf, SectionAt

\* A step between two loops
LEMMA RowsStay ==
  ASSUME RowsInv, UNCHANGED <<vars, collected, rows, texts>>,
         \A s \in Sides : \A loop \in {WriteLoop(s), NameLoop(s), PtrLoop(s)} :
           DoneBy(loop, s)' = DoneBy(loop, s)
  PROVE  RowsInv'
<1>1. ASSUME NEW s \in Sides, NEW k
      PROVE  RowOf(s, k)' = RowOf(s, k)
  <2>1. /\ Order(s)' = Order(s) /\ TableAt(s)' = TableAt(s) /\ NameOfs(s, k)' = NameOfs(s, k)
        /\ Target(s, Order(s)[k])' = Target(s, Order(s)[k])
    BY Unmoved
  <2>2. /\ DoneBy(NameLoop(s), s)' = DoneBy(NameLoop(s), s)
        /\ DoneBy(PtrLoop(s), s)' = DoneBy(PtrLoop(s), s)
    OBVIOUS
  <2> QED
    BY <2>1, <2>2 DEF RowOf
<1>2. \A s \in Sides : DoneBy(WriteLoop(s), s)' = DoneBy(WriteLoop(s), s)
  OBVIOUS
<1>3. \A s \in Sides : \A k : Text(s, k)' = Text(s, k)
  BY Unmoved
<1> QED
  BY <1>1, <1>2, <1>3 DEF RowsInv

LEMMA SortStep ==
  ASSUME TablesInv, SortSymbols
  PROVE  TablesInv'
<1>1. InputInv /\ StageInv /\ RowsInv
  BY DEF TablesInv
<1>2. /\ stage = "sort" /\ stage' = "table" /\ table' = table /\ j' = j /\ table = "import"
      /\ syms' = [s \in {"import", "export"} |-> Sorted(collected[s])]
      /\ importMap' = Numbered(syms'.import)
      /\ UNCHANGED <<vars, collected, rows, texts>>
  BY <1>1 DEF SortSymbols, StageInv
<1>3. \A s \in Sides : Order(s)' = Order(s)
  BY <1>2, Unmoved
<1>4. syms' = [s \in Sides |-> Order(s)'] /\ syms'.import = Order("import")'
  BY <1>2, <1>3 DEF Order, Sides
<1>5. Numbered(syms'.import) = Numbered(Order("import"))'
  BY <1>4 DEF Numbered
<1>6. StageInv'
  BY <1>1, <1>2, <1>4, <1>5 DEF StageInv
<1>7. Now = 0 /\ Now' = 1
  BY <1>2 DEF Now
<1>8. \A s \in Sides : \A loop \in {WriteLoop(s), NameLoop(s), PtrLoop(s)} :
        DoneBy(loop, s)' = DoneBy(loop, s)
  BY <1>7 DEF DoneBy, WriteLoop, NameLoop, PtrLoop
<1>9. RowsInv'
  BY <1>1, <1>2, <1>8, RowsStay
<1>10. InputInv' /\ EndInv'
  BY <1>1, <1>2, Unmoved DEF EndInv
<1> QED
  BY <1>6, <1>9, <1>10 DEF TablesInv

LEMMA StartStep ==
  ASSUME TablesInv, StartTable
  PROVE  TablesInv'
<1>1. InputInv /\ StageInv /\ RowsInv
  BY DEF TablesInv
<1>2. /\ stage = "table" /\ stage' = "write" /\ table' = table /\ j' = 1 /\ table \in Sides
      /\ nameOfs' = 4 + SymbolSize * Len(syms[table])
      /\ UNCHANGED <<vars, collected, syms, importMap, rows, texts>>
  BY <1>1 DEF StartTable, StageInv
<1>3. \A s \in Sides : Order(s)' = Order(s) /\ \A k : NameOfs(s, k)' = NameOfs(s, k)
  BY <1>2, Unmoved
<1>4. syms[table] = Order(table) /\ Len(Order(table)) \in Nat
  BY <1>1, <1>2, OrderFacts DEF StageInv
<1>5. nameOfs' = NameOfs(table, 1)
  BY <1>1, <1>2, <1>4, OffsetFacts
<1>6. Numbered(Order("import"))' = Numbered(Order("import"))
  BY <1>3 DEF Numbered, Sides
<1>7. syms' = [s \in Sides |-> Order(s)']
  BY <1>1, <1>2, <1>3 DEF StageInv
<1>8. StageInv'
  <2>1. nameOfs' = NameOfs(table, j)'
    BY <1>2, <1>3, <1>5 DEF NameOfs
  <2>2. 1 <= j' /\ j' <= Len(Order(table)') + 1
    BY <1>2, <1>3, <1>4
  <2>3. importMap' = Numbered(Order("import"))'
    BY <1>1, <1>2, <1>6 DEF StageInv
  <2> QED
    BY <1>2, <1>7, <2>1, <2>2, <2>3 DEF StageInv
<1>9. \/ table = "import" /\ Now = 1 /\ Now' = 2
      \/ table = "export" /\ Now = 3 /\ Now' = 4
  BY <1>2 DEF Now, Sides
<1>10. \A s \in Sides : \A loop \in {WriteLoop(s), NameLoop(s), PtrLoop(s)} :
        DoneBy(loop, s)' = DoneBy(loop, s)
  BY <1>2, <1>3, <1>9 DEF DoneBy, WriteLoop, NameLoop, PtrLoop, Sides
<1>11. RowsInv'
  BY <1>1, <1>2, <1>10, RowsStay
<1>12. InputInv' /\ EndInv'
  BY <1>1, <1>2, Unmoved DEF EndInv
<1> QED
  BY <1>8, <1>11, <1>12 DEF TablesInv

\* The steps of a loop over a table
LoopStep ==
  /\ stage \in {"write", "names", "ptrs"} /\ stage' = stage
  /\ table \in Sides /\ table' = table /\ j' = j + 1 /\ j \in 1 .. Len(Order(table))
  /\ UNCHANGED <<vars, collected, syms, importMap>>

LEMMA StageGoesOn ==
  ASSUME TablesInv, LoopStep, stage = "write" => nameOfs' = NameOfs(table, j + 1)
  PROVE  StageInv' /\ InputInv' /\ EndInv'
<1>1. InputInv /\ StageInv
  BY DEF TablesInv
<1>2. /\ \A s \in Sides : Order(s)' = Order(s) /\ \A k : NameOfs(s, k)' = NameOfs(s, k)
      /\ table \in Sides /\ table' = table /\ j' = j + 1 /\ j \in 1 .. Len(Order(table))
      /\ stage' = stage /\ stage \in {"write", "names", "ptrs"}
      /\ UNCHANGED <<vars, collected, syms, importMap>>
  BY Unmoved DEF LoopStep
<1>3. Numbered(Order("import"))' = Numbered(Order("import"))
  BY <1>2 DEF Numbered, Sides
<1>4. syms' = [s \in Sides |-> Order(s)'] /\ importMap' = Numbered(Order("import"))'
  BY <1>1, <1>2, <1>3 DEF StageInv
<1>5. Len(Order(table)) \in Nat
  BY <1>1, <1>2, OrderFacts
<1>6. j' \in Nat /\ 1 <= j' /\ j' <= Len(Order(table)') + 1
  BY <1>2, <1>5
<1>7. stage' = "write" => nameOfs' = NameOfs(table, j)'
  BY <1>2 DEF NameOfs
<1>8. StageInv'
  BY <1>2, <1>4, <1>6, <1>7 DEF StageInv
<1>9. InputInv' /\ EndInv'
  BY <1>1, <1>2, Unmoved DEF EndInv
<1> QED
  BY <1>8, <1>9

LEMMA LoopCounts ==
  ASSUME LoopStep
  PROVE  /\ Now' = Now
         /\ stage = "write" => Now = WriteLoop(table)
         /\ stage = "names" => Now = NameLoop(table)
         /\ stage = "ptrs" => Now = PtrLoop(table)
         /\ \A s \in Sides : \A loop \in {WriteLoop(s), NameLoop(s), PtrLoop(s)} :
              DoneBy(loop, s)' = IF loop = Now THEN j ELSE DoneBy(loop, s)
         /\ \A loop : loop = Now => \A s : DoneBy(loop, s) = j - 1
         /\ \A s \in Sides : s # table => Now \notin {WriteLoop(s), NameLoop(s), PtrLoop(s)}
         /\ \A s \in Sides : /\ WriteLoop(s) # NameLoop(s) /\ WriteLoop(s) # PtrLoop(s)
                             /\ NameLoop(s) # PtrLoop(s)
         /\ Now = WriteLoop(table) =>
              DoneBy(NameLoop(table), table) = 0 /\ DoneBy(PtrLoop(table), table) = 0
         /\ Now = NameLoop(table) =>
              /\ DoneBy(WriteLoop(table), table) = Len(Order(table))
              /\ DoneBy(PtrLoop(table), table) = 0
         /\ Now = PtrLoop(table) =>
              /\ DoneBy(WriteLoop(table), table) = Len(Order(table))
              /\ DoneBy(NameLoop(table), table) = Len(Order(table))
<1>1. /\ stage \in {"write", "names", "ptrs"} /\ stage' = stage
      /\ table \in Sides /\ table' = table /\ j' = j + 1 /\ j \in Nat
      /\ \A s \in Sides : Order(s)' = Order(s)
  BY Unmoved DEF LoopStep
<1>2. /\ Now' = Now
      /\ \/ stage = "write" /\ table = "import" /\ Now = 2
         \/ stage = "write" /\ table = "export" /\ Now = 4
         \/ stage = "names" /\ table = "export" /\ Now = 6
         \/ stage = "ptrs" /\ table = "export" /\ Now = 7
         \/ stage = "names" /\ table = "import" /\ Now = 8
         \/ stage = "ptrs" /\ table = "import" /\ Now = 9
  BY <1>1 DEF Now, Sides
<1>3. \A s \in Sides : \/ s = "import" /\ WriteLoop(s) = 2 /\ NameLoop(s) = 8 /\ PtrLoop(s) = 9
                       \/ s = "export" /\ WriteLoop(s) = 4 /\ NameLoop(s) = 6 /\ PtrLoop(s) = 7
  BY DEF Sides, WriteLoop, NameLoop, PtrLoop
<1>4. \A loop, s : DoneBy(loop, s) =
        IF Now < loop THEN 0 ELSE IF Now = loop THEN j - 1 ELSE Len(Order(s))
  BY DEF DoneBy
<1>5. \A s \in Sides : \A loop : DoneBy(loop, s)' =
        IF Now < loop THEN 0 ELSE IF Now = loop THEN j ELSE Len(Order(s))
  BY <1>1, <1>2 DEF DoneBy
<1>6. \A s \in Sides : \A loop \in {WriteLoop(s), NameLoop(s), PtrLoop(s)} :
        DoneBy(loop, s)' = IF loop = Now THEN j ELSE DoneBy(loop, s)
  BY <1>2, <1>3, <1>4, <1>5
<1>7. stage = "write" => Now = WriteLoop(table)
  BY <1>1, <1>2, <1>3
<1>8. stage = "names" => Now = NameLoop(table)
  BY <1>1, <1>2, <1>3
<1>9. stage = "ptrs" => Now = PtrLoop(table)
  BY <1>1, <1>2, <1>3
<1>10. \A s \in Sides : s # table => Now \notin {WriteLoop(s), NameLoop(s), PtrLoop(s)}
  BY <1>1, <1>2, <1>3
<1>11. \A s \in Sides : /\ WriteLoop(s) # NameLoop(s) /\ WriteLoop(s) # PtrLoop(s)
                        /\ NameLoop(s) # PtrLoop(s)
  BY <1>3
<1>12. Now = WriteLoop(table) =>
         DoneBy(NameLoop(table), table) = 0 /\ DoneBy(PtrLoop(table), table) = 0
  BY <1>1, <1>2, <1>3, <1>4
<1>13. Now = NameLoop(table) =>
         /\ DoneBy(WriteLoop(table), table) = Len(Order(table))
         /\ DoneBy(PtrLoop(table), table) = 0
  BY <1>1, <1>2, <1>3, <1>4
<1>14. Now = PtrLoop(table) =>
         /\ DoneBy(WriteLoop(table), table) = Len(Order(table))
         /\ DoneBy(NameLoop(table), table) = Len(Order(table))
  BY <1>1, <1>2, <1>3, <1>4
<1>15. \A loop : loop = Now => \A s : DoneBy(loop, s) = j - 1
  BY <1>2, <1>4
<1> QED
  BY <1>2, <1>6, <1>7, <1>8, <1>9, <1>10, <1>11, <1>12, <1>13, <1>14, <1>15

\* The rows and names that a loop step leaves alone
LEMMA OtherRows ==
  ASSUME TablesInv, LoopStep
  PROVE  /\ \A s \in Sides : \A k : Text(s, k)' = Text(s, k)
         /\ \A s \in Sides : s # table =>
              /\ DoneBy(WriteLoop(s), s)' = DoneBy(WriteLoop(s), s)
              /\ \A k : RowOf(s, k)' = RowOf(s, k)
         /\ stage # "write" => DoneBy(WriteLoop(table), table)' = Len(Order(table))
         /\ stage = "write" => /\ DoneBy(WriteLoop(table), table) = j - 1
                               /\ DoneBy(WriteLoop(table), table)' = j
<1>1. /\ \A s \in Sides : /\ Order(s)' = Order(s) /\ TableAt(s)' = TableAt(s)
                          /\ \A k : NameOfs(s, k)' = NameOfs(s, k) /\ Text(s, k)' = Text(s, k)
                          /\ \A x : Target(s, x)' = Target(s, x)
      /\ stage \in {"write", "names", "ptrs"} /\ table \in Sides /\ table' = table
  BY Unmoved DEF LoopStep
<1>2. ASSUME NEW s \in Sides, s # table, NEW k
      PROVE  /\ DoneBy(WriteLoop(s), s)' = DoneBy(WriteLoop(s), s)
             /\ RowOf(s, k)' = RowOf(s, k)
  <2>1. /\ DoneBy(NameLoop(s), s)' = DoneBy(NameLoop(s), s)
        /\ DoneBy(PtrLoop(s), s)' = DoneBy(PtrLoop(s), s)
        /\ DoneBy(WriteLoop(s), s)' = DoneBy(WriteLoop(s), s)
    BY <1>2, LoopCounts
  <2>2. Order(s)' = Order(s) /\ TableAt(s)' = TableAt(s) /\ NameOfs(s, k)' = NameOfs(s, k)
        /\ Target(s, Order(s)[k])' = Target(s, Order(s)[k])
    BY <1>1
  <2> QED
    BY <2>1, <2>2 DEF RowOf
<1>3. stage # "write" => DoneBy(WriteLoop(table), table)' = Len(Order(table))
  BY <1>1, LoopCounts
<1>4. stage = "write" => /\ DoneBy(WriteLoop(table), table) = j - 1
                         /\ DoneBy(WriteLoop(table), table)' = j
  BY <1>1, LoopCounts
<1> QED
  BY <1>1, <1>2, <1>3, <1>4

LEMMA AppendOne ==
  ASSUME NEW m \in Nat, NEW q, DOMAIN q = 1 .. m, q = [k \in 1 .. m |-> q[k]], NEW x
  PROVE  Append(q, x) = [k \in 1 .. m + 1 |-> IF k = m + 1 THEN x ELSE q[k]]
<1> DEFINE T == {q[k] : k \in 1 .. m}
<1>1. q \in [1 .. m -> T]
  OBVIOUS
<1>2. q \in Seq(T) /\ Len(q) = m
  BY <1>1
<1> QED
  BY <1>2

LEMMA WriteSymbolStep ==
  ASSUME TablesInv, WriteSymbol
  PROVE  TablesInv'
<1>1. InputInv /\ StageInv /\ RowsInv
  BY DEF TablesInv
<1>2. PICK sym, text : sym = syms[table][j] /\ text = Part(sym.name, j, nameOfs, NameLen[sym.name] + 1)
  OBVIOUS
<1>3. /\ stage = "write" /\ stage' = stage /\ table \in Sides /\ table' = table
      /\ j' = j + 1 /\ j <= Len(syms[table]) /\ 1 <= j /\ j \in Nat
      /\ syms = [s \in Sides |-> Order(s)] /\ nameOfs = NameOfs(table, j)
      /\ UNCHANGED <<vars, collected, syms, importMap>>
  BY <1>1 DEF WriteSymbol, StageInv
<1>4. /\ rows' = [rows EXCEPT ![table] = Append(rows[table],
                   [name |-> nameOfs, ptr |-> sym.addr, section |-> sym.section, weak |-> sym.weak])]
      /\ texts' = [texts EXCEPT ![table] = texts[table] \cup {text}]
      /\ nameOfs' = text.to
  BY <1>2 DEF WriteSymbol
<1>5. Len(Order(table)) \in Nat /\ syms[table] = Order(table)
  BY <1>1, <1>3, OrderFacts
<1>6. j \in 1 .. Len(Order(table)) /\ sym = Order(table)[j] /\ text = Text(table, j)
  BY <1>2, <1>3, <1>5 DEF Text
<1>7. LoopStep
  BY <1>3, <1>6 DEF LoopStep
<1>8. nameOfs' = NameOfs(table, j + 1)
  <2>1. text.to = NameOfs(table, j) + (NameLen[sym.name] + 1)
    BY <1>2, <1>3 DEF Part
  <2>2. Ends(Order(table))[j] = NameOfs(table, j) + (NameLen[sym.name] + 1)
    BY <1>1, <1>3, <1>6, OffsetFacts
  <2>3. NameOfs(table, j + 1) = Ends(Order(table))[j]
    BY <1>3 DEF NameOfs
  <2> QED
    BY <1>4, <2>1, <2>2, <2>3
<1>9. StageInv' /\ InputInv' /\ EndInv'
  BY <1>7, <1>8, StageGoesOn
<1>10. /\ DoneBy(WriteLoop(table), table) = j - 1 /\ DoneBy(WriteLoop(table), table)' = j
       /\ DoneBy(NameLoop(table), table) = 0 /\ DoneBy(NameLoop(table), table)' = 0
       /\ DoneBy(PtrLoop(table), table) = 0 /\ DoneBy(PtrLoop(table), table)' = 0
  BY <1>3, <1>7, LoopCounts
<1>11. ASSUME NEW k \in 1 .. j
       PROVE  RowOf(table, k)' = RowOf(table, k)
  <2>1. /\ Order(table)' = Order(table) /\ NameOfs(table, k)' = NameOfs(table, k)
    BY <1>3, Unmoved
  <2>2. ~ (k <= 0)
    OBVIOUS
  <2> QED
    BY <1>10, <2>1, <2>2 DEF RowOf
<1>12. RowOf(table, j) = [name |-> nameOfs, ptr |-> sym.addr, section |-> sym.section, weak |-> sym.weak]
  BY <1>3, <1>6, <1>10 DEF RowOf
<1>13. rows'[table] = [k \in 1 .. j |-> RowOf(table, k)']
  <2>1. rows[table] = [k \in 1 .. j - 1 |-> RowOf(table, k)] /\ j - 1 \in Nat /\ j - 1 + 1 = j
    BY <1>1, <1>3, <1>10 DEF RowsInv
  <2>2. DOMAIN rows[table] = 1 .. j - 1 /\ rows[table] = [k \in 1 .. j - 1 |-> rows[table][k]]
    BY <2>1
  <2>3. Append(rows[table], RowOf(table, j)) =
          [k \in 1 .. j |-> IF k = j THEN RowOf(table, j) ELSE rows[table][k]]
    BY <2>1, <2>2, AppendOne
  <2>4. \A k \in 1 .. j : (IF k = j THEN RowOf(table, j) ELSE rows[table][k]) = RowOf(table, k)'
    BY <1>3, <1>11, <2>1
  <2>5. rows'[table] = Append(rows[table], RowOf(table, j))
    BY <1>1, <1>3, <1>4, <1>12 DEF RowsInv
  <2> QED
    BY <2>3, <2>4, <2>5
<1>14. texts'[table] = {Text(table, k) : k \in 1 .. j}
  <2>1. texts[table] = {Text(table, k) : k \in 1 .. j - 1}
    BY <1>1, <1>3, <1>10 DEF RowsInv
  <2>2. texts'[table] = texts[table] \cup {Text(table, j)}
    BY <1>1, <1>3, <1>4, <1>6 DEF RowsInv
  <2>3. \A k \in 1 .. j : k \in 1 .. j - 1 \/ k = j
    BY <1>3
  <2>4. \A k \in 1 .. j - 1 : k \in 1 .. j
    BY <1>3
  <2> QED
    BY <1>3, <2>1, <2>2, <2>3, <2>4
<1>15. \A s \in Sides : s # table => rows'[s] = rows[s] /\ texts'[s] = texts[s]
  BY <1>1, <1>4 DEF RowsInv
<1>16. DOMAIN rows' = Sides /\ DOMAIN texts' = Sides
  BY <1>1, <1>4 DEF RowsInv
<1>17. \A s \in Sides :
         /\ rows'[s] = [k \in 1 .. DoneBy(WriteLoop(s), s)' |-> RowOf(s, k)']
         /\ texts'[s] = {Text(s, k)' : k \in 1 .. DoneBy(WriteLoop(s), s)'}
  <2>1. SUFFICES ASSUME NEW s \in Sides
                 PROVE  /\ rows'[s] = [k \in 1 .. DoneBy(WriteLoop(s), s)' |-> RowOf(s, k)']
                        /\ texts'[s] = {Text(s, k)' : k \in 1 .. DoneBy(WriteLoop(s), s)'}
    OBVIOUS
  <2>2. \A k : Text(s, k)' = Text(s, k)
    BY <1>7, OtherRows
  <2>3. CASE s = table
    <3>1. DoneBy(WriteLoop(s), s)' = j /\ \A k : RowOf(s, k)' = RowOf(table, k)'
      BY <1>3, <1>10, <2>3
    <3>2. rows'[s] = [k \in 1 .. j |-> RowOf(s, k)'] /\ texts'[s] = {Text(s, k) : k \in 1 .. j}
      BY ZenonT(30), <1>13, <1>14, <2>3, <3>1
    <3> QED
      BY <2>2, <3>1, <3>2
  <2>4. CASE s # table
    <3>1. /\ rows[s] = [k \in 1 .. DoneBy(WriteLoop(s), s) |-> RowOf(s, k)]
          /\ texts[s] = {Text(s, k) : k \in 1 .. DoneBy(WriteLoop(s), s)}
      BY <1>1 DEF RowsInv
    <3>2. /\ DoneBy(WriteLoop(s), s)' = DoneBy(WriteLoop(s), s)
          /\ \A k : RowOf(s, k)' = RowOf(s, k)
      BY <1>7, <2>4, OtherRows
    <3>3. PICK m : m = DoneBy(WriteLoop(s), s)
      OBVIOUS
    <3>4. rows'[s] = [k \in 1 .. m |-> RowOf(s, k)] /\ texts'[s] = {Text(s, k) : k \in 1 .. m}
      BY <1>15, <2>4, <3>1, <3>3
    <3>5. [k \in 1 .. m |-> RowOf(s, k)'] = [k \in 1 .. m |-> RowOf(s, k)]
      BY <3>2
    <3>6. {Text(s, k)' : k \in 1 .. m} = {Text(s, k) : k \in 1 .. m}
      BY <2>2
    <3> QED
      BY <3>2, <3>3, <3>4, <3>5, <3>6, Zenon
  <2> QED
    BY <2>3, <2>4
<1>18. RowsInv'
  <2>1. /\ rows' = [s \in Sides |-> rows'[s]] /\ texts' = [s \in Sides |-> texts'[s]]
    BY <1>1, <1>4 DEF RowsInv
  <2> QED
    BY <1>17, <2>1 DEF RowsInv
<1> QED
  BY <1>9, <1>18 DEF TablesInv

\* A loop that changes a row of a table that is written
LEMMA RowChanges ==
  ASSUME TablesInv, LoopStep, stage # "write", NEW m, m = j, NEW row,
         rows' = [rows EXCEPT ![table] = [rows[table] EXCEPT ![m] = row]], texts' = texts,
         row = RowOf(table, m)',
         \A k \in 1 .. Len(Order(table)) : k # m => RowOf(table, k)' = RowOf(table, k)
  PROVE  RowsInv'
<1>1. RowsInv /\ table \in Sides /\ table' = table /\ m \in 1 .. Len(Order(table))
  BY DEF TablesInv, LoopStep
<1>2. PICK n : n = Len(Order(table))
  OBVIOUS
<1>3. DoneBy(WriteLoop(table), table) = n /\ DoneBy(WriteLoop(table), table)' = n
  <2>1. stage \in {"names", "ptrs"}
    BY DEF LoopStep
  <2> QED
    BY <1>1, <1>2, <2>1, LoopCounts, OtherRows
<1>4. rows'[table] = [k \in 1 .. n |-> RowOf(table, k)']
  <2>1. rows[table] = [k \in 1 .. n |-> RowOf(table, k)]
    BY <1>1, <1>3 DEF RowsInv
  <2>2. rows'[table] = [rows[table] EXCEPT ![m] = row]
    BY <1>1 DEF RowsInv
  <2>3. \A k \in 1 .. n : k # m => RowOf(table, k)' = RowOf(table, k)
    BY <1>2
  <2>4. /\ rows'[table] = [k \in 1 .. n |-> rows'[table][k]]
        /\ \A k \in 1 .. n : rows'[table][k] = IF k = m THEN row ELSE RowOf(table, k)
    BY <1>1, <1>2, <2>1, <2>2
  <2>5. \A k \in 1 .. n : rows'[table][k] = RowOf(table, k)'
    <3>1. SUFFICES ASSUME NEW k \in 1 .. n PROVE rows'[table][k] = RowOf(table, k)'
      OBVIOUS
    <3>2. CASE k = m
      BY <2>4, <3>2
    <3>3. CASE k # m
      BY <2>3, <2>4, <3>3
    <3> QED
      BY <3>2, <3>3
  <2> QED
    BY <2>4, <2>5
<1>5. \A s \in Sides : s # table => rows'[s] = rows[s]
  BY <1>1 DEF RowsInv
<1>6. \A s \in Sides :
         /\ rows'[s] = [k \in 1 .. DoneBy(WriteLoop(s), s)' |-> RowOf(s, k)']
         /\ texts'[s] = {Text(s, k)' : k \in 1 .. DoneBy(WriteLoop(s), s)'}
  <2>1. SUFFICES ASSUME NEW s \in Sides
                 PROVE  /\ rows'[s] = [k \in 1 .. DoneBy(WriteLoop(s), s)' |-> RowOf(s, k)']
                        /\ texts'[s] = {Text(s, k)' : k \in 1 .. DoneBy(WriteLoop(s), s)'}
    OBVIOUS
  <2>2. /\ rows[s] = [k \in 1 .. DoneBy(WriteLoop(s), s) |-> RowOf(s, k)]
        /\ texts[s] = {Text(s, k) : k \in 1 .. DoneBy(WriteLoop(s), s)}
    BY <1>1 DEF RowsInv
  <2>3. DoneBy(WriteLoop(s), s)' = DoneBy(WriteLoop(s), s)
    BY <1>1, <1>3, OtherRows
  <2>4. PICK d : d = DoneBy(WriteLoop(s), s)
    OBVIOUS
  <2>5. texts'[s] = {Text(s, k) : k \in 1 .. d}
    BY <2>2, <2>4
  <2>6. {Text(s, k)' : k \in 1 .. d} = {Text(s, k) : k \in 1 .. d}
    <3>1. \A k : Text(s, k)' = Text(s, k)
      BY OtherRows
    <3> QED
      BY <3>1
  <2>7. rows'[s] = [k \in 1 .. d |-> RowOf(s, k)']
    <3>1. CASE s = table
      BY <1>1, <1>3, <1>4, <2>4, <3>1
    <3>2. CASE s # table
      <4>1. \A k : RowOf(s, k)' = RowOf(s, k)
        BY <3>2, OtherRows
      <4>2. [k \in 1 .. d |-> RowOf(s, k)'] = [k \in 1 .. d |-> RowOf(s, k)]
        BY <4>1
      <4> QED
        BY <1>5, <2>2, <2>4, <3>2, <4>2, Zenon
    <3> QED
      BY <3>1, <3>2
  <2> QED
    BY <2>3, <2>4, <2>5, <2>6, <2>7, Zenon
<1>7. rows' = [s \in Sides |-> rows'[s]] /\ texts' = [s \in Sides |-> texts'[s]]
  BY <1>1 DEF RowsInv
<1> QED
  BY <1>6, <1>7 DEF RowsInv

\* A row before the pass over it, and in the pass
LEMMA RowsWritten ==
  ASSUME TablesInv, stage \in {"names", "ptrs"}
  PROVE  /\ InputInv /\ table \in Sides /\ Len(Order(table)) \in Nat /\ j \in Nat /\ 1 <= j
         /\ j <= Len(Order(table)) + 1 /\ syms[table] = Order(table)
         /\ rows[table] = [k \in 1 .. Len(Order(table)) |-> RowOf(table, k)]
         /\ DOMAIN rows[table] = 1 .. Len(Order(table)) /\ Len(rows[table]) = Len(Order(table))
         /\ texts[table] = {Text(table, k) : k \in 1 .. Len(Order(table))}
         /\ DOMAIN rows = Sides
<1>1. InputInv /\ StageInv /\ RowsInv
  BY DEF TablesInv
<1>2. table \in Sides /\ j \in Nat /\ 1 <= j /\ j <= Len(Order(table)) + 1 /\ syms[table] = Order(table)
  BY <1>1 DEF StageInv
<1>3. PICK n \in Nat : n = Len(Order(table))
  BY <1>1, <1>2, OrderFacts
<1>4. DoneBy(WriteLoop(table), table) = n
  <2>1. \/ table = "import" /\ WriteLoop(table) = 2 /\ Now \in {8, 9}
        \/ table = "export" /\ WriteLoop(table) = 4 /\ Now \in {6, 7}
    BY <1>2 DEF Now, WriteLoop, Sides
  <2> QED
    BY <1>3, <2>1 DEF DoneBy
<1>5. rows[table] = [k \in 1 .. n |-> RowOf(table, k)] /\ DOMAIN rows = Sides
  BY <1>1, <1>2, <1>4 DEF RowsInv
<1>6. texts[table] = {Text(table, k) : k \in 1 .. n}
  BY <1>1, <1>2, <1>4 DEF RowsInv
<1>7. Len(rows[table]) = n /\ DOMAIN rows[table] = 1 .. n
  BY <1>5
<1> QED
  BY <1>1, <1>2, <1>3, <1>5, <1>6, <1>7

\* How a pass over a table changes what RowOf says of its rows
LEMMA RowsOfPass ==
  ASSUME TablesInv, LoopStep, stage \in {"names", "ptrs"}, NEW k \in 1 .. Len(Order(table))
  PROVE  /\ Order(table)' = Order(table) /\ TableAt(table)' = TableAt(table)
         /\ NameOfs(table, k)' = NameOfs(table, k)
         /\ Target(table, Order(table)[k])' = Target(table, Order(table)[k])
         /\ stage = "names" =>
              /\ k <= DoneBy(NameLoop(table), table) <=> k < j
              /\ k <= DoneBy(NameLoop(table), table)' <=> k <= j
              /\ ~ (k <= DoneBy(PtrLoop(table), table)) /\ ~ (k <= DoneBy(PtrLoop(table), table)')
         /\ stage = "ptrs" =>
              /\ k <= DoneBy(NameLoop(table), table) /\ k <= DoneBy(NameLoop(table), table)'
              /\ k <= DoneBy(PtrLoop(table), table) <=> k < j
              /\ k <= DoneBy(PtrLoop(table), table)' <=> k <= j
<1>1. table \in Sides /\ table' = table /\ Len(Order(table)) \in Nat /\ j \in Nat /\ k \in Nat /\ 1 <= k
  BY RowsWritten DEF LoopStep
<1>2. /\ Order(table)' = Order(table) /\ TableAt(table)' = TableAt(table)
      /\ NameOfs(table, k)' = NameOfs(table, k)
      /\ Target(table, Order(table)[k])' = Target(table, Order(table)[k])
  BY <1>1, Unmoved DEF LoopStep
<1>3. CASE stage = "names"
  <2>1. Now = NameLoop(table)
    BY <1>3, LoopCounts
  <2>2. /\ DoneBy(NameLoop(table), table) = j - 1 /\ DoneBy(NameLoop(table), table)' = j
        /\ DoneBy(PtrLoop(table), table) = 0 /\ DoneBy(PtrLoop(table), table)' = 0
    BY <1>1, <2>1, LoopCounts
  <2> QED
    BY <1>1, <1>2, <1>3, <2>2
<1>4. CASE stage = "ptrs"
  <2>1. Now = PtrLoop(table)
    BY <1>4, LoopCounts
  <2>2. /\ DoneBy(PtrLoop(table), table) = j - 1 /\ DoneBy(PtrLoop(table), table)' = j
        /\ DoneBy(NameLoop(table), table) = Len(Order(table))
        /\ DoneBy(NameLoop(table), table)' = Len(Order(table))
    BY <1>1, <2>1, LoopCounts
  <2> QED
    BY <1>1, <1>2, <1>4, <2>2
<1> QED
  BY <1>3, <1>4

LEMMA FixupNameStep ==
  ASSUME TablesInv, FixupName
  PROVE  TablesInv'
<1>1. stage = "names" /\ j <= Len(rows[table])
  BY DEF FixupName
<1>2. PICK m : m = j
  OBVIOUS
<1>3. /\ table \in Sides /\ Len(Order(table)) \in Nat /\ m \in 1 .. Len(Order(table))
      /\ rows[table] = [k \in 1 .. Len(Order(table)) |-> RowOf(table, k)]
      /\ DOMAIN rows = Sides
  BY <1>1, <1>2, RowsWritten
<1>4. PICK row : row = [rows[table][m] EXCEPT !.name = TableAt(table) + rows[table][m].name]
  OBVIOUS
<1>5. /\ rows' = [rows EXCEPT ![table] = [rows[table] EXCEPT ![m] = row]]
      /\ texts' = texts /\ LoopStep /\ table' = table
  BY <1>1, <1>2, <1>3, <1>4 DEF FixupName, LoopStep
<1>6. StageInv' /\ InputInv' /\ EndInv'
  BY <1>1, <1>5, StageGoesOn
<1>7. row = RowOf(table, m)'
  <2>1. /\ Order(table)' = Order(table) /\ NameOfs(table, m)' = NameOfs(table, m)
        /\ TableAt(table)' = TableAt(table)
    BY <1>1, <1>3, <1>5, RowsOfPass
  <2>2. /\ ~ (m <= DoneBy(NameLoop(table), table)) /\ m <= DoneBy(NameLoop(table), table)'
        /\ ~ (m <= DoneBy(PtrLoop(table), table)) /\ ~ (m <= DoneBy(PtrLoop(table), table)')
    <3>1. m \in Nat /\ ~ (m < m) /\ m <= m
      BY <1>3
    <3> QED
      BY <1>1, <1>2, <1>3, <1>5, <3>1, RowsOfPass
  <2>3. rows[table][m] = [name |-> NameOfs(table, m), ptr |-> Order(table)[m].addr,
                          section |-> Order(table)[m].section, weak |-> Order(table)[m].weak]
    BY <1>3, <2>2 DEF RowOf
  <2>4. RowOf(table, m)' = [name |-> TableAt(table) + NameOfs(table, m), ptr |-> Order(table)[m].addr,
                            section |-> Order(table)[m].section, weak |-> Order(table)[m].weak]
    BY <1>5, <2>1, <2>2 DEF RowOf
  <2> QED
    BY <1>4, <2>3, <2>4
<1>8. ASSUME NEW k \in 1 .. Len(Order(table)), k # m
      PROVE  RowOf(table, k)' = RowOf(table, k)
  <2>1. k <= DoneBy(NameLoop(table), table)' <=> k <= DoneBy(NameLoop(table), table)
    <3>1. k < m <=> k <= m
      BY <1>3, <1>8
    <3> QED
      BY <1>1, <1>2, <1>5, <3>1, RowsOfPass
  <2>2. /\ Order(table)' = Order(table) /\ TableAt(table)' = TableAt(table)
        /\ NameOfs(table, k)' = NameOfs(table, k)
        /\ ~ (k <= DoneBy(PtrLoop(table), table)) /\ ~ (k <= DoneBy(PtrLoop(table), table)')
    BY <1>1, <1>5, RowsOfPass
  <2> QED
    BY <1>5, <2>1, <2>2 DEF RowOf
<1>9. RowsInv'
  BY <1>1, <1>2, <1>5, <1>7, <1>8, RowChanges
<1> QED
  BY <1>6, <1>9 DEF TablesInv

\* A pass that gives row j of its table the pointer v
LEMMA PtrStep ==
  ASSUME TablesInv, LoopStep, stage = "ptrs", NEW m, m = j, NEW v,
         v = Target(table, Order(table)[m]), texts' = texts,
         rows' = [rows EXCEPT ![table] = [rows[table] EXCEPT ![m] = [rows[table][m] EXCEPT !.ptr = v]]]
  PROVE  TablesInv'
<1>1. /\ table \in Sides /\ table' = table /\ m \in 1 .. Len(Order(table))
      /\ rows[table] = [k \in 1 .. Len(Order(table)) |-> RowOf(table, k)]
  BY RowsWritten DEF LoopStep
<1>2. StageInv' /\ InputInv' /\ EndInv'
  BY StageGoesOn
<1>3. PICK row : row = [rows[table][m] EXCEPT !.ptr = v]
  OBVIOUS
<1>4. row = RowOf(table, m)'
  <2>1. /\ Order(table)' = Order(table) /\ NameOfs(table, m)' = NameOfs(table, m)
        /\ TableAt(table)' = TableAt(table) /\ Target(table, Order(table)[m])' = v
    BY <1>1, RowsOfPass
  <2>2. /\ m <= DoneBy(NameLoop(table), table) /\ m <= DoneBy(NameLoop(table), table)'
        /\ ~ (m <= DoneBy(PtrLoop(table), table)) /\ m <= DoneBy(PtrLoop(table), table)'
    <3>1. m \in Nat /\ ~ (m < m) /\ m <= m
      BY <1>1
    <3> QED
      BY <1>1, <3>1, RowsOfPass
  <2>3. rows[table][m] = [name |-> TableAt(table) + NameOfs(table, m), ptr |-> Order(table)[m].addr,
                          section |-> Order(table)[m].section, weak |-> Order(table)[m].weak]
    BY <1>1, <2>2 DEF RowOf
  <2>4. RowOf(table, m)' = [name |-> TableAt(table) + NameOfs(table, m), ptr |-> v,
                            section |-> Order(table)[m].section, weak |-> Order(table)[m].weak]
    BY <1>1, <2>1, <2>2 DEF RowOf
  <2> QED
    BY <1>3, <2>3, <2>4
<1>5. ASSUME NEW k \in 1 .. Len(Order(table)), k # m
      PROVE  RowOf(table, k)' = RowOf(table, k)
  <2>1. k <= DoneBy(PtrLoop(table), table)' <=> k <= DoneBy(PtrLoop(table), table)
    <3>1. k < m <=> k <= m
      BY <1>1, <1>5
    <3> QED
      BY <3>1, RowsOfPass
  <2>2. /\ Order(table)' = Order(table) /\ TableAt(table)' = TableAt(table)
        /\ NameOfs(table, k)' = NameOfs(table, k)
        /\ Target(table, Order(table)[k])' = Target(table, Order(table)[k])
        /\ k <= DoneBy(NameLoop(table), table) /\ k <= DoneBy(NameLoop(table), table)'
    BY RowsOfPass
  <2> QED
    BY <1>1, <2>1, <2>2 DEF RowOf
<1>6. RowsInv'
  BY <1>3, <1>4, <1>5, RowChanges
<1> QED
  BY <1>2, <1>6 DEF TablesInv

LEMMA FixupPtrStep ==
  ASSUME TablesInv, FixupPtr
  PROVE  TablesInv'
<1>1. stage = "ptrs" /\ table = "export" /\ j <= Len(rows.export)
  BY DEF FixupPtr
<1>2. PICK m, v : m = j /\ v = SectionAt(rows.export[m].section) + rows.export[m].ptr
  OBVIOUS
<1>3. /\ table \in Sides /\ m \in 1 .. Len(Order(table))
      /\ rows[table] = [k \in 1 .. Len(Order(table)) |-> RowOf(table, k)]
  BY <1>1, <1>2, RowsWritten
<1>4. /\ rows' = [rows EXCEPT ![table] = [rows[table] EXCEPT ![m] = [rows[table][m] EXCEPT !.ptr = v]]]
      /\ texts' = texts /\ LoopStep
  BY <1>1, <1>2, <1>3 DEF FixupPtr, LoopStep
<1>5. v = Target(table, Order(table)[m])
  <2>1. ~ (m <= DoneBy(PtrLoop(table), table))
    <3>1. ~ (m < m)
      BY <1>3
    <3> QED
      BY <1>1, <1>2, <1>3, <1>4, <3>1, RowsOfPass
  <2>2. /\ rows[table][m].ptr = Order(table)[m].addr
        /\ rows[table][m].section = Order(table)[m].section
    BY <1>3, <2>1 DEF RowOf
  <2> QED
    BY <1>1, <1>2, <2>2 DEF Target, AddressOf
<1> QED
  BY <1>1, <1>2, <1>4, <1>5, PtrStep

\* The tables are at addresses.
LEMMA TablesAt ==
  ASSUME TypeOK
  PROVE  \A s \in Sides : TableAt(s) \in Nat
<1>1. base \in Nat /\ ImportOfs \in Nat /\ ExportOfs \in Nat
  BY TypeFacts, HeadFacts
<1> QED
  BY <1>1 DEF TableAt

LEMMA BindImportStep ==
  ASSUME TypeOK, TablesInv, BindImport
  PROVE  TablesInv'
<1>1. stage = "ptrs" /\ table = "import" /\ j <= Len(rows.import)
  BY DEF BindImport
<1>2. PICK m, v : m = j /\ v = Provided[NameAt("import", rows.import[m].name)]
  OBVIOUS
<1>3. /\ table \in Sides /\ m \in 1 .. Len(Order(table)) /\ InputInv
      /\ rows[table] = [k \in 1 .. Len(Order(table)) |-> RowOf(table, k)]
      /\ DOMAIN rows[table] = 1 .. Len(Order(table))
      /\ texts[table] = {Text(table, k) : k \in 1 .. Len(Order(table))}
  BY <1>1, <1>2, RowsWritten
<1>4. /\ rows' = [rows EXCEPT ![table] = [rows[table] EXCEPT ![m] = [rows[table][m] EXCEPT !.ptr = v]]]
      /\ texts' = texts /\ LoopStep
  BY <1>1, <1>2, <1>3 DEF BindImport, LoopStep
<1>5. v = Target(table, Order(table)[m])
  <2>1. m <= DoneBy(NameLoop(table), table)
    BY <1>1, <1>3, <1>4, RowsOfPass
  <2>2. rows[table][m].name = TableAt(table) + NameOfs(table, m)
    BY <1>3, <2>1 DEF RowOf
  <2>3. NameAt(table, rows[table][m].name) = Order(table)[m].name
    BY <1>3, <2>2, TablesAt, NameRead
  <2> QED
    BY <1>1, <1>2, <2>3 DEF Target
<1> QED
  BY <1>1, <1>2, <1>4, <1>5, PtrStep

LEMMA EndStep ==
  ASSUME TablesInv, EndLoop
  PROVE  TablesInv'
<1>1. InputInv /\ StageInv /\ RowsInv
  BY DEF TablesInv
<1>2. /\ stage \in {"write", "names", "ptrs"} /\ j > Len(syms[table])
      /\ stage' = NextStage[1] /\ table' = NextStage[2] /\ j' = 1
      /\ UNCHANGED <<vars, collected, syms, importMap, rows, texts>>
  BY DEF EndLoop
<1>3. table \in Sides /\ j \in Nat /\ j <= Len(Order(table)) + 1 /\ syms[table] = Order(table)
  BY <1>1, <1>2 DEF StageInv
<1>4. /\ \A s \in Sides : Order(s)' = Order(s) /\ Len(Order(s)) \in Nat
      /\ InputInv'
  BY <1>1, <1>2, Unmoved, OrderFacts
<1>5. j - 1 = Len(Order(table))
  BY <1>2, <1>3, <1>4
<1>6. \/ /\ stage = "write" /\ table = "import" /\ stage' = "table" /\ table' = "export"
         /\ Now = 2 /\ Now' = 3
      \/ /\ stage = "write" /\ table = "export" /\ stage' = "image" /\ table' = "export"
         /\ Now = 4 /\ Now' = 5
      \/ /\ stage = "names" /\ table = "export" /\ stage' = "ptrs" /\ table' = "export"
         /\ Now = 6 /\ Now' = 7
      \/ /\ stage = "ptrs" /\ table = "export" /\ stage' = "names" /\ table' = "import"
         /\ Now = 7 /\ Now' = 8
      \/ /\ stage = "names" /\ table = "import" /\ stage' = "ptrs" /\ table' = "import"
         /\ Now = 8 /\ Now' = 9
      \/ /\ stage = "ptrs" /\ table = "import"
         /\ stage' = (IF Unresolved THEN "failed" ELSE "linked") /\ table' = "import"
         /\ Now = 9 /\ Now' = 10
  <2>1. CASE stage = "write"
    BY <1>2, <1>3, <2>1 DEF NextStage, Now, Sides
  <2>2. CASE stage = "names"
    BY <1>2, <1>3, <2>2 DEF NextStage, Now, Sides
  <2>3. CASE stage = "ptrs" /\ table = "export"
    BY <1>2, <2>3 DEF NextStage, Now
  <2>4. CASE stage = "ptrs" /\ table = "import"
    <3>1. NextStage = <<IF Unresolved THEN "failed" ELSE "linked", "import">>
      BY <2>4 DEF NextStage
    <3>2. stage' = (IF Unresolved THEN "failed" ELSE "linked") /\ table' = "import"
      BY <1>2, <3>1
    <3> QED
      BY <2>4, <3>2 DEF Now
  <2> QED
    BY <1>2, <1>3, <2>1, <2>2, <2>3, <2>4 DEF Sides
<1>7. \A s \in Sides : \A loop \in {WriteLoop(s), NameLoop(s), PtrLoop(s)} :
        DoneBy(loop, s)' = DoneBy(loop, s)
  <2>1. SUFFICES ASSUME NEW s \in Sides, NEW loop \in {WriteLoop(s), NameLoop(s), PtrLoop(s)}
                 PROVE  DoneBy(loop, s)' = DoneBy(loop, s)
    OBVIOUS
  <2>2. PICK now \in Nat : now = Now /\ Now' = now + 1
    BY <1>6
  <2>3. loop \in Nat /\ (loop = now => s = table)
    BY <1>6, <2>1, <2>2 DEF WriteLoop, NameLoop, PtrLoop, Sides
  <2>4. DoneBy(loop, s) = IF Now < loop THEN 0 ELSE IF Now = loop THEN j - 1 ELSE Len(Order(s))
    BY DEF DoneBy
  <2>5. DoneBy(loop, s)' =
          IF Now' < loop THEN 0 ELSE IF Now' = loop THEN 0 ELSE Len(Order(s))
    BY <1>2, <1>4 DEF DoneBy
  <2>6. now < loop \/ loop = now \/ loop < now
    BY <2>2, <2>3
  <2>7. CASE now < loop
    BY <2>2, <2>4, <2>5, <2>3, <2>7
  <2>8. CASE loop = now
    BY <1>5, <2>2, <2>4, <2>5, <2>3, <2>8
  <2>9. CASE loop < now
    BY <2>2, <2>4, <2>5, <2>3, <2>9
  <2> QED
    BY <2>6, <2>7, <2>8, <2>9
<1>8. RowsInv'
  BY <1>1, <1>2, <1>7, RowsStay
<1>9. StageInv'
  <2>1. Numbered(Order("import"))' = Numbered(Order("import"))
    BY <1>2, <1>4 DEF Numbered, Sides
  <2>2. syms' = [s \in Sides |-> Order(s)'] /\ importMap' = Numbered(Order("import"))'
    BY <1>1, <1>2, <1>4, <2>1 DEF StageInv
  <2>3. table' \in Sides /\ j' \in Nat /\ stage' # "sort" /\ stage' # "write"
        /\ (stage' = "image" => table' = "export" /\ j' = 1)
        /\ stage' \in {"table", "image", "names", "ptrs", "linked", "failed"}
    BY <1>2, <1>6 DEF Sides
  <2>4. 1 <= j' /\ \A s \in Sides : j' <= Len(Order(s)') + 1
    BY <1>2, <1>4
  <2> QED
    BY <2>2, <2>3, <2>4 DEF StageInv
<1>10. EndInv'
  <2>1. Unresolved' = Unresolved
    BY <1>2 DEF Unresolved
  <2> QED
    BY <1>6, <2>1 DEF EndInv
<1> QED
  BY <1>4, <1>8, <1>9, <1>10 DEF TablesInv

LEMMA ImageStep ==
  ASSUME TablesInv, LayOutAndLoad
  PROVE  TablesInv'
<1>1. InputInv /\ StageInv /\ RowsInv
  BY DEF TablesInv
<1>2. /\ stage = "image" /\ stage' \in {"image", "names"} /\ Next
      /\ UNCHANGED <<collected, syms, importMap, rows, texts, nameOfs, table, j>>
  BY DEF LayOutAndLoad
<1>3. table = "export" /\ j = 1
  BY <1>1, <1>2 DEF StageInv
<1>4. head' = head
  BY <1>2 DEF Next, PlaceSection, WriteSection, SumSection, NextLoop, WriteLoadInfo, Allocate,
     FixupSection
<1>5. /\ InputInv'
      /\ \A s \in Sides : /\ Order(s)' = Order(s) /\ Len(Order(s)) \in Nat
                          /\ \A k : NameOfs(s, k)' = NameOfs(s, k) /\ Text(s, k)' = Text(s, k)
  <2>1. \A s \in Sides : Order(s)' = Order(s)
    BY <1>2 DEF Order
  <2> QED
    BY <1>1, <1>2, <1>4, <2>1, OrderFacts DEF InputInv, NameOfs, Text
<1>6. StageInv'
  <2>1. Numbered(Order("import"))' = Numbered(Order("import"))
    BY <1>2, <1>5 DEF Numbered, Sides
  <2>2. syms' = [s \in Sides |-> Order(s)'] /\ importMap' = Numbered(Order("import"))'
    BY <1>1, <1>2, <1>5, <2>1 DEF StageInv
  <2>3. table' = "export" /\ table' \in Sides /\ j' = 1 /\ Len(Order(table)') \in Nat
    BY <1>2, <1>3, <1>5 DEF Sides
  <2> QED
    BY <1>2, <2>2, <2>3 DEF StageInv
<1>7. Now = 5 /\ Now' \in {5, 6} /\ (Now' = 6 => j' - 1 = 0)
  BY <1>2, <1>3 DEF Now
<1>8. ASSUME NEW s \in Sides
      PROVE  /\ DoneBy(WriteLoop(s), s) = Len(Order(s)) /\ DoneBy(WriteLoop(s), s)' = Len(Order(s))
             /\ DoneBy(NameLoop(s), s) = 0 /\ DoneBy(NameLoop(s), s)' = 0
             /\ DoneBy(PtrLoop(s), s) = 0 /\ DoneBy(PtrLoop(s), s)' = 0
  BY <1>5, <1>7 DEF DoneBy, WriteLoop, NameLoop, PtrLoop, Sides
<1>9. ASSUME NEW s \in Sides
      PROVE  /\ [k \in 1 .. Len(Order(s)) |-> RowOf(s, k)'] = [k \in 1 .. Len(Order(s)) |-> RowOf(s, k)]
             /\ {Text(s, k)' : k \in 1 .. Len(Order(s))} = {Text(s, k) : k \in 1 .. Len(Order(s))}
  <2>1. ASSUME NEW k \in 1 .. Len(Order(s))
        PROVE  RowOf(s, k)' = RowOf(s, k)
    <3>1. ~ (k <= 0) /\ Order(s)' = Order(s) /\ NameOfs(s, k)' = NameOfs(s, k)
      BY <1>5
    <3> QED
      BY <1>8, <3>1 DEF RowOf
  <2>2. \A k : Text(s, k)' = Text(s, k)
    BY <1>5
  <2> QED
    BY <2>1, <2>2
<1>10. RowsInv'
  <2>1. \A s \in Sides :
          /\ rows'[s] = [k \in 1 .. DoneBy(WriteLoop(s), s)' |-> RowOf(s, k)']
          /\ texts'[s] = {Text(s, k)' : k \in 1 .. DoneBy(WriteLoop(s), s)'}
    <3>1. SUFFICES ASSUME NEW s \in Sides
                   PROVE  /\ rows'[s] = [k \in 1 .. DoneBy(WriteLoop(s), s)' |-> RowOf(s, k)']
                          /\ texts'[s] = {Text(s, k)' : k \in 1 .. DoneBy(WriteLoop(s), s)'}
      OBVIOUS
    <3>2. /\ rows'[s] = [k \in 1 .. DoneBy(WriteLoop(s), s) |-> RowOf(s, k)]
          /\ texts'[s] = {Text(s, k) : k \in 1 .. DoneBy(WriteLoop(s), s)}
      BY <1>1, <1>2 DEF RowsInv
    <3>3. /\ DoneBy(WriteLoop(s), s) = Len(Order(s))
          /\ DoneBy(WriteLoop(s), s)' = Len(Order(s))
      BY <1>8
    <3> QED
      BY <1>9, <3>2, <3>3, Zenon
  <2>2. rows' = [s \in Sides |-> rows'[s]] /\ texts' = [s \in Sides |-> texts'[s]]
    BY <1>1, <1>2 DEF RowsInv
  <2> QED
    BY <2>1, <2>2 DEF RowsInv
<1>11. EndInv'
  BY <1>2 DEF EndInv
<1> QED
  BY <1>5, <1>6, <1>10, <1>11 DEF TablesInv

LEMMA TablesStay ==
  ASSUME TablesInv, UNCHANGED <<vars, tableVars>>
  PROVE  TablesInv'
<1>1. UNCHANGED <<vars, collected, syms, importMap, rows, texts, nameOfs, stage, table, j>>
  BY DEF tableVars
<1>2. InputInv /\ StageInv /\ RowsInv /\ EndInv
  BY DEF TablesInv
<1>3. \A s \in Sides : Order(s)' = Order(s) /\ \A k : NameOfs(s, k)' = NameOfs(s, k)
  BY <1>1, Unmoved
<1>4. InputInv' /\ EndInv'
  BY <1>1, <1>2, Unmoved DEF EndInv, Unresolved
<1>5. StageInv'
  <2>1. Numbered(Order("import"))' = Numbered(Order("import"))
    BY <1>1, <1>3 DEF Numbered, Sides
  <2>2. table \in Sides => NameOfs(table, j)' = NameOfs(table, j) /\ Order(table)' = Order(table)
    BY <1>1, <1>3 DEF NameOfs
  <2> QED
    BY <1>1, <1>2, <1>3, <2>1, <2>2 DEF StageInv
<1>6. RowsInv'
  <2>1. Now' = Now
    BY <1>1 DEF Now
  <2>2. \A s \in Sides : \A loop \in {WriteLoop(s), NameLoop(s), PtrLoop(s)} :
          DoneBy(loop, s)' = DoneBy(loop, s)
    BY <1>1, <1>3, <2>1 DEF DoneBy
  <2> QED
    BY <1>1, <1>2, <2>2, RowsStay
<1> QED
  BY <1>4, <1>5, <1>6 DEF TablesInv

LEMMA TablesHold == TablesSpec => []TablesInv
<1>1. TypeOK /\ TablesInv /\ [TablesNext]_<<vars, tableVars>> => TablesInv'
  BY SortStep, StartStep, WriteSymbolStep, ImageStep, FixupNameStep, FixupPtrStep, BindImportStep,
     EndStep, TablesStay DEF TablesNext
<1>2. ImageInv => TypeOK
  BY DEF ImageInv
<1> QED
  BY <1>1, <1>2, TablesStart, ImageHolds, PTL DEF TablesSpec

-----------------------------------------------------------------------------
(* What follows from it. *)

\* The tables as they are when the loader is done with them
LEMMA TablesLoaded ==
  ASSUME TypeOK, TablesInv, stage \in {"linked", "failed"}, NEW s \in Sides
  PROVE  /\ Len(rows[s]) = Len(Order(s)) /\ Len(rows[s]) \in Nat /\ DOMAIN rows[s] = 1 .. Len(rows[s])
         /\ \A k \in 1 .. Len(rows[s]) :
              /\ NameOf(s, k) = Order(s)[k].name
              /\ rows[s][k].ptr = Target(s, Order(s)[k])
              /\ rows[s][k].weak = Order(s)[k].weak
<1>1. InputInv /\ RowsInv
  BY DEF TablesInv
<1>2. PICK n \in Nat : n = Len(Order(s))
  BY <1>1, OrderFacts
<1>3. /\ DoneBy(WriteLoop(s), s) = n /\ DoneBy(NameLoop(s), s) = n /\ DoneBy(PtrLoop(s), s) = n
  <2>1. Now = 10
    BY DEF Now
  <2> QED
    BY <1>2, <2>1 DEF DoneBy, WriteLoop, NameLoop, PtrLoop, Sides
<1>4. /\ rows[s] = [k \in 1 .. n |-> RowOf(s, k)] /\ texts[s] = {Text(s, k) : k \in 1 .. n}
      /\ DOMAIN rows[s] = 1 .. n /\ Len(rows[s]) = n
  BY <1>1, <1>3 DEF RowsInv
<1>5. ASSUME NEW k \in 1 .. n
      PROVE  /\ NameOf(s, k) = Order(s)[k].name
             /\ rows[s][k].ptr = Target(s, Order(s)[k])
             /\ rows[s][k].weak = Order(s)[k].weak
  <2>1. rows[s][k] = [name |-> TableAt(s) + NameOfs(s, k), ptr |-> Target(s, Order(s)[k]),
                      section |-> Order(s)[k].section, weak |-> Order(s)[k].weak]
    BY <1>2, <1>3, <1>4 DEF RowOf
  <2>2. NameAt(s, TableAt(s) + NameOfs(s, k)) = Order(s)[k].name
    BY <1>1, <1>2, <1>4, NameRead, TablesAt
  <2> QED
    BY <2>1, <2>2 DEF NameOf
<1> QED
  BY <1>2, <1>4, <1>5

\* A search of a loaded table finds each name the ELF exports at its address, each name
\* it imports at what it was bound to, and no other name, for all symbols that an ELF
\* can have and wherever the file lies in memory (elf2uso.cpp:135-146, 238-246, 491-523,
\* uso.c:108-123, 145-212).
THEOREM SearchReachesSymbols == TablesSpec => []SymbolsFound
<1>1. ASSUME TypeOK, TablesInv, stage \in {"linked", "failed"}, NEW n \in SymNames, NEW s \in Sides
      PROVE  /\ \A c \in Entries(s) : c.name = n => SearchTable(s, n) = Target(s, c)
             /\ (\A c \in Entries(s) : c.name # n) => SearchTable(s, n) = 0
  <2>1. PICK N \in Nat : N = Len(rows[s]) /\ N = Len(Order(s))
    BY <1>1, TablesLoaded
  <2>2. InputInv
    BY <1>1 DEF TablesInv
  <2>3. \A k \in 1 .. N : NameOf(s, k) = Order(s)[k].name /\ rows[s][k].ptr = Target(s, Order(s)[k])
    BY <1>1, <2>1, TablesLoaded
  <2>4. /\ \A k \in 1 .. N : NameOf(s, k) \in SymNames
        /\ \A k, l \in 1 .. N : k < l => Rank[NameOf(s, k)] < Rank[NameOf(s, l)]
    <3>1. \A k, l \in 1 .. N : k < l => Rank[Order(s)[k].name] < Rank[Order(s)[l].name]
      BY <2>1, <2>2, OrderFacts
    <3>2. \A k \in 1 .. N : Order(s)[k].name \in SymNames
      BY <2>1, <2>2, OrderFacts
    <3> QED
      BY <2>3, <3>1, <3>2
  <2>5. /\ \A k \in 1 .. N : NameOf(s, k) = n => BinarySearch(s, n) = k
        /\ (\A k \in 1 .. N : NameOf(s, k) # n) => BinarySearch(s, n) = 0
    BY <2>1, <2>4, SearchFinds
  <2>6. ASSUME NEW c \in Entries(s), c.name = n
        PROVE  SearchTable(s, n) = Target(s, c)
    <3>1. PICK k \in 1 .. N : c = Order(s)[k]
      BY <2>1, <2>2, OrderFacts
    <3>2. BinarySearch(s, n) = k /\ k # 0
      BY <2>3, <2>5, <2>6, <3>1
    <3> QED
      BY <2>3, <3>1, <3>2 DEF SearchTable
  <2>7. ASSUME \A c \in Entries(s) : c.name # n
        PROVE  SearchTable(s, n) = 0
    <3>1. \A k \in 1 .. N : Order(s)[k] \in Entries(s)
      BY <2>1, <2>2, OrderFacts
    <3>2. BinarySearch(s, n) = 0
      BY <2>3, <2>5, <2>7, <3>1
    <3> QED
      BY <3>2 DEF SearchTable
  <2> QED
    BY <2>6, <2>7
<1>2. TypeOK /\ TablesInv => SymbolsFound
  <2> SUFFICES ASSUME TypeOK, TablesInv, stage \in {"linked", "failed"}, NEW n \in SymNames
               PROVE  /\ SearchTable("export", n) =
                           (IF \E c \in Entries("export") : c.name = n
                            THEN AddressOf(CHOOSE c \in Entries("export") : c.name = n) ELSE 0)
                      /\ SearchTable("import", n) =
                           (IF \E c \in Entries("import") : c.name = n THEN Provided[n] ELSE 0)
    BY DEF SymbolsFound, SymNames
  <2>1. /\ "export" \in Sides /\ "import" \in Sides
        /\ \A c : Target("export", c) = AddressOf(c)
        /\ \A c : Target("import", c) = Provided[c.name]
    BY DEF Sides, Target
  <2>2. /\ \A c \in Entries("export") : c.name = n => SearchTable("export", n) = AddressOf(c)
        /\ (\A c \in Entries("export") : c.name # n) => SearchTable("export", n) = 0
    BY <1>1, <2>1
  <2>3. /\ \A c \in Entries("import") : c.name = n => SearchTable("import", n) = Provided[n]
        /\ (\A c \in Entries("import") : c.name # n) => SearchTable("import", n) = 0
    BY <1>1, <2>1
  <2>4. (\E c \in Entries("export") : c.name = n) =>
          /\ (CHOOSE c \in Entries("export") : c.name = n) \in Entries("export")
          /\ (CHOOSE c \in Entries("export") : c.name = n).name = n
    BY Zenon
  <2> QED
    BY <2>2, <2>3, <2>4
<1>3. ImageInv => TypeOK
  BY DEF ImageInv
<1> QED
  BY <1>2, <1>3, ImageHolds, TablesHold, PTL

\* The number that reloc_build writes for an undefined symbol of the ELF is that of the
\* import with its name, and an open fails exactly if a name is missing that is not
\* weak, for all symbols that an ELF can have (elf2uso.cpp:230-235, 313-318,
\* uso.c:191-212, 240-242).
THEOREM RelocationsGetSymbols == TablesSpec => []ImportsArrive
<1>1. TypeOK /\ TablesInv => ImportsArrive
  <2> SUFFICES ASSUME TypeOK, TablesInv, stage \in {"linked", "failed"}
               PROVE  /\ \A c \in Entries("import") : SymAddr(c.src) = Provided[c.name]
                      /\ stage = "failed" <=>
                           \E c \in Entries("import") : ~ c.weak /\ Provided[c.name] = 0
    BY DEF ImportsArrive
  <2> DEFINE t == Order("import")
  <2>1. "import" \in Sides /\ \A c : Target("import", c) = Provided[c.name]
    BY DEF Sides, Target
  <2>2. InputInv /\ importMap = Numbered(t) /\ (stage = "failed" <=> Unresolved)
    BY DEF TablesInv, StageInv, EndInv
  <2>3. PICK N \in Nat : N = Len(rows.import) /\ N = Len(t)
    BY <2>1, TablesLoaded
  <2>4. /\ DOMAIN rows.import = 1 .. N
        /\ \A k \in 1 .. N : /\ rows.import[k].ptr = Provided[t[k].name]
                             /\ rows.import[k].weak = t[k].weak
    BY <2>1, <2>3, TablesLoaded
  <2>5. /\ DOMAIN t = 1 .. N
        /\ \A k, l \in 1 .. N : t[k].src = t[l].src => k = l
        /\ \A k \in 1 .. N : t[k] \in Entries("import")
        /\ \A c \in Entries("import") : \E k \in 1 .. N : c = t[k]
    BY <2>1, <2>2, <2>3, OrderFacts
  <2> HIDE DEF t
  <2>6. ASSUME NEW c \in Entries("import")
        PROVE  SymAddr(c.src) = Provided[c.name]
    <3>1. PICK k \in 1 .. N : c = t[k]
      BY <2>5
    <3>2. importMap[c.src] = CHOOSE l \in DOMAIN t : t[l].src = c.src
      <4>1. c.src \in {t[l].src : l \in DOMAIN t}
        BY <2>5, <3>1
      <4> QED
        BY <2>2, <4>1 DEF Numbered
    <3>3. importMap[c.src] \in 1 .. N /\ t[importMap[c.src]].src = c.src
      BY <2>5, <3>1, <3>2
    <3>4. importMap[c.src] = k
      BY <2>5, <3>1, <3>3
    <3> QED
      BY <2>4, <3>1, <3>4 DEF SymAddr
  <2>7. Unresolved <=> \E k \in 1 .. N : ~ t[k].weak /\ Provided[t[k].name] = 0
    BY <2>4 DEF Unresolved
  <2>8. Unresolved <=> \E c \in Entries("import") : ~ c.weak /\ Provided[c.name] = 0
    BY <2>5, <2>7
  <2> QED
    BY <2>2, <2>6, <2>8
<1>2. ImageInv => TypeOK
  BY DEF ImageInv
<1> QED
  BY <1>1, <1>2, ImageHolds, TablesHold, PTL

=============================================================================

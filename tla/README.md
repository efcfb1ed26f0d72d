# Dragon USO: a verification project

This directory models the shared-object loader of this repository in TLA+: the
runtime that loads, links, counts and unloads shared objects (USOs) on the
console, and the host tools and build rules that make them. TLC checks the models
on small instances, TLAPS proves the central properties for every value of the
constants. `PROJECT.json` lists the runs, the source lines of each definition, the
hazards, the findings and the theorems.

## 1. The system

| Component | State | Operations | Talks to |
|---|---|---|---|
| USO runtime (`src/src/uso.c`, `uso.h`, `uso_internal.h`) | the list of handles, each with name, reference count and image; the global symbol table; `__uso_initted`; libgcc's registered exception frames | `uso_init`, `uso_open`, `uso_sym`, `uso_close`, `uso_get_handle`, `uso_get_handle_ptr`, `uso_is_handle_valid` | calls constructors, `_prolog`, `_epilog` and destructors of the images, which may call it again |
| Relocation and fix-up (same files) | the words and pointers of one image | `fixup_uso`, `apply_uso_relocs`, `link_uso`, `flush_uso` | called by `uso_open`; reads what elf2uso wrote |
| elf2uso (`src/tools/elf2uso.cpp`) | symbol and section tables of one ELF | `sym_collect`, `section_collect`, `reloc_build`, `uso_write` | writes the file format that `uso_open` reads |
| make_uso_externs, make_global_syms (`src/tools`) | the tables of all USOs; the symbols of the main program | write the extern list and the global symbol file | between elf2uso, the linker and `uso_init` |
| Build rules (`src/Makefile`, `src/uso.ld`) | the files of a build and their ages | one rule per file | run the tools |
| Demonstration (`main.cpp`, `module1.cpp`, `module2.cpp`, `counter.*`) | two handles and two function pointers | the main loop | a client of the runtime |
| ELFIO (`src/tools/elfio`) | sections and segments of a file, with their contents; symbol, string, hash and relocation tables in them | `load`, `save`, `validate`; accessors that add, look up and reorder | vendored; the three tools load ELF files with it |

There is one thread, no interrupt that touches this state, and nothing survives a
reset. The hard behaviours come from elsewhere:

* **Re-entrance.** `uso_open` and `uso_close` call user code half way through, and
  user code opens and closes USOs. `uso_close` decides to unload *before* it calls
  the epilog and the destructors and frees the image *after* them (`uso.c:597-605`).
* **Dangling bindings.** An import is bound once, at load time, to whichever USO
  was first on the list. Nothing records the dependency: `is_uso_closeable` finds it
  again by name on each close.
* **Refused closes and retries.** A close of a USO that others use drops the
  reference and leaves the USO loaded; only another close of the same handle
  unloads it.
* **Arithmetic on halves of words.** A HI16 relocation must foresee the carry that
  its LO16 causes, from a LO16 that is relocated later, possibly shared.
* **Two passes that must agree.** elf2uso computes where things go and then writes
  them; the loader computes sizes from fields that elf2uso computed by another
  rule.
* **A library that reads what a linker may not have finished.** ELFIO goes on when a
  section cannot be read; what refuses a file that was cut short is the state of the
  stream and what the tools look for.
* **Files of different ages.** Four programs must agree on who defines which name,
  and sources change between their runs.

What makes each component correct:

* runtime: no binding, callback or held handle ever refers to freed memory; counts
  are exact; names resolve consistently; what is unused is eventually unloaded;
* relocation: every reference reaches its symbol, nothing else changes;
* image layout: no part of the file overlaps another, sections are aligned and
  inside the allocation, and a search of a loaded table finds what the ELF had;
* ELFIO: parts of a file are apart and at the places its headers say, damaged files
  are refused, tables stay consistent while they grow and are reordered;
* build: a finished build is consistent and its USOs find what the program defines.

## 2. The modules

| Module | Models |
|---|---|
| `UsoLoader` | the abstract specification: what `uso.h` promises, without handles, list or callbacks |
| `UsoRuntime` | `uso.c`, its list, counts, bindings, callbacks; refines `UsoLoader` |
| `UsoReloc` | `reloc_build`, `link_uso`, `apply_uso_relocs` |
| `UsoImage` | `uso_write` and its helpers; `uso_open`'s allocation, `fixup_section_table` |
| `UsoTables` | `sym_sort`, `uso_write_symbol_table`; `fixup_uso`, `search_symbol_table`; with `UsoImage` between |
| `ElfSymbols` | the accessors of strings, symbols, hash sections and relocations |
| `ElfFile` | `elfio::save` with its layout, `elfio::load` with its checks, `elf_valid` of the tools |
| `ElfObject` | the two together: tables kept in the sections of a file |
| `UsoBuild` | `sym_collect` of elf2uso, make_uso_externs, make_global_syms, the Makefile |
| `UsoLemmas` | lemmas on `div`, `%`, least elements, recursive functions and walks along a list |
| `UsoRuntimeProofs`, `UsoRelocProofs`, `UsoImageProofs`, `UsoBuildProofs`, `ElfProofs`, `ElfMapProofs`, `ElfAgainProofs` | theorems |
| `MCUsoRuntime`, `MCUsoReloc`, `MCUsoImage`, `MCUsoBuild`, `MCElf` | instances for TLC |

Each module has operators whose comment begins with "Fault:". They are not part of
the specification: each is what the definition after it would be with a plausible
bug, and exists to show that the properties would notice.

### UsoRuntime

`list` is the linked list in the order of its `next` fields, `file`, `ref` and
`bind` the fields of the handles and of their import tables. A handle is an address;
`malloc` may choose any that is free, so addresses are reused, and `uso_open`, which
tests none of its allocations, writes through a null pointer when there is none
(`OpenOutOfMemory`). The
binding of an import is the USO it points into, `Global` for the main program, or
`NULL`. `ptr` is the program's handle variables.

The user code in progress is `stack`: one frame for each `uso_open` or `uso_close`
that waits for a callback. What those two functions do between callbacks is one
action: `OpenAgain`, `OpenFails`, `OpenLoads` up to the first constructor,
`CtorsReturn`, `PrologReturns`; `CloseVar` and `CloseByName` up to the epilog,
`EpilogReturns`, `DtorsReturn`. While a frame is on the stack any call may be made.
A list of constructors is one phase: the code reads nothing between two of them but
the image, and `TouchFreed` is that read after the image was freed. `opened` and `owns`
are history: which variables must still be closed, and for which file.

`Contract` says what the program observes. The header does not state it; the
properties fail without it:

| Clause | Meaning |
|---|---|
| `init` | `uso_init` is called before any open, and once |
| `valid` | handles that `uso_is_handle_valid` rejects are not closed |
| `balanced` | a variable is closed once for each open, or when the count is zero already: the retry in `main.cpp:36-43` |
| `not_on_stack` | a callback does not drop the last reference to a USO whose callback is in progress |
| `memory` | there is memory for what is opened |
| `not_ending` | a callback does not open a USO that is being closed, nor one that would import from it |

### UsoReloc

A program is the sequence of its relocated words in table order, with words of
`Half * Half` values, a parameter: 2^32 in the code. `Assembled` is what the
assembler guarantees of a table and `InPlace` the word it emits (external: GNU as).
`ApplyReloc` is one iteration of the loop, `NextTable` the change from internal to
external relocations. An unknown type stops the program (`InvalidType`).

### UsoImage

A part of the file is the range of bytes it occupies. elf2uso passes over the sections
three times: `PlaceSection` (`uso_get_reloc_ofs`), `WriteSection` (`uso_write_sections`)
and `SumSection` (`uso_get_noload_size`), each one iteration, then `WriteLoadInfo`.
`Allocate` and `FixupSection` are the loader; `NextLoop` goes from one loop to the next.
The functions of the first and the third pass return a local variable; `ends` and `sums`
keep its value after each section. The dummy section 0 has neither data nor size and is
left out of `sections` (its entry counts in the table's size).

### UsoTables

The two symbol tables of a USO, from the order of the ELF (`collected`) to memory. In
elf2uso: `SortSymbols` (with the numbers that relocations will carry), `StartTable`,
`WriteSymbol`; then the actions of `UsoImage` lay out the file and load its sections;
then `FixupName`, `FixupPtr` and `BindImport`, each one iteration of its loop. A name is
a part of the file, as in `UsoImage`, and is read whole or not at all. `Rank` is the
order of strings, in which `std::string` and `strcmp` agree. `bsearch` is external; what
other USOs and the main program provide is `Provided`.

### ElfSymbols, ElfFile, ElfObject

`ElfSymbols` has the table operations: one action per call, except that
`arrange_local_symbols` is one action per exchange. A symbol's `value` tells it apart,
and an entry of a relocation table records which symbol it was made for (`means`). The
hash sections are written by a linker (external), for the table as it is then.

`ElfFile` has a phase for each loop of `save` and `load`. `OrderSegment` is one round of
`get_ordered_segments`, `StartSegment` and `FinishSegment` the two halves of
`layout_segments_and_their_sections`; between them `PlaceNull`, `PlaceFixed`, `PlaceNew`
and `CountGenerated` are the cases of `write_segment_data`, and `SaveAborts` its error.
That error is a comparison of numbers without a sign (`Below`): where the segment puts
the address of a section (`Requested`) and where the file is (`Passed`), both from the
start of the segment. An address below the segment's is a very large number, passes the
test, and the section is placed before the position, over what is there, though the
comment at `elfio.hpp:887` means to abort. The model goes on as the code does and notes
it in `back`; `GoesBack` says for which sections it can happen, and what is said of a
written file is said of one where it did not. A file of such a save is not read again
(`Readable`, a bound).
`PlaceLoose` is an iteration of `layout_sections_without_segments`. Loading is
`LoadSection`, `NameSections`, `LoadSegment`; `good` is the state of the stream, which
stays failed after the first read past the end. Sizes are in words of a header, so that
a header may be read in part (`HeaderRead`). A file that another program made may be
cut at any length (`Truncate`).

`AppendData` is `append_data` on a section that was made or loaded, whether its data was
read or not. `data_size` grows before the memory is asked for, so when there is none the
capacity is too large from then on (`NotGrown`), and the next data goes behind the memory;
a loaded section whose data was not read has a size and no memory to copy from. Both are
`Overruns` and end in `crashed`, of which nothing more is said. After an append to a
loaded file the phase is `amended`: it can be saved.

`ElfObject` keeps the tables in the contents of `.symtab`, `.strtab` and `.rel.text`:
every step of an accessor appends to them what it writes (`UseTables`).

The three tools only load files and look at them; `save` is in the library, and is
modelled as what makes files of a known shape, which loading must reproduce.

Behaviours of ELFIO that the models show and the properties leave out, because no
document of the repository says otherwise: a section without bytes in the middle of a
segment makes the segment's size in the file too short (`BssLast`); two such sections
that are placed anew get one address; segments that overlap and are not nested are
miscounted (`Nested`); `validate` passes over relocation sections, whose type shares a
bit with `SHT_NOBITS`; a truncated file whose names do not come last, and which has no
segments, is accepted with sections missing (`AcceptedIsWhole` says when not).

### UsoBuild

The sources are the ELF of each USO and what the program defines, always or on
request. `stale` is the set of targets older than a prerequisite; an action for each
rule makes its target and turns those made from it stale, and the sources may be
edited between any two rules. A tool that rejects its input changes nothing. The
linker and make themselves are external.

## 3. Runs

| Run | Shows | Instance |
|---|---|---|
| `Runtime` | types; `LoadedOnce`, `ImportsPointEarlier`, `OneDefinition`, `RefCountExact`, `OwnedStaysLoaded`, `CallbackCodeLives`, `EndingStaysUnused`, `NothingOrphaned`, `NeverHalts`, `UnloadsOnlyUnused`; the runtime implements `UsoLoader` | 4 USOs, 2 variables, nesting 2, whole contract |
| `RuntimeAnyProgram` | `LoadedOnce` and `ShutdownCompletes` for a program that keeps no clause | 3 USOs, two of which export what the other imports, 2 handles, 2 variables, nesting 3 |
| `Leftover`, `BareClose`, `Reopen` | findings 1 to 3 below | 2 USOs |
| `Reloc` | `ReachesSymbol`, `KeepsOpcode` | words of 6 bits, two references |
| `RelocSign` | finding 4 | same, other addends |
| `Image` | `FilePartsDisjoint`, `TablesAligned`, `SectionsAligned`, `InsideAllocation`; `SymbolsFound`, `ImportsArrive` | up to 4 sections, 4 pairs of symbol tables |
| `ImageBss` | finding 5 | same and one more pair of sections |
| `Build` | `RomIsCleanBuild`, `RomResolves`, `BuildCompletes` | 2 USOs, 3 programs, 2 edits |
| `BuildWeak` | finding 6 | 2 USOs, a weak import |
| `Elf` | tables: `EntriesFollow`, `LocalsFirst`, `LookupFinds`; files: `DataFits`, `GoesBack`, `PartsDisjoint`, `SegmentsMap`, `SectionsFound`, `SavedAgain`, `AcceptedIsWhole`, `SaveEnds` | objects of 3 sections and 2 segments, or with tables of 4 symbols; 2 files of a compiler, cut at every length; 2 saves |

Bounds, and why they are enough:

* Runtime. Two exporters of one name, an importer that also exports hooks and one
  that imports only: with four files and as many handles every role exists twice or
  can be reloaded at another's address. Two variables give shared references and a
  holder that outlives another. Nesting two is a callback that opens or closes while
  another callback waits; `RuntimeAnyProgram` goes to three. The theorems remove these
  bounds for everything but liveness (section 4). Two variables and four
  handles are interchangeable (symmetry), except in the liveness run.
* Reloc. Halves of three bits keep a sign bit, a carry and a wrap; addends and
  addresses cross each. Two references, one inside the other, in six forms give every
  sharing of a LO16 that the assembler emits and every mix of internal and external
  entries.
* Image. Sizes 0, odd, and aligned; alignments 1 to 32; name lengths and table sizes
  of both parities; allocation addresses that are and are not multiples of each
  alignment. Tables of none to three symbols, in no order of the ELF, reach both halves
  of a search; a weak import and a strong one that nobody provides.
* Elf. Three sections with contents, with other contents and without, in every order,
  given to one or two segments in every way, reach each case of `write_segment_data`;
  two saves make sections that have an address already. Four symbols and two
  entries reach an exchange of two symbols that both are referred to, two exchanges in a
  row, and both kinds of hash section before and after the table changes. Files are cut at
  every length. Memory runs short only in `AppendData`, nothing is appended to a section
  without a type, and a file is read only if no save went back and no size of a segment is
  below zero.
* Build. Six ELFs, among them each kind that elf2uso rejects; two edits let a source
  change after it was used and before what depends on it is made.

A program may stop calling the library, and a table or an image is finished, so
deadlock is not checked where that is a final state (`RuntimeAnyProgram` halts,
`Reloc`, `Image` and `Build` finish).

### Fairness

`RuntimeAnyProgram` assumes weak fairness of `CallbackReturns` (user code returns) and of
`CloseByName` for each file: a program that is done with a USO keeps retrying its
close, as the loop of `main.cpp:22-59` does each frame. `ShutdownCompletes` is
conditional on the program holding no reference from some time on, and on nothing
having gone wrong: a program that keeps no clause may stop the machine. What it promises
is not an empty list. `is_uso_closeable` goes by name and by any binding that is not
null, so two USOs that each export a name the other has bound, to whomever, refuse each
other for ever; in this run `base` exports `f` and imports `w`, `user` the reverse, and
the main program has `w`. The property says that no others remain: each that does exports
a name that another one left has bound. `Elf` assumes
that `save`, a function without a wait, runs to its end. `Build` assumes
that make runs while a rule can run. No fairness is assumed of opens, edits or
anything a user decides.

### Findings

1. `Leftover`: `uso.h:31` promises to unload a USO when its count is zero and no other
   uses it. A USO closed while in use stays after its last user is gone.
2. `BareClose`: closing a USO without exports while another is loaded reads a null
   table (`uso.c:446`).
3. `Reopen`: an epilog that opens the USO being closed, or a user of it, gets a
   reference to memory that is freed when it returns (`uso.c:597-605`).
4. `RelocSign`: `lo > 0x8000` should be `>=` (`uso.c:274`).
5. `ImageBss`: `uso_get_noload_size` forgets the alignment between sections
   (`elf2uso.cpp:436-446`).
6. `BuildWeak`: weak imports become strong, because `type` is compared with a binding
   (`elf2uso.cpp:190`).

## 4. Theorems

All are for any number of files, handles, variables, symbols, sections and edits and
any nesting, from the named assumptions of the modules (`ImagesAssumption`: imports
and exports of a file are disjoint, which the linker guarantees for global names,
and hooks are not imported, which `elf2uso.cpp:181` rejects; `ValuesAssumption`;
`WidthsAssumption`; `TablesAssumption`; `LayoutsAssumption`: alignments are powers of
two, of which the smaller divides the greater, so not 0, for which the loader has a test
(`uso.c:168`) and elf2uso none; `CollectedAssumption`;
`SourcesAssumption`; `SymbolsAssumption`; `FileAssumption`: files of other programs are
well formed, with contents between the segment table and the section table, which comes
last; `ObjectAssumption`: a program that uses the accessors leaves the sections of the
tables to them).

* **`TypeCorrect`, `NeverLoadedTwice`** hold whatever the program does. For the
  second, the names on the list are distinct, and a handle is appended only after a
  search of the whole list for its name.
* **`ContractHolds`** and what follows from it (`ImportsStayBound`,
  `DefinitionsShared`, `ReferencesExact`, `HoldersServed`, `CallbacksSafe`,
  `CallbacksLive`, `NothingIsLost`, `UnloadsUnused`, `NoAssertionFails`) are for a program that keeps the whole contract. None of the
  properties is inductive alone. `uso_close` may free a USO because nothing came to
  use it during its callbacks; that needs the contract and that each binding is to
  the *first* exporter on the list (`BoundOn`), so that a second user of it can be
  predicted from the list; that first exporter stays first because appends go to
  the tail and only unused USOs leave; and unused is known from exact counts. Hence
  the invariant `ContractInv`: types, `ListInv` (list and bindings), `ClientInv`
  (counts and holders), `StackInv` (callbacks). `NoAssertionFails` assumes in
  addition that every image exports something, which finding 2 shows to be needed.
* **`LoaderImplemented`**: for the same programs the runtime implements `UsoLoader`.
  The invariant makes the map from handles to the files they hold one-to-one
  (`MapFacts`), so that what the runtime says of a handle is what the loader says of a
  file; each action is then a load, an acquisition, a release or an unloading, or
  changes nothing that the loader shows.
* **`TypeCorrect` (`UsoRelocProofs`), `OpcodesKept`, `LinkReaches`** hold for any
  width. `RelocInv` says that a word is in place while its entry is pending and linked
  afterwards, and that entries of one table are applied in order, so the LO16 that a
  HI16 reads is still in place; the lemma `HiExact` is the arithmetic of the carry.
  `LinkReaches` excludes the one bottom half of finding 4.
* **`FilePartsApart`, `TablesReadable`, `SectionsWellPlaced`, `MemoryHolds`** and
  `TypeCorrect` of `UsoImageProofs` are for any sections, sizes, symbol tables and
  addresses. `EndsInv` and `FileInv` say that the pass that writes is, before each
  section, at the end that the pass that places found for the one before it; ends grow,
  so all data stays below the relocation tables, and those follow one another. The
  greatest of the alignments is a multiple of the others (`GreatestAlign`), so that a
  multiple of it serves every section. `MemoryHolds` has the hypothesis `Padded`, that
  each section without data leaves the next ones aligned: then no address is rounded up
  and the sum that elf2uso wrote is enough. Finding 5 shows that it is needed.
* **`SearchReachesSymbols`, `RelocationsGetSymbols`** (`UsoImageProofs`) are for any
  symbols, names, sections and layouts. `TablesInv`, which goes along with `ImageInv`,
  says that a table is the sorted permutation of what was collected (`OrderFacts`), and
  for each row how far it is: written, with its name at its place, its name a pointer,
  its address one (`StageInv`, `RowsInv`). `EndInv`
  says that an open fails exactly if a strong import is left unresolved.
  That the search reaches a name needs induction over its steps, in which the prover
  cannot instantiate the library's induction theorems; the lemmas `Upwards` and
  `UpwardsFromAll` of `UsoLemmas` take a *set* of numbers in place of a predicate and are
  proved from the existence of a least counterexample. `Recursion` and `WalkIs` show that
  the recursive functions of the models have a value.
* **`TablesTyped`, `RelocationsFollow`, `LocalsAreFirst`** (`ElfProofs`), for any number
  of symbols and entries. `EntriesInv` says that each relocation entry has the index of
  the symbol it was made for, and `ValuesInv` that none of the symbols that were added
  is lost, between any two exchanges; `ArrangeInv` that all symbols before `first` are
  local while an arrangement is in progress, from which `LocalsFirst` follows when the
  scan finds no other.
* **`NamesFound`** is for any symbols, hash values and numbers of buckets. A hash section
  is stated about the names of the table for which it was written: the list of a bucket
  begins at its last symbol, goes down to 0 and misses none (`SysvInv`); no bucket ends
  between its first symbol and another (`GnuInv`). Strings only grow, so these names
  never change, even when symbols move, and `NamesInv` keeps the names of symbols in the
  string table. `WalkIs` gives the two recursive lookups their value.
* **`ContentsFit`, `PartsStayApart`, `AcceptedReadWhole`** are for any sections,
  segments, alignments and addresses, and any well-formed file, cut anywhere; the second
  is of saves that did not go back, the first has no such condition and says when an append
  leaves its memory: after memory was short, or in a file that was not read whole. `FileInv`
  has six parts: types; `SectionsInv` (capacities, numbers of sections in segments);
  `OrderInv` (segments are ordered, placed or to come, and the sections of those that
  were placed have their place); `PlacedInv` (what has a place is behind the headers,
  before the position, and apart from the others); `SavedInv` (the file is the object);
  `LoadInv` (what was read is as the file has it while the stream is good, and when a
  cut file loses its section of names no section has a name). That the order of segments
  loses none is `ZeroFirstIs`: exchanges make a permutation.
* **`SectionsAreFound`, `BackForUnloaded`** (`ElfMapProofs`), for any sections, segments,
  alignments and addresses and any number of saves and loads; the first as long as no save
  went back, `~ back => MapInv` being the invariant. The second says that a save goes back
  only for sections that are not in memory: a section in memory is given to a segment by
  its address, which lies in the segment. Loading has to find the members of a
  segment by place or address alone, and this needs that while a segment is laid out the
  sections are met in the order of their numbers, which is not so for a segment that
  comes before one that contains it. `MapInv` has four parts besides `FileInv`:
  `SerialInv` (no segment comes behind one that has all its sections and more),
  `AddressInv` (a section with a place has an address), `PlacesInv` (the sections of a
  segment that maps its first section follow in the order of their numbers, at addresses
  as far apart as their places, inside its size in the file and in memory) and
  `FoundInv` (the same of the file that was written). The proof found that the property
  as first stated was wrong of sections that have neither bytes nor memory.
* **`SegmentsAreMapped`** (`ElfMapProofs`), for any sections, segments and addresses of
  an object that is put together and saved by a save that did not go back (`phase = "edit"` at first; a loaded file may
  have come from another linker, with places that no pass of ELFIO gave). `SpanInv` adds
  to `MapInv` that in the place of a segment that is laid out lie only sections whose
  places are at one distance from their addresses (`DoneSpan`), and of the segment at hand that the place it began at, the
  sizes counted so far and the members that other segments placed agree (`Spanning`).
  It needs `AlignInv`, that no segment is less aligned than a member, as the tuning of a
  segment's place would otherwise disturb its sections, and the hypothesis `Chained`:
  of two alignments the greater is a multiple of the smaller, as powers of two are,
  which are all that ELF allows.
* **`SavedAgainHolds`** (`ElfAgainProofs`), for any sections, segments and addresses of
  such an object, loaded and saved again any number of times. If it is saved as it was
  loaded, no save goes back (`ForwardInv`). A second save places a
  section by its address, so the contents return to their distances as soon as each
  segment begins where it did; what could differ is who places a section that two
  segments share, and with it where a segment begins, the room before a section without
  contents, and a memory size, which never shrinks. `AgainInv` says that it does not:
  the worklist of `get_ordered_segments` sees the same lists of sections and makes the
  same order, so that a segment whose sections are placed already is the same one again
  and begins with its first section (`RoundsInv`); in the file and in the layout the
  sizes of a segment are the sums of the sizes and gaps of its sections
  (`MeasureInv`), and no gap is wider than in the file (`RelayInv`); contents are
  placed as far apart as their addresses (`LinkInv`); no segment of such a file begins
  at the ELF header, which has a rule of its own (`BehindInv`); `ReadInv` and `FormInv`
  say what loading leaves of the file. The proof needs the condition of the
  property that no section of a segment is empty: an empty section has no place by
  address, and a second save puts it behind the one before it without its alignment.
* **`IncrementalIsClean`, `ImportsFound`, `TypeCorrect` (`UsoBuildProofs`)**:
  `FilesUpToDate` says of each target that is not stale that its rule would make the
  same from its present prerequisites; with nothing stale the rules compose.

Only model-checked: liveness (`ShutdownCompletes`, `BuildCompletes`, `SaveEnds`), which is
out of the prover's reach. `SegmentsAreMapped` and `SavedAgainHolds` start from an object
that is put together; of files of other programs, which may have sections in any place,
TLC checks the same properties on the two of the `Elf` run.

## 5. Not modelled

* `uso_sym`, the notify hooks of debuggers, `flush_uso`: they do not change the modelled
  state. Data cache and instruction cache are one memory.
* In `UsoRuntime` a symbol table is a set of names; its search is in `UsoTables`.
* Unreadable files, counts near 2^32: the code has no path for them.
* C++ destruction order at `__cxa_finalize`, and exceptions through callbacks: only
  that the frames are registered while callbacks run.
* elf2uso's tests of the ELF header and for GP-relative relocations, and names too long
  for a table: they reject an input before anything is written (make_global_syms only
  reports a long name, a hazard listed in `PROJECT.json`).
* elf2uso's fall-back numbers: a relocation against the undefined symbol 0 takes
  import 0, one against a section that is not loaded takes section 0. Compilers emit
  neither for a section that is loaded.
* ELFIO: byte order and the two classes of files, lazy loading, address translation,
  compression; `dump`, notes, arrays, dynamic sections, versions and module
  information, which no tool uses; `std::includes` is modelled for the sorted lists of
  sections that it needs. Objects with tables have no segments and are saved when
  complete; a table has relocation entries or a hash section.
* The demonstration program: a client of the runtime that keeps the contract. Every
  sequence of calls it can make is one that `Runtime` explores.
* libdragon, the linker and make, except where a module says "external".

## 6. Plan

Written, in this order: `UsoRuntime` with `UsoLoader`, their proofs, `UsoReloc` with
its proofs, `UsoImage`, `UsoBuild` with its proofs, `ElfSymbols`, `ElfFile` and
`ElfObject`, `UsoTables`, `ElfProofs`, `UsoImageProofs`, `ElfMapProofs`,
`ElfAgainProofs`. Next:

1. The list at the level of `next` and `prev` (`insert_uso`, `remove_uso`), shown to
   implement the sequence that `UsoRuntime` uses.
2. `uso_sym` with symbol pointers that the program keeps, as the demonstration keeps
   `update_counter`.

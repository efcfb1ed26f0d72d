--------------------------- MODULE UsoBuildProofs ---------------------------
(***************************************************************************)
(* The build, for any USOs, programs and lists of names.  FilesUpToDate is *)
(* inductive because it speaks of one rule at a time: what a target holds  *)
(* is what its rule makes of its prerequisites as they are now, unless the *)
(* target is stale.  When nothing is stale the rules compose.              *)
(***************************************************************************)
EXTENDS UsoBuild, TLAPS

Contents == [imports |-> imports, exports |-> exports, main |-> main, globals |-> globals]

Shapes ==
  /\ imports = [u \in Usos |-> imports[u]] /\ exports = [u \in Usos |-> exports[u]]
  /\ stale \subseteq Targets

FilesUpToDate ==
  /\ \A u \in Usos \ stale :
       imports[u] = ImportTable(elf[u]) /\ exports[u] = NamesOf(Exported(elf[u]))
  /\ "externs" \notin stale => externs = ExternList(imports, exports)
  /\ "main" \notin stale => main = Linked(program, externs)
  /\ "globals" \notin stale => globals = GlobalSyms(main)
  /\ "rom" \notin stale => rom = Contents

BuildInv == Shapes /\ FilesUpToDate

-----------------------------------------------------------------------------
(* Types: what the tools write. *)

LEMMA ElfTypes ==
  ASSUME NEW e \in Elfs, ~ Rejected(e)
  PROVE  /\ ImportTable(e) \in SUBSET [name : Names \ Prohibited, weak : BOOLEAN]
         /\ NamesOf(Exported(e)) \in SUBSET Names
<1>1. \A x \in e : x \in Symbol /\ x.name \in Names
  BY SourcesAssumption DEF Symbol
<1>2. \A x \in Undefined(e) : x \in e /\ x.name \notin Prohibited
  BY DEF Rejected, Undefined, NonLocal
<1>3. \A x \in Exported(e) : x \in e
  BY DEF Exported, NonLocal
<1>4. \A x \in Undefined(e) :
        [name |-> x.name, weak |-> x.type = "func"] \in [name : Names \ Prohibited, weak : BOOLEAN]
  <2> SUFFICES ASSUME NEW x \in Undefined(e)
               PROVE  x.name \in Names \ Prohibited /\ (x.type = "func") \in BOOLEAN
    OBVIOUS
  <2> QED
    BY <1>1, <1>2
<1>5. ImportTable(e) \in SUBSET [name : Names \ Prohibited, weak : BOOLEAN]
  BY <1>4 DEF ImportTable
<1>6. NamesOf(Exported(e)) \in SUBSET Names
  BY <1>1, <1>3 DEF NamesOf
<1> QED
  BY <1>5, <1>6

LEMMA ProgramTypes ==
  ASSUME NEW p \in Programs, NEW ext
  PROVE  Linked(p, ext) \in SUBSET Definition
BY SourcesAssumption DEF Linked, Program

LEMMA GlobalTypes ==
  ASSUME NEW defs \in SUBSET Definition
  PROVE  GlobalSyms(defs) \in SUBSET (Names \ Unexported)
BY DEF GlobalSyms, NamesOf, Definition

LEMMA ExternTypes ==
  ASSUME NEW imp, NEW exp, \A u \in Usos : NamesOf(imp[u]) \subseteq Names
  PROVE  ExternList(imp, exp) \subseteq Names
BY DEF ExternList

LEMMA TypesInitially == Init => TypeOK
BY SourcesAssumption DEF Init, TypeOK, Tables, Targets

LEMMA StaleTypes ==
  ASSUME TypeOK, NEW t \in Targets, Make(t)
  PROVE  stale' \subseteq Targets /\ UNCHANGED <<elf, program, edits>>
BY DEF TypeOK, Make, Made, sources

LEMMA TypesKept ==
  ASSUME TypeOK, [Next]_vars
  PROVE  TypeOK'
<1>0. {"externs", "main", "globals", "rom"} \subseteq Targets /\ Usos \subseteq Targets
  BY DEF Targets
<1>1. ASSUME NEW u \in Usos, ConvertElf(u)
      PROVE  TypeOK'
  <2>1. /\ elf[u] \in Elfs /\ ~ Rejected(elf[u])
        /\ ImportTable(elf[u]) \in SUBSET [name : Names \ Prohibited, weak : BOOLEAN]
        /\ NamesOf(Exported(elf[u])) \in SUBSET Names
    BY <1>1, ElfTypes DEF ConvertElf, TypeOK
  <2>2. /\ imports' \in [Usos -> SUBSET [name : Names \ Prohibited, weak : BOOLEAN]]
        /\ exports' \in [Usos -> SUBSET Names]
    BY <1>1, <2>1 DEF ConvertElf, TypeOK, Tables
  <2>3. stale' \subseteq Targets /\ UNCHANGED <<elf, program, edits, externs, main, globals, rom>>
    BY <1>0, <1>1, StaleTypes DEF ConvertElf
  <2> QED
    BY <2>2, <2>3 DEF TypeOK, Tables
<1>2. CASE MakeUsoExterns
  <2>1. \A u \in Usos : NamesOf(imports[u]) \subseteq Names
    BY DEF TypeOK, Tables, NamesOf
  <2>2. externs' \subseteq Names
    BY <1>2, <2>1, ExternTypes DEF MakeUsoExterns
  <2>3. /\ stale' \subseteq Targets
        /\ UNCHANGED <<elf, program, edits, imports, exports, main, globals, rom>>
    BY <1>0, <1>2, StaleTypes DEF MakeUsoExterns
  <2> QED
    BY <2>2, <2>3 DEF TypeOK, Tables
<1>3. CASE LinkMain
  <2>1. main' \in SUBSET Definition
    BY <1>3, ProgramTypes DEF LinkMain, TypeOK
  <2>2. /\ stale' \subseteq Targets
        /\ UNCHANGED <<elf, program, edits, imports, exports, externs, globals, rom>>
    BY <1>0, <1>3, StaleTypes DEF LinkMain
  <2> QED
    BY <2>1, <2>2 DEF TypeOK, Tables
<1>4. CASE MakeGlobalSyms
  <2>1. globals' \in SUBSET (Names \ Unexported)
    BY <1>4, GlobalTypes DEF MakeGlobalSyms, TypeOK, Tables
  <2>2. /\ stale' \subseteq Targets
        /\ UNCHANGED <<elf, program, edits, imports, exports, externs, main, rom>>
    BY <1>0, <1>4, StaleTypes DEF MakeGlobalSyms
  <2> QED
    BY <2>1, <2>2 DEF TypeOK, Tables
<1>5. CASE MakeRom
  <2>1. rom' \in Tables
    BY <1>5 DEF MakeRom, TypeOK
  <2>2. /\ stale' \subseteq Targets
        /\ UNCHANGED <<elf, program, edits, imports, exports, externs, main, globals>>
    BY <1>0, <1>5, StaleTypes DEF MakeRom
  <2> QED
    BY <2>1, <2>2 DEF TypeOK
<1>6. ASSUME NEW u \in Usos, EditUso(u)
      PROVE  TypeOK'
  BY <1>0, <1>6, SourcesAssumption DEF EditUso, CanEdit, files, TypeOK
<1>7. CASE EditProgram
  BY <1>0, <1>7, SourcesAssumption DEF EditProgram, CanEdit, files, TypeOK
<1>8. CASE UNCHANGED vars
  BY <1>8 DEF vars, sources, files, TypeOK
<1> QED
  BY <1>1, <1>2, <1>3, <1>4, <1>5, <1>6, <1>7, <1>8 DEF Next, Rule

\* No USO ever imports a name that must be its own, and no table offers a name that
\* the program keeps to itself (elf2uso.cpp:180-184, make_global_syms.cpp:77-85).
THEOREM TypeCorrect == Spec => []TypeOK
BY TypesInitially, TypesKept, PTL DEF Spec

-----------------------------------------------------------------------------
(* The rules. *)

\* What a rule leaves up to date
LEMMA MadeOf ==
  ASSUME NEW t \in Targets, stale \subseteq Targets
  PROVE  /\ Made(t) \subseteq Targets
         /\ \A x \in Targets : t \in Prerequisites(x) => x \in Made(t)
         /\ \A x \in Targets : x \notin Made(t) => x \notin stale \/ x = t
BY DEF Made

LEMMA PrerequisitesOf ==
  /\ \A u \in Usos : u \in Prerequisites("externs") /\ u \in Prerequisites("rom")
  /\ "externs" \in Prerequisites("main") /\ "main" \in Prerequisites("globals")
  /\ "main" \in Prerequisites("rom") /\ "globals" \in Prerequisites("rom")
BY DEF Prerequisites

LEMMA InitUpToDate == Init => BuildInv
BY DEF Init, BuildInv, Shapes, FilesUpToDate, Targets

LEMMA ConvertKeeps ==
  ASSUME BuildInv, NEW u \in Usos, ConvertElf(u)
  PROVE  BuildInv'
<1>1. /\ stale' = Made(u) /\ u \in Targets /\ UNCHANGED <<elf, program, externs, main, globals, rom>>
      /\ imports' = [imports EXCEPT ![u] = ImportTable(elf[u])]
      /\ exports' = [exports EXCEPT ![u] = NamesOf(Exported(elf[u]))]
  BY DEF ConvertElf, Make, sources, Targets
<1>2. /\ "externs" \in stale' /\ "rom" \in stale' /\ stale' \subseteq Targets
      /\ \A x \in Targets : x \notin stale' => x \notin stale \/ x = u
  BY <1>1, MadeOf, PrerequisitesOf DEF BuildInv, Shapes, Targets
<1>3. /\ \A v \in Usos \ {u} : imports'[v] = imports[v] /\ exports'[v] = exports[v]
      /\ imports'[u] = ImportTable(elf[u]) /\ exports'[u] = NamesOf(Exported(elf[u]))
  BY <1>1 DEF BuildInv, Shapes
<1>4. Shapes'
  BY <1>1, <1>2 DEF BuildInv, Shapes
<1>5. \A v \in Usos \ stale' :
        imports'[v] = ImportTable(elf'[v]) /\ exports'[v] = NamesOf(Exported(elf'[v]))
  BY <1>1, <1>2, <1>3 DEF BuildInv, FilesUpToDate, Targets
<1>6. /\ "main" \notin stale' => main' = Linked(program', externs')
      /\ "globals" \notin stale' => globals' = GlobalSyms(main')
  BY <1>1, <1>2, SourcesAssumption DEF BuildInv, FilesUpToDate, Targets
<1> QED
  BY <1>2, <1>4, <1>5, <1>6 DEF BuildInv, FilesUpToDate

LEMMA RuleKeeps ==
  ASSUME BuildInv, MakeUsoExterns \/ LinkMain \/ MakeGlobalSyms \/ MakeRom
  PROVE  BuildInv'
<1>0. /\ stale \subseteq Targets /\ {"externs", "main", "globals", "rom"} \subseteq Targets
      /\ \A u \in Usos : u \in Targets /\ u \notin {"externs", "main", "globals", "rom"}
  BY SourcesAssumption DEF BuildInv, Shapes, Targets
<1>1. CASE MakeUsoExterns
  <2>1. /\ stale' = Made("externs") /\ externs' = ExternList(imports, exports)
        /\ UNCHANGED <<elf, program, imports, exports, main, globals, rom>>
    BY <1>1 DEF MakeUsoExterns, Make, sources
  <2>2. /\ "main" \in stale' /\ stale' \subseteq Targets
        /\ \A x \in Targets : x \notin stale' => x \notin stale \/ x = "externs"
    BY <1>0, <2>1, MadeOf, PrerequisitesOf
  <2> QED
    BY <1>0, <2>1, <2>2 DEF BuildInv, Shapes, FilesUpToDate, Contents
<1>2. CASE LinkMain
  <2>1. /\ stale' = Made("main") /\ main' = Linked(program, externs)
        /\ UNCHANGED <<elf, program, imports, exports, externs, globals, rom>>
    BY <1>2 DEF LinkMain, Make, sources
  <2>2. /\ "globals" \in stale' /\ "rom" \in stale' /\ stale' \subseteq Targets
        /\ \A x \in Targets : x \notin stale' => x \notin stale \/ x = "main"
    BY <1>0, <2>1, MadeOf, PrerequisitesOf
  <2> QED
    BY <1>0, <2>1, <2>2 DEF BuildInv, Shapes, FilesUpToDate, Contents
<1>3. CASE MakeGlobalSyms
  <2>1. /\ stale' = Made("globals") /\ globals' = GlobalSyms(main)
        /\ UNCHANGED <<elf, program, imports, exports, externs, main, rom>>
    BY <1>3 DEF MakeGlobalSyms, Make, sources
  <2>2. /\ "rom" \in stale' /\ stale' \subseteq Targets
        /\ \A x \in Targets : x \notin stale' => x \notin stale \/ x = "globals"
    BY <1>0, <2>1, MadeOf, PrerequisitesOf
  <2> QED
    BY <1>0, <2>1, <2>2 DEF BuildInv, Shapes, FilesUpToDate, Contents
<1>4. CASE MakeRom
  <2>1. /\ stale' = Made("rom") /\ rom' = Contents
        /\ UNCHANGED <<elf, program, imports, exports, externs, main, globals>>
    BY <1>4 DEF MakeRom, Make, sources, Contents
  <2>2. /\ stale' \subseteq Targets
        /\ \A x \in Targets : x \notin stale' => x \notin stale \/ x = "rom"
    BY <1>0, <2>1, MadeOf
  <2> QED
    BY <1>0, <2>1, <2>2 DEF BuildInv, Shapes, FilesUpToDate, Contents
<1> QED
  BY <1>1, <1>2, <1>3, <1>4

LEMMA EditKeeps ==
  ASSUME BuildInv, EditProgram \/ \E u \in Usos : EditUso(u)
  PROVE  BuildInv'
<1>0. /\ stale \subseteq Targets /\ "main" \in Targets
      /\ \A u \in Usos : u \in Targets /\ u \notin {"externs", "main", "globals", "rom"}
  BY SourcesAssumption DEF BuildInv, Shapes, Targets
<1>1. CASE EditProgram
  BY <1>0, <1>1 DEF EditProgram, CanEdit, files, BuildInv, Shapes, FilesUpToDate, Contents
<1>2. ASSUME NEW u \in Usos, EditUso(u)
      PROVE  BuildInv'
  <2>1. /\ stale' = stale \cup {u}
        /\ UNCHANGED <<program, imports, exports, externs, main, globals, rom>>
        /\ \E e : elf' = [elf EXCEPT ![u] = e]
    BY <1>2 DEF EditUso, CanEdit, files
  <2>2. \A v \in Usos \ stale' : v \notin stale /\ elf'[v] = elf[v]
    BY <2>1
  <2> QED
    BY <1>0, <2>1, <2>2 DEF BuildInv, Shapes, FilesUpToDate, Contents
<1> QED
  BY <1>1, <1>2

LEMMA BuildInvHolds == Spec => []BuildInv
<1>1. BuildInv /\ [Next]_vars => BuildInv'
  <2> SUFFICES ASSUME BuildInv, [Next]_vars PROVE BuildInv'
    OBVIOUS
  <2>1. CASE UNCHANGED vars
    BY <2>1 DEF vars, sources, files, BuildInv, Shapes, FilesUpToDate, Contents
  <2> QED
    BY <2>1, ConvertKeeps, RuleKeeps, EditKeeps DEF Next, Rule
<1> QED
  BY <1>1, InitUpToDate, PTL DEF Spec

LEMMA NothingStale ==
  ASSUME BuildInv
  PROVE  RomIsCleanBuild
<1> SUFFICES ASSUME stale = {} PROVE RomIsCleanBuild
  BY DEF RomIsCleanBuild
<1> DEFINE imp == [u \in Usos |-> ImportTable(elf[u])]
           exp == [u \in Usos |-> NamesOf(Exported(elf[u]))]
<1>1. imports = imp /\ exports = exp
  BY DEF BuildInv, Shapes, FilesUpToDate
<1>2. /\ externs = ExternList(imports, exports) /\ main = Linked(program, externs)
      /\ globals = GlobalSyms(main) /\ rom = Contents
  BY DEF BuildInv, FilesUpToDate
<1>3. rom = [imports |-> imp, exports |-> exp,
             main |-> Linked(program, ExternList(imp, exp)),
             globals |-> GlobalSyms(Linked(program, ExternList(imp, exp)))]
  BY <1>1, <1>2 DEF Contents
<1> QED
  BY <1>3 DEF RomIsCleanBuild

\* Whatever sources are edited and in whatever order rules run, a finished build is
\* the build from nothing of the present sources (Makefile:30-92).
THEOREM IncrementalIsClean == Spec => []RomIsCleanBuild
BY BuildInvHolds, NothingStale, PTL

LEMMA ExternListed ==
  ASSUME NEW imp, NEW exp, NEW u \in Usos, NEW s \in NamesOf(imp[u]), IsExtern(u, s, imp, exp)
  PROVE  s \in ExternList(imp, exp)
<1>1. s \in {r \in NamesOf(imp[u]) : IsExtern(u, r, imp, exp)}
  OBVIOUS
<1> QED
  BY <1>1 DEF ExternList

LEMMA CleanResolves ==
  ASSUME RomIsCleanBuild
  PROVE  RomResolves
<1> SUFFICES ASSUME stale = {}, NEW u \in Usos, NEW x \in rom.imports[u],
                    x.name \in NamesOf(program.defs \cup program.request) \ Unexported
             PROVE  x.name \in rom.globals \cup UNION {rom.exports[v] : v \in Usos \ {u}}
  BY DEF RomResolves
<1> DEFINE imp == [v \in Usos |-> ImportTable(elf[v])]
           exp == [v \in Usos |-> NamesOf(Exported(elf[v]))]
           prg == Linked(program, ExternList(imp, exp))
<1>1. rom.imports = imp /\ rom.exports = exp /\ rom.globals = GlobalSyms(prg)
  BY DEF RomIsCleanBuild
<1>2. x.name \in NamesOf(imp[u])
  BY <1>1 DEF NamesOf
<1>3. CASE IsExtern(u, x.name, imp, exp)
  <2>1. x.name \in ExternList(imp, exp)
    BY <1>2, <1>3, ExternListed
  <2>2. PICK d \in program.defs \cup program.request : d.name = x.name
    BY DEF NamesOf
  <2>3. d \in prg
    BY <2>1, <2>2 DEF Linked
  <2> QED
    BY <1>1, <2>2, <2>3 DEF GlobalSyms, NamesOf
<1>4. CASE ~ IsExtern(u, x.name, imp, exp)
  BY <1>1, <1>4 DEF IsExtern
<1> QED
  BY <1>3, <1>4

\* In a finished build, every import that the program can define is exported by
\* another USO or is in the global symbol file (elf2uso.cpp:158-236,
\* make_uso_externs.cpp:175-208, make_global_syms.cpp:93-135).
THEOREM ImportsFound == Spec => []RomResolves
BY IncrementalIsClean, CleanResolves, PTL

=============================================================================

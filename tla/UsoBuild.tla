------------------------------ MODULE UsoBuild ------------------------------
(***************************************************************************)
(* How symbols get from ELF files to the tables that uso.c searches: the   *)
(* rules of the Makefile and the three programs under src/tools.           *)
(*                                                                         *)
(* elf2uso turns the ELF of each USO into import and export tables,        *)
(* make_uso_externs collects the imports that no other USO exports, the    *)
(* main program is linked with these, and make_global_syms writes the      *)
(* table of the names it then defines.  Sources may be edited at any time; *)
(* make runs the rule of a target that is older than a prerequisite, after *)
(* the prerequisites' own rules and in parallel otherwise.                 *)
(***************************************************************************)
EXTENDS Naturals

CONSTANTS
  Usos,       \* USO_LIST
  Names,      \* symbol names
  Elfs,       \* what the ELF of a USO can be: a set of symbols
  Programs,   \* what the main program can be
  Prohibited, \* prohibited_import_symbols
  Hideable,   \* hideable_symbols
  Unexported, \* unexported_symbols
  MaxEdits    \* bound: edits of sources

Symbol ==
  [name : Names, bind : {"local", "global", "weak"}, type : {"notype", "func"},
   section : {"undef", "common", "output", "other"}, default : BOOLEAN, null : BOOLEAN]

Definition == [name : Names, null : BOOLEAN]

\* A program defines "defs" whatever is asked of it and the rest on request: members
\* of archives and sections that the linker would drop.
Program == [defs : SUBSET Definition, request : SUBSET Definition]

ASSUME SourcesAssumption ==
  /\ Elfs \subseteq SUBSET Symbol
  /\ \A e \in Elfs : \A x, y \in e :
       x.name = y.name /\ "local" \notin {x.bind, y.bind} => x = y
  /\ Programs \subseteq Program
  /\ Prohibited \cup Hideable \cup Unexported \subseteq Names
  /\ Usos \cap {"externs", "main", "globals", "rom"} = {}
  /\ MaxEdits \in Nat

VARIABLES
  elf,      \* the sources: the ELF of each USO
  program,  \* and the main program
  imports,  \* the import table of each .uso file
  exports,  \* its export table
  externs,  \* uso_externs.ld
  main,     \* what the main ELF defines
  globals,  \* global_syms.sym
  rom,      \* the tables and the program in the ROM
  stale,    \* the targets that are older than a prerequisite
  edits

sources == <<elf, program>>
files == <<imports, exports, externs, main, globals, rom>>
vars == <<sources, files, stale, edits>>

NamesOf(S) == {x.name : x \in S}

-----------------------------------------------------------------------------
(* elf2uso.  An operator whose comment begins with "Fault:" is what the next *)
(* definition would be with a plausible bug.                                 *)

\* The symbols that sym_collect considers
NonLocal(e) == {x \in e : x.bind # "local"}
Undefined(e) == {x \in NonLocal(e) : x.section = "undef"}

\* sym_collect compares the symbol's type with STB_WEAK, which is STT_FUNC as a type.
ImportTable(e) == {[name |-> x.name, weak |-> x.type = "func"] : x \in Undefined(e)}

Exported(e) ==
  {x \in NonLocal(e) \ Undefined(e) : x.default \/ x.name \in Hideable}

\* Fault: a name that every USO has of its own may be imported.
RejectedForValue(e) ==
  \/ \E x \in e : x.section = "common"
  \/ \E x \in Exported(e) : x.section = "other" /\ x.null

\* common_is_used and the errors of sym_collect, before the .uso file is opened
Rejected(e) ==
  \/ \E x \in e : x.section = "common"
  \/ \E x \in Undefined(e) : x.name \in Prohibited
  \/ \E x \in Exported(e) : x.section = "other" /\ x.null

(* make_uso_externs *)

\* Fault: another USO that mentions the name is taken to define it.
IsExternUnlessNamed(u, s, imp, exp) ==
  \A v \in Usos \ {u} : s \notin exp[v] \cup NamesOf(imp[v])

\* uso_sym_is_extern
IsExtern(u, s, imp, exp) == \A v \in Usos \ {u} : s \notin exp[v]

ExternList(imp, exp) ==
  UNION {{s \in NamesOf(imp[u]) : IsExtern(u, s, imp, exp)} : u \in Usos}

(* The linker, and make_global_syms *)

Linked(p, ext) == p.defs \cup {d \in p.request : d.name \in ext}

HasNull(defs) == \E d \in defs : d.null
GlobalSyms(defs) == NamesOf(defs) \ Unexported

-----------------------------------------------------------------------------
(* make *)

Targets == Usos \cup {"externs", "main", "globals", "rom"}

\* Fault: the main program is linked without waiting for the USOs.
PrerequisitesWithoutExterns(t) ==
  CASE t = "externs" -> Usos
    [] t = "globals" -> {"main"}
    [] t = "rom"     -> Usos \cup {"main", "globals"}
    [] OTHER         -> {}

\* The targets a target is made from, besides sources
Prerequisites(t) ==
  CASE t = "externs" -> Usos
    [] t = "main"    -> {"externs"}
    [] t = "globals" -> {"main"}
    [] t = "rom"     -> Usos \cup {"main", "globals"}
    [] OTHER         -> {}

\* Fault: the recipe writes to another file.
MadeElsewhere(t) == stale \cup {x \in Targets : t \in Prerequisites(x)}

\* What is stale once t has been made
Made(t) == (stale \ {t}) \cup {x \in Targets : t \in Prerequisites(x)}

Make(t) ==
  /\ t \in stale /\ Prerequisites(t) \cap stale = {}
  /\ stale' = Made(t)
  /\ UNCHANGED <<sources, edits>>

ConvertElf(u) ==
  /\ Make(u) /\ ~ Rejected(elf[u])
  /\ imports' = [imports EXCEPT ![u] = ImportTable(elf[u])]
  /\ exports' = [exports EXCEPT ![u] = NamesOf(Exported(elf[u]))]
  /\ UNCHANGED <<externs, main, globals, rom>>

MakeUsoExterns ==
  /\ Make("externs")
  /\ externs' = ExternList(imports, exports)
  /\ UNCHANGED <<imports, exports, main, globals, rom>>

LinkMain ==
  /\ Make("main")
  /\ main' = Linked(program, externs)
  /\ UNCHANGED <<imports, exports, externs, globals, rom>>

\* Stops at a definition with address zero
MakeGlobalSyms ==
  /\ Make("globals") /\ ~ HasNull(main)
  /\ globals' = GlobalSyms(main)
  /\ UNCHANGED <<imports, exports, externs, main, rom>>

MakeRom ==
  /\ Make("rom")
  /\ rom' = [imports |-> imports, exports |-> exports, main |-> main, globals |-> globals]
  /\ UNCHANGED <<imports, exports, externs, main, globals>>

CanEdit == edits < MaxEdits /\ edits' = edits + 1 /\ UNCHANGED files

EditUso(u) ==
  /\ CanEdit
  /\ \E e \in Elfs \ {elf[u]} : elf' = [elf EXCEPT ![u] = e]
  /\ stale' = stale \cup {u}
  /\ UNCHANGED program

EditProgram ==
  /\ CanEdit
  /\ program' \in Programs \ {program}
  /\ stale' = stale \cup {"main"}
  /\ UNCHANGED elf

Init ==
  /\ elf \in [Usos -> Elfs] /\ program \in Programs
  /\ imports = [u \in Usos |-> {}] /\ exports = [u \in Usos |-> {}]
  /\ externs = {} /\ main = {} /\ globals = {}
  /\ rom = [imports |-> imports, exports |-> exports, main |-> {}, globals |-> {}]
  /\ stale = Targets /\ edits = 0

Rule == (\E u \in Usos : ConvertElf(u)) \/ MakeUsoExterns \/ LinkMain \/ MakeGlobalSyms \/ MakeRom

Next == Rule \/ (\E u \in Usos : EditUso(u)) \/ EditProgram

Spec == Init /\ [][Next]_vars

\* make runs as long as a rule can run.
FairSpec == Spec /\ WF_vars(Rule)

-----------------------------------------------------------------------------
(* Properties. *)

Tables == [imports : [Usos -> SUBSET [name : Names \ Prohibited, weak : BOOLEAN]],
           exports : [Usos -> SUBSET Names],
           main : SUBSET Definition, globals : SUBSET (Names \ Unexported)]

TypeOK ==
  /\ elf \in [Usos -> Elfs] /\ program \in Programs
  /\ [imports |-> imports, exports |-> exports, main |-> main, globals |-> globals] \in Tables
  /\ rom \in Tables
  /\ externs \subseteq Names
  /\ stale \subseteq Targets /\ edits \in 0 .. MaxEdits

\* Once nothing is stale, the ROM is the one that a build from nothing would make of
\* the present sources, however edits and rules alternated (Makefile:30-92).
RomIsCleanBuild ==
  stale = {} =>
    LET imp == [u \in Usos |-> ImportTable(elf[u])]
        exp == [u \in Usos |-> NamesOf(Exported(elf[u]))]
        prg == Linked(program, ExternList(imp, exp))
    IN  rom = [imports |-> imp, exports |-> exp, main |-> prg, globals |-> GlobalSyms(prg)]

\* Every import of a USO that the program can define is found at run time when the
\* other USOs are loaded: the three tools and the linker agree on who defines what
\* (elf2uso.cpp:158-236, make_uso_externs.cpp:175-208, make_global_syms.cpp:93-135).
RomResolves ==
  stale = {} =>
    \A u \in Usos : \A x \in rom.imports[u] :
      x.name \in NamesOf(program.defs \cup program.request) \ Unexported =>
        x.name \in rom.globals \cup UNION {rom.exports[v] : v \in Usos \ {u}}

Blocked == (\E u \in Usos : Rejected(elf[u])) \/ HasNull(main)

\* A build comes to an end: it makes the ROM or stops at an error in a source
\* (Makefile:28-92).
BuildCompletes == <>[](stale = {} \/ Blocked)

\* "Set weak flag" (elf2uso.cpp:190): an import is weak in the .uso file when its
\* binding in the ELF is.
WeakKept ==
  \A u \in Usos \ stale : \A x \in Undefined(elf[u]) :
    [name |-> x.name, weak |-> x.bind = "weak"] \in imports[u]

=============================================================================

----------------------------- MODULE ElfObject -----------------------------
(***************************************************************************)
(* A relocatable object made with ELFIO: the accessors of its symbol and   *)
(* relocation tables (ElfSymbols) keep the tables in the contents of       *)
(* sections, which are laid out, written and read with the others          *)
(* (ElfFile).                                                              *)
(***************************************************************************)
EXTENDS ElfSymbols, ElfFile

CONSTANTS SymSize, RelSize  \* sizes of an entry of either table

\* The sections of the tables
TableNames == {".strtab", ".symtab", ".rel.text"}

\* A program that uses the accessors, known by the names of its sections, leaves the
\* sections of the tables to them: they are in the file, and empty.
ASSUME ObjectAssumption ==
  /\ {SymSize, RelSize} \subseteq Nat \ {0}
  /\ \A r, t \in Recipes : TableNames \subseteq {r[k].name : k \in DOMAIN r} =>
       \A k \in DOMAIN r \cap DOMAIN t :
         t[k].name \in TableNames /\ (\A l \in 1 .. k : t[l].name = r[l].name) =>
           t[k].size = 0 /\ t[k].type # "NOBITS" /\ ~ t[k].alloc

objectVars == <<symVars, fileVars>>

HasTables == \A name \in TableNames : Named(name) # {}

\* The contents of .symtab grow with every symbol.
SymbolsAppended(sec) ==
  CASE Len(symbols') = Num + 2 -> Appended(Appended(sec, SymSize), SymSize)
    [] Len(symbols') = Num + 1 -> Appended(sec, SymSize)
    [] OTHER -> sec

\* The accessors write through to the sections.
WriteThrough(sec) ==
  CASE sec.name = ".symtab" -> SymbolsAppended(sec)
    [] sec.name = ".strtab" /\ strings' # strings -> StringAdded(sec, NameSize)
    [] sec.name = ".rel.text" /\ entries' # entries -> IF Len(entries') > Len(entries) THEN Appended(sec, RelSize) ELSE sec
    [] OTHER -> sec

UseTables ==
  /\ phase = "edit" /\ HasTables
  /\ SymNext
  /\ sections' = [j \in DOMAIN sections |-> WriteThrough(sections[j])]
  /\ UNCHANGED <<segments, phase, layout, file, good, saves>>

\* Bound: an object is saved when it has all its symbols and they are arranged.  It
\* has no segments, as a relocatable object has none.
Complete == Idle /\ hash = NoHash /\ Num = MaxSymbols /\ arranged = Num

UseFile ==
  /\ FileNext
  /\ phase = "edit" /\ HasTables => phase' = "order" /\ Complete
  /\ UNCHANGED symVars

ObjectInit == SymInit /\ FileInit
ObjectNext == UseTables \/ UseFile
ObjectSpec == ObjectInit /\ [][ObjectNext]_objectVars /\ WF_fileVars(LayOut)

=============================================================================

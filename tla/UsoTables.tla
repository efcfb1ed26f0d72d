------------------------------ MODULE UsoTables ------------------------------
(***************************************************************************)
(* The symbol tables of a USO on their way from elf2uso, which sorts them  *)
(* and numbers the imports (src/tools/elf2uso.cpp), through the file to    *)
(* the loader, which makes pointers of their offsets, binds the imports    *)
(* and searches by halving (src/src/uso.c).  UsoImage lays out the file    *)
(* between the two.                                                        *)
(*                                                                         *)
(* The bytes of a name are one part of its table, read whole or not.       *)
(***************************************************************************)
EXTENDS UsoImage

CONSTANTS
  Collected, \* what sym_collect finds in an ELF: symbols to import and to export
  Rank,      \* name -> its place in the order of strings, "" first
  NameLen,   \* name -> its length
  Provided   \* name -> the address search_loaded_symbols finds for it, 0 if none

SymbolSize == 12  \* of uso_symbol_t

SymNames == DOMAIN Rank
Symbols == [src : Nat, name : SymNames, section : Nat, addr : Nat, weak : BOOLEAN]

ASSUME CollectedAssumption ==
  /\ "" \in SymNames
  /\ \A m, n \in SymNames : Rank[m] \in Nat /\ (Rank[m] = Rank[n] => m = n)
  /\ NameLen \in [SymNames -> Nat] /\ Provided \in [SymNames -> Nat]
  /\ \A c \in Collected :
       /\ \A s \in {"import", "export"} :
            /\ c[s] \in Seq(Symbols)
            /\ \A k, l \in DOMAIN c[s] :
                 c[s][k].name = c[s][l].name \/ c[s][k].src = c[s][l].src => k = l
       /\ \A k \in DOMAIN c.export : c.export[k].section = 0 => c.export[k].addr # 0

VARIABLES
  collected, \* the symbols in the order of the ELF: src_symbol, name, section, addr, weak
  syms,      \* import_syms and export_syms
  importMap, \* import_sym_map: src_symbol -> index
  rows,      \* the symbols of the tables in the file, later in memory
  texts,     \* the names in either table
  nameOfs,   \* name_ofs of uso_write_symbol_table
  stage,     \* what is in progress
  table,     \* the table that it works on
  j          \* the next symbol of it

tableVars == <<collected, syms, importMap, rows, texts, nameOfs, stage, table, j>>

-----------------------------------------------------------------------------
(* elf2uso.  An operator whose comment begins with "Fault:" is what the next *)
(* definition would be with a plausible bug.                                 *)

Arrangements(s) == {p \in [DOMAIN s -> DOMAIN s] : \A k, l \in DOMAIN s : p[k] = p[l] => k = l}

\* Fault: sorted by address, as a linker map is.
SortedByAddress(s) ==
  LET p == CHOOSE p \in Arrangements(s) :
             \A k, l \in DOMAIN s : k < l => s[p[k]].addr <= s[p[l]].addr
  IN  [k \in DOMAIN s |-> s[p[k]]]

\* sym_sort, with sym_compare
Sorted(s) ==
  LET p == CHOOSE p \in Arrangements(s) :
             \A k, l \in DOMAIN s : k < l => Rank[s[p[k]].name] <= Rank[s[p[l]].name]
  IN  [k \in DOMAIN s |-> s[p[k]]]

\* Fault: imports are numbered as they were collected.
NumberedUnsorted(sorted) ==
  [n \in {collected.import[k].src : k \in DOMAIN sorted} |->
     CHOOSE k \in DOMAIN sorted : collected.import[k].src = n]

\* The index of each import of the ELF in the sorted table
Numbered(sorted) ==
  [n \in {sorted[k].src : k \in DOMAIN sorted} |->
     CHOOSE k \in DOMAIN sorted : sorted[k].src = n]

SortSymbols ==
  /\ stage = "sort"
  /\ syms' = [s \in {"import", "export"} |-> Sorted(collected[s])]
  /\ importMap' = Numbered(syms'.import)
  /\ stage' = "table"
  /\ UNCHANGED <<vars, collected, rows, texts, nameOfs, table, j>>

\* sym_get_data_size, for the tables that are written
DataSize(s) ==
  LET total[k \in 0 .. Len(s)] ==
        IF k = 0 THEN 4 + SymbolSize * Len(s) ELSE total[k - 1] + NameLen[s[k].name] + 1
  IN  IF s = <<>> THEN 0 ELSE total[Len(s)]

\* uso_write_symbol_table, before its loop
StartTable ==
  /\ stage = "table"
  /\ nameOfs' = 4 + SymbolSize * Len(syms[table])
  /\ stage' = "write" /\ j' = 1
  /\ UNCHANGED <<vars, collected, syms, importMap, rows, texts, table>>

WriteSymbol ==
  /\ stage = "write" /\ j <= Len(syms[table])
  /\ LET sym == syms[table][j]
         text == Part(sym.name, j, nameOfs, NameLen[sym.name] + 1)
     IN  /\ rows' = [rows EXCEPT ![table] = Append(@,
                       [name |-> nameOfs, ptr |-> sym.addr, section |-> sym.section, weak |-> sym.weak])]
         /\ texts' = [texts EXCEPT ![table] = @ \cup {text}]
         /\ nameOfs' = text.to
  /\ j' = j + 1
  /\ UNCHANGED <<vars, collected, syms, importMap, stage, table>>

-----------------------------------------------------------------------------
(* The loader. *)

TableAt(s) == base + (IF s = "import" THEN ImportOfs ELSE ExportOfs)

\* The parts of a table; a name is intact if no other part was written over it and
\* the next part of the file begins behind it.
Rows(s) == {Part("symbol", k, 4 + SymbolSize * (k - 1), SymbolSize) : k \in DOMAIN rows[s]}
Intact(s, p) == p.to <= head[s] /\ \A q \in Rows(s) \cup texts[s] : q = p \/ Disjoint(p, q)

\* The string at an address in a table
NameAt(s, place) ==
  LET found == {p \in texts[s] : TableAt(s) + p.from = place /\ Intact(s, p)}
  IN  IF found = {} THEN "" ELSE (CHOOSE p \in found : TRUE).kind

\* fixup_symbol_table_names
FixupName ==
  /\ stage = "names" /\ j <= Len(rows[table])
  /\ rows' = [rows EXCEPT ![table][j].name = TableAt(table) + @]
  /\ j' = j + 1
  /\ UNCHANGED <<vars, collected, syms, importMap, texts, nameOfs, stage, table>>

SectionAt(k) == IF k = 0 THEN 0 ELSE address[k]

\* fixup_export_syms
FixupPtr ==
  /\ stage = "ptrs" /\ table = "export" /\ j <= Len(rows.export)
  /\ rows' = [rows EXCEPT !.export[j].ptr = SectionAt(rows.export[j].section) + @]
  /\ j' = j + 1
  /\ UNCHANGED <<vars, collected, syms, importMap, texts, nameOfs, stage, table>>

\* fixup_import_syms
BindImport ==
  /\ stage = "ptrs" /\ table = "import" /\ j <= Len(rows.import)
  /\ rows' = [rows EXCEPT !.import[j].ptr = Provided[NameAt("import", rows.import[j].name)]]
  /\ j' = j + 1
  /\ UNCHANGED <<vars, collected, syms, importMap, texts, nameOfs, stage, table>>

Unresolved == \E k \in DOMAIN rows.import : ~ rows.import[k].weak /\ rows.import[k].ptr = 0

\* From one loop of uso_write and fixup_uso to the next, with its table
NextStage ==
  CASE stage = "write" /\ table = "import" -> <<"table", "export">>
    [] stage = "write" /\ table = "export" -> <<"image", "export">>
    [] stage = "names" -> <<"ptrs", table>>
    [] stage = "ptrs" /\ table = "export" -> <<"names", "import">>
    [] stage = "ptrs" /\ table = "import" -> <<IF Unresolved THEN "failed" ELSE "linked", table>>

EndLoop ==
  /\ stage \in {"write", "names", "ptrs"} /\ j > Len(syms[table])
  /\ stage' = NextStage[1] /\ table' = NextStage[2] /\ j' = 1
  /\ UNCHANGED <<vars, collected, syms, importMap, rows, texts, nameOfs>>

\* The rest of uso_write, uso_open up to fixup_uso, and fixup_section_table
LayOutAndLoad ==
  /\ stage = "image" /\ phase # "done"
  /\ Next
  /\ stage' = IF phase' = "done" THEN "names" ELSE stage
  /\ UNCHANGED <<collected, syms, importMap, rows, texts, nameOfs, table, j>>

\* The stretches <<from, count>> of a table of n rows
Stretches(n) == {r \in (1 .. n + 1) \X (0 .. n) : r[1] + r[2] <= n + 1}

\* bsearch, by symbol_compare: the upper half begins behind the row that was compared
BinarySearch(s, n) ==
  LET NameOf(k) == NameAt(s, rows[s][k].name)
      search[r \in Stretches(Len(rows[s]))] ==
        LET half == r[2] \div 2
            at == r[1] + half
        IN  IF r[2] = 0 THEN 0
            ELSE IF NameOf(at) = n THEN at
            ELSE IF Rank[n] < Rank[NameOf(at)] THEN search[<<r[1], half>>]
            ELSE search[<<at + 1, r[2] - half - 1>>]
  IN  search[<<1, Len(rows[s])>>]

\* search_symbol_table
SearchTable(s, n) ==
  LET k == BinarySearch(s, n) IN IF k = 0 THEN 0 ELSE rows[s][k].ptr

\* The address an external relocation is given for a symbol of the ELF
SymAddr(src) == rows.import[importMap[src]].ptr

-----------------------------------------------------------------------------
Empty == [s \in {"import", "export"} |-> <<>>]

TablesInit ==
  /\ Init
  /\ collected \in Collected
  /\ \A s \in {"import", "export"} : head[s] = DataSize(Sorted(collected[s]))
  /\ \A k \in DOMAIN collected.export : collected.export[k].section <= Len(sections)
  /\ syms = Empty /\ rows = Empty /\ texts = [s \in {"import", "export"} |-> {}]
  /\ importMap = <<>> /\ nameOfs = 0 /\ stage = "sort" /\ table = "import" /\ j = 1

TablesNext ==
  \/ SortSymbols \/ StartTable \/ WriteSymbol \/ LayOutAndLoad
  \/ FixupName \/ FixupPtr \/ BindImport \/ EndLoop

TablesSpec == TablesInit /\ [][TablesNext]_<<vars, tableVars>>

-----------------------------------------------------------------------------
(* Properties. *)

AddressOf(c) == SectionAt(c.section) + c.addr
Entries(s) == {collected[s][k] : k \in DOMAIN collected[s]}

\* A search of a loaded table finds each name the ELF exports at its address, each name
\* it imports at what it was bound to, and no other name: the order that elf2uso sorts
\* in is the one that the search needs, and names arrive whole.  uso_sym, the binding of
\* other USOs and is_uso_closeable rest on it (elf2uso.cpp:135-146, 238-246, 491-523,
\* uso.c:108-123, 145-212).
SymbolsFound ==
  stage \in {"linked", "failed"} =>
    \A n \in DOMAIN Rank \ {""} :
      /\ SearchTable("export", n) =
           (IF \E c \in Entries("export") : c.name = n
            THEN AddressOf(CHOOSE c \in Entries("export") : c.name = n) ELSE 0)
      /\ SearchTable("import", n) =
           (IF \E c \in Entries("import") : c.name = n THEN Provided[n] ELSE 0)

\* The number that reloc_build writes for an undefined symbol of the ELF is that of the
\* import with its name, though imports are sorted between the two; and an open fails
\* exactly if a name is missing that is not weak (elf2uso.cpp:230-235, 313-318,
\* uso.c:191-212, 240-242).
ImportsArrive ==
  /\ stage = "linked" => \A c \in Entries("import") : SymAddr(c.src) = Provided[c.name]
  /\ stage \in {"linked", "failed"} =>
       (stage = "failed" <=> \E c \in Entries("import") : ~ c.weak /\ Provided[c.name] = 0)

=============================================================================

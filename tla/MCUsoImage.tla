----------------------------- MODULE MCUsoImage -----------------------------
(***************************************************************************)
(* Instances of UsoTables: up to two sections with data and two without,   *)
(* of sizes that do not keep the next offset aligned; symbols that the ELF *)
(* has in another order than their names.                                  *)
(***************************************************************************)
EXTENDS UsoTables, TLC

Data(size, align, n, m) ==
  [data |-> TRUE, size |-> size, align |-> align, internal |-> n, external |-> m]
Bss(size, align) ==
  [data |-> FALSE, size |-> size, align |-> align, internal |-> 0, external |-> 0]

WithData ==
  {Data(0, 1, 0, 0), Data(5, 1, 0, 0), Data(8, 4, 2, 1), Data(3, 8, 0, 1), Data(16, 16, 1, 0)}

\* Every size is a multiple of the alignment of the section that follows.
PaddedPairs == {<<Bss(8, 4), Bss(4, 4)>>, <<Bss(16, 8), Bss(3, 16)>>, <<Bss(0, 1), Bss(32, 32)>>}

\* .sbss of one flag before .bss of one word
PlainPairs == PaddedPairs \cup {<<Bss(1, 1), Bss(4, 4)>>}

WithBss(pairs) ==
  {<<d, e>> \o p : d, e \in WithData, p \in pairs}
    \cup {<<d, p[1], e, p[2]>> : d, e \in WithData, p \in pairs}
    \cup {<<d, p[2]>> : d \in WithData, p \in pairs} \cup pairs
    \cup {<<d, e>> : d, e \in WithData}

PaddedLayouts == WithBss(PaddedPairs)
PlainLayouts == WithBss(PlainPairs)

MCNames == {3, 8}

Sym(src, name, section, addr, weak) ==
  [src |-> src, name |-> name, section |-> section, addr |-> addr, weak |-> weak]
Undefined(src, name, weak) == Sym(src, name, 0, 0, weak)

MCRank == "" :> 0 @@ "a" :> 1 @@ "bb" :> 2 @@ "c" :> 3 @@ "dddd" :> 4 @@ "e" :> 5 @@ "f" :> 6
MCNameLen == "" :> 0 @@ "a" :> 1 @@ "bb" :> 2 @@ "c" :> 1 @@ "dddd" :> 4 @@ "e" :> 1 @@ "f" :> 1
MCProvided ==
  "" :> 0 @@ "a" :> 1004 @@ "bb" :> 0 @@ "c" :> 0 @@ "dddd" :> 1012 @@ "e" :> 1008 @@ "f" :> 0

\* No symbols, few, many; a section without data and the absolute one; a weak import
\* and a strong one that nobody provides
MCCollected ==
  {[import |-> <<>>, export |-> <<>>],
   [import |-> <<>>, export |-> <<Sym(1, "c", 2, 5, FALSE)>>],
   [import |-> <<Undefined(7, "e", FALSE), Undefined(4, "bb", TRUE), Undefined(9, "a", FALSE)>>,
    export |-> <<Sym(8, "f", 1, 2, FALSE), Sym(2, "dddd", 0, 7, FALSE), Sym(3, "c", 1, 0, FALSE)>>],
   [import |-> <<Undefined(3, "dddd", FALSE), Undefined(1, "c", FALSE)>>,
    export |-> <<Sym(6, "e", 0, 3, FALSE), Sym(2, "bb", 2, 0, FALSE)>>]}

MCTables == UNION {{DataSize(c.import), DataSize(c.export)} : c \in MCCollected}
MCBases == {64, 72, 80, 84, 96}

=============================================================================

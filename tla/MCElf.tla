------------------------------- MODULE MCElf -------------------------------
(* Instance of ElfObject: objects of three sections in one or two segments, *)
(* objects with symbols, and files as the compiler makes them.              *)
EXTENDS ElfObject, TLC

MCHash == "a" :> 5 @@ "b" :> 7

Kind(name, type, alloc, tls, size, align) ==
  [name |-> name, type |-> type, alloc |-> alloc, tls |-> tls, size |-> size, align |-> align]
Text == Kind(".text", "PROGBITS", TRUE, FALSE, 3, 4)
Data == Kind(".data", "PROGBITS", TRUE, FALSE, 2, 1)
Bss == Kind(".bss", "NOBITS", TRUE, FALSE, 5, 2)
Symtab == Kind(".symtab", "SYMTAB", FALSE, FALSE, 2, 1)

Orders(K) == {r \in [1 .. 3 -> K] : K = {r[1], r[2], r[3]}}

MCRecipes ==
  Orders({Text, Data, Bss}) \cup {<<Data, Symtab, Bss>>, <<Symtab, Data, Text>>} \cup
  {<<Kind(".strtab", "STRTAB", FALSE, FALSE, 0, 1), Kind(".symtab", "SYMTAB", FALSE, FALSE, 0, 1),
     Kind(".rel.text", "REL", FALSE, FALSE, 0, 1)>>}

MCTemplates == {[type |-> "LOAD", vaddr |-> 18], [type |-> "PHDR", vaddr |-> 0]}

\* Sections of a file of the compiler, one after another from a place in it
In(kind, address, offset) ==
  [Created EXCEPT !.name = kind.name, !.type = kind.type, !.alloc = kind.alloc, !.tls = kind.tls,
                  !.size = kind.size, !.align = kind.align, !.address = address, !.offset = offset]
Table_(name, offset) == In(Kind(name, "STRTAB", FALSE, FALSE, 3, 1), 0, offset)

\* What ld -r makes: .rel.data after its section, the names last
Relocatable ==
  [sections |-> <<Created, In(Data, 0, 16), In(Kind(".rel.data", "REL", FALSE, FALSE, 4, 4), 0, 19),
                  In(Bss, 0, 23), In(Symtab, 0, 24), Table_(".strtab", 26), Table_(".shstrtab", 29)>>,
   segments |-> <<>>, names |-> 6, table |-> 32, length |-> 32 + 10 * 7, whole |-> TRUE]

\* What ld makes: a segment from the start of the file on, another one for the data
\* and .bss
Segment(vaddr, offset, size, memory, secs) ==
  [type |-> "LOAD", vaddr |-> vaddr, align |-> 4, memory |-> memory, size |-> size,
   offset |-> offset, fixed |-> FALSE, secs |-> secs]
Executable ==
  [sections |-> <<Created, In(Text, 132, 32), In(Data, 140, 36), In(Bss, 142, 38),
                  In(Symtab, 0, 38), Table_(".strtab", 40), Table_(".shstrtab", 43)>>,
   segments |-> <<Segment(100, 0, 35, 35, <<0, 1>>), Segment(140, 36, 2, 7, <<2, 3>>)>>,
   names |-> 6, table |-> 48, length |-> 48 + 10 * 7, whole |-> TRUE]

MCForeign == {Relocatable, Executable}
MCCuts == 0 .. 120

=============================================================================

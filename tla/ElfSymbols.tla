----------------------------- MODULE ElfSymbols -----------------------------
(***************************************************************************)
(* The symbol table of an ELF file in the ELFIO library (src/tools/elfio): *)
(* the accessors add symbols, strings and relocation entries, move the     *)
(* local symbols to the front, and look symbols up by name, through a hash *)
(* section when there is one.                                              *)
(*                                                                         *)
(* Symbols are numbered from 0, as in the file.  The position of a string  *)
(* is its place in the string table, not its distance in bytes.            *)
(***************************************************************************)
EXTENDS Naturals, Sequences

CONSTANTS
  Names,       \* names of symbols
  NoName,      \* the empty string
  Hash,        \* name -> elf_hash, and elf_gnu_hash, of it
  Buckets,     \* nbucket of a hash section
  FilterBits,  \* bits of the GNU Bloom filter
  FilterShift, \* 2 ^ bloom_shift
  MaxSymbols,  \* bound: symbols, with symbol 0
  MaxEntries   \* bound: relocation entries

ASSUME SymbolsAssumption ==
  /\ NoName \notin Names
  /\ Hash \in [Names -> Nat]
  /\ Buckets \in Nat \ {0} /\ FilterBits \in Nat \ {0} /\ FilterShift \in Nat \ {0}
  /\ MaxSymbols \in Nat /\ MaxEntries \in Nat

VARIABLES
  strings,   \* the string table
  symbols,   \* the symbol table: position of the name, binding, value
  entries,   \* a relocation table: symbol index, and the rest of an entry
  info,      \* sh_info of the symbol table
  first,     \* first_not_local of the arrangement in progress, 0 if there is none
  hash,      \* the hash section, see NoHash
  arranged   \* history: the number of symbols when info was set

symVars == <<strings, symbols, entries, info, first, hash, arranged>>

Num == Len(symbols)
Sym(y) == symbols[y + 1]
Indices == {y \in 0 .. Num : y < Num}
Least(S, otherwise) == IF S = {} THEN otherwise ELSE CHOOSE y \in S : \A z \in S : y <= z
Idle == first = 0
NoHash == [type |-> "none"]

-----------------------------------------------------------------------------
(* Adding.  An operator whose comment begins with "Fault:" is what the next  *)
(* definition would be with a plausible bug.                                 *)

\* add_string; symbol 0 and every nameless symbol have the string at the start
AddString(n) == (IF strings = <<>> THEN <<NoName>> ELSE strings) \o <<n>>
NullSymbol == [name |-> 1, local |-> TRUE, value |-> 0]

\* get_string
NameOf(y) == IF Sym(y).name \in DOMAIN strings THEN strings[Sym(y).name] ELSE NoName

\* Fault: add_string returns where the next string will be.
AddedSymbolsBehind(local) ==
  LET before == IF symbols = <<>> THEN <<NullSymbol>> ELSE symbols
  IN  Append(before, [name |-> Len(strings') + 1, local |-> local, value |-> Len(before)])

\* add_symbol makes symbol 0 first.  Values are what tells symbols apart.
AddedSymbols(local) ==
  LET before == IF symbols = <<>> THEN <<NullSymbol>> ELSE symbols
  IN  Append(before, [name |-> Len(strings'), local |-> local, value |-> Len(before)])

AddSymbol(n, local) ==
  /\ Idle /\ Num < MaxSymbols
  /\ strings' = AddString(n)
  /\ symbols' = AddedSymbols(local)
  /\ UNCHANGED <<entries, info, first, hash, arranged>>

\* generic_add_entry.  The offset, the type and the addend of an entry stand for the
\* symbol that the program means.
NewEntry(means, y) == [symbol |-> y, means |-> means]

\* add_entry for a symbol of the table
AddEntry(y) ==
  /\ Idle /\ hash = NoHash /\ Len(entries) < MaxEntries /\ y \in Indices
  /\ entries' = Append(entries, NewEntry(Sym(y).value, y))
  /\ UNCHANGED <<strings, symbols, info, first, hash, arranged>>

\* add_entry with the name of a symbol, which it adds
AddEntryFor(n, local) ==
  /\ Idle /\ hash = NoHash /\ Len(entries) < MaxEntries /\ Num < MaxSymbols
  /\ strings' = AddString(n)
  /\ symbols' = AddedSymbols(local)
  /\ entries' = Append(entries, NewEntry(symbols'[Len(symbols')].value, Len(symbols') - 1))
  /\ UNCHANGED <<info, first, hash, arranged>>

-----------------------------------------------------------------------------
(* arrange_local_symbols, called with swap_symbols of the relocations. *)

\* set_entry with what get_entry returned, but for the symbol
SetEntry(e, y) == [e EXCEPT !.symbol = y]

\* Fault: an entry of the second symbol is left as it is.
SwapSymbolsOneWay(a, b) ==
  [k \in DOMAIN entries |-> IF entries[k].symbol = a THEN SetEntry(entries[k], b) ELSE entries[k]]

SwapSymbols(a, b) ==
  [k \in DOMAIN entries |->
     CASE entries[k].symbol = a -> SetEntry(entries[k], b)
       [] entries[k].symbol = b -> SetEntry(entries[k], a)
       [] OTHER -> entries[k]]

NotLocal ==
  Least({y \in Indices : y >= first /\ ~ Sym(y).local}, IF Num < first THEN first ELSE Num)

LocalAfter == Least({y \in Indices : y > NotLocal /\ Sym(y).local}, Num)

StartArranging ==
  /\ Idle
  /\ first' = 1
  /\ UNCHANGED <<strings, symbols, entries, info, hash, arranged>>

\* One round of its loop that finds a local symbol behind another one: the
\* relocations are told, then the symbols trade places.
ArrangeSwap ==
  /\ ~ Idle /\ LocalAfter < Num
  /\ first' = NotLocal
  /\ entries' = SwapSymbols(NotLocal, LocalAfter)
  /\ symbols' = [symbols EXCEPT ![NotLocal + 1] = Sym(LocalAfter),
                                ![LocalAfter + 1] = Sym(NotLocal)]
  /\ UNCHANGED <<strings, info, hash, arranged>>

\* Fault: sh_info is the last local symbol.
FinishArrangingAtLast ==
  /\ ~ Idle /\ LocalAfter = Num
  /\ info' = NotLocal - 1 /\ first' = 0 /\ arranged' = Num
  /\ UNCHANGED <<strings, symbols, entries, hash>>

\* The last round, which ends the arrangement
FinishArranging ==
  /\ ~ Idle /\ LocalAfter = Num
  /\ info' = NotLocal /\ first' = 0 /\ arranged' = Num
  /\ UNCHANGED <<strings, symbols, entries, hash>>

-----------------------------------------------------------------------------
(* Hash sections, which a linker writes for the table as it is then. *)

Bucket(n) == Hash[n] % Buckets

InBucket(b) == {y \in Indices : y > 0 /\ NameOf(y) \in Names /\ Bucket(NameOf(y)) = b}
LastOf(S) == IF S = {} THEN 0 ELSE CHOOSE y \in S : \A z \in S : z <= y

\* SHT_HASH: a list through the symbols of each bucket, the last one first
SysvHash ==
  [type |-> "SHT_HASH", of |-> symbols, symoffset |-> 1, nchain |-> Num,
   bucket |-> [b \in 0 .. Buckets - 1 |-> LastOf(InBucket(b))],
   chain |-> [y \in Indices |->
                IF y = 0 THEN 0
                ELSE LastOf({z \in InBucket(Bucket(NameOf(y))) : z < y})]]

FilterOf(n) == {Hash[n] % FilterBits, (Hash[n] \div FilterShift) % FilterBits}

\* SHT_GNU_HASH: the symbols from symoffset on, which must stand bucket by bucket;
\* the lowest bit of a chain's hash marks the end of a bucket.
GnuOrdered(from) ==
  \A y, z \in Indices : from <= y /\ y < z => Bucket(NameOf(y)) <= Bucket(NameOf(z))
GnuHash(from) ==
  [type |-> "SHT_GNU_HASH", of |-> symbols, symoffset |-> from,
   filter |-> UNION {FilterOf(NameOf(y)) : y \in {z \in Indices : z >= from}},
   bucket |-> [b \in 0 .. Buckets - 1 |-> Least({y \in InBucket(b) : y >= from}, 0)],
   chain |-> [y \in {z \in Indices : z >= from} |->
                [half |-> Hash[NameOf(y)] \div 2,
                 end |-> y = LastOf(InBucket(Bucket(NameOf(y))))]]]

WriteHash ==
  /\ Idle /\ Num > 1 /\ hash = NoHash /\ entries = <<>>
  /\ hash' \in {SysvHash} \cup {GnuHash(f) : f \in {g \in 1 .. Num - 1 : GnuOrdered(g)}}
  /\ UNCHANGED <<strings, symbols, entries, info, first, arranged>>

\* hash_lookup, from the head of the bucket along the list; Num when it fails
HashLookup(n) ==
  LET walk[y \in 0 .. hash.nchain] ==
        IF NameOf(y) = n \/ y = 0 \/ y >= hash.nchain THEN y ELSE walk[hash.chain[y]]
      last == walk[hash.bucket[Bucket(n)]]
  IN  IF NameOf(last) = n THEN last ELSE Num

\* gnu_hash_lookup
GnuHashLookup(n) ==
  LET walk[y \in DOMAIN hash.chain] ==
        IF hash.chain[y].half = Hash[n] \div 2 /\ NameOf(y) = n THEN y
        ELSE IF hash.chain[y].end THEN Num ELSE walk[y + 1]
      head == hash.bucket[Bucket(n)]
  IN  IF FilterOf(n) \subseteq hash.filter /\ head >= hash.symoffset THEN walk[head] ELSE Num

ByHash(n) ==
  CASE hash.type = "SHT_HASH" -> HashLookup(n)
    [] hash.type = "SHT_GNU_HASH" -> GnuHashLookup(n)
    [] OTHER -> Num

\* Fault: a hash section is taken at its word.
SymbolNamedByHash(n) ==
  IF hash # NoHash THEN ByHash(n) ELSE Least({y \in Indices : NameOf(y) = n}, Num)

\* get_symbol by name: what the hash section does not find may still be there
SymbolNamed(n) ==
  IF ByHash(n) < Num THEN ByHash(n) ELSE Least({y \in Indices : NameOf(y) = n}, Num)

\* get_symbol by value
SymbolAt(value) == Least({y \in Indices : Sym(y).value = value}, Num)

-----------------------------------------------------------------------------
SymInit ==
  /\ strings = <<>> /\ symbols = <<>> /\ entries = <<>>
  /\ info = 0 /\ first = 0 /\ arranged = 0 /\ hash = NoHash

Arrange == StartArranging \/ ArrangeSwap \/ FinishArranging

SymNext ==
  \/ \E n \in Names, local \in BOOLEAN : AddSymbol(n, local) \/ AddEntryFor(n, local)
  \/ \E y \in Indices : AddEntry(y)
  \/ Arrange
  \/ WriteHash

SymSpec == SymInit /\ [][SymNext]_symVars

-----------------------------------------------------------------------------
(* Properties. *)

Symbol == [name : Nat \ {0}, local : BOOLEAN, value : Nat]

\* Names of symbols are in the string table, and what counts symbols stays in the
\* symbol table, save that an empty one has no local symbol but 0 to count
\* (elfio_symbols.hpp:174-242, 501-546, elfio_strings.hpp:59-78).
SymTypeOK ==
  /\ strings \in Seq(Names \cup {NoName})
  /\ symbols \in Seq(Symbol)
  /\ entries \in Seq([symbol : Nat, means : Nat])
  /\ \A y \in Indices : Sym(y).name <= Len(strings)
  /\ {info, first} \subseteq (0 .. Num) \cup {1} /\ arranged \in 0 .. Num

\* However often symbols trade places, a relocation entry refers to the symbol it was
\* made for, and every symbol is still there (elfio_symbols.hpp:532-537,
\* elfio_relocation.hpp:295-310).
EntriesFollow ==
  /\ \A k \in DOMAIN entries :
       entries[k].symbol < Num /\ Sym(entries[k].symbol).value = entries[k].means
  /\ \A value \in Indices : SymbolAt(value) < Num

\* sh_info separates the local symbols, which come first, from the others, as the
\* ELF format demands; symbols added later do not change those before them
\* (elfio_symbols.hpp:501-546).
LocalsFirst ==
  Idle => \A y \in Indices : y < arranged => (Sym(y).local <=> y < info)

\* get_symbol finds a name exactly if the table has it, also when symbols were moved or
\* added after the hash section was written; while they were not, the hash section by
\* itself finds every name it was made with (elfio_symbols.hpp:91-132, 290-392).
LookupFinds ==
  Idle =>
    /\ \A n \in Names :
         IF \E y \in Indices : NameOf(y) = n
         THEN SymbolNamed(n) < Num /\ NameOf(SymbolNamed(n)) = n
         ELSE SymbolNamed(n) = Num
    /\ hash # NoHash /\ hash.of = symbols =>
         \A y \in Indices : y >= hash.symoffset =>
           ByHash(NameOf(y)) < Num /\ NameOf(ByHash(NameOf(y))) = NameOf(y)

=============================================================================

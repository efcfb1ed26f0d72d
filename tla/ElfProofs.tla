------------------------------ MODULE ElfProofs ------------------------------
(***************************************************************************)
(* Theorems about objects made with ELFIO.  For any number of symbols and  *)
(* relocations: relocation entries follow symbols when local symbols move  *)
(* to the front, that is where these end up, and symbols are found by      *)
(* name, with a hash section or without.  For any sections and segments:   *)
(* contents fit the memory that holds them unless memory was short, the    *)
(* parts of a file that was written are apart unless the save went back,   *)
(* and what is accepted was read whole.                                    *)
(***************************************************************************)
EXTENDS ElfObject, UsoLemmas

\* What Least gives for a set of symbols
LEMMA LeastOf ==
  ASSUME NEW n \in Nat, NEW S, S \subseteq 0 .. n
  PROVE  /\ S = {} => Least(S, n) = n
         /\ S # {} => Least(S, n) \in S /\ \A z \in S : Least(S, n) <= z
<1>1. CASE S = {}
  BY <1>1 DEF Least
<1>2. CASE S # {}
  <2> DEFINE T == {y + 1 : y \in S}
             m == n + 1
  <2>1. m \in Nat /\ T \subseteq 1 .. m /\ T # {}
    <3>1. \A y \in S : y \in Int /\ 0 <= y /\ y <= n
      OBVIOUS
    <3>2. \A t \in T : t \in 1 .. m
      BY <3>1
    <3>3. \E y \in S : y + 1 \in T
      BY <1>2
    <3> QED
      BY <3>2, <3>3
  <2>2. \E t \in T : \A u \in T : t <= u
    <3> HIDE DEF T, m
    <3> QED
      BY <2>1, LeastIndex, Zenon
  <2>3. PICK y \in S : \A u \in T : y + 1 <= u
    BY <2>2
  <2>4. \A z \in S : y <= z
    BY SMTT(30), <2>3
  <2> QED
    BY <1>2, <2>4, Zenon DEF Least
<1> QED
  BY <1>1, <1>2

\* The first symbol from first on that is not local
LEMMA NotLocalIs ==
  ASSUME SymTypeOK
  PROVE  /\ NotLocal \in Nat /\ NotLocal \in (0 .. Num) \cup {1}
         /\ NotLocal < Num => NotLocal >= first /\ ~ Sym(NotLocal).local
         /\ \A y \in Indices : first <= y /\ y < NotLocal => Sym(y).local
<1> DEFINE S == {y \in Indices : y >= first /\ ~ Sym(y).local}
<1>1. /\ Num \in Nat /\ first \in Nat /\ first \in (0 .. Num) \cup {1}
      /\ Indices \subseteq 0 .. Num
  BY DEF SymTypeOK, Num, Indices
<1>2. PICK last \in Nat : /\ last = (IF Num < first THEN first ELSE Num)
                         /\ last \in (0 .. Num) \cup {1} /\ last >= Num
  BY <1>1
<1>4. S \subseteq 0 .. Num /\ S \subseteq 0 .. last /\ NotLocal = Least(S, last)
  <2>1. 0 .. Num \subseteq 0 .. last
    BY <1>1, <1>2
  <2>2. S \subseteq Indices
    OBVIOUS
  <2>3. NotLocal = Least(S, last)
    BY <1>2 DEF NotLocal
  <2> QED
    BY <1>1, <2>1, <2>2, <2>3
<1>3. /\ S = {} => NotLocal = last
      /\ S # {} => NotLocal \in S /\ \A z \in S : NotLocal <= z
  <2> HIDE DEF S
  <2> QED
    BY <1>2, <1>4, LeastOf
<1>5. CASE S = {}
  <2>1. ASSUME NEW y \in Indices, y >= first PROVE Sym(y).local
    <3>1. y \notin S
      BY <1>5
    <3> QED
      BY <2>1, <3>1
  <2>2. NotLocal = last
    BY <1>3, <1>5
  <2>3. \A y \in Indices : first <= y => y >= first
    BY <1>1
  <2> QED
    BY <1>1, <1>2, <2>1, <2>2, <2>3
<1>6. CASE S # {}
  <2>1. NotLocal \in Indices /\ NotLocal >= first /\ ~ Sym(NotLocal).local
    BY <1>3, <1>6
  <2>2. \A y \in Indices : first <= y /\ y < NotLocal => Sym(y).local
    <3>1. ASSUME NEW y \in Indices, first <= y, y < NotLocal, ~ Sym(y).local PROVE FALSE
      <4>1. y \in S
        BY <1>1, <3>1
      <4> HIDE DEF S
      <4> QED
        BY <1>1, <1>3, <1>6, <2>1, <3>1, <4>1
    <3> QED
      BY <3>1
  <2> QED
    BY <1>1, <2>1, <2>2
<1> QED
  BY <1>5, <1>6

\* The first local symbol behind it
LEMMA LocalAfterIs ==
  ASSUME SymTypeOK
  PROVE  /\ LocalAfter \in 0 .. Num
         /\ LocalAfter < Num => NotLocal < LocalAfter /\ Sym(LocalAfter).local
         /\ LocalAfter = Num => \A y \in Indices : y > NotLocal => ~ Sym(y).local
<1> DEFINE S == {y \in Indices : y > NotLocal /\ Sym(y).local}
<1>1. Num \in Nat /\ NotLocal \in Nat /\ Indices \subseteq 0 .. Num
  BY NotLocalIs DEF SymTypeOK, Num, Indices
<1>2. S \subseteq 0 .. Num /\ LocalAfter = Least(S, Num)
  BY <1>1 DEF LocalAfter
<1>3. /\ S = {} => LocalAfter = Num
      /\ S # {} => LocalAfter \in S /\ \A z \in S : LocalAfter <= z
  <2> HIDE DEF S
  <2> QED
    BY <1>1, <1>2, LeastOf
<1> QED
  BY <1>1, <1>3 DEF Indices

-----------------------------------------------------------------------------
(* The symbol table. *)

\* Values tell the symbols of the table apart and none is missing.
EntriesInv == \A k \in DOMAIN entries :
                entries[k].symbol < Num /\ Sym(entries[k].symbol).value = entries[k].means
ValuesInv == \A value \in Indices : \E y \in Indices : Sym(y).value = value

\* Symbol 0 is local; an arrangement in progress has local symbols only before first.
ArrangeInv ==
  /\ Num > 0 => Sym(0).local
  /\ \A y \in Indices : y < first => Sym(y).local

SymInv == SymTypeOK /\ EntriesInv /\ ValuesInv /\ ArrangeInv /\ LocalsFirst

LEMMA SymbolTypes ==
  ASSUME SymTypeOK
  PROVE  /\ Num \in Nat /\ Num = Len(symbols) /\ DOMAIN symbols = 1 .. Num
         /\ \A y \in Indices : /\ y \in Nat /\ y < Num /\ y + 1 \in DOMAIN symbols
                               /\ Sym(y) = symbols[y + 1] /\ Sym(y) \in Symbol
                               /\ Sym(y).name \in Nat /\ Sym(y).value \in Nat
<1>1. symbols \in Seq(Symbol)
  BY DEF SymTypeOK
<1>2. Num \in Nat /\ Num = Len(symbols) /\ DOMAIN symbols = 1 .. Num
  BY <1>1 DEF Num
<1>3. \A y \in Indices : y \in Nat /\ y < Num /\ y + 1 \in DOMAIN symbols
  BY <1>2 DEF Indices
<1>4. \A y \in Indices : Sym(y) = symbols[y + 1] /\ Sym(y) \in Symbol
  BY <1>1, <1>3 DEF Sym
<1>5. \A s \in Symbol : s.name \in Nat /\ s.value \in Nat
  BY DEF Symbol
<1> QED
  BY <1>2, <1>3, <1>4, <1>5

LEMMA EntryTypes ==
  ASSUME SymTypeOK, EntriesInv
  PROVE  \A k \in DOMAIN entries : /\ entries[k] \in [symbol : Nat, means : Nat]
                                   /\ entries[k].symbol \in Indices
<1> DEFINE E == [symbol : Nat, means : Nat]
<1>1. \A k \in DOMAIN entries : entries[k] \in E
  <2>1. entries \in Seq(E)
    BY DEF SymTypeOK
  <2> HIDE DEF E
  <2> QED
    BY <2>1
<1>2. \A k \in DOMAIN entries : entries[k].symbol \in Nat /\ entries[k].symbol < Num
  BY <1>1 DEF EntriesInv
<1> QED
  BY <1>1, <1>2, SymbolTypes DEF Indices

LEMMA SymbolAtFinds ==
  ASSUME SymTypeOK, ValuesInv
  PROVE  \A value \in Indices : SymbolAt(value) < Num
<1> SUFFICES ASSUME NEW value \in Indices PROVE SymbolAt(value) < Num
  OBVIOUS
<1> DEFINE S == {y \in Indices : Sym(y).value = value}
<1>1. Num \in Nat /\ Indices \subseteq 0 .. Num /\ \A y \in Indices : y < Num
  BY DEF SymTypeOK, Num, Indices
<1>2. S \subseteq 0 .. Num /\ S # {} /\ SymbolAt(value) = Least(S, Num)
  BY <1>1 DEF SymbolAt, ValuesInv
<1>3. Least(S, Num) \in S
  <2> HIDE DEF S
  <2> QED
    BY <1>1, <1>2, LeastOf
<1> QED
  BY <1>1, <1>2, <1>3

\* A symbol that is added comes last and changes nothing before it.
LEMMA Added ==
  ASSUME SymInv, NEW n \in Names, NEW local \in BOOLEAN,
         strings' = AddString(n), symbols' = AddedSymbols(local)
  PROVE  /\ strings' \in Seq(Names \cup {NoName}) /\ Len(strings') > 0 /\ Len(strings') >= Len(strings)
         /\ symbols' \in Seq(Symbol)
         /\ Num' \in Nat /\ Num' > Num
         /\ \A y \in Indices : y \in Indices' /\ Sym(y)' = Sym(y)
         /\ \A y \in Indices' \ Indices : Sym(y)'.value = y /\ Sym(y)'.name <= Len(strings')
         /\ Sym(0)'.local /\ Num' - 1 \in Indices' \ Indices
         /\ symbols'[Len(symbols')].value = Num' - 1
<1>1. strings \in Seq(Names \cup {NoName}) /\ symbols \in Seq(Symbol)
  BY DEF SymInv, SymTypeOK
<1>2. /\ strings' \in Seq(Names \cup {NoName}) /\ Len(strings') \in Nat \ {0}
      /\ Len(strings') >= Len(strings)
  BY <1>1 DEF AddString
<1> DEFINE before == IF symbols = <<>> THEN <<NullSymbol>> ELSE symbols
           new == [name |-> Len(strings'), local |-> local, value |-> Len(before)]
<1>3. NullSymbol \in Symbol /\ NullSymbol.local /\ NullSymbol.value = 0 /\ NullSymbol.name = 1
  BY DEF NullSymbol, Symbol
<1>4. /\ before \in Seq(Symbol) /\ Len(before) \in Nat \ {0} /\ Len(before) >= Len(symbols)
      /\ \A j \in 1 .. Len(symbols) : before[j] = symbols[j]
      /\ Len(symbols) = 0 => Len(before) = 1 /\ before[1] = NullSymbol
      /\ Len(symbols) > 0 => Len(before) = Len(symbols)
  BY <1>1, <1>3
<1>5. new \in Symbol /\ symbols' = Append(before, new)
  BY <1>2, <1>4 DEF Symbol, AddedSymbols
<1>6. /\ symbols' \in Seq(Symbol) /\ Len(symbols') = Len(before) + 1
      /\ \A j \in 1 .. Len(before) : symbols'[j] = before[j]
      /\ symbols'[Len(before) + 1] = new
  <2> HIDE DEF before, new
  <2> QED
    BY <1>4, <1>5
<1>7. Num = Len(symbols) /\ Num' = Len(before) + 1 /\ Num \in Nat
  BY <1>1, <1>6 DEF Num
<1>8. new.value = Len(before) /\ new.name = Len(strings')
  OBVIOUS
<1>9. Num > 0 => Sym(0).local
  BY DEF SymInv, ArrangeInv
<1> HIDE DEF before, new
<1>10. \A y \in Indices : y \in Indices' /\ Sym(y)' = Sym(y)
  BY <1>4, <1>6, <1>7 DEF Indices, Sym
<1>11. \A y \in Indices' \ Indices : Sym(y)'.value = y /\ Sym(y)'.name <= Len(strings')
  BY <1>2, <1>3, <1>4, <1>6, <1>7, <1>8 DEF Indices, Sym
<1>12. Sym(0)'.local
  BY <1>3, <1>4, <1>6, <1>7, <1>9 DEF Sym
<1> QED
  BY <1>2, <1>4, <1>6, <1>7, <1>8, <1>10, <1>11, <1>12 DEF Indices

\* What adding a symbol keeps, apart from what the entries mean
LEMMA AddedKeeps ==
  ASSUME SymInv, NEW n \in Names, NEW local \in BOOLEAN, Idle,
         strings' = AddString(n), symbols' = AddedSymbols(local),
         UNCHANGED <<info, first, arranged>>,
         entries' \in Seq([symbol : Nat, means : Nat])
  PROVE  SymTypeOK' /\ ValuesInv' /\ ArrangeInv' /\ LocalsFirst'
<1>1. SymTypeOK /\ ValuesInv /\ ArrangeInv /\ LocalsFirst /\ Num \in Nat
  BY DEF SymInv, SymTypeOK, Num
<1>2. /\ strings' \in Seq(Names \cup {NoName}) /\ Len(strings') >= Len(strings)
      /\ symbols' \in Seq(Symbol)
      /\ Num' \in Nat /\ Num' > Num
      /\ \A y \in Indices : y \in Indices' /\ Sym(y)' = Sym(y)
      /\ \A y \in Indices' \ Indices : Sym(y)'.value = y /\ Sym(y)'.name <= Len(strings')
      /\ Sym(0)'.local
  BY Added
<1>3. Indices = {y \in 0 .. Num : y < Num} /\ Indices' = {y \in 0 .. Num' : y < Num'}
  BY DEF Indices
<1>4. SymTypeOK'
  <2>1. \A y \in Indices' : Sym(y)'.name <= Len(strings')
    <3> TAKE y \in Indices'
    <3>1. CASE y \in Indices
      <4>1. Sym(y).name <= Len(strings) /\ Sym(y)' = Sym(y)
        BY <1>1, <1>2, <3>1 DEF SymTypeOK
      <4>2. Sym(y).name \in Nat
        BY <1>1, <3>1, SymbolTypes
      <4>3. Len(strings) \in Nat /\ Len(strings') \in Nat
        BY <1>1, <1>2 DEF SymTypeOK
      <4> QED
        BY <1>2, <4>1, <4>2, <4>3
    <3>2. CASE y \notin Indices
      BY <1>2, <3>2
    <3> QED
      BY <3>1, <3>2
  <2>2. {info, first} \subseteq (0 .. Num') \cup {1} /\ arranged \in 0 .. Num'
    BY <1>1, <1>2 DEF SymTypeOK
  <2> QED
    BY <1>2, <2>1, <2>2 DEF SymTypeOK
<1>5. ValuesInv'
  <2>1. \A value \in Indices' : \E y \in Indices' : Sym(y)'.value = value
    BY <1>1, <1>2 DEF ValuesInv
  <2> QED
    BY <2>1 DEF ValuesInv
<1>6. ArrangeInv'
  <2>1. \A y \in Indices' : ~ (y < first')
    BY <1>3 DEF Idle
  <2> QED
    BY <1>2, <2>1 DEF ArrangeInv
<1>7. LocalsFirst'
  <2>1. \A y \in Indices' : y < arranged => y \in Indices
    BY <1>1, <1>2, <1>3 DEF SymTypeOK
  <2>2. \A y \in Indices' : y < arranged => (Sym(y)'.local <=> y < info)
    BY <1>1, <1>2, <2>1 DEF LocalsFirst
  <2> QED
    BY <2>2 DEF LocalsFirst, Idle
<1> QED
  BY <1>4, <1>5, <1>6, <1>7

\* An entry that is added means the symbol it refers to.
LEMMA AppendedEntry ==
  ASSUME entries \in Seq([symbol : Nat, means : Nat]), NEW y \in Nat, NEW means \in Nat,
         entries' = Append(entries, NewEntry(means, y))
  PROVE  /\ entries' \in Seq([symbol : Nat, means : Nat])
         /\ \A k \in DOMAIN entries' :
              \/ k \in DOMAIN entries /\ entries'[k] = entries[k]
              \/ entries'[k] = [symbol |-> y, means |-> means]
<1>1. NewEntry(means, y) = [symbol |-> y, means |-> means]
  BY DEF NewEntry
<1> QED
  BY <1>1

LEMMA AddSymbolStep ==
  ASSUME SymInv, NEW n \in Names, NEW local \in BOOLEAN, AddSymbol(n, local)
  PROVE  SymInv'
<1>1. /\ Idle /\ strings' = AddString(n) /\ symbols' = AddedSymbols(local)
      /\ entries' = entries /\ UNCHANGED <<info, first, arranged>>
  BY DEF AddSymbol
<1>2. SymTypeOK /\ EntriesInv
  BY DEF SymInv
<1>3. entries \in Seq([symbol : Nat, means : Nat])
  BY <1>2 DEF SymTypeOK
<1>4. SymTypeOK' /\ ValuesInv' /\ ArrangeInv' /\ LocalsFirst'
  BY <1>1, <1>3, AddedKeeps
<1>5. EntriesInv'
  <2>1. \A y \in Indices : y \in Indices' /\ Sym(y)' = Sym(y)
    BY <1>1, Added
  <2>2. \A k \in DOMAIN entries : entries[k].symbol \in Indices
    BY <1>2, EntryTypes
  <2>3. \A y \in Indices : y < Num' /\ symbols'[y + 1] = Sym(y)
    BY <1>4, <2>1, SymbolTypes DEF Indices, Num, SymTypeOK, Sym
  <2>4. \A k \in DOMAIN entries :
          entries[k].symbol < Num' /\ symbols'[entries[k].symbol + 1].value = entries[k].means
    BY <1>2, <2>2, <2>3 DEF EntriesInv
  <2> QED
    BY <1>1, <2>4 DEF EntriesInv, Sym
<1> QED
  BY <1>4, <1>5 DEF SymInv

LEMMA AddEntryForStep ==
  ASSUME SymInv, NEW n \in Names, NEW local \in BOOLEAN, AddEntryFor(n, local)
  PROVE  SymInv'
<1>1. /\ Idle /\ strings' = AddString(n) /\ symbols' = AddedSymbols(local)
      /\ entries' = Append(entries, NewEntry(symbols'[Len(symbols')].value, Len(symbols') - 1))
      /\ UNCHANGED <<info, first, arranged>>
  BY DEF AddEntryFor
<1>2. SymTypeOK /\ EntriesInv
  BY DEF SymInv
<1>3. /\ Num' \in Nat /\ Num' > Num /\ \A y \in Indices : y \in Indices' /\ Sym(y)' = Sym(y)
      /\ Num' - 1 \in Indices' \ Indices /\ symbols'[Len(symbols')].value = Num' - 1
      /\ \A y \in Indices' \ Indices : Sym(y)'.value = y
  BY <1>1, Added
<1> DEFINE last == Num' - 1
<1>4. last \in Nat /\ last < Num' /\ last + 1 = Num' /\ Num' = Len(symbols')
  BY <1>2, <1>3, SymbolTypes DEF Num
<1>5. symbols'[last + 1].value = last
  BY <1>3, <1>4 DEF Sym
<1>6. entries' = Append(entries, NewEntry(last, last))
  BY <1>1, <1>3, <1>4
<1> HIDE DEF last
<1>7. /\ entries' \in Seq([symbol : Nat, means : Nat])
      /\ \A k \in DOMAIN entries' :
           \/ k \in DOMAIN entries /\ entries'[k] = entries[k]
           \/ entries'[k] = [symbol |-> last, means |-> last]
  <2>1. entries \in Seq([symbol : Nat, means : Nat])
    BY <1>2 DEF SymTypeOK
  <2> QED
    BY <1>4, <1>6, <2>1, AppendedEntry
<1>8. SymTypeOK' /\ ValuesInv' /\ ArrangeInv' /\ LocalsFirst'
  BY <1>1, <1>7, AddedKeeps
<1>9. EntriesInv'
  <2> SUFFICES ASSUME NEW k \in DOMAIN entries'
               PROVE  entries'[k].symbol < Num' /\ symbols'[entries'[k].symbol + 1].value = entries'[k].means
    BY DEF EntriesInv, Sym
  <2>1. CASE k \in DOMAIN entries /\ entries'[k] = entries[k]
    <3> DEFINE y == entries[k].symbol
    <3>1. y \in Indices
      BY <1>2, <2>1, EntryTypes
    <3>2. Sym(y).value = entries[k].means /\ Sym(y)' = Sym(y) /\ y < Num
      BY <1>2, <1>3, <2>1, <3>1 DEF EntriesInv
    <3>3. symbols'[y + 1] = Sym(y) /\ y < Num'
      BY <1>2, <1>3, <3>1, <3>2, SymbolTypes DEF Sym
    <3> QED
      BY <2>1, <3>2, <3>3
  <2>2. CASE entries'[k] = [symbol |-> last, means |-> last]
    BY <1>4, <1>5, <2>2
  <2> QED
    BY <1>7, <2>1, <2>2
<1> QED
  BY <1>8, <1>9 DEF SymInv

LEMMA AddEntryStep ==
  ASSUME SymInv, NEW y \in Indices, AddEntry(y)
  PROVE  SymInv'
<1>1. /\ Idle /\ entries' = Append(entries, NewEntry(Sym(y).value, y))
      /\ UNCHANGED <<strings, symbols, info, first, arranged>>
  BY DEF AddEntry
<1>2. SymTypeOK /\ EntriesInv
  BY DEF SymInv
<1>3. y \in Nat /\ y < Num /\ Sym(y).value \in Nat
  BY <1>2, SymbolTypes
<1>4. /\ entries' \in Seq([symbol : Nat, means : Nat])
      /\ \A k \in DOMAIN entries' :
           \/ k \in DOMAIN entries /\ entries'[k] = entries[k]
           \/ entries'[k] = [symbol |-> y, means |-> Sym(y).value]
  <2>1. entries \in Seq([symbol : Nat, means : Nat])
    BY <1>2 DEF SymTypeOK
  <2> QED
    BY <1>1, <1>3, <2>1, AppendedEntry
<1>5. Num' = Num /\ Indices' = Indices /\ \A z : symbols'[z + 1] = Sym(z)
  BY <1>1 DEF Num, Indices, Sym
<1>6. SymTypeOK'
  BY <1>1, <1>2, <1>4, <1>5 DEF SymTypeOK, Sym
<1>7. EntriesInv'
  <2>1. \A k \in DOMAIN entries' :
          entries'[k].symbol < Num /\ Sym(entries'[k].symbol).value = entries'[k].means
    BY <1>2, <1>3, <1>4 DEF EntriesInv
  <2> QED
    BY <1>1, <1>5, <2>1 DEF EntriesInv, Sym
<1>8. ValuesInv' /\ ArrangeInv' /\ LocalsFirst'
  BY <1>1, <1>5 DEF SymInv, ValuesInv, ArrangeInv, LocalsFirst, Idle, Sym
<1> QED
  BY <1>6, <1>7, <1>8 DEF SymInv

LEMMA StartArrangingStep ==
  ASSUME SymInv, StartArranging
  PROVE  SymInv'
<1>1. /\ first' = 1
      /\ UNCHANGED <<strings, symbols, entries, info, arranged>>
  BY DEF StartArranging
<1>2. SymTypeOK /\ EntriesInv /\ ValuesInv /\ ArrangeInv /\ Num \in Nat
  BY SymbolTypes DEF SymInv
<1>3. Num' = Num /\ Indices' = Indices /\ \A z : symbols'[z + 1] = Sym(z)
  BY <1>1 DEF Num, Indices, Sym
<1>4. SymTypeOK'
  BY <1>1, <1>2, <1>3 DEF SymTypeOK, Sym
<1>5. EntriesInv' /\ ValuesInv'
  BY <1>1, <1>2, <1>3 DEF EntriesInv, ValuesInv, Sym
<1>6. ArrangeInv'
  <2>1. Num > 0 => Sym(0).local
    BY <1>2 DEF ArrangeInv
  <2>2. \A y \in Indices : y < 1 => y = 0 /\ Num > 0
    BY <1>2, SymbolTypes
  <2> QED
    BY <1>1, <1>3, <2>1, <2>2 DEF ArrangeInv, Sym
<1>7. LocalsFirst'
  BY <1>1 DEF LocalsFirst, Idle
<1> QED
  BY <1>4, <1>5, <1>6, <1>7 DEF SymInv

\* An exchange of two symbols, of which the relocations are told
LEMMA ArrangeSwapStep ==
  ASSUME SymInv, ArrangeSwap
  PROVE  SymInv'
<1> DEFINE a == NotLocal
           b == LocalAfter
<1>1. /\ ~ Idle /\ b < Num /\ first' = a /\ entries' = SwapSymbols(a, b)
      /\ symbols' = [symbols EXCEPT ![a + 1] = Sym(b), ![b + 1] = Sym(a)]
      /\ UNCHANGED <<strings, info, arranged>>
  BY DEF ArrangeSwap
<1>2. SymTypeOK /\ EntriesInv /\ ValuesInv /\ ArrangeInv
  BY DEF SymInv
<1>3. /\ Num \in Nat /\ DOMAIN symbols = 1 .. Num
      /\ a \in Indices /\ b \in Indices /\ a < b /\ Sym(b).local /\ a >= first /\ first > 0
      /\ a \in Nat /\ b \in Nat /\ first \in Nat
      /\ \A y \in Indices : first <= y /\ y < a => Sym(y).local
  <2>1. /\ Num \in Nat /\ DOMAIN symbols = 1 .. Num /\ first \in Nat /\ first > 0
    BY <1>1, <1>2, SymbolTypes DEF SymTypeOK, Idle
  <2>2. /\ b \in 0 .. Num /\ a \in Nat /\ a < b /\ Sym(b).local
        /\ a < Num => a >= first
        /\ \A y \in Indices : first <= y /\ y < a => Sym(y).local
    BY <1>1, <1>2, NotLocalIs, LocalAfterIs
  <2> HIDE DEF a, b
  <2> QED
    BY <1>1, <2>1, <2>2 DEF Indices
<1> HIDE DEF a, b
<1>4. /\ DOMAIN symbols' = DOMAIN symbols
      /\ symbols'[a + 1] = Sym(b) /\ symbols'[b + 1] = Sym(a)
      /\ \A y \in Indices \ {a, b} : symbols'[y + 1] = Sym(y)
  BY <1>1, <1>3 DEF Sym, Indices
<1>5. symbols' \in Seq(Symbol) /\ Num' = Num /\ Indices' = Indices
  <2>1. symbols \in Seq(Symbol) /\ Sym(a) \in Symbol /\ Sym(b) \in Symbol
    BY <1>2, <1>3, SymbolTypes DEF SymTypeOK
  <2>2. symbols' \in [1 .. Num -> Symbol]
    <3>1. symbols \in [1 .. Num -> Symbol]
      BY <1>3, <2>1
    <3> QED
      BY <1>1, <2>1, <3>1
  <2>3. symbols' \in Seq(Symbol) /\ Len(symbols') = Num /\ Num = Len(symbols)
    BY <1>2, <1>3, <2>2, SymbolTypes
  <2> QED
    BY <2>3 DEF Num, Indices
<1>6. SymTypeOK'
  <2>1. \A y \in Indices : symbols'[y + 1].name <= Len(strings)
    BY <1>2, <1>3, <1>4 DEF SymTypeOK
  <2>2. entries' \in Seq([symbol : Nat, means : Nat])
    <3> DEFINE E == [symbol : Nat, means : Nat]
    <3>1. \A k \in DOMAIN entries : entries[k] \in E
      BY <1>2, EntryTypes
    <3>2. /\ \A e \in E, y \in Nat : SetEntry(e, y) \in E
          /\ entries \in Seq(E)
      BY <1>2 DEF SetEntry, SymTypeOK
    <3>3. Len(entries) \in Nat /\ DOMAIN entries = 1 .. Len(entries)
      BY <3>2
    <3>4. entries' \in [1 .. Len(entries) -> E]
      <4> HIDE DEF E
      <4> QED
        BY <1>1, <1>3, <3>1, <3>2, <3>3 DEF SwapSymbols
    <3> HIDE DEF E
    <3>5. entries' \in Seq(E)
      BY <3>3, <3>4
    <3> QED
      BY <3>5 DEF E
  <2>3. first' \in 0 .. Num'
    BY <1>1, <1>3, <1>5 DEF Indices
  <2> QED
    BY <1>1, <1>2, <1>5, <2>1, <2>2, <2>3 DEF SymTypeOK, Sym
<1>7. EntriesInv'
  <2> SUFFICES ASSUME NEW k \in DOMAIN entries'
               PROVE  entries'[k].symbol < Num /\ symbols'[entries'[k].symbol + 1].value = entries'[k].means
    BY <1>5 DEF EntriesInv, Sym
  <2> DEFINE e == entries[k]
             y == e.symbol
  <2>1. /\ k \in DOMAIN entries /\ y \in Indices /\ Sym(y).value = e.means
        /\ e \in [symbol : Nat, means : Nat]
        /\ entries'[k] = CASE y = a -> SetEntry(e, b) [] y = b -> SetEntry(e, a) [] OTHER -> e
    BY <1>1, <1>2, EntryTypes DEF SwapSymbols, EntriesInv
  <2>2. SetEntry(e, a).symbol = a /\ SetEntry(e, b).symbol = b
        /\ SetEntry(e, a).means = e.means /\ SetEntry(e, b).means = e.means
    BY <2>1 DEF SetEntry
  <2>3. \A z \in Indices : z < Num
    BY <1>2, SymbolTypes
  <2> HIDE DEF e
  <2>4. CASE y = a
    BY <1>3, <1>4, <2>1, <2>2, <2>3, <2>4
  <2>5. CASE y = b
    BY <1>3, <1>4, <2>1, <2>2, <2>3, <2>5
  <2>6. CASE y # a /\ y # b
    BY <1>4, <2>1, <2>3, <2>6
  <2> QED
    BY <2>4, <2>5, <2>6
<1>8. ValuesInv'
  <2>1. \A value \in Indices : \E y \in Indices : symbols'[y + 1].value = value
    <3> TAKE value \in Indices
    <3>1. PICK y \in Indices : Sym(y).value = value
      BY <1>2 DEF ValuesInv
    <3>2. CASE y = a
      BY <1>3, <1>4, <3>1, <3>2
    <3>3. CASE y = b
      BY <1>3, <1>4, <3>1, <3>3
    <3>4. CASE y \notin {a, b}
      BY <1>4, <3>1, <3>4
    <3> QED
      BY <3>2, <3>3, <3>4
  <2> QED
    BY <1>5, <2>1 DEF ValuesInv, Sym
<1>9. ArrangeInv'
  <2>1. \A y \in Indices : y < a => symbols'[y + 1].local
    <3> TAKE y \in Indices
    <3> HAVE y < a
    <3>1. Sym(y).local /\ y \notin {a, b}
      BY <1>2, <1>3, SymbolTypes DEF ArrangeInv
    <3> QED
      BY <1>4, <3>1
  <2>2. 0 \in Indices /\ 0 < a
    BY <1>3 DEF Indices
  <2>3. symbols'[0 + 1].local
    BY <2>1, <2>2
  <2> QED
    BY <1>1, <1>5, <2>1, <2>3 DEF ArrangeInv, Sym
<1>10. LocalsFirst'
  BY <1>1, <1>3 DEF LocalsFirst, Idle
<1> QED
  BY <1>6, <1>7, <1>8, <1>9, <1>10 DEF SymInv

LEMMA FinishArrangingStep ==
  ASSUME SymInv, FinishArranging
  PROVE  SymInv'
<1>1. /\ ~ Idle /\ LocalAfter = Num /\ info' = NotLocal /\ first' = 0 /\ arranged' = Num
      /\ UNCHANGED <<strings, symbols, entries>>
  BY DEF FinishArranging
<1>2. SymTypeOK /\ EntriesInv /\ ValuesInv /\ ArrangeInv /\ Num \in Nat /\ first \in Nat
  BY SymbolTypes DEF SymInv, SymTypeOK
<1>3. Num' = Num /\ Indices' = Indices /\ \A z : symbols'[z + 1] = Sym(z)
  BY <1>1 DEF Num, Indices, Sym
<1>4. /\ NotLocal \in Nat /\ NotLocal \in (0 .. Num) \cup {1}
      /\ NotLocal < Num => ~ Sym(NotLocal).local
      /\ \A y \in Indices : first <= y /\ y < NotLocal => Sym(y).local
      /\ \A y \in Indices : y > NotLocal => ~ Sym(y).local
  BY <1>1, <1>2, NotLocalIs, LocalAfterIs
<1>5. \A y \in Indices : Sym(y).local <=> y < NotLocal
  <2> TAKE y \in Indices
  <2>1. y \in Nat /\ y < Num /\ NotLocal \in Nat
    BY <1>2, <1>4, SymbolTypes
  <2>2. CASE y < first
    <3>1. Sym(y).local
      BY <1>2, <2>2 DEF ArrangeInv
    <3>2. y # NotLocal /\ ~ (y > NotLocal)
      BY <1>4, <2>1, <3>1
    <3> QED
      BY <2>1, <3>1, <3>2
  <2>3. CASE first <= y
    BY <1>4, <2>1, <2>3
  <2> QED
    BY <1>2, <2>1, <2>2, <2>3
<1>6. SymTypeOK'
  BY <1>1, <1>2, <1>3, <1>4 DEF SymTypeOK, Sym
<1>7. EntriesInv' /\ ValuesInv'
  BY <1>1, <1>2, <1>3 DEF EntriesInv, ValuesInv, Sym
<1>8. ArrangeInv'
  <2>1. \A y \in Indices : ~ (y < 0)
    BY <1>2, SymbolTypes
  <2> QED
    BY <1>1, <1>2, <1>3, <2>1 DEF ArrangeInv, Sym
<1>9. LocalsFirst'
  BY <1>1, <1>3, <1>5 DEF LocalsFirst, Sym
<1> QED
  BY <1>6, <1>7, <1>8, <1>9 DEF SymInv

LEMMA SymStep ==
  ASSUME SymInv, [SymNext]_symVars
  PROVE  SymInv'
<1>1. CASE UNCHANGED <<strings, symbols, entries, info, first, arranged>>
  <2>1. Num' = Num /\ Indices' = Indices /\ \A z : symbols'[z + 1] = Sym(z)
    BY <1>1 DEF Num, Indices, Sym
  <2>2. SymTypeOK'
    BY <1>1, <2>1 DEF SymInv, SymTypeOK, Sym
  <2>3. EntriesInv' /\ ValuesInv'
    BY <1>1, <2>1 DEF SymInv, EntriesInv, ValuesInv, Sym
  <2>4. ArrangeInv' /\ LocalsFirst'
    BY <1>1, <2>1 DEF SymInv, ArrangeInv, LocalsFirst, Idle, Sym
  <2> QED
    BY <2>2, <2>3, <2>4 DEF SymInv
<1>2. WriteHash \/ UNCHANGED symVars => UNCHANGED <<strings, symbols, entries, info, first, arranged>>
  BY DEF WriteHash, symVars
<1> QED
  BY <1>1, <1>2, AddSymbolStep, AddEntryForStep, AddEntryStep, StartArrangingStep,
     ArrangeSwapStep, FinishArrangingStep
  DEF SymNext, Arrange

LEMMA SymStart ==
  ASSUME SymInit
  PROVE  SymInv
<1>1. strings = <<>> /\ symbols = <<>> /\ entries = <<>> /\ info = 0 /\ first = 0 /\ arranged = 0
  BY DEF SymInit
<1>2. Num = 0 /\ Indices = {}
  BY <1>1 DEF Num, Indices
<1> QED
  BY <1>1, <1>2 DEF SymInv, SymTypeOK, EntriesInv, ValuesInv, ArrangeInv, LocalsFirst

\* The tables of an object are used by nothing but their accessors: the sections they
\* are kept in are laid out, written and read without a change to them.
LEMMA TablesOfObject ==
  ObjectSpec => SymSpec
<1>1. ObjectInit => SymInit
  BY DEF ObjectInit
<1>2. [ObjectNext]_objectVars => [SymNext]_symVars
  BY DEF ObjectNext, UseTables, UseFile, objectVars
<1> QED
  BY <1>1, <1>2, PTL DEF ObjectSpec, SymSpec

\* The strengthened invariant of the symbol table
THEOREM TablesHold == ObjectSpec => []SymInv
<1>1. SymInit => SymInv
  BY SymStart
<1>2. SymInv /\ [SymNext]_symVars => SymInv'
  BY SymStep
<1> QED
  BY <1>1, <1>2, TablesOfObject, PTL DEF SymSpec

\* Names of symbols are in the string table and counts stay in the symbol table
\* (elfio_symbols.hpp:174-242, elfio_strings.hpp:59-78).
THEOREM TablesTyped == ObjectSpec => []SymTypeOK
<1>1. SymInv => SymTypeOK
  BY DEF SymInv
<1> QED
  BY <1>1, TablesHold, PTL

\* However many local symbols trade places with others, each relocation entry refers to
\* the symbol that it was made for, and no symbol is lost (elfio_symbols.hpp:532-537,
\* elfio_relocation.hpp:295-310).
THEOREM RelocationsFollow == ObjectSpec => []EntriesFollow
<1>1. SymInv => EntriesFollow
  BY SymbolAtFinds DEF SymInv, EntriesFollow, EntriesInv
<1> QED
  BY <1>1, TablesHold, PTL

\* When arrange_local_symbols returns, sh_info parts the local symbols from the others
\* (elfio_symbols.hpp:501-546).
THEOREM LocalsAreFirst == ObjectSpec => []LocalsFirst
<1>1. SymInv => LocalsFirst
  BY DEF SymInv
<1> QED
  BY <1>1, TablesHold, PTL

-----------------------------------------------------------------------------
(* Looking up symbols. *)

\* The string at the start of the string table is the only one that is no name.
NamesInv ==
  /\ \A y \in Indices : y > 0 => Sym(y).name > 1
  /\ \A k \in DOMAIN strings : k > 1 => strings[k] \in Names

\* The symbols that a hash section was written for, and their names
Hashed == 1 .. Len(hash.of) - 1
OldName(y) == strings[hash.of[y + 1].name]
OldBucket(y) == Bucket(OldName(y))
HeadOf(y) == hash.bucket[OldBucket(y)]

\* Lists go down to 0; each one begins at the last symbol of its bucket and misses none.
SysvInv ==
  /\ hash.symoffset = 1 /\ hash.nchain = Len(hash.of)
  /\ \A n \in Names : hash.bucket[Bucket(n)] \in 0 .. Len(hash.of) - 1
  /\ \A y \in Hashed : hash.chain[y] \in 0 .. y - 1
  /\ \A y \in Hashed : y <= HeadOf(y) /\ HeadOf(y) \in Hashed /\ OldBucket(HeadOf(y)) = OldBucket(y)
  /\ \A y, z \in Hashed : y < z /\ OldBucket(y) = OldBucket(z) =>
       y <= hash.chain[z] /\ OldBucket(hash.chain[z]) = OldBucket(y)

\* No bucket ends between its first symbol and one of its others.
GnuInv ==
  /\ hash.symoffset \in Hashed /\ DOMAIN hash.chain = hash.symoffset .. Len(hash.of) - 1
  /\ \A n \in Names : hash.bucket[Bucket(n)] \in 0 .. Len(hash.of) - 1
  /\ hash.chain[Len(hash.of) - 1].end
  /\ \A y \in hash.symoffset .. Len(hash.of) - 1 :
       /\ hash.chain[y].half = Hash[OldName(y)] \div 2
       /\ FilterOf(OldName(y)) \subseteq hash.filter
       /\ hash.symoffset <= HeadOf(y) /\ HeadOf(y) <= y
       /\ \A z \in HeadOf(y) .. y - 1 : ~ hash.chain[z].end

HashInv ==
  hash # NoHash =>
    /\ hash.of \in Seq(Symbol) /\ Len(hash.of) \in 2 .. Num
    /\ \A y \in Hashed : hash.of[y + 1].name \in 2 .. Len(strings)
    /\ \/ hash.type = "SHT_HASH" /\ SysvInv
       \/ hash.type = "SHT_GNU_HASH" /\ GnuInv

LookupInv == SymTypeOK /\ NamesInv /\ HashInv

\* What LastOf gives for a set of symbols
LEMMA LastOfIs ==
  ASSUME NEW n \in Nat, NEW S, S \subseteq 0 .. n
  PROVE  /\ S = {} => LastOf(S) = 0
         /\ S # {} => LastOf(S) \in S /\ \A z \in S : z <= LastOf(S)
<1>1. CASE S = {}
  BY <1>1 DEF LastOf
<1>2. CASE S # {}
  <2> DEFINE T == {n - y : y \in S}
  <2>1. T \subseteq Nat /\ T # {}
    <3>1. \A y \in S : n - y \in Nat
      OBVIOUS
    <3>2. \E y \in S : n - y \in T
      BY <1>2
    <3> QED
      BY <3>1, <3>2
  <2>2. \E t \in T : \A u \in T : t <= u
    <3> HIDE DEF T
    <3> QED
      BY <2>1, LeastNumber
  <2>3. PICK y \in S : \A u \in T : n - y <= u
    BY <2>2
  <2>4. \A z \in S : z <= y
    <3> TAKE z \in S
    <3>1. n - y <= n - z
      BY <2>3
    <3>2. y \in 0 .. n /\ z \in 0 .. n
      OBVIOUS
    <3> QED
      BY <3>1, <3>2
  <2> QED
    BY <1>2, <2>4, Zenon DEF LastOf
<1> QED
  BY <1>1, <1>2

\* The names of symbols other than symbol 0
LEMMA NameIs ==
  ASSUME SymTypeOK, NamesInv
  PROVE  \A y \in Indices : y > 0 => /\ Sym(y).name \in 2 .. Len(strings)
                                     /\ NameOf(y) = strings[Sym(y).name] /\ NameOf(y) \in Names
<1> SUFFICES ASSUME NEW y \in Indices, y > 0
             PROVE  /\ Sym(y).name \in 2 .. Len(strings)
                    /\ NameOf(y) = strings[Sym(y).name] /\ NameOf(y) \in Names
  OBVIOUS
<1>1. Sym(y).name \in Nat /\ Sym(y).name <= Len(strings) /\ Sym(y).name > 1
  BY SymbolTypes DEF SymTypeOK, NamesInv
<1>2. Len(strings) \in Nat /\ DOMAIN strings = 1 .. Len(strings)
  BY DEF SymTypeOK
<1>3. Sym(y).name \in 2 .. Len(strings) /\ Sym(y).name \in DOMAIN strings
  BY <1>1, <1>2
<1> QED
  BY <1>1, <1>3 DEF NameOf, NamesInv

LEMMA BucketIs ==
  ASSUME NEW n \in Names
  PROVE  Bucket(n) \in 0 .. Buckets - 1
<1>1. Hash[n] \in Nat /\ Buckets \in Nat \ {0}
  BY SymbolsAssumption
<1> QED
  BY <1>1, DivMod DEF Bucket

\* What a hash section says stays true of the table that it was written for.
LEMMA HashKeeps ==
  ASSUME HashInv, hash' = hash, Num' \in Nat, Num \in Nat, Num <= Num',
         Len(strings) \in Nat, Len(strings') \in Nat, Len(strings) <= Len(strings'),
         \A k \in 1 .. Len(strings) : strings'[k] = strings[k]
  PROVE  HashInv'
<1> SUFFICES ASSUME hash # NoHash
             PROVE  HashInv'
  BY DEF HashInv
<1>1. /\ hash.of \in Seq(Symbol) /\ Len(hash.of) \in 2 .. Num
      /\ \A y \in Hashed : hash.of[y + 1].name \in 2 .. Len(strings)
      /\ \/ hash.type = "SHT_HASH" /\ SysvInv
         \/ hash.type = "SHT_GNU_HASH" /\ GnuInv
  BY DEF HashInv
<1>2. Len(hash.of) \in 2 .. Num'
  BY <1>1
<1>3. \A y \in Hashed : hash.of[y + 1].name \in 2 .. Len(strings')
  BY <1>1
<1>4. \A y \in Hashed : strings'[hash.of[y + 1].name] = strings[hash.of[y + 1].name]
  <2> TAKE y \in Hashed
  <2>1. hash.of[y + 1].name \in 1 .. Len(strings)
    BY <1>1
  <2> QED
    BY <2>1
<1>5. Hashed' = Hashed
  BY DEF Hashed
<1>6. /\ \A y \in Hashed : OldName(y)' = OldName(y)
      /\ \A y \in Hashed : OldBucket(y)' = OldBucket(y)
      /\ \A y \in Hashed : HeadOf(y)' = HeadOf(y)
  BY <1>4 DEF OldName, OldBucket, HeadOf, Bucket
<1>7. CASE hash.type = "SHT_HASH" /\ SysvInv
  <2>1. \A y \in Hashed : y <= HeadOf(y)' /\ HeadOf(y)' \in Hashed /\ Bucket(strings'[hash.of[HeadOf(y)' + 1].name]) = OldBucket(y)'
    BY <1>4, <1>6, <1>7 DEF SysvInv, OldBucket, OldName
  <2>2. \A y, z \in Hashed : y < z /\ OldBucket(y)' = OldBucket(z)' =>
          y <= hash.chain[z] /\ Bucket(strings'[hash.of[hash.chain[z] + 1].name]) = OldBucket(y)'
    <3> SUFFICES ASSUME NEW y \in Hashed, NEW z \in Hashed, y < z, OldBucket(y)' = OldBucket(z)'
                 PROVE  y <= hash.chain[z] /\ Bucket(strings'[hash.of[hash.chain[z] + 1].name]) = OldBucket(y)'
      OBVIOUS
    <3>1. y <= hash.chain[z] /\ OldBucket(hash.chain[z]) = OldBucket(y)
      BY <1>6, <1>7 DEF SysvInv
    <3>2. hash.chain[z] \in 0 .. z - 1
      BY <1>7 DEF SysvInv
    <3>3. hash.chain[z] \in Hashed
      BY SMTT(30), <1>1, <3>1, <3>2 DEF Hashed
    <3> QED
      BY <1>4, <1>6, <3>1, <3>3 DEF OldBucket, OldName
  <2>3. SysvInv'
    BY <1>5, <1>7, <2>1, <2>2 DEF SysvInv, OldBucket, OldName, Bucket
  <2> QED
    BY <1>1, <1>2, <1>3, <1>5, <1>7, <2>3 DEF HashInv
<1>8. CASE hash.type = "SHT_GNU_HASH" /\ GnuInv
  <2>1. hash.symoffset \in Hashed /\ hash.symoffset .. Len(hash.of) - 1 \subseteq Hashed
    BY <1>8 DEF GnuInv, Hashed
  <2>2. \A y \in hash.symoffset .. Len(hash.of) - 1 :
          /\ hash.chain[y].half = Hash[OldName(y)'] \div 2
          /\ FilterOf(OldName(y)') \subseteq hash.filter
          /\ hash.symoffset <= HeadOf(y)' /\ HeadOf(y)' <= y
          /\ \A z \in HeadOf(y)' .. y - 1 : ~ hash.chain[z].end
    BY <1>6, <1>8, <2>1 DEF GnuInv
  <2>3. GnuInv'
    BY <1>5, <1>8, <2>2 DEF GnuInv, FilterOf, Bucket
  <2> QED
    BY <1>1, <1>2, <1>3, <1>5, <1>8, <2>3 DEF HashInv
<1> QED
  BY <1>1, <1>7, <1>8

\* A symbol that is added, and its name
LEMMA LookupAdded ==
  ASSUME SymInv, LookupInv, NEW n \in Names, NEW local \in BOOLEAN, SymTypeOK',
         strings' = AddString(n), symbols' = AddedSymbols(local), hash' = hash
  PROVE  LookupInv'
<1>1. /\ Num' \in Nat /\ Num' > Num /\ Num \in Nat
      /\ \A y \in Indices : y \in Indices' /\ Sym(y)' = Sym(y)
  BY Added, SymbolTypes DEF LookupInv
<1> DEFINE start == IF strings = <<>> THEN <<NoName>> ELSE strings
<1>2. strings \in Seq(Names \cup {NoName}) /\ NamesInv /\ SymTypeOK
  BY DEF LookupInv, SymTypeOK
<1>3. strings' = start \o <<n>>
  BY DEF AddString
<1>4. start \in Seq(Names \cup {NoName}) /\ Len(start) >= 1 /\ Len(start) \in Nat
  <2>1. CASE strings = <<>>
    <3>1. start = <<NoName>>
      BY <2>1
    <3> HIDE DEF start
    <3> QED
      BY <3>1
  <2>2. CASE strings # <<>>
    <3>1. start = strings
      BY <2>2
    <3> HIDE DEF start
    <3> QED
      BY <1>2, <2>2, <3>1
  <2> QED
    BY <2>1, <2>2
<1>5. Len(strings) \in Nat /\ Len(strings) <= Len(start) /\ \A k \in 1 .. Len(strings) : start[k] = strings[k]
  BY <1>2
<1>6. \A k \in 2 .. Len(start) : start[k] \in Names
  BY <1>2 DEF NamesInv
<1> HIDE DEF start
<1>7. Len(strings') = Len(start) + 1 /\ strings'[Len(start) + 1] = n
      /\ \A k \in 1 .. Len(start) : strings'[k] = start[k]
  BY <1>3, <1>4
<1>8. \A k \in DOMAIN strings' : k > 1 => strings'[k] \in Names
  <2>1. DOMAIN strings' = 1 .. Len(start) + 1
    BY <1>3, <1>4
  <2> QED
    BY <1>4, <1>6, <1>7, <2>1
<1>9. \A y \in Indices' \ Indices : y > 0 => Sym(y)'.name > 1
  <2> DEFINE before == IF symbols = <<>> THEN <<NullSymbol>> ELSE symbols
             new == [name |-> Len(strings'), local |-> local, value |-> Len(before)]
  <2>1. symbols' = Append(before, new)
    BY DEF AddedSymbols
  <2>2. before \in Seq(Symbol) /\ Len(before) >= 1 /\ (Num = 0 => Len(before) = 1) /\ (Num > 0 => Len(before) = Num)
    <3>1. NullSymbol \in Symbol /\ symbols \in Seq(Symbol)
      BY <1>2 DEF NullSymbol, Symbol, SymTypeOK
    <3> QED
      BY <3>1 DEF Num
  <2>3. Num' = Len(before) + 1 /\ symbols'[Len(before) + 1].name > 1
    <3>1. new.name > 1
      BY <1>4, <1>7
    <3> HIDE DEF before, new
    <3> QED
      BY <2>1, <2>2, <3>1 DEF Num
  <2>4. \A y \in Indices' \ Indices : y > 0 => y = Len(before)
    <3>1. Indices = {y \in 0 .. Num : y < Num} /\ Indices' = {y \in 0 .. Num' : y < Num'}
      BY DEF Indices
    <3>2. Len(before) \in Nat
      BY <2>2
    <3> HIDE DEF before
    <3>3. SUFFICES ASSUME NEW y \in 0 .. Num', y < Num', ~ (y < Num), y > 0
                   PROVE  y = Len(before)
      BY <1>1, <3>1
    <3>4. PICK l \in Nat : l = Len(before)
      BY <3>2
    <3>5. Num' = l + 1 /\ (Num = 0 => l = 1) /\ (Num > 0 => l = Num)
      BY <2>2, <2>3, <3>4
    <3>6. y \in Nat /\ y < l + 1 /\ (Num = 0 \/ Num > 0)
      BY <1>1, <3>3, <3>5
    <3>7. PICK k \in Nat : k = Num
      BY <1>1
    <3>8. y = l
      <4>1. y >= k /\ y > 0
        BY <3>3, <3>6, <3>7
      <4>2. (k = 0 => l = 1) /\ (k > 0 => l = k)
        BY <3>5, <3>7
      <4> QED
        BY <3>6, <4>1, <4>2
    <3> QED
      BY <3>4, <3>8
  <2> QED
    BY <2>3, <2>4 DEF Sym
<1>10. NamesInv'
  <2>1. \A y \in Indices' : y > 0 => Sym(y)'.name > 1
    BY <1>1, <1>2, <1>9 DEF NamesInv
  <2> QED
    BY <1>8, <2>1 DEF NamesInv
<1>11. HashInv'
  <2>1. \A k \in 1 .. Len(strings) : strings'[k] = strings[k]
    BY <1>4, <1>5, <1>7
  <2>2. Len(strings') \in Nat /\ Len(strings) <= Len(strings')
    BY <1>4, <1>5, <1>7
  <2> QED
    BY <1>1, <1>5, <2>1, <2>2, HashKeeps DEF LookupInv
<1> QED
  BY <1>10, <1>11 DEF LookupInv

\* Symbols that trade places
LEMMA LookupSwap ==
  ASSUME SymInv, LookupInv, ArrangeSwap, SymTypeOK'
  PROVE  LookupInv'
<1> DEFINE a == NotLocal
           b == LocalAfter
<1>1. /\ ~ Idle /\ b < Num /\ strings' = strings /\ hash' = hash
      /\ symbols' = [symbols EXCEPT ![a + 1] = Sym(b), ![b + 1] = Sym(a)]
  BY DEF ArrangeSwap
<1>2. SymTypeOK /\ NamesInv /\ HashInv
  BY DEF LookupInv
<1>3. Num \in Nat /\ first \in Nat /\ first > 0 /\ DOMAIN symbols = 1 .. Num
  BY <1>1, <1>2, SymbolTypes DEF SymTypeOK, Idle
<1>4. /\ a \in Indices /\ b \in Indices /\ a > 0 /\ b > 0 /\ a \in Nat /\ b \in Nat /\ a # b
  <2>1. b \in 0 .. Num /\ a \in Nat /\ a < b /\ (a < Num => a >= first)
    BY <1>1, <1>2, NotLocalIs, LocalAfterIs
  <2> HIDE DEF a, b
  <2> QED
    BY <1>1, <1>3, <2>1 DEF Indices
<1> HIDE DEF a, b
<1>5. /\ symbols'[a + 1] = Sym(b) /\ symbols'[b + 1] = Sym(a)
      /\ \A y \in Indices \ {a, b} : symbols'[y + 1] = Sym(y)
  BY <1>1, <1>3, <1>4 DEF Sym, Indices
<1>6. Num' = Num /\ Indices' = Indices
  <2>1. DOMAIN symbols' = 1 .. Num
    BY <1>1, <1>3
  <2>2. symbols' \in Seq(Symbol)
    BY DEF SymTypeOK
  <2>3. Len(symbols') = Num
    BY <1>3, <2>1, <2>2
  <2> QED
    BY <2>3 DEF Num, Indices
<1>7. NamesInv'
  <2>1. \A y \in Indices : y > 0 => symbols'[y + 1].name > 1
    BY <1>2, <1>4, <1>5 DEF NamesInv
  <2> QED
    BY <1>1, <1>2, <1>6, <2>1 DEF NamesInv, Sym
<1>8. HashInv'
  <2>1. Len(strings) \in Nat
    BY <1>2 DEF SymTypeOK
  <2> QED
    BY <1>1, <1>2, <1>3, <1>6, <2>1, HashKeeps
<1> QED
  BY <1>7, <1>8 DEF LookupInv

\* The symbols of a bucket
LEMMA InBucketIs ==
  ASSUME SymTypeOK, NamesInv
  PROVE  /\ \A b : InBucket(b) \subseteq 0 .. Num
         /\ \A b : \A y \in InBucket(b) : y \in 1 .. Num - 1 /\ Bucket(NameOf(y)) = b
         /\ \A y \in 1 .. Num - 1 : NameOf(y) \in Names /\ y \in InBucket(Bucket(NameOf(y)))
<1>1. Num \in Nat /\ \A y \in 1 .. Num - 1 : y \in Indices /\ y > 0
  BY SymbolTypes DEF Indices
<1>2. \A y \in Indices : y > 0 => y \in 1 .. Num - 1
  BY <1>1, SymbolTypes
<1>3. \A y \in 1 .. Num - 1 : NameOf(y) \in Names
  BY <1>1, NameIs
<1>4. \A b : \A y \in InBucket(b) : y \in Indices /\ y > 0 /\ Bucket(NameOf(y)) = b
  BY DEF InBucket
<1>5. \A y \in 1 .. Num - 1 : y \in InBucket(Bucket(NameOf(y)))
  BY <1>1, <1>3 DEF InBucket
<1>6. \A b : \A y \in InBucket(b) : y \in 0 .. Num
  BY <1>1, <1>2, <1>4
<1> QED
  BY <1>2, <1>3, <1>4, <1>5, <1>6

\* The names that a hash section that is written now has
LEMMA WrittenNames ==
  ASSUME SymTypeOK, NamesInv, strings' = strings, hash'.of = symbols
  PROVE  /\ Hashed' = 1 .. Num - 1
         /\ \A y \in 1 .. Num - 1 : OldName(y)' = NameOf(y)
         /\ \A y \in 1 .. Num - 1 : OldBucket(y)' = Bucket(NameOf(y))
         /\ \A y \in 1 .. Num - 1 : hash'.of[y + 1].name \in 2 .. Len(strings)
<1>1. \A y \in 1 .. Num - 1 : y \in Indices /\ y > 0
  BY SymbolTypes DEF Indices
<1>2. \A y \in 1 .. Num - 1 : NameOf(y) = strings[symbols[y + 1].name] /\ symbols[y + 1].name \in 2 .. Len(strings)
  BY <1>1, NameIs DEF Sym
<1>3. \A y \in 1 .. Num - 1 : OldName(y)' = NameOf(y)
  BY <1>2 DEF OldName
<1>4. \A y \in 1 .. Num - 1 : OldBucket(y)' = Bucket(NameOf(y))
  BY <1>2 DEF OldBucket, OldName, Bucket
<1> QED
  BY <1>2, <1>3, <1>4 DEF Hashed, Num

LEMMA SysvWritten ==
  ASSUME SymTypeOK, NamesInv, strings' = strings, hash' = SysvHash, Num > 1
  PROVE  SysvInv'
<1> DEFINE B(y) == Bucket(NameOf(y))
           Before(y) == {z \in InBucket(B(y)) : z < y}
<1>1. Num \in Nat /\ Num = Len(symbols)
  BY SymbolTypes
<1>2. /\ hash'.symoffset = 1 /\ hash'.nchain = Num /\ hash'.of = symbols
      /\ hash'.bucket = [b \in 0 .. Buckets - 1 |-> LastOf(InBucket(b))]
      /\ hash'.chain = [y \in Indices |-> IF y = 0 THEN 0 ELSE LastOf(Before(y))]
  BY DEF SysvHash
<1>3. \A y \in 1 .. Num - 1 : B(y) \in 0 .. Buckets - 1
  BY InBucketIs, BucketIs
<1>4. \A y \in 1 .. Num - 1 : hash'.chain[y] = LastOf(Before(y)) /\ hash'.bucket[B(y)] = LastOf(InBucket(B(y)))
  <2>1. \A y \in 1 .. Num - 1 : y \in Indices /\ y # 0
    BY <1>1 DEF Indices
  <2> HIDE DEF B, Before
  <2> QED
    BY <1>2, <1>3, <2>1
<1>5. \A n \in Names : hash'.bucket[Bucket(n)] \in 0 .. Num - 1
  <2> TAKE n \in Names
  <2>1. hash'.bucket[Bucket(n)] = LastOf(InBucket(Bucket(n)))
    BY <1>2, BucketIs
  <2>2. CASE InBucket(Bucket(n)) = {}
    BY <1>1, <2>1, <2>2, LastOfIs, InBucketIs
  <2>3. CASE InBucket(Bucket(n)) # {}
    <3>1. LastOf(InBucket(Bucket(n))) \in InBucket(Bucket(n))
      BY <1>1, <2>3, LastOfIs, InBucketIs
    <3>2. LastOf(InBucket(Bucket(n))) \in 1 .. Num - 1
      BY <3>1, InBucketIs
    <3> QED
      BY <2>1, <3>2
  <2> QED
    BY <2>2, <2>3
<1>6. \A y \in 1 .. Num - 1 : Before(y) \subseteq 0 .. Num
  BY InBucketIs
<1>7. \A y \in 1 .. Num - 1 : hash'.chain[y] \in 0 .. y - 1
  <2> TAKE y \in 1 .. Num - 1
  <2>1. CASE Before(y) = {}
    <3>1. LastOf(Before(y)) = 0
      <4> HIDE DEF Before
      <4> QED
        BY <1>1, <1>6, <2>1, LastOfIs
    <3> QED
      BY <1>4, <3>1
  <2>2. CASE Before(y) # {}
    <3>1. LastOf(Before(y)) \in Before(y)
      <4> HIDE DEF Before
      <4> QED
        BY <1>1, <1>6, <2>2, LastOfIs
    <3>2. LastOf(Before(y)) < y /\ LastOf(Before(y)) \in 1 .. Num - 1
      BY <3>1, InBucketIs
    <3> HIDE DEF Before
    <3> QED
      BY <1>1, <1>4, <3>2
  <2> QED
    BY <2>1, <2>2
<1>8. \A y \in 1 .. Num - 1 : /\ y <= hash'.bucket[B(y)] /\ hash'.bucket[B(y)] \in 1 .. Num - 1
                              /\ B(hash'.bucket[B(y)]) = B(y)
  <2> TAKE y \in 1 .. Num - 1
  <2>1. y \in InBucket(B(y)) /\ InBucket(B(y)) \subseteq 0 .. Num
    BY InBucketIs
  <2>2. LastOf(InBucket(B(y))) \in InBucket(B(y)) /\ y <= LastOf(InBucket(B(y)))
    BY <1>1, <2>1, LastOfIs
  <2> QED
    BY <1>4, <2>2, InBucketIs
<1>9. \A y, z \in 1 .. Num - 1 : y < z /\ B(y) = B(z) =>
        y <= hash'.chain[z] /\ B(hash'.chain[z]) = B(y) /\ hash'.chain[z] \in 1 .. Num - 1
  <2> SUFFICES ASSUME NEW y \in 1 .. Num - 1, NEW z \in 1 .. Num - 1, y < z, B(y) = B(z)
               PROVE  y <= hash'.chain[z] /\ B(hash'.chain[z]) = B(y) /\ hash'.chain[z] \in 1 .. Num - 1
    OBVIOUS
  <2>1. y \in Before(z) /\ Before(z) \subseteq 0 .. Num
    BY <1>6, InBucketIs
  <2>2. LastOf(Before(z)) \in Before(z) /\ y <= LastOf(Before(z))
    <3> HIDE DEF Before
    <3> QED
      BY <1>1, <2>1, LastOfIs
  <2>3. LastOf(Before(z)) \in InBucket(B(z))
    BY <2>2
  <2>4. hash'.chain[z] = LastOf(Before(z))
    BY <1>4
  <2> HIDE DEF Before
  <2> QED
    BY <2>2, <2>3, <2>4, InBucketIs
<1>10. /\ Hashed' = 1 .. Num - 1
       /\ \A y \in 1 .. Num - 1 : OldBucket(y)' = B(y)
  BY <1>2, WrittenNames
<1> HIDE DEF B
<1>11. \A y \in 1 .. Num - 1 : HeadOf(y)' = hash'.bucket[B(y)]
  BY <1>10 DEF HeadOf
<1>12. \A y \in 1 .. Num - 1 : /\ y <= HeadOf(y)' /\ HeadOf(y)' \in 1 .. Num - 1
                               /\ Bucket(strings'[hash'.of[HeadOf(y)' + 1].name]) = OldBucket(y)'
  <2>1. \A y \in 1 .. Num - 1 : Bucket(strings'[hash'.of[y + 1].name]) = B(y)
    BY <1>10 DEF OldBucket, OldName, Bucket
  <2> QED
    BY <1>8, <1>10, <1>11, <2>1
<1>13. \A y, z \in 1 .. Num - 1 : y < z /\ OldBucket(y)' = OldBucket(z)' =>
         y <= hash'.chain[z] /\ Bucket(strings'[hash'.of[hash'.chain[z] + 1].name]) = OldBucket(y)'
  <2>1. \A y \in 1 .. Num - 1 : Bucket(strings'[hash'.of[y + 1].name]) = B(y)
    BY <1>10 DEF OldBucket, OldName, Bucket
  <2> QED
    BY <1>9, <1>10, <2>1
<1> QED
  BY <1>1, <1>2, <1>5, <1>7, <1>10, <1>12, <1>13 DEF SysvInv, OldBucket, OldName, Bucket

LEMMA GnuWritten ==
  ASSUME SymTypeOK, NamesInv, strings' = strings, NEW from \in 1 .. Num - 1, GnuOrdered(from),
         hash' = GnuHash(from), Num > 1
  PROVE  GnuInv'
<1> DEFINE B(y) == Bucket(NameOf(y))
           Behind(b) == {z \in InBucket(b) : z >= from}
           Listed == {z \in Indices : z >= from}
<1>1. Num \in Nat /\ Num = Len(symbols) /\ Listed = from .. Num - 1 /\ from \in Nat
  BY SymbolTypes DEF Indices
<1>2. /\ hash'.symoffset = from /\ hash'.of = symbols
      /\ hash'.filter = UNION {FilterOf(NameOf(y)) : y \in Listed}
      /\ hash'.bucket = [b \in 0 .. Buckets - 1 |-> Least(Behind(b), 0)]
      /\ hash'.chain = [y \in Listed |-> [half |-> Hash[NameOf(y)] \div 2,
                                          end |-> y = LastOf(InBucket(B(y)))]]
  BY DEF GnuHash
<1>3. \A y \in from .. Num - 1 : y \in 1 .. Num - 1 /\ B(y) \in 0 .. Buckets - 1
  BY <1>1, InBucketIs, BucketIs
<1>4. \A y \in from .. Num - 1 : /\ hash'.chain[y].half = Hash[NameOf(y)] \div 2
                                 /\ FilterOf(NameOf(y)) \subseteq hash'.filter
                                 /\ hash'.bucket[B(y)] = Least(Behind(B(y)), 0)
  <2> HIDE DEF B, Behind, Listed
  <2> QED
    BY <1>1, <1>2, <1>3
<1>5. \A y \in from .. Num - 1 : hash'.chain[y].end <=> y = LastOf(InBucket(B(y)))
  <2> TAKE y \in from .. Num - 1
  <2> HIDE DEF B, Behind, Listed
  <2>1. hash'.chain[y] = [half |-> Hash[NameOf(y)] \div 2, end |-> y = LastOf(InBucket(B(y)))]
    BY <1>1, <1>2
  <2>2. CASE y = LastOf(InBucket(B(y)))
    <3>1. hash'.chain[y] = [half |-> Hash[NameOf(y)] \div 2, end |-> TRUE]
      BY <2>1, <2>2
    <3> QED
      BY <2>2, <3>1
  <2>3. CASE y # LastOf(InBucket(B(y)))
    <3>1. hash'.chain[y] = [half |-> Hash[NameOf(y)] \div 2, end |-> FALSE]
      BY <2>1, <2>3
    <3> QED
      BY <2>3, <3>1
  <2> QED
    BY <2>2, <2>3
<1>6. \A b : Behind(b) \subseteq 0 .. Num
  BY InBucketIs
<1>7. \A b : /\ Behind(b) = {} => Least(Behind(b), 0) = 0
             /\ Behind(b) # {} => Least(Behind(b), 0) \in Behind(b) /\ \A z \in Behind(b) : Least(Behind(b), 0) <= z
  <2> TAKE b
  <2> HIDE DEF Behind
  <2>1. Behind(b) # {} => Least(Behind(b), 0) = Least(Behind(b), Num)
    BY DEF Least
  <2>2. Behind(b) = {} => Least(Behind(b), 0) = 0
    BY DEF Least
  <2> QED
    BY <1>1, <1>6, <2>1, <2>2, LeastOf
<1>8. \A n \in Names : hash'.bucket[Bucket(n)] \in 0 .. Num - 1
  <2> TAKE n \in Names
  <2>1. hash'.bucket[Bucket(n)] = Least(Behind(Bucket(n)), 0)
    <3> HIDE DEF Behind
    <3> QED
      BY <1>2, BucketIs
  <2>2. \A z \in Behind(Bucket(n)) : z \in 0 .. Num - 1
    BY <1>1, InBucketIs
  <2> HIDE DEF Behind
  <2> QED
    BY <1>1, <1>7, <2>1, <2>2
<1>9. \A y \in from .. Num - 1 : LastOf(InBucket(B(y))) \in 1 .. Num - 1 /\ y <= LastOf(InBucket(B(y)))
  <2> TAKE y \in from .. Num - 1
  <2>1. y \in InBucket(B(y)) /\ InBucket(B(y)) \subseteq 0 .. Num
    BY <1>3, InBucketIs
  <2>2. LastOf(InBucket(B(y))) \in InBucket(B(y)) /\ y <= LastOf(InBucket(B(y)))
    BY <1>1, <2>1, LastOfIs
  <2> QED
    BY <2>2, InBucketIs
<1>10. hash'.chain[Num - 1].end
  <2>1. Num - 1 \in from .. Num - 1
    BY <1>1
  <2>2. LastOf(InBucket(B(Num - 1))) \in 1 .. Num - 1 /\ Num - 1 <= LastOf(InBucket(B(Num - 1)))
    BY <1>9, <2>1
  <2>3. LastOf(InBucket(B(Num - 1))) = Num - 1
    BY <1>1, <2>2
  <2> QED
    BY <1>5, <2>1, <2>3
<1>11. \A y \in from .. Num - 1 : /\ from <= hash'.bucket[B(y)] /\ hash'.bucket[B(y)] <= y
                                  /\ \A z \in hash'.bucket[B(y)] .. y - 1 : ~ hash'.chain[z].end
  <2> TAKE y \in from .. Num - 1
  <2>1. y \in Behind(B(y))
    BY <1>1, <1>3, InBucketIs
  <2> DEFINE h == hash'.bucket[B(y)]
  <2>2. h \in Behind(B(y)) /\ h <= y
    <3> HIDE DEF Behind
    <3> QED
      BY <1>4, <1>7, <2>1
  <2>3. h \in 1 .. Num - 1 /\ from <= h /\ B(h) = B(y)
    BY <2>2, InBucketIs
  <2>4. ASSUME NEW z \in h .. y - 1
        PROVE  ~ hash'.chain[z].end
    <3>1. z \in Nat /\ h <= z /\ z < y /\ h \in Nat /\ y \in Nat /\ z \in from .. Num - 1
      BY <1>1, <2>3
    <3>2. h \in Indices /\ z \in Indices /\ y \in Indices
      BY <1>1, <2>3, <3>1 DEF Indices
    <3>3. B(h) <= B(z) \/ h = z
      BY <2>3, <3>1, <3>2 DEF GnuOrdered
    <3>4. B(z) <= B(y)
      BY <3>1, <3>2 DEF GnuOrdered
    <3>5. B(z) \in Nat /\ B(y) \in Nat
      BY <1>3, <3>1
    <3> HIDE DEF h, B
    <3>6. B(z) = B(y)
      BY <2>3, <3>3, <3>4, <3>5
    <3>7. LastOf(InBucket(B(y))) \in Nat /\ y <= LastOf(InBucket(B(y)))
      BY <1>9
    <3>8. z # LastOf(InBucket(B(z)))
      BY <3>1, <3>6, <3>7
    <3> QED
      BY <1>5, <3>1, <3>8
  <2> HIDE DEF B
  <2> QED
    BY <2>2, <2>3, <2>4
<1>12. /\ Hashed' = 1 .. Num - 1
       /\ \A y \in 1 .. Num - 1 : OldName(y)' = NameOf(y)
       /\ \A y \in 1 .. Num - 1 : OldBucket(y)' = B(y)
  BY <1>2, WrittenNames
<1> HIDE DEF B, Behind
<1>13. \A y \in from .. Num - 1 : HeadOf(y)' = hash'.bucket[B(y)]
  BY <1>3, <1>12 DEF HeadOf
<1>14. \A y \in from .. Num - 1 :
         /\ hash'.chain[y].half = Hash[OldName(y)'] \div 2
         /\ FilterOf(OldName(y)') \subseteq hash'.filter
         /\ from <= HeadOf(y)' /\ HeadOf(y)' <= y
         /\ \A z \in HeadOf(y)' .. y - 1 : ~ hash'.chain[z].end
  BY <1>3, <1>4, <1>11, <1>12, <1>13
<1>15. DOMAIN hash'.chain = from .. Num - 1 /\ Len(hash'.of) = Num
  BY <1>1, <1>2
<1> HIDE DEF Listed
<1>16. \A n \in Names : hash'.bucket[Bucket(n)'] \in 0 .. Len(hash'.of) - 1
  BY <1>8, <1>15 DEF Bucket
<1>17. \A y : FilterOf(OldName(y))' = FilterOf(OldName(y)')
  BY DEF FilterOf
<1>18. \A y \in hash'.symoffset .. Len(hash'.of) - 1 :
         /\ hash'.chain[y].half = Hash[OldName(y)'] \div 2
         /\ FilterOf(OldName(y))' \subseteq hash'.filter
         /\ hash'.symoffset <= HeadOf(y)' /\ HeadOf(y)' <= y
         /\ \A z \in HeadOf(y)' .. y - 1 : ~ hash'.chain[z].end
  BY <1>2, <1>14, <1>15, <1>17, Zenon
<1>19. /\ hash'.symoffset \in Hashed' /\ DOMAIN hash'.chain = hash'.symoffset .. Len(hash'.of) - 1
       /\ hash'.chain[Len(hash'.of) - 1].end
  BY <1>2, <1>10, <1>12, <1>15, Zenon
<1> QED
  BY <1>16, <1>18, <1>19, Zenon DEF GnuInv

LEMMA LookupHash ==
  ASSUME SymTypeOK, NamesInv, WriteHash
  PROVE  NamesInv' /\ HashInv'
<1>1. /\ Num > 1 /\ UNCHANGED <<strings, symbols>>
      /\ hash' \in {SysvHash} \cup {GnuHash(f) : f \in {g \in 1 .. Num - 1 : GnuOrdered(g)}}
  BY DEF WriteHash
<1>2. NamesInv'
  <2>1. Num' = Num /\ Indices' = Indices /\ \A y : symbols'[y + 1] = Sym(y)
    BY <1>1 DEF Num, Indices, Sym
  <2> QED
    BY <1>1, <2>1 DEF NamesInv, Sym
<1>3. hash'.of = symbols
  <2>1. SysvHash.of = symbols /\ \A f : GnuHash(f).of = symbols
    BY DEF SysvHash, GnuHash
  <2> QED
    BY <1>1, <2>1
<1>4. Num \in Nat /\ symbols \in Seq(Symbol) /\ Num = Len(symbols) /\ Num' = Num
  BY <1>1, SymbolTypes DEF SymTypeOK, Num
<1>5. \A y \in Hashed' : hash'.of[y + 1].name \in 2 .. Len(strings')
  BY <1>1, <1>3, WrittenNames
<1>6. CASE hash' = SysvHash
  <2>1. hash'.type = "SHT_HASH"
    BY <1>6 DEF SysvHash
  <2>2. SysvInv'
    BY <1>1, <1>6, SysvWritten
  <2>3. hash'.of \in Seq(Symbol) /\ Len(hash'.of) \in 2 .. Num'
    BY <1>1, <1>3, <1>4
  <2> QED
    BY <1>2, <1>5, <2>1, <2>2, <2>3 DEF HashInv
<1>7. ASSUME NEW f \in 1 .. Num - 1, GnuOrdered(f), hash' = GnuHash(f)
      PROVE  HashInv'
  <2>1. hash'.type = "SHT_GNU_HASH"
    BY <1>7 DEF GnuHash
  <2>2. GnuInv'
    BY <1>1, <1>7, GnuWritten
  <2> QED
    BY <1>1, <1>3, <1>4, <1>5, <2>1, <2>2 DEF HashInv
<1> QED
  BY <1>1, <1>2, <1>6, <1>7

LEMMA LookupStep ==
  ASSUME SymInv, SymInv', LookupInv, [SymNext]_symVars
  PROVE  LookupInv'
<1>1. SymTypeOK /\ NamesInv /\ HashInv /\ SymTypeOK'
  BY DEF LookupInv, SymInv
<1>2. CASE UNCHANGED <<strings, symbols, hash>>
  <2>1. Num' = Num /\ Indices' = Indices /\ (\A y : symbols'[y + 1] = Sym(y)) /\ Num \in Nat
    BY <1>1, <1>2, SymbolTypes DEF Num, Indices, Sym
  <2>2. NamesInv'
    BY <1>1, <1>2, <2>1 DEF NamesInv, Sym
  <2>3. HashInv'
    <3>1. Len(strings) \in Nat
      BY <1>1 DEF SymTypeOK
    <3> QED
      BY <1>1, <1>2, <2>1, <3>1, HashKeeps
  <2> QED
    BY <1>1, <2>2, <2>3 DEF LookupInv
<1>3. ASSUME NEW n \in Names, NEW local \in BOOLEAN, AddSymbol(n, local) \/ AddEntryFor(n, local)
      PROVE  LookupInv'
  BY <1>1, <1>3, LookupAdded DEF AddSymbol, AddEntryFor
<1>4. CASE WriteHash
  BY <1>1, <1>4, LookupHash DEF LookupInv
<1>5. CASE ArrangeSwap
  BY <1>1, <1>5, LookupSwap
<1>6. CASE (\E y \in Indices : AddEntry(y)) \/ StartArranging \/ FinishArranging \/ UNCHANGED symVars
  BY <1>2, <1>6 DEF AddEntry, StartArranging, FinishArranging, symVars
<1> QED
  BY <1>3, <1>4, <1>5, <1>6 DEF SymNext, Arrange

LEMMA LookupHolds == ObjectSpec => [](SymInv /\ LookupInv)
<1>1. SymInit => LookupInv
  <2> SUFFICES ASSUME SymInit PROVE LookupInv
    OBVIOUS
  <2>1. strings = <<>> /\ symbols = <<>> /\ hash = NoHash /\ SymTypeOK
    BY SymStart DEF SymInit, SymInv
  <2>2. Indices = {} /\ DOMAIN strings = {}
    BY <2>1 DEF Indices, Num
  <2> QED
    BY <2>1, <2>2 DEF LookupInv, NamesInv, HashInv
<1>2. SymInv /\ SymInv' /\ LookupInv /\ [SymNext]_symVars => LookupInv'
  BY LookupStep
<1> QED
  BY <1>1, <1>2, TablesHold, TablesOfObject, PTL DEF SymSpec

\* While the table is the one that the hash section was written for, names are as they were.
LEMMA SameNames ==
  ASSUME SymTypeOK, NamesInv, hash.of = symbols
  PROVE  Hashed = 1 .. Num - 1 /\ \A y \in 1 .. Num - 1 : OldName(y) = NameOf(y) /\ OldBucket(y) = Bucket(NameOf(y))
<1>1. \A y \in 1 .. Num - 1 : y \in Indices /\ y > 0
  BY SymbolTypes DEF Indices
<1>2. \A y \in 1 .. Num - 1 : NameOf(y) = strings[symbols[y + 1].name]
  BY <1>1, NameIs DEF Sym
<1> QED
  BY <1>2 DEF OldName, OldBucket, Hashed, Num

\* The walk of hash_lookup
SysvStops(n, y) == NameOf(y) = n \/ y = 0 \/ y >= hash.nchain
SysvWalk(n) ==
  CHOOSE walk : walk = [y \in 0 .. hash.nchain |-> IF SysvStops(n, y) THEN y ELSE walk[hash.chain[y]]]

LEMMA HashLookupWalks ==
  ASSUME NEW n
  PROVE  HashLookup(n) = LET last == SysvWalk(n)[hash.bucket[Bucket(n)]]
                         IN  IF NameOf(last) = n THEN last ELSE Num
BY Zenon DEF HashLookup, SysvWalk, SysvStops

LEMMA SysvWalkIs ==
  ASSUME LookupInv, hash # NoHash, hash.type = "SHT_HASH", NEW n
  PROVE  \A y \in 0 .. hash.nchain :
           /\ SysvWalk(n)[y] = IF SysvStops(n, y) THEN y ELSE SysvWalk(n)[hash.chain[y]]
           /\ SysvWalk(n)[y] \in 0 .. hash.nchain
<1>1. SysvInv /\ Len(hash.of) \in 2 .. Num
  BY DEF LookupInv, HashInv
<1>2. PICK N \in Nat : N = hash.nchain /\ Hashed = 1 .. N - 1
  BY <1>1 DEF SysvInv, Hashed
<1>3. \A y \in 1 .. N - 1 : hash.chain[y] \in 0 .. y - 1
  BY <1>1, <1>2 DEF SysvInv
<1> DEFINE D == 0 .. N
           stop == [y \in D |-> SysvStops(n, y)]
           out == [y \in D |-> y]
           far == [y \in D |-> y]
           body(f) == [y \in D |-> IF SysvStops(n, y) THEN y ELSE f[hash.chain[y]]]
<1>4. \A y \in D : ~ SysvStops(n, y) => hash.chain[y] \in D /\ hash.chain[y] < y
  BY <1>2, <1>3 DEF SysvStops
<1>5. \E f : Walks(f, D, stop, out, hash.chain)
  <2>1. far \in [D -> 0 .. N]
    OBVIOUS
  <2>2. ASSUME NEW y \in D, ~ stop[y]
        PROVE  hash.chain[y] \in D /\ far[hash.chain[y]] < far[y]
    <3>1. ~ SysvStops(n, y)
      BY <2>2, Zenon
    <3> QED
      BY <1>4, <3>1
  <2>3. Approaches(D, N, far, stop, hash.chain)
    <3> HIDE DEF D, stop, far
    <3> QED
      BY <2>1, <2>2 DEF Approaches
  <2> HIDE DEF D, stop, out, far
  <2> QED
    BY <2>3, WalkIs
<1>6. PICK f : Walks(f, D, stop, out, hash.chain)
  BY <1>5
<1> DEFINE g == [y \in D |-> f[y]]
<1>7. \A y \in D : f[y] = IF SysvStops(n, y) THEN y ELSE f[hash.chain[y]]
  <2> TAKE y \in D
  <2>1. f[y] = IF stop[y] THEN out[y] ELSE f[hash.chain[y]]
    BY <1>6 DEF Walks
  <2>2. stop[y] = SysvStops(n, y) /\ out[y] = y
    BY Zenon
  <2> HIDE DEF stop, out
  <2> QED
    BY <2>1, <2>2, Zenon
<1>8. g = body(g)
  <2> SUFFICES ASSUME NEW y \in D
               PROVE  f[y] = IF SysvStops(n, y) THEN y ELSE g[hash.chain[y]]
    BY Zenon
  <2>1. ~ SysvStops(n, y) => g[hash.chain[y]] = f[hash.chain[y]]
    BY <1>4
  <2> HIDE DEF g
  <2> QED
    BY <1>7, <2>1, Zenon
<1>9. SysvWalk(n) = body(SysvWalk(n))
  <2> HIDE DEF g
  <2>1. \E w : w = body(w)
    BY <1>8
  <2>2. SysvWalk(n) = CHOOSE w : w = body(w)
    BY <1>2 DEF SysvWalk
  <2> HIDE DEF body
  <2> QED
    BY <2>1, <2>2, Zenon
<1> DEFINE w == SysvWalk(n)
<1>10. \A y \in D : w[y] = IF SysvStops(n, y) THEN y ELSE w[hash.chain[y]]
  BY <1>9
<1> HIDE DEF w, D
<1> DEFINE S == {y \in 0 .. N : w[y] \in D}
<1>11. \A y \in 0 .. N : y \in S
  <2>1. ASSUME NEW y \in 0 .. N, \A x \in 0 .. y - 1 : x \in S
        PROVE  y \in S
    <3>1. y \in D
      BY DEF D
    <3>2. CASE SysvStops(n, y)
      BY <1>10, <3>1, <3>2
    <3>3. CASE ~ SysvStops(n, y)
      <4>1. hash.chain[y] \in 0 .. y - 1
        BY <1>4, <3>1, <3>3 DEF D
      <4>2. w[hash.chain[y]] \in D
        BY <2>1, <4>1
      <4>3. w[y] = w[hash.chain[y]]
        BY <1>10, <3>1, <3>3
      <4> QED
        BY <4>2, <4>3
    <3> QED
      BY <3>2, <3>3
  <2> HIDE DEF S
  <2> QED
    BY <2>1, UpwardsFromAll
<1> QED
  BY <1>2, <1>10, <1>11 DEF D, w

\* hash_lookup returns a symbol with the name, or none; it finds every name that the
\* hash section was made with.
LEMMA SysvFinds ==
  ASSUME LookupInv, hash # NoHash, hash.type = "SHT_HASH", NEW n \in Names
  PROVE  /\ HashLookup(n) \in 0 .. Num /\ (HashLookup(n) < Num => NameOf(HashLookup(n)) = n)
         /\ hash.of = symbols => \A y \in 1 .. Num - 1 : NameOf(y) = n => HashLookup(n) < Num
<1>1. SysvInv /\ Len(hash.of) \in 2 .. Num /\ hash.nchain = Len(hash.of) /\ SymTypeOK /\ NamesInv
  BY DEF LookupInv, HashInv, SysvInv
<1>2. Num \in Nat /\ Num = Len(symbols)
  BY <1>1, SymbolTypes
<1> DEFINE w == SysvWalk(n)
           head == hash.bucket[Bucket(n)]
<1>3. head \in 0 .. hash.nchain
  BY <1>1 DEF SysvInv
<1>4. \A y \in 0 .. hash.nchain : /\ w[y] = IF SysvStops(n, y) THEN y ELSE w[hash.chain[y]]
                                  /\ w[y] \in 0 .. hash.nchain
  BY SysvWalkIs
<1>5. HashLookup(n) = IF NameOf(w[head]) = n THEN w[head] ELSE Num
  BY HashLookupWalks
<1> HIDE DEF w
<1>6. HashLookup(n) \in 0 .. Num /\ (HashLookup(n) < Num => NameOf(HashLookup(n)) = n)
  <2>1. w[head] \in 0 .. Num
    BY <1>1, <1>2, <1>3, <1>4
  <2> HIDE DEF head
  <2> QED
    BY <1>2, <1>5, <2>1
<1>7. ASSUME hash.of = symbols, NEW y \in 1 .. Num - 1, NameOf(y) = n
      PROVE  HashLookup(n) < Num
  <2>1. Hashed = 1 .. Num - 1 /\ \A z \in 1 .. Num - 1 : OldBucket(z) = Bucket(NameOf(z))
    BY <1>1, <1>7, SameNames
  <2>2. hash.nchain = Num /\ OldBucket(y) = Bucket(n) /\ HeadOf(y) = head
    BY <1>1, <1>2, <1>7, <2>1 DEF HeadOf
  <2> DEFINE Far(z) == z \in 1 .. Num - 1 /\ y <= z /\ OldBucket(z) = OldBucket(y)
             S == {z \in 0 .. Num : Far(z) => NameOf(w[z]) = n /\ w[z] < Num}
  <2>3. \A z \in 0 .. Num : z \in S
    <3>1. ASSUME NEW z \in 0 .. Num, \A x \in 0 .. z - 1 : x \in S
          PROVE  z \in S
      <4> SUFFICES ASSUME Far(z) PROVE NameOf(w[z]) = n /\ w[z] < Num
        OBVIOUS
      <4>1. w[z] = IF SysvStops(n, z) THEN z ELSE w[hash.chain[z]]
        BY <1>4, <2>2
      <4>2. CASE NameOf(z) = n
        BY <1>2, <4>1, <4>2 DEF SysvStops
      <4>3. CASE NameOf(z) # n
        <5>1. z # y /\ y < z /\ ~ SysvStops(n, z)
          BY <1>2, <1>7, <2>2, <4>3 DEF SysvStops
        <5>2. hash.chain[z] \in 0 .. z - 1 /\ y <= hash.chain[z] /\ OldBucket(hash.chain[z]) = OldBucket(y)
          BY <1>1, <2>1, <5>1 DEF SysvInv
        <5>3. Far(hash.chain[z])
          BY <1>2, <5>2
        <5>4. hash.chain[z] \in S
          BY <3>1, <5>2
        <5> QED
          BY <4>1, <5>1, <5>3, <5>4
      <4> QED
        BY <4>2, <4>3
    <3> HIDE DEF S
    <3> QED
      BY <1>2, <3>1, UpwardsFromAll
  <2>4. y <= head /\ head \in 1 .. Num - 1 /\ OldBucket(head) = OldBucket(y)
    BY <1>1, <2>1, <2>2 DEF SysvInv
  <2>5. NameOf(w[head]) = n /\ w[head] < Num
    <3>1. head \in 0 .. Num /\ Far(head)
      BY <1>2, <2>4
    <3> HIDE DEF Far, head
    <3> QED
      BY <2>3, <3>1
  <2> HIDE DEF head
  <2> QED
    BY <1>5, <2>5
<1> QED
  BY <1>6, <1>7

\* The walk of gnu_hash_lookup
GnuMatches(n, y) == hash.chain[y].half = Hash[n] \div 2 /\ NameOf(y) = n
GnuWalk(n) ==
  CHOOSE walk : walk = [y \in DOMAIN hash.chain |->
    IF GnuMatches(n, y) THEN y ELSE IF hash.chain[y].end THEN Num ELSE walk[y + 1]]

LEMMA GnuLookupWalks ==
  ASSUME NEW n
  PROVE  GnuHashLookup(n) =
           LET head == hash.bucket[Bucket(n)]
           IN  IF FilterOf(n) \subseteq hash.filter /\ head >= hash.symoffset THEN GnuWalk(n)[head] ELSE Num
BY Zenon DEF GnuHashLookup, GnuWalk, GnuMatches

LEMMA GnuWalkIs ==
  ASSUME LookupInv, hash # NoHash, hash.type = "SHT_GNU_HASH", NEW n
  PROVE  \A y \in DOMAIN hash.chain :
           /\ GnuWalk(n)[y] = IF GnuMatches(n, y) THEN y
                              ELSE IF hash.chain[y].end THEN Num ELSE GnuWalk(n)[y + 1]
           /\ GnuWalk(n)[y] = Num \/ (GnuWalk(n)[y] \in DOMAIN hash.chain /\ NameOf(GnuWalk(n)[y]) = n)
<1>1. GnuInv /\ Len(hash.of) \in 2 .. Num
  BY DEF LookupInv, HashInv
<1>2. PICK N \in Nat : N = Len(hash.of) - 1
  BY <1>1
<1>3. PICK from \in Nat : from \in 1 .. N /\ DOMAIN hash.chain = from .. N /\ hash.chain[N].end
  BY <1>1, <1>2 DEF GnuInv, Hashed
<1> DEFINE D == from .. N
           stop == [y \in D |-> GnuMatches(n, y) \/ hash.chain[y].end]
           out == [y \in D |-> IF GnuMatches(n, y) THEN y ELSE Num]
           next == [y \in D |-> y + 1]
           far == [y \in D |-> N - y]
           body(f) == [y \in D |-> IF GnuMatches(n, y) THEN y
                                   ELSE IF hash.chain[y].end THEN Num ELSE f[y + 1]]
<1>4. \A y \in D : ~ hash.chain[y].end => y + 1 \in D /\ y < N /\ next[y] = y + 1 /\ N - (y + 1) < N - y
  BY <1>3
<1>5. \E f : Walks(f, D, stop, out, next)
  <2>1. far \in [D -> 0 .. N]
    OBVIOUS
  <2>2. ASSUME NEW y \in D, ~ stop[y]
        PROVE  next[y] \in D /\ far[next[y]] < far[y]
    <3>1. ~ hash.chain[y].end
      BY <2>2, Zenon
    <3>2. y + 1 \in D /\ next[y] = y + 1 /\ N - (y + 1) < N - y
      BY <1>4, <3>1
    <3>3. far[y + 1] = N - (y + 1) /\ far[y] = N - y
      BY <3>2
    <3> HIDE DEF next, far
    <3> QED
      BY <3>2, <3>3
  <2>3. Approaches(D, N, far, stop, next)
    <3> HIDE DEF D, stop, far, next
    <3> QED
      BY <2>1, <2>2 DEF Approaches
  <2> HIDE DEF D, stop, out, far, next
  <2> QED
    BY <2>3, WalkIs
<1>6. PICK f : Walks(f, D, stop, out, next)
  BY <1>5
<1> DEFINE g == [y \in D |-> f[y]]
<1>7. \A y \in D : f[y] = IF GnuMatches(n, y) THEN y ELSE IF hash.chain[y].end THEN Num ELSE f[y + 1]
  <2> TAKE y \in D
  <2>1. f[y] = IF stop[y] THEN out[y] ELSE f[next[y]]
    BY <1>6 DEF Walks
  <2>2. /\ stop[y] = (GnuMatches(n, y) \/ hash.chain[y].end)
        /\ out[y] = (IF GnuMatches(n, y) THEN y ELSE Num) /\ next[y] = y + 1
    BY Zenon
  <2> HIDE DEF stop, out, next
  <2> QED
    BY <2>1, <2>2, Zenon
<1>8. g = body(g)
  <2> SUFFICES ASSUME NEW y \in D
               PROVE  f[y] = IF GnuMatches(n, y) THEN y ELSE IF hash.chain[y].end THEN Num ELSE g[y + 1]
    BY Zenon
  <2>1. ~ hash.chain[y].end => g[y + 1] = f[y + 1]
    BY <1>4
  <2> HIDE DEF g
  <2> QED
    BY <1>7, <2>1, Zenon
<1>9. GnuWalk(n) = body(GnuWalk(n))
  <2> HIDE DEF g
  <2>1. \E w : w = body(w)
    BY <1>8
  <2>2. GnuWalk(n) = CHOOSE w : w = body(w)
    BY <1>3, Zenon DEF GnuWalk
  <2> HIDE DEF body
  <2> QED
    BY <2>1, <2>2, Zenon
<1> DEFINE w == GnuWalk(n)
<1>10. \A y \in D : w[y] = IF GnuMatches(n, y) THEN y ELSE IF hash.chain[y].end THEN Num ELSE w[y + 1]
  BY <1>9, Zenon
<1> HIDE DEF w, D
<1> DEFINE Found(y) == w[y] = Num \/ (w[y] \in D /\ NameOf(w[y]) = n)
           S == {m \in 0 .. N : N - m \in D => Found(N - m)}
<1>11. \A m \in 0 .. N : m \in S
  <2>1. ASSUME NEW m \in 0 .. N, \A x \in 0 .. m - 1 : x \in S
        PROVE  m \in S
    <3> SUFFICES ASSUME N - m \in D PROVE Found(N - m)
      OBVIOUS
    <3>1. CASE GnuMatches(n, N - m)
      BY <1>10, <3>1 DEF GnuMatches
    <3>2. CASE ~ GnuMatches(n, N - m) /\ hash.chain[N - m].end
      <4>1. w[N - m] = Num
        BY <1>10, <3>2, Zenon
      <4> QED
        BY <4>1
    <3>3. CASE ~ GnuMatches(n, N - m) /\ ~ hash.chain[N - m].end
      <4>1. N - m + 1 \in D /\ N - m < N
        BY <1>4, <3>3
      <4>2. m - 1 \in 0 .. m - 1 /\ N - (m - 1) = N - m + 1
        BY <4>1
      <4>3. Found(N - m + 1)
        BY <2>1, <4>1, <4>2
      <4>4. w[N - m] = w[N - m + 1]
        BY <1>10, <3>3
      <4> QED
        BY <4>3, <4>4
    <3> QED
      BY <3>1, <3>2, <3>3
  <2> HIDE DEF S
  <2> QED
    BY <2>1, UpwardsFromAll
<1>12. \A y \in D : Found(y)
  <2> TAKE y \in D
  <2>1. N - y \in 0 .. N /\ N - (N - y) = y
    BY DEF D
  <2>2. N - y \in S
    BY <1>11, <2>1
  <2> HIDE DEF Found
  <2> QED
    BY <2>1, <2>2
<1>13. DOMAIN hash.chain = D
  BY <1>3 DEF D
<1> QED
  BY <1>10, <1>12, <1>13 DEF w

\* gnu_hash_lookup, likewise
LEMMA GnuFinds ==
  ASSUME LookupInv, hash # NoHash, hash.type = "SHT_GNU_HASH", NEW n \in Names
  PROVE  /\ GnuHashLookup(n) \in 0 .. Num /\ (GnuHashLookup(n) < Num => NameOf(GnuHashLookup(n)) = n)
         /\ hash.of = symbols => \A y \in hash.symoffset .. Num - 1 : NameOf(y) = n => GnuHashLookup(n) < Num
<1>1. GnuInv /\ Len(hash.of) \in 2 .. Num /\ SymTypeOK /\ NamesInv
  BY DEF LookupInv, HashInv
<1>2. Num \in Nat /\ Num = Len(symbols)
  BY <1>1, SymbolTypes
<1> DEFINE w == GnuWalk(n)
           head == hash.bucket[Bucket(n)]
           D == DOMAIN hash.chain
<1>3. head \in 0 .. Len(hash.of) - 1 /\ D = hash.symoffset .. Len(hash.of) - 1 /\ hash.symoffset \in 1 .. Len(hash.of) - 1
  BY <1>1 DEF GnuInv, Hashed
<1>4. \A y \in D : /\ w[y] = IF GnuMatches(n, y) THEN y ELSE IF hash.chain[y].end THEN Num ELSE w[y + 1]
                   /\ w[y] = Num \/ (w[y] \in D /\ NameOf(w[y]) = n)
  BY GnuWalkIs
<1>5. GnuHashLookup(n) = IF FilterOf(n) \subseteq hash.filter /\ head >= hash.symoffset THEN w[head] ELSE Num
  BY GnuLookupWalks
<1> HIDE DEF w
<1>6. GnuHashLookup(n) \in 0 .. Num /\ (GnuHashLookup(n) < Num => NameOf(GnuHashLookup(n)) = n)
  <2>1. CASE FilterOf(n) \subseteq hash.filter /\ head >= hash.symoffset
    <3>1. head \in D
      BY <1>3, <2>1
    <3>2. w[head] = Num \/ (w[head] \in 0 .. Num /\ NameOf(w[head]) = n)
      BY <1>1, <1>2, <1>3, <1>4, <3>1
    <3> HIDE DEF head
    <3> QED
      BY <1>2, <1>5, <2>1, <3>2
  <2>2. CASE ~ (FilterOf(n) \subseteq hash.filter /\ head >= hash.symoffset)
    BY <1>2, <1>5, <2>2
  <2> QED
    BY <2>1, <2>2
<1>7. ASSUME hash.of = symbols, NEW y \in hash.symoffset .. Num - 1, NameOf(y) = n
      PROVE  GnuHashLookup(n) < Num
  <2>1. D = hash.symoffset .. Num - 1 /\ y \in 1 .. Num - 1 /\ y \in D
    BY <1>2, <1>3, <1>7
  <2>2. OldName(y) = n /\ OldBucket(y) = Bucket(n) /\ HeadOf(y) = head
    BY <1>1, <1>7, <2>1, SameNames DEF HeadOf
  <2>3. /\ hash.chain[y].half = Hash[n] \div 2 /\ FilterOf(n) \subseteq hash.filter
        /\ hash.symoffset <= head /\ head <= y
        /\ \A z \in head .. y - 1 : ~ hash.chain[z].end
    BY <1>1, <1>2, <1>7, <2>1, <2>2 DEF GnuInv
  <2>4. head \in Nat /\ y \in Nat /\ \A z \in head .. y : z \in D
    BY <1>3, <2>1, <2>3
  <2> DEFINE S == {m \in 0 .. y : y - m >= head => w[y - m] < Num}
  <2>5. \A m \in 0 .. y : m \in S
    <3>1. ASSUME NEW m \in 0 .. y, \A x \in 0 .. m - 1 : x \in S
          PROVE  m \in S
      <4> SUFFICES ASSUME y - m >= head PROVE w[y - m] < Num
        OBVIOUS
      <4>1. y - m \in D
        BY <2>4
      <4>2. CASE GnuMatches(n, y - m)
        BY <1>2, <1>4, <2>1, <4>1, <4>2
      <4>3. CASE ~ GnuMatches(n, y - m)
        <5>1. m > 0
          BY <1>7, <2>3, <4>3 DEF GnuMatches
        <5>2. y - m \in head .. y - 1 /\ y - (m - 1) = y - m + 1 /\ m - 1 \in 0 .. m - 1
          BY <2>4, <5>1
        <5>3. w[y - m] = w[y - m + 1]
          BY <1>4, <2>3, <4>1, <4>3, <5>2
        <5>4. w[y - (m - 1)] < Num
          BY <2>4, <3>1, <5>2
        <5> QED
          BY <5>2, <5>3, <5>4
      <4> QED
        BY <4>2, <4>3
    <3> HIDE DEF S
    <3> QED
      BY <2>4, <3>1, UpwardsFromAll
  <2>6. w[head] < Num
    <3>1. y - head \in 0 .. y /\ y - (y - head) = head
      BY <2>3, <2>4
    <3>2. y - head \in S
      BY <2>5, <3>1
    <3> HIDE DEF head
    <3> QED
      BY <2>4, <3>1, <3>2
  <2>7. head >= hash.symoffset
    BY <1>3, <2>3
  <2> HIDE DEF head
  <2> QED
    BY <1>5, <2>3, <2>6, <2>7
<1> QED
  BY <1>6, <1>7

\* get_symbol finds a name exactly if the table has it, also when symbols were moved or
\* added after a hash section was written, and what stands in a hash section of the
\* present table it finds there (elfio_symbols.hpp:91-132, 290-392).
THEOREM NamesFound == ObjectSpec => []LookupFinds
<1>1. SymInv /\ LookupInv => LookupFinds
  <2> SUFFICES ASSUME LookupInv
               PROVE  LookupFinds
    OBVIOUS
  <2>1. SymTypeOK /\ NamesInv /\ HashInv /\ Num \in Nat /\ Indices \subseteq 0 .. Num
    BY SymbolTypes DEF LookupInv, Indices
  <2>2. \A n \in Names : /\ ByHash(n) \in 0 .. Num /\ (ByHash(n) < Num => NameOf(ByHash(n)) = n)
    <3> TAKE n \in Names
    <3>1. CASE hash = NoHash
      <4>1. hash.type = "none"
        BY <3>1 DEF NoHash
      <4>2. ByHash(n) = Num
        BY <4>1 DEF ByHash
      <4> QED
        BY <2>1, <4>2
    <3>2. CASE hash # NoHash /\ hash.type = "SHT_HASH"
      <4>1. ByHash(n) = HashLookup(n)
        BY <3>2 DEF ByHash
      <4> QED
        BY <3>2, <4>1, SysvFinds
    <3>3. CASE hash # NoHash /\ hash.type = "SHT_GNU_HASH"
      <4>1. ByHash(n) = GnuHashLookup(n)
        BY <3>3 DEF ByHash
      <4> QED
        BY <3>3, <4>1, GnuFinds
    <3> QED
      BY <2>1, <3>1, <3>2, <3>3 DEF HashInv
  <2>3. ASSUME NEW n \in Names
        PROVE  IF \E y \in Indices : NameOf(y) = n
               THEN SymbolNamed(n) < Num /\ NameOf(SymbolNamed(n)) = n
               ELSE SymbolNamed(n) = Num
    <3> DEFINE S == {y \in Indices : NameOf(y) = n}
    <3>1. S \subseteq 0 .. Num
      BY <2>1
    <3>2. /\ S = {} => Least(S, Num) = Num
          /\ S # {} => Least(S, Num) \in S
      <4> HIDE DEF S
      <4> QED
        BY <2>1, <3>1, LeastOf
    <3>3. SymbolNamed(n) = IF ByHash(n) < Num THEN ByHash(n) ELSE Least(S, Num)
      BY DEF SymbolNamed
    <3>4. CASE ByHash(n) < Num
      <4>1. ByHash(n) \in Indices /\ NameOf(ByHash(n)) = n
        BY <2>1, <2>2, <3>4 DEF Indices
      <4> QED
        BY <3>3, <3>4, <4>1
    <3>5. CASE ~ (ByHash(n) < Num)
      <4>1. \A y \in Indices : y < Num
        BY DEF Indices
      <4> QED
        BY <3>2, <3>3, <3>5, <4>1
    <3> QED
      BY <3>4, <3>5
  <2>4. ASSUME hash # NoHash, hash.of = symbols, NEW y \in Indices, y >= hash.symoffset
        PROVE  ByHash(NameOf(y)) < Num /\ NameOf(ByHash(NameOf(y))) = NameOf(y)
    <3>1. CASE hash.type = "SHT_HASH" /\ SysvInv
      <4>1. y \in 1 .. Num - 1
        BY <2>1, <2>4, <3>1, SymbolTypes DEF SysvInv
      <4>2. NameOf(y) \in Names
        BY <2>1, <4>1, InBucketIs
      <4>3. ByHash(NameOf(y)) = HashLookup(NameOf(y))
        BY <3>1 DEF ByHash
      <4> QED
        BY <2>2, <2>4, <3>1, <4>1, <4>2, <4>3, SysvFinds
    <3>2. CASE hash.type = "SHT_GNU_HASH" /\ GnuInv
      <4>1. y \in hash.symoffset .. Num - 1 /\ y \in 1 .. Num - 1
        <5>1. hash.symoffset \in 1 .. Len(hash.of) - 1 /\ Len(hash.of) \in Nat
          BY <2>1, <2>4, <3>2 DEF GnuInv, Hashed, HashInv
        <5>2. hash.symoffset \in Nat /\ hash.symoffset >= 1 /\ y \in Nat /\ y < Num
          BY <2>1, <5>1, SymbolTypes
        <5> QED
          BY <2>1, <2>4, <5>2
      <4>2. NameOf(y) \in Names
        BY <2>1, <4>1, InBucketIs
      <4>3. ByHash(NameOf(y)) = GnuHashLookup(NameOf(y))
        BY <3>2 DEF ByHash
      <4> QED
        BY <2>2, <2>4, <3>2, <4>1, <4>2, <4>3, GnuFinds
    <3> QED
      BY <2>1, <2>4, <3>1, <3>2 DEF HashInv
  <2> QED
    BY <2>3, <2>4 DEF LookupFinds
<1> QED
  BY <1>1, LookupHolds, PTL

-----------------------------------------------------------------------------
(* Objects, saving and loading. *)

Phases == {"edit", "order", "segment", "section", "loose", "saved", "failed",
           "sections", "segments", "loaded", "accepted", "rejected", "amended", "crashed"}
\* The phases in which a save has gone back, and it was not read since
BackPhases == {"segment", "section", "loose", "saved", "failed"}

\* Where the contents of sections begin
First == EhdrSize + PhdrSize * Len(segments)
\* A section that takes room in the file
Filled(sec) == HasBytes(sec) /\ sec.size > 0

\* The inductive invariant of an object from its first section to the file that was read
\* back, in parts. First, what its variables hold.
FileTypeInv ==
  /\ sections \in Seq(Header) /\ segments \in Seq(SegmentHeader)
  /\ phase \in Phases /\ pos \in Int /\ todo \in Seq(Nat) /\ order \in Seq(Nat)
  /\ generated \subseteq Nat
  /\ at \in [next : Nat, start : Int, memory : Int, size : Int]
  /\ good \in BOOLEAN /\ saves \in Nat
  /\ back \in BOOLEAN /\ (back => phase \in BackPhases)

\* What append_data keeps of a section: its contents fit, and one without contents is empty.
Fits(sec) ==
  /\ sec.data => sec.size <= sec.cap
  /\ sec.type # "NOBITS" => sec.data \/ (sec.size = 0 /\ sec.cap = 0)

\* ... and one with bytes has contents.
Sound(sec) == Fits(sec) /\ (HasBytes(sec) => sec.data)

Making == {"edit", "order", "segment", "section", "loose"}
Loaded == {"loaded", "amended"}
\* Sections as they are made, and as they are read: the first has no type and no
\* contents, and the numbers in segments are those of sections.
SectionsInv ==
  /\ \A k \in DOMAIN sections : sections[k].type = "NULL" => sections[k].size = 0
  /\ sections # <<>> => sections[1].type = "NULL"
  /\ phase \in Making \cup Loaded => Len(sections) >= 2 /\ file.names \in 1 .. Len(sections) - 1
  /\ \A s \in DOMAIN segments : \A j \in DOMAIN segments[s].secs : segments[s].secs[j] < Len(sections)
  /\ phase = "edit" =>
       /\ sections[1] = Created
       /\ \A k \in 2 .. Len(sections) : sections[k].type # "NULL"
       /\ \A k \in DOMAIN sections : Sound(sections[k])
  /\ phase \in Loaded /\ good =>
       \A k \in DOMAIN sections : HasBytes(sections[k]) => sections[k].data
  /\ \A k \in DOMAIN sections : sections[k].data => sections[k].size <= sections[k].cap
  /\ DataFits

\* The elements of a sequence
Into(q) == {q[k] : k \in DOMAIN q}
\* Where saving is: the segments that are ordered and those to come, and the sections
\* whose place is known.
OrderInv ==
  /\ phase = "order" => /\ DOMAIN segments = Into(todo) \cup Into(order)
                        /\ pos = First /\ generated = {}
  /\ phase \in {"segment", "section", "loose"} =>
       /\ Into(order) \subseteq DOMAIN segments
       /\ \A s \in DOMAIN segments \ Into(order) : \A j \in DOMAIN segments[s].secs : segments[s].secs[j] \in generated
  /\ phase = "section" => order # <<>> /\ at.next > 0 /\ \A j \in 1 .. at.next - 1 : j \in DOMAIN Current.secs => Current.secs[j] \in generated
  /\ phase = "loose" => order = <<>>

\* The sections that have their place
Placed == {i \in Numbers : i \in generated \/ (phase = "loose" /\ i < at.next /\ Loose(i))}
Apart(p, q) == p.offset + p.size <= q.offset \/ q.offset + q.size <= p.offset
\* The sections that have a place lie behind the headers and before pos, and apart,
\* unless the save went back.
PlacedInv ==
  ~ back /\ phase \in {"segment", "section", "loose"} =>
    /\ First <= pos
    /\ \A i \in Placed : Filled(Sec(i)) => First <= Sec(i).offset /\ Sec(i).offset + Sec(i).size <= pos
    /\ \A i, j \in Placed : i # j /\ Filled(Sec(i)) /\ Filled(Sec(j)) => Apart(Sec(i), Sec(j))

\* The file holds the object that was saved.
SavedInv ==
  phase = "saved" /\ saves > 0 /\ ~ back =>
    /\ sections = file.sections /\ segments = file.segments
    /\ \A i, j \in Numbers : i # j /\ Filled(Sec(i)) /\ Filled(Sec(j)) => Apart(Sec(i), Sec(j))

Loading == {"sections", "segments", "loaded", "accepted", "rejected"}

\* The entry of the section table that was read, and the one that was written
SameHeader(a, b) ==
  /\ a.type = b.type /\ a.alloc = b.alloc /\ a.tls = b.tls /\ a.size = b.size /\ a.align = b.align
  /\ a.address = b.address /\ a.offset = b.offset
Erased == \A k \in DOMAIN sections : sections[k].name = ""
NamesKept == \A k \in DOMAIN sections : sections[k].name = file.sections[k].name
ReadWhole == \A k \in DOMAIN sections : SameHeader(sections[k], file.sections[k]) /\ (HasBytes(sections[k]) => sections[k].data)

\* Where reading is: what was read is as the file has it for as long as good holds, and
\* no section has a name when the section of names was not read.
LoadInv ==
  /\ phase \in Loading \cup {"saved"} /\ ~ back => WellFormed(file)
  /\ phase = "sections" => /\ Len(sections) <= Len(file.sections)
                           /\ segments = <<>>
                           /\ file.whole => good
                           /\ good => ReadWhole /\ NamesKept
                           /\ ~ file.whole /\ Len(sections) = Len(file.sections) =>
                                ~ good /\ ~ HasNames(sections[Len(sections)])
  /\ phase \in {"segments", "loaded", "accepted"} =>
       /\ Len(sections) = Len(file.sections)
       /\ good <=> file.whole
       /\ good => ReadWhole /\ (NamesKept \/ Erased)
       /\ ~ good /\ file.names = Len(sections) - 1 => Erased
       /\ segments # <<>> => good
  /\ phase = "accepted" => ~ Erased

FileInv == FileTypeInv /\ SectionsInv /\ OrderInv /\ PlacedInv /\ SavedInv /\ LoadInv

-----------------------------------------------------------------------------
(* Positions and the order of segments. *)

\* Quotient and remainder of a number that may be below zero
LEMMA DivModInt ==
  ASSUME NEW a \in Int, NEW n \in Nat \ {0}
  PROVE  /\ a = n * (a \div n) + (a % n)
         /\ a % n \in 0 .. n - 1 /\ a \div n \in Int
OBVIOUS

LEMMA RoundedUpIs ==
  ASSUME NEW n \in Int, NEW a \in Nat
  PROVE  RoundedUp(n, a) \in Int /\ n <= RoundedUp(n, a)
<1>1. CASE a > 1
  <2>1. PICK q \in Int, r \in 0 .. a - 1 : q = (n + a - 1) \div a /\ n + a - 1 = a * q + r
    <3>1. n + a - 1 \in Int /\ a \in Nat \ {0}
      BY <1>1
    <3> QED
      BY <3>1, DivModInt
  <2>2. PICK m \in Int : m = a * q /\ m = q * a
    OBVIOUS
  <2>3. RoundedUp(n, a) = m
    BY <1>1, <2>1, <2>2 DEF RoundedUp
  <2> QED
    BY <2>1, <2>2, <2>3
<1>2. CASE ~ (a > 1)
  BY <1>2 DEF RoundedUp
<1> QED
  BY <1>1, <1>2

LEMMA CongruentIs ==
  ASSUME pos \in Int, Current.vaddr \in Nat, NEW align \in Nat
  PROVE  Congruent(align) \in Int /\ pos <= Congruent(align)
<1>1. PICK a \in Nat \ {0} : a = IF align > 0 THEN align ELSE 1
  OBVIOUS
<1>6. PICK v \in Nat : v = Current.vaddr % a
  BY <1>1, DivMod
<1>7. PICK p \in 0 .. a - 1 : p = pos % a
  BY <1>1, DivModInt
<1>2. v = Current.vaddr % a /\ p = pos % a
  BY <1>6, <1>7
<1>3. a + v - p \in Nat
  BY <1>1, <1>2
<1>4. (a + v - p) % a \in 0 .. a - 1
  BY <1>1, <1>3, DivMod
<1>5. Congruent(align) = pos + ((a + v - p) % a)
  BY <1>1, <1>2 DEF Congruent
<1> QED
  BY <1>1, <1>4, <1>5

Arrangements(n) == {p \in [1 .. n -> 1 .. n] : \A k, l \in 1 .. n : p[k] = p[l] => k = l}

LEMMA Exchanged ==
  ASSUME NEW n \in Nat, NEW p \in Arrangements(n), NEW i \in 1 .. n, NEW k \in 1 .. n
  PROVE  [p EXCEPT ![i] = p[k], ![k] = p[i]] \in Arrangements(n)
<1> DEFINE q == [p EXCEPT ![i] = p[k], ![k] = p[i]]
<1>1. p \in [1 .. n -> 1 .. n] /\ \A x, y \in 1 .. n : p[x] = p[y] => x = y
  BY DEF Arrangements
<1>2. q \in [1 .. n -> 1 .. n]
  BY <1>1
<1>3. \A x \in 1 .. n : q[x] = IF x = k THEN p[i] ELSE IF x = i THEN p[k] ELSE p[x]
  BY <1>1
<1>4. \A x, y \in 1 .. n : q[x] = q[y] => x = y
  <2> HIDE DEF q
  <2> QED
    BY <1>1, <1>3
<1> QED
  BY <1>2, <1>4 DEF Arrangements

\* One round of the first loop of get_ordered_segments
Round(i, r) ==
  LET slot == IF segments[r.list[r.next]].offset = 0 THEN r.next + 1 ELSE r.next
  IN  IF i # r.next /\ segments[r.list[i]].fixed /\ segments[r.list[i]].offset = 0
      THEN [list |-> [r.list EXCEPT ![i] = r.list[slot], ![slot] = r.list[i]], next |-> slot + 1]
      ELSE r

Rounds(n) ==
  CHOOSE f : f = [i \in 0 .. n |->
    IF i = 0 THEN [list |-> [s \in 1 .. n |-> s], next |-> 1] ELSE Round(i, f[i - 1])]

LEMMA ZeroFirstRounds == ZeroFirst = Rounds(Len(segments))[Len(segments)].list
BY Zenon DEF ZeroFirst, Rounds, Round

\* Every segment is in the order, once.
LEMMA ZeroFirstIs ==
  ASSUME NEW n \in Nat, n = Len(segments)
  PROVE  ZeroFirst \in Arrangements(n)
<1> DEFINE D == [i \in 0 .. n |-> [list : Arrangements(n), next : 1 .. i + 1]]
           d == [list |-> [s \in 1 .. n |-> s], next |-> 1]
           g == [i \in 1 .. n |-> [r \in D[i - 1] |-> Round(i, r)]]
           f == Rounds(n)
<1>1. d \in D[0]
  <2>1. [s \in 1 .. n |-> s] \in Arrangements(n)
    BY DEF Arrangements
  <2>2. d \in [list : Arrangements(n), next : 1 .. 0 + 1]
    BY <2>1
  <2> QED
    BY <2>2
<1>2. ASSUME NEW i \in 1 .. n, NEW r \in D[i - 1]
      PROVE  Round(i, r) \in D[i]
  <2>1. r \in [list : Arrangements(n), next : 1 .. i] /\ D[i] = [list : Arrangements(n), next : 1 .. i + 1]
    <3>1. i - 1 \in 0 .. n /\ i \in 0 .. n /\ i - 1 + 1 = i
      OBVIOUS
    <3>2. /\ D[i - 1] = [list : Arrangements(n), next : 1 .. i - 1 + 1]
          /\ D[i] = [list : Arrangements(n), next : 1 .. i + 1]
      BY <3>1
    <3> HIDE DEF D
    <3> QED
      BY <3>1, <3>2
  <2> DEFINE slot == IF segments[r.list[r.next]].offset = 0 THEN r.next + 1 ELSE r.next
  <2>2. CASE i # r.next /\ segments[r.list[i]].fixed /\ segments[r.list[i]].offset = 0
    <3>1. r.list \in Arrangements(n) /\ r.next \in 1 .. i
      BY <2>1
    <3>2. slot \in 1 .. i /\ i \in 1 .. n
      BY <2>2, <3>1
    <3> HIDE DEF slot
    <3>3. slot \in 1 .. n
      BY <3>2
    <3>4. [r.list EXCEPT ![i] = r.list[slot], ![slot] = r.list[i]] \in Arrangements(n)
      BY <3>1, <3>3, Exchanged
    <3>5. Round(i, r) = [list |-> [r.list EXCEPT ![i] = r.list[slot], ![slot] = r.list[i]],
                         next |-> slot + 1]
      BY <2>2 DEF Round, slot
    <3>6. slot + 1 \in 1 .. i + 1
      BY <3>2
    <3> HIDE DEF D
    <3> QED
      BY <2>1, <3>4, <3>5, <3>6
  <2>3. CASE ~ (i # r.next /\ segments[r.list[i]].fixed /\ segments[r.list[i]].offset = 0)
    <3>1. Round(i, r) = r
      BY <2>3 DEF Round
    <3>2. r.next \in 1 .. i + 1
      BY <2>1
    <3> HIDE DEF D
    <3> QED
      BY <2>1, <3>1, <3>2
  <2> QED
    BY <2>2, <2>3
<1>3. \A i \in 1 .. n : \A r \in D[i - 1] : g[i][r] = Round(i, r)
  <2> HIDE DEF D
  <2> QED
    OBVIOUS
<1>4. PICK e : e[0] = d /\ \A i \in 1 .. n : e[i] = g[i][e[i - 1]] /\ e[i] \in D[i]
  <2> HIDE DEF D, d, g
  <2>1. Leads(n, D, d, g)
    BY <1>1, <1>2, <1>3 DEF Leads
  <2>2. \E e : Recurs(e, n, D, d, g)
    BY <2>1, Recursion
  <2> QED
    BY <2>2 DEF Recurs
<1> DEFINE h == [i \in 0 .. n |-> e[i]]
<1>5. h = [i \in 0 .. n |-> IF i = 0 THEN d ELSE Round(i, h[i - 1])]
  <2>1. \A i \in 1 .. n : e[i] = Round(i, e[i - 1])
    <3>1. SUFFICES ASSUME NEW i \in 1 .. n PROVE e[i] = Round(i, e[i - 1])
      OBVIOUS
    <3> HIDE DEF D, d, g
    <3>2. e[i - 1] \in D[i - 1]
      <4>1. i - 1 = 0 \/ i - 1 \in 1 .. n
        OBVIOUS
      <4> QED
        BY <1>1, <1>4, <4>1
    <3> QED
      BY <1>3, <1>4, <3>2
  <2>2. \A i \in 0 .. n : h[i] = e[i] /\ (i # 0 => i \in 1 .. n /\ i - 1 \in 0 .. n)
    OBVIOUS
  <2> HIDE DEF D, d, g
  <2>3. \A i \in 0 .. n : h[i] = IF i = 0 THEN d ELSE Round(i, h[i - 1])
    <3> HIDE DEF h
    <3> QED
      BY <1>4, <2>1, <2>2
  <2>4. h = [i \in 0 .. n |-> h[i]]
    OBVIOUS
  <2> HIDE DEF h
  <2> QED
    BY <2>3, <2>4
<1>6. f = [i \in 0 .. n |-> IF i = 0 THEN d ELSE Round(i, f[i - 1])]
  BY <1>5, Zenon DEF Rounds
<1>7. f[0] = d /\ \A i \in 1 .. n : f[i] = Round(i, f[i - 1])
  <2> HIDE DEF f, d
  <2>1. \A i \in 0 .. n : f[i] = IF i = 0 THEN d ELSE Round(i, f[i - 1])
    BY <1>6
  <2> QED
    BY <2>1
<1> DEFINE S == {i \in 0 .. n : f[i] \in D[i]}
<1>8. \A i \in 0 .. n : i \in S
  <2> HIDE DEF f, D, d
  <2>1. 0 \in S
    BY <1>1, <1>7
  <2>2. ASSUME NEW m \in 0 .. n - 1, m \in S
        PROVE  m + 1 \in S
    <3>1. m + 1 \in 1 .. n /\ m + 1 - 1 = m
      OBVIOUS
    <3>2. f[m + 1] = Round(m + 1, f[m]) /\ f[m] \in D[m + 1 - 1]
      BY <1>7, <2>2, <3>1
    <3> QED
      BY <1>2, <3>1, <3>2
  <2> HIDE DEF S
  <2> QED
    BY <2>1, <2>2, Upwards
<1>9. f[n] \in [list : Arrangements(n), next : 1 .. n + 1]
  <2>1. n \in S
    BY <1>8
  <2> HIDE DEF f
  <2> QED
    BY <2>1
<1> HIDE DEF f
<1>10. f[n].list \in Arrangements(n)
  BY <1>9
<1> QED
  BY <1>10, ZeroFirstRounds DEF f

-----------------------------------------------------------------------------
(* What the invariant says of types. *)

LEMMA Sizes ==
  /\ EhdrSize \in Nat /\ PhdrSize \in Nat /\ PhdrSize > 0 /\ ShdrSize \in Nat /\ ShdrSize >= 9
  /\ NameSize \in Nat /\ Cuts \subseteq Nat
BY FileAssumption

LEMMA HeaderFields ==
  ASSUME NEW sec \in Header
  PROVE  /\ sec.name \in STRING /\ sec.type \in STRING /\ sec.alloc \in BOOLEAN
         /\ sec.tls \in BOOLEAN /\ sec.fixed \in BOOLEAN /\ sec.data \in BOOLEAN
         /\ sec.size \in Nat /\ sec.align \in Nat /\ sec.cap \in Nat /\ sec.room \in Nat
         /\ sec.address \in Int /\ sec.offset \in Int
BY DEF Header

LEMMA SegmentFields ==
  ASSUME NEW seg \in SegmentHeader
  PROVE  /\ seg.type \in STRING /\ seg.vaddr \in Nat /\ seg.align \in Nat
         /\ seg.memory \in Int /\ seg.size \in Int /\ seg.offset \in Int
         /\ seg.fixed \in BOOLEAN /\ seg.secs \in Seq(Nat)
         /\ Len(seg.secs) \in Nat /\ DOMAIN seg.secs = 1 .. Len(seg.secs)
<1>1. seg.secs \in Seq(Nat)
  BY DEF SegmentHeader
<1> QED
  BY <1>1 DEF SegmentHeader

LEMMA SectionTypes ==
  ASSUME FileTypeInv
  PROVE  /\ Len(sections) \in Nat /\ DOMAIN sections = 1 .. Len(sections)
         /\ \A k \in 1 .. Len(sections) : sections[k] \in Header
         /\ Numbers = 0 .. Len(sections) - 1
         /\ \A i \in Numbers : i \in Nat /\ i + 1 \in 1 .. Len(sections)
                               /\ Sec(i) = sections[i + 1] /\ Sec(i) \in Header
<1>1. sections \in Seq(Header)
  BY DEF FileTypeInv
<1>2. Len(sections) \in Nat /\ DOMAIN sections = 1 .. Len(sections)
  BY <1>1
<1>3. \A k \in 1 .. Len(sections) : sections[k] \in Header
  BY <1>1
<1>4. Numbers = 0 .. Len(sections) - 1
  BY <1>2 DEF Numbers
<1>5. \A i \in Numbers : i \in Nat /\ i + 1 \in 1 .. Len(sections) /\ Sec(i) = sections[i + 1]
  BY <1>2, <1>4 DEF Sec
<1>6. \A i \in Numbers : Sec(i) \in Header
  BY <1>3, <1>5
<1> QED
  BY <1>2, <1>3, <1>4, <1>5, <1>6

LEMMA SegmentTypes ==
  ASSUME FileTypeInv, SectionsInv
  PROVE  /\ Len(segments) \in Nat /\ DOMAIN segments = 1 .. Len(segments)
         /\ \A s \in 1 .. Len(segments) :
              /\ segments[s] \in SegmentHeader
              /\ \A j \in 1 .. Len(segments[s].secs) : segments[s].secs[j] \in Numbers
         /\ First \in Nat
<1>1. segments \in Seq(SegmentHeader)
  BY DEF FileTypeInv
<1>2. Len(segments) \in Nat /\ DOMAIN segments = 1 .. Len(segments)
  BY <1>1
<1>3. \A s \in 1 .. Len(segments) : segments[s] \in SegmentHeader
  BY <1>1
<1>4. ASSUME NEW s \in 1 .. Len(segments), NEW j \in 1 .. Len(segments[s].secs)
      PROVE  segments[s].secs[j] \in Numbers
  <2>1. segments[s].secs \in Seq(Nat) /\ DOMAIN segments[s].secs = 1 .. Len(segments[s].secs)
    BY <1>3, SegmentFields
  <2>2. segments[s].secs[j] \in Nat /\ segments[s].secs[j] < Len(sections)
    BY <1>2, <2>1 DEF SectionsInv
  <2> QED
    BY <2>2, SectionTypes
<1>5. First \in Nat
  BY <1>2, Sizes DEF First
<1> QED
  BY <1>2, <1>3, <1>4, <1>5

\* Segments have sections of the file.
LEMMA SegmentsInside ==
  ASSUME FileInv
  PROVE  /\ segments \in Seq(SegmentHeader) /\ Len(segments) \in Nat
         /\ \A s \in 1 .. Len(segments) :
              /\ segments[s] \in SegmentHeader
              /\ \A j \in 1 .. Len(segments[s].secs) :
                   segments[s].secs[j] \in Nat /\ segments[s].secs[j] < Len(sections)
<1>1. FileTypeInv /\ SectionsInv
  BY DEF FileInv
<1>2. /\ Len(segments) \in Nat
      /\ \A s \in 1 .. Len(segments) : segments[s] \in SegmentHeader
      /\ \A s \in 1 .. Len(segments) : \A j \in 1 .. Len(segments[s].secs) : segments[s].secs[j] \in Numbers
  BY <1>1, SegmentTypes
<1>3. \A i \in Numbers : i \in Nat /\ i < Len(sections)
  BY <1>1, SectionTypes
<1>4. segments \in Seq(SegmentHeader)
  BY <1>1 DEF FileTypeInv
<1> QED
  BY <1>2, <1>3, <1>4

-----------------------------------------------------------------------------
(* Contents of sections. *)

SamePlace(a, b) ==
  /\ a.name = b.name /\ a.type = b.type /\ a.alloc = b.alloc /\ a.tls = b.tls /\ a.align = b.align
  /\ a.address = b.address /\ a.offset = b.offset /\ a.fixed = b.fixed

\* What was appended to fits, and what fits has its contents in its memory.
LEMMA FitsRoom ==
  ASSUME NEW sec \in Header, sec.data => sec.size <= sec.cap, sec.data, sec.cap <= sec.room
  PROVE  sec.size <= sec.room
<1>1. sec.size \in Nat /\ sec.cap \in Nat /\ sec.room \in Nat
  BY HeaderFields
<1> QED
  BY <1>1

LEMMA AppendedIs ==
  ASSUME NEW sec \in Header, NEW n \in Nat, sec.data => sec.size <= sec.cap,
         sec.type # "NOBITS" => sec.data \/ sec.size = 0
  PROVE  /\ Appended(sec, n) \in Header /\ SamePlace(Appended(sec, n), sec)
         /\ Appended(sec, n).data => Appended(sec, n).size <= Appended(sec, n).cap
         /\ sec.data => Appended(sec, n).data
         /\ Fits(sec) => Sound(Appended(sec, n))
<1> DEFINE r == Appended(sec, n)
<1>1. /\ sec.size \in Nat /\ sec.cap \in Nat /\ 2 * (sec.cap + n) \in Nat /\ sec.size + n \in Nat
      /\ sec.data \in BOOLEAN
  BY HeaderFields
<1>2. CASE sec.type = "NOBITS"
  <2>1. Appended(sec, n) = sec
    BY <1>2 DEF Appended
  <2> QED
    BY <1>2, <2>1 DEF SamePlace, Sound, HasBytes
<1>3. CASE sec.type # "NOBITS" /\ sec.size + n < sec.cap
  <2>1. r = [sec EXCEPT !.size = sec.size + n]
    BY <1>3 DEF Appended
  <2> HIDE DEF r
  <2>2. r \in Header
    BY <1>1, <2>1 DEF Header
  <2>3. r.size = sec.size + n /\ r.cap = sec.cap /\ r.data = sec.data /\ SamePlace(r, sec)
    BY <2>1 DEF Header, SamePlace
  <2>4. r.data => r.size <= r.cap
    BY <1>1, <1>3, <2>3
  <2>5. Fits(sec) => Sound(r)
    <3>1. Fits(sec) => sec.data
      BY <1>1, <1>3 DEF Fits
    <3> QED
      BY <2>3, <2>4, <3>1 DEF Fits, Sound
  <2> QED
    BY <2>2, <2>3, <2>4, <2>5 DEF r
<1>4. CASE sec.type # "NOBITS" /\ ~ (sec.size + n < sec.cap)
  <2>1. r = [sec EXCEPT !.size = sec.size + n, !.cap = 2 * (sec.cap + n),
                        !.room = 2 * (sec.cap + n), !.data = TRUE]
    BY <1>4 DEF Appended
  <2> HIDE DEF r
  <2>2. r \in Header
    BY <1>1, <2>1 DEF Header
  <2>3. r.size = sec.size + n /\ r.cap = 2 * (sec.cap + n) /\ r.data = TRUE /\ SamePlace(r, sec)
    BY <2>1 DEF Header, SamePlace
  <2>4. sec.size + n <= 2 * (sec.cap + n)
    <3>1. sec.size <= sec.cap
      BY <1>1, <1>4
    <3> QED
      BY <1>1, <3>1
  <2>5. Sound(r) /\ (r.data => r.size <= r.cap)
    BY <2>3, <2>4 DEF Fits, Sound
  <2> QED
    BY <2>2, <2>3, <2>5 DEF r
<1> QED
  BY <1>2, <1>3, <1>4

\* Only the noted capacity grows.
LEMMA NotGrownIs ==
  ASSUME NEW sec \in Header, NEW n \in Nat
  PROVE  /\ NotGrown(sec, n) \in Header /\ SamePlace(NotGrown(sec, n), sec)
         /\ (sec.data => sec.size <= sec.cap) =>
              (NotGrown(sec, n).data => NotGrown(sec, n).size <= NotGrown(sec, n).cap)
         /\ NotGrown(sec, n).data = sec.data
         /\ Fits(sec) /\ sec.data => Sound(NotGrown(sec, n))
<1> DEFINE r == NotGrown(sec, n)
<1>1. sec.size \in Nat /\ sec.cap \in Nat /\ 2 * (sec.cap + n) \in Nat
  BY HeaderFields
<1>2. r = [sec EXCEPT !.cap = 2 * (sec.cap + n)]
  BY DEF NotGrown
<1> HIDE DEF r
<1>3. r \in Header
  BY <1>1, <1>2 DEF Header
<1>4. r.size = sec.size /\ r.cap = 2 * (sec.cap + n) /\ r.data = sec.data /\ SamePlace(r, sec)
  BY <1>2 DEF Header, SamePlace
<1>5. (sec.data => sec.size <= sec.cap) => (r.data => r.size <= r.cap)
  BY <1>1, <1>4
<1>6. Fits(sec) /\ sec.data => Sound(r)
  BY <1>4, <1>5 DEF Fits, Sound
<1> QED
  BY <1>3, <1>4, <1>5, <1>6 DEF r

LEMMA FitsIs ==
  ASSUME NEW sec, Fits(sec)
  PROVE  (sec.data => sec.size <= sec.cap) /\ (sec.type # "NOBITS" => sec.data \/ sec.size = 0)
BY DEF Fits

LEMMA StringAddedIs ==
  ASSUME NEW sec \in Header, Fits(sec), NEW n \in Nat
  PROVE  /\ StringAdded(sec, n) \in Header /\ Sound(StringAdded(sec, n))
         /\ SamePlace(StringAdded(sec, n), sec)
<1>1. CASE sec.size = 0
  <2>1. PICK r \in Header : r = Appended(sec, 1) /\ Fits(r) /\ SamePlace(r, sec)
    BY <1>1, AppendedIs, FitsIs DEF Sound
  <2>2. StringAdded(sec, n) = Appended(r, n)
    BY <1>1, <2>1 DEF StringAdded
  <2>3. Appended(r, n) \in Header /\ Sound(Appended(r, n)) /\ SamePlace(Appended(r, n), r)
    BY <2>1, AppendedIs, FitsIs
  <2>4. SamePlace(Appended(r, n), sec)
    BY <2>1, <2>3 DEF SamePlace
  <2> QED
    BY <2>2, <2>3, <2>4
<1>2. CASE sec.size # 0
  <2>1. StringAdded(sec, n) = Appended(sec, n)
    BY <1>2 DEF StringAdded
  <2> QED
    BY <1>2, <2>1, AppendedIs, FitsIs
<1> QED
  BY <1>1, <1>2

LEMMA CreatedEmpty ==
  /\ Created.name = "" /\ Created.type = "NULL" /\ Created.size = 0 /\ Created.cap = 0
  /\ Created.data = FALSE
<1>1. Created.name = "" /\ Created.type = "NULL" /\ Created.size = 0 /\ Created.cap = 0
  BY DEF Created
<1>2. Created.data = FALSE
  BY DEF Created
<1> QED
  BY <1>1, <1>2

LEMMA CreatedIs ==
  /\ Created \in Header /\ Created.name = "" /\ Created.type = "NULL" /\ Created.size = 0
  /\ Created.cap = 0 /\ Created.data = FALSE /\ Sound(Created)
<1>1. ASSUME NEW e \in STRING, NEW n \in STRING, NEW f \in BOOLEAN, NEW z \in Nat
      PROVE  [name |-> e, type |-> n, alloc |-> f, tls |-> f, size |-> z, align |-> z, address |-> z,
              fixed |-> f, offset |-> z, data |-> f, cap |-> z, room |-> z] \in Header
  BY DEF Header
<1>2. "" \in STRING /\ "NULL" \in STRING
  BY FileAssumption
<1>3. Created \in Header
  BY <1>1, <1>2 DEF Created
<1>4. Sound(Created)
  <2>1. Fits(Created)
    BY CreatedEmpty DEF Fits
  <2>2. ~ HasBytes(Created)
    BY CreatedEmpty DEF HasBytes
  <2> QED
    BY <2>1, <2>2 DEF Sound
<1> QED
  BY <1>3, <1>4, CreatedEmpty

-----------------------------------------------------------------------------
(* Editing. *)

\* Contents that fit their memory, in the state after a step
LEMMA FitsAll ==
  ASSUME FileTypeInv', phase' # "crashed",
         \A k \in DOMAIN sections' : sections'[k].data => sections'[k].size <= sections'[k].cap
  PROVE  DataFits'
<1>1. sections' \in Seq(Header)
  BY DEF FileTypeInv
<1>2. Len(sections') \in Nat /\ DOMAIN sections' = 1 .. Len(sections')
  BY <1>1
<1>3. ASSUME NEW i \in Numbers', Sec(i)'.data, Sec(i)'.cap <= Sec(i)'.room
      PROVE  Sec(i)'.size <= Sec(i)'.room
  <2>1. i + 1 \in 1 .. Len(sections') /\ Sec(i)' = sections'[i + 1]
    BY <1>2, <1>3 DEF Numbers, Sec
  <2>2. PICK sec \in Header : sec = sections'[i + 1]
    BY <1>1, <2>1
  <2> QED
    BY <1>2, <1>3, <2>1, <2>2, FitsRoom
<1> QED
  BY <1>3 DEF DataFits

\* What holds of each section while a file is put together
LEMMA EditFacts ==
  ASSUME FileInv, phase = "edit"
  PROVE  /\ Len(sections) \in Nat /\ Len(sections) >= 2 /\ sections[1] = Created
         /\ sections \in Seq(Header)
         /\ \A k \in 1 .. Len(sections) : sections[k] \in Header /\ Sound(sections[k])
         /\ \A k \in 2 .. Len(sections) : sections[k].type # "NULL"
<1>1. FileTypeInv /\ SectionsInv
  BY DEF FileInv
<1>2. /\ Len(sections) \in Nat /\ DOMAIN sections = 1 .. Len(sections) /\ Len(sections) >= 2
      /\ \A k \in 1 .. Len(sections) : sections[k] \in Header
  BY <1>1, SectionTypes DEF SectionsInv, Making
<1>3. \A k \in 1 .. Len(sections) : Sound(sections[k])
  BY <1>1, <1>2 DEF SectionsInv
<1>4. sections[1] = Created /\ \A k \in 2 .. Len(sections) : sections[k].type # "NULL"
  BY <1>1 DEF SectionsInv
<1> QED
  BY <1>1, <1>2, <1>3, <1>4 DEF FileTypeInv

\* It is enough to look at the sections and segments after a step of an edit.
LEMMA EditKeeps ==
  ASSUME FileInv, phase = "edit", phase' = "edit",
         UNCHANGED <<pos, todo, order, generated, at, file, good, saves, back>>,
         sections' \in Seq(Header), Len(sections') >= Len(sections),
         sections'[1] = Created, \A k \in 2 .. Len(sections') : sections'[k].type # "NULL",
         \A k \in 1 .. Len(sections') : Sound(sections'[k]),
         segments' \in Seq(SegmentHeader),
         \A s \in 1 .. Len(segments') : \A j \in 1 .. Len(segments'[s].secs) :
           segments'[s].secs[j] < Len(sections')
  PROVE  FileInv'
<1>1. FileTypeInv'
  BY DEF FileInv, FileTypeInv, Phases, BackPhases
<1>2. Len(sections') \in Nat /\ Len(sections') >= 2 /\ DOMAIN sections' = 1 .. Len(sections')
  <2>1. Len(sections) >= 2 /\ Len(sections) \in Nat
    BY EditFacts, SectionTypes DEF FileInv
  <2>2. Len(sections') \in Nat /\ DOMAIN sections' = 1 .. Len(sections')
    OBVIOUS
  <2> QED
    BY <2>1, <2>2
<1>3. SectionsInv'
  <2>1. \A k \in DOMAIN sections' : sections'[k].data => sections'[k].size <= sections'[k].cap
    BY <1>2 DEF Fits, Sound
  <2>7. DataFits'
    BY <1>1, <2>1, FitsAll
  <2>2. \A s \in DOMAIN segments' : \A j \in DOMAIN segments'[s].secs :
          segments'[s].secs[j] < Len(sections')
    <3>1. DOMAIN segments' = 1 .. Len(segments')
      OBVIOUS
    <3>2. \A s \in DOMAIN segments' : DOMAIN segments'[s].secs = 1 .. Len(segments'[s].secs)
      <4>1. \A s \in DOMAIN segments' : segments'[s] \in SegmentHeader
        OBVIOUS
      <4> QED
        BY <4>1, SegmentFields
    <3> QED
      BY <3>1, <3>2
  <2>3. Len(sections') >= 2 /\ file'.names \in 1 .. Len(sections') - 1 /\ phase' \notin Loaded
    <3>1. file.names \in 1 .. Len(sections) - 1 /\ Len(sections) \in Nat
      BY EditFacts DEF FileInv, SectionsInv, Making
    <3> QED
      BY <1>2, <3>1 DEF Loaded
  <2>4. \A k \in DOMAIN sections' : Sound(sections'[k])
    BY <1>2
  <2>5. \A k \in DOMAIN sections' : sections'[k].type = "NULL" => sections'[k].size = 0
    <3>1. \A k \in DOMAIN sections' : k = 1 \/ k \in 2 .. Len(sections')
      BY <1>2
    <3> QED
      BY <3>1, CreatedIs
  <2>6. sections'[1].type = "NULL"
    BY CreatedIs
  <2> QED
    BY <2>1, <2>2, <2>3, <2>4, <2>5, <2>6, <2>7 DEF SectionsInv
<1>4. OrderInv' /\ PlacedInv' /\ SavedInv' /\ LoadInv'
  <2>1. OrderInv'
    BY DEF OrderInv
  <2>2. PlacedInv'
    BY DEF PlacedInv
  <2>3. SavedInv'
    BY DEF SavedInv
  <2>4. LoadInv'
    BY DEF LoadInv, Loading
  <2> QED
    BY <2>1, <2>2, <2>3, <2>4
<1> QED
  BY <1>1, <1>3, <1>4 DEF FileInv

\* A section is added behind those there are, with its name in section 1.
LEMMA AddSectionStep ==
  ASSUME FileInv, NEW recipe \in Recipes, AddSection(recipe)
  PROVE  FileInv'
<1>1. PICK n \in Nat : /\ n = Len(sections) - 2 /\ n < Len(recipe) /\ segments = <<>>
                       /\ phase = "edit" /\ sections' = WithSection(recipe[n + 1])
  <2>1. Len(sections) \in Nat /\ phase = "edit"
    BY SectionTypes DEF FileInv, AddSection
  <2> QED
    BY <2>1, EditFacts DEF AddSection
<1>2. PICK k : /\ k = recipe[n + 1] /\ k \in [name : STRING, type : STRING \ {"NULL"}, alloc : BOOLEAN,
                                         tls : BOOLEAN, size : Nat, align : Nat]
  <2> DEFINE K == [name : STRING, type : STRING \ {"NULL"}, alloc : BOOLEAN,
                   tls : BOOLEAN, size : Nat, align : Nat]
  <2>1. recipe \in Seq(K)
    BY FileAssumption
  <2> HIDE DEF K
  <2>2. recipe[n + 1] \in K
    BY <1>1, <2>1
  <2> QED
    BY <2>2 DEF K
<1>3. /\ Len(sections) \in Nat /\ Len(sections) >= 2 /\ sections[1] = Created
      /\ sections \in Seq(Header)
      /\ \A l \in 1 .. Len(sections) : sections[l] \in Header /\ Sound(sections[l])
      /\ \A l \in 2 .. Len(sections) : sections[l].type # "NULL"
  BY <1>1, EditFacts
<1> DEFINE named == [sections EXCEPT ![2] = StringAdded(@, NameSize)]
           made == [Created EXCEPT !.name = k.name, !.type = k.type, !.alloc = k.alloc,
                                   !.tls = k.tls, !.align = k.align]
           filled == IF k.type = "NOBITS" THEN [made EXCEPT !.size = k.size] ELSE SetData(made, k.size)
<1>4. sections' = Append(named, filled)
  BY <1>1, <1>2 DEF WithSection
<1>5. filled \in Header /\ Sound(filled) /\ filled.type # "NULL"
  <2>1. made \in Header /\ made.type = k.type /\ made.cap = 0 /\ made.data = FALSE
    BY ZenonT(30), <1>2, CreatedIs DEF Header
  <2>2. CASE k.type = "NOBITS"
    <3>1. filled = [made EXCEPT !.size = k.size]
      BY <2>2
    <3> HIDE DEF filled, made
    <3> QED
      BY <1>2, <2>1, <2>2, <3>1 DEF Header, Fits, Sound, HasBytes
  <2>3. CASE k.type # "NOBITS"
    <3>1. filled = [made EXCEPT !.size = k.size, !.cap = k.size, !.room = k.size, !.data = TRUE]
      BY <2>1, <2>3 DEF SetData
    <3> HIDE DEF filled, made
    <3>2. filled \in Header /\ filled.type = k.type /\ filled.size = k.size /\ filled.cap = k.size
          /\ filled.data = TRUE
      BY <1>2, <2>1, <3>1 DEF Header
    <3> QED
      BY <1>2, <3>2 DEF Fits, Sound
  <2> QED
    BY <2>2, <2>3
<1>6. /\ named \in Seq(Header) /\ Len(named) = Len(sections) /\ named[1] = Created
      /\ \A l \in 1 .. Len(sections) : Sound(named[l])
      /\ \A l \in 2 .. Len(sections) : named[l].type # "NULL"
  <2>1. 2 \in 1 .. Len(sections) /\ 2 \in 2 .. Len(sections)
    BY <1>3
  <2>2. PICK v \in Header : v = StringAdded(sections[2], NameSize) /\ Sound(v) /\ v.type = sections[2].type
    <3>1. sections[2] \in Header /\ Fits(sections[2]) /\ NameSize \in Nat
      BY <1>3, <2>1, Sizes DEF Sound
    <3> QED
      BY <3>1, StringAddedIs DEF SamePlace
  <2>3. named = [sections EXCEPT ![2] = v]
    BY <2>2
  <2> HIDE DEF named
  <2>4. /\ named \in Seq(Header) /\ Len(named) = Len(sections)
        /\ \A l \in 1 .. Len(sections) : named[l] = IF l = 2 THEN v ELSE sections[l]
    BY <1>3, <2>1, <2>3
  <2> QED
    BY <1>3, <2>1, <2>2, <2>4
<1> HIDE DEF named, filled
<1>7. /\ sections' \in Seq(Header) /\ Len(sections') = Len(sections) + 1
      /\ \A l \in 1 .. Len(sections') : sections'[l] = IF l <= Len(sections) THEN named[l] ELSE filled
  BY <1>3, <1>4, <1>5, <1>6
<1>8. /\ \A l \in 1 .. Len(sections') : Sound(sections'[l])
      /\ \A l \in 2 .. Len(sections') : sections'[l].type # "NULL"
  BY SMTT(30), <1>3, <1>5, <1>6, <1>7
<1>9. sections'[1] = Created /\ Len(sections') >= Len(sections)
  BY <1>3, <1>6, <1>7
<1>10. UNCHANGED <<segments, phase, pos, todo, order, generated, at, file, good, saves, back>>
  BY DEF AddSection, layout
<1>11. segments' \in Seq(SegmentHeader) /\ Len(segments') = 0
  BY <1>1, <1>10 DEF FileInv, FileTypeInv
<1> QED
  BY <1>1, <1>7, <1>8, <1>9, <1>10, <1>11, EditKeeps

\* After an overrun nothing is known but why it could be.
LEMMA CrashStep ==
  ASSUME FileInv, NEW i, NEW n \in Nat, AppendData(i, n), phase' = "crashed"
  PROVE  FileInv'
<1>1. /\ phase \in {"edit", "loaded", "amended"} /\ i \in Numbers \ {0} /\ Sec(i).type # "NULL"
      /\ Overruns(Sec(i), n)
      /\ UNCHANGED <<sections, segments, pos, todo, order, generated, at, file, good, saves, back>>
  BY DEF AppendData, layout
<1>2. FileTypeInv /\ SectionsInv
  BY DEF FileInv
<1>3. /\ Sec(i) \in Header /\ Sec(i) = sections[i + 1] /\ i + 1 \in DOMAIN sections
      /\ Numbers' = Numbers /\ \A x : Sec(x)' = Sec(x)
  BY <1>1, <1>2, SectionTypes DEF Numbers, Sec
<1>4. ~ good \/ Sec(i).room < Sec(i).cap
  <2>1. CASE Grows(Sec(i), n)
    <3>1. ~ Sec(i).data /\ Sec(i).size > 0 /\ HasBytes(Sec(i))
      BY <1>1, <2>1 DEF Overruns, Grows, HasBytes
    <3>2. Sec(i).size # 0
      BY <1>3, <3>1, HeaderFields
    <3>3. phase # "edit"
      BY <1>2, <1>3, <3>1, <3>2 DEF SectionsInv, Sound
    <3> QED
      BY <1>1, <1>2, <1>3, <3>1, <3>3 DEF SectionsInv, Loaded
  <2>2. CASE ~ Grows(Sec(i), n)
    <3>1. Sec(i).size \in Nat /\ Sec(i).cap \in Nat /\ Sec(i).room \in Nat
      BY <1>3, HeaderFields
    <3>2. Sec(i).size + n > Sec(i).room /\ ~ (Sec(i).size + n >= Sec(i).cap)
      BY <1>1, <2>2 DEF Overruns, Grows
    <3> QED
      BY <3>1, <3>2
  <2> QED
    BY <2>1, <2>2
<1>5. FileTypeInv'
  <2>1. ~ back /\ phase' \in Phases
    BY <1>1, <1>2 DEF FileTypeInv, BackPhases, Phases
  <2> QED
    BY <1>1, <1>2, <2>1 DEF FileTypeInv
<1>6. DataFits'
  <2>1. \A x \in Numbers' : Sec(x)'.data /\ Sec(x)'.cap <= Sec(x)'.room => Sec(x)'.size <= Sec(x)'.room
    BY <1>2, <1>3 DEF SectionsInv, DataFits
  <2>2. ~ good' \/ \E x \in Numbers' : Sec(x)'.room < Sec(x)'.cap
    BY <1>1, <1>3, <1>4
  <2> QED
    BY <2>1, <2>2 DEF DataFits
<1>7. SectionsInv'
  BY <1>1, <1>2, <1>6 DEF SectionsInv, Making, Loaded
<1>8. OrderInv' /\ PlacedInv' /\ SavedInv' /\ LoadInv'
  BY DEF OrderInv, PlacedInv, SavedInv, LoadInv, Loading
<1> QED
  BY <1>5, <1>7, <1>8 DEF FileInv

\* Data is appended to a section, or memory is short.
LEMMA AppendDataStep ==
  ASSUME FileInv, NEW i, NEW n \in Nat, AppendData(i, n)
  PROVE  FileInv'
<1>1. /\ phase \in {"edit", "loaded", "amended"} /\ i \in Numbers \ {0} /\ Sec(i).type # "NULL"
      /\ UNCHANGED <<segments, pos, todo, order, generated, at, file, good, saves, back>>
  BY DEF AppendData, layout
<1>2. FileTypeInv /\ SectionsInv
  BY DEF FileInv
<1>3. /\ Len(sections) \in Nat /\ Len(sections) >= 2 /\ DOMAIN sections = 1 .. Len(sections)
      /\ sections \in Seq(Header) /\ i \in Nat /\ i + 1 \in 2 .. Len(sections)
      /\ Sec(i) \in Header /\ Sec(i) = sections[i + 1]
      /\ \A k \in 1 .. Len(sections) : sections[k] \in Header
      /\ \A k \in 1 .. Len(sections) : sections[k].data => sections[k].size <= sections[k].cap
      /\ file.names \in 1 .. Len(sections) - 1
  <2>1. Len(sections) >= 2 /\ file.names \in 1 .. Len(sections) - 1
    BY <1>1, <1>2 DEF SectionsInv, Making, Loaded
  <2>2. /\ Len(sections) \in Nat /\ DOMAIN sections = 1 .. Len(sections)
        /\ \A k \in 1 .. Len(sections) : sections[k] \in Header
        /\ i \in Nat /\ i + 1 \in 1 .. Len(sections) /\ Sec(i) = sections[i + 1] /\ Sec(i) \in Header
    BY <1>1, <1>2, SectionTypes
  <2> QED
    BY <1>1, <1>2, <2>1, <2>2 DEF SectionsInv, FileTypeInv
<1>4. ASSUME phase' # "crashed"
      PROVE  /\ phase' = IF phase = "edit" THEN "edit" ELSE "amended"
             /\ \E v \in Header : /\ sections' = [sections EXCEPT ![i + 1] = v]
                                  /\ SamePlace(v, Sec(i)) /\ (v.data => v.size <= v.cap)
                                  /\ (Sec(i).data => v.data) /\ (phase = "edit" => Sound(v))
  <2>1. phase = "edit" => Sound(Sec(i)) /\ Fits(Sec(i))
    BY <1>2, <1>3 DEF SectionsInv, Sound
  <2>2. Sec(i).data => Sec(i).size <= Sec(i).cap
    BY <1>3
  <2>3. CASE /\ ~ Overruns(Sec(i), n) /\ sections' = [sections EXCEPT ![i + 1] = Appended(@, n)]
             /\ phase' = IF phase = "edit" THEN "edit" ELSE "amended"
             /\ (Sec(i).type # "NOBITS" => Sec(i).data \/ Sec(i).size = 0)
    <3>1. PICK sec \in Header : sec = Sec(i)
      BY <1>3
    <3>2. /\ Appended(sec, n) \in Header /\ SamePlace(Appended(sec, n), sec)
          /\ (Appended(sec, n).data => Appended(sec, n).size <= Appended(sec, n).cap)
          /\ (sec.data => Appended(sec, n).data) /\ (Fits(sec) => Sound(Appended(sec, n)))
      BY <2>2, <2>3, <3>1, AppendedIs
    <3>3. sections' = [sections EXCEPT ![i + 1] = Appended(sec, n)]
      BY <1>3, <2>3, <3>1
    <3> QED
      BY <2>1, <2>3, <3>1, <3>2, <3>3
  <2>4. CASE /\ ~ Overruns(Sec(i), n) /\ sections' = [sections EXCEPT ![i + 1] = Appended(@, n)]
             /\ phase' = IF phase = "edit" THEN "edit" ELSE "amended"
             /\ Sec(i).type # "NOBITS" /\ ~ Sec(i).data /\ Sec(i).size # 0
    <3>1. PICK sec \in Header : sec = Sec(i)
      BY <1>3
    <3>2. sec.size \in Nat /\ sec.cap \in Nat /\ sec.size > 0 /\ ~ sec.data /\ sec.type # "NOBITS"
      BY <2>4, <3>1, HeaderFields
    <3>3. ~ Grows(sec, n)
      BY <2>4, <3>1, <3>2 DEF Overruns
    <3>4. sec.size + n < sec.cap
      BY <3>2, <3>3 DEF Grows
    <3>5. Appended(sec, n) = [sec EXCEPT !.size = sec.size + n]
      BY <3>2, <3>4 DEF Appended
    <3>6. PICK v : v = Appended(sec, n)
      OBVIOUS
    <3>7. v \in Header /\ v.data = sec.data /\ SamePlace(v, sec)
      <4>1. sec.size + n \in Nat
        BY <3>2
      <4> QED
        BY <3>5, <3>6, <4>1 DEF Header, SamePlace
    <3>8. sections' = [sections EXCEPT ![i + 1] = v]
      BY <1>3, <2>4, <3>1, <3>6
    <3>9. phase # "edit"
      BY <2>1, <3>1, <3>2 DEF Fits
    <3> QED
      BY <2>4, <3>1, <3>2, <3>7, <3>8, <3>9
  <2>5. CASE /\ Grows(Sec(i), n) /\ sections' = [sections EXCEPT ![i + 1] = NotGrown(@, n)]
             /\ phase' = IF phase = "edit" THEN "edit" ELSE "amended"
    <3>1. PICK sec \in Header : sec = Sec(i)
      BY <1>3
    <3>2. PICK v \in Header : /\ v = NotGrown(sec, n) /\ SamePlace(v, sec) /\ v.data = sec.data
                              /\ (v.data => v.size <= v.cap) /\ (Fits(sec) /\ sec.data => Sound(v))
      BY <2>2, <3>1, NotGrownIs
    <3>3. sections' = [sections EXCEPT ![i + 1] = v]
      BY <1>3, <2>5, <3>1, <3>2
    <3>4. phase = "edit" => sec.data
      BY <1>1, <2>1, <2>5, <3>1 DEF Sound, HasBytes, Grows
    <3> QED
      BY <2>1, <2>5, <3>1, <3>2, <3>3, <3>4
  <2> QED
    BY <1>4, <2>3, <2>4, <2>5 DEF AppendData
<1>5. ASSUME phase' # "crashed"
      PROVE  FileInv'
  <2>1. PICK v \in Header : /\ sections' = [sections EXCEPT ![i + 1] = v]
                            /\ SamePlace(v, Sec(i)) /\ (v.data => v.size <= v.cap)
                            /\ (Sec(i).data => v.data) /\ (phase = "edit" => Sound(v))
    BY <1>4, <1>5
  <2>2. PICK k0 \in 2 .. Len(sections) : k0 = i + 1
    BY <1>3
  <2>3. /\ sections' \in Seq(Header) /\ Len(sections') = Len(sections) /\ sections'[k0] = v
        /\ \A k \in 1 .. Len(sections) : k # k0 => sections'[k] = sections[k]
    BY <1>3, <2>1, <2>2
  <2>4. v.type # "NULL" /\ v.type = sections[k0].type
    BY <1>1, <1>3, <2>1, <2>2 DEF SamePlace
  <2>5. sections'[1] = sections[1] /\ 1 \in 1 .. Len(sections)
    BY <1>3, <2>2, <2>3
  <2>6. CASE phase = "edit"
    <3>1. phase' = "edit"
      BY <1>4, <1>5, <2>6
    <3>2. /\ sections[1] = Created /\ \A k \in 1 .. Len(sections) : Sound(sections[k])
          /\ \A k \in 2 .. Len(sections) : sections[k].type # "NULL"
      BY <2>6, EditFacts
    <3>3. \A k \in 1 .. Len(sections) : Sound(sections'[k])
      BY <2>1, <2>3, <2>6, <3>2
    <3>4. \A k \in 2 .. Len(sections) : sections'[k].type # "NULL"
      <4>1. \A k \in 2 .. Len(sections) : k \in 1 .. Len(sections)
        OBVIOUS
      <4> QED
        BY <2>3, <2>4, <3>2, <4>1
    <3>5. /\ segments' \in Seq(SegmentHeader)
          /\ \A s \in 1 .. Len(segments') : \A j \in 1 .. Len(segments'[s].secs) :
               segments'[s].secs[j] < Len(sections')
      BY <1>1, <2>3, SegmentsInside
    <3>6. sections'[1] = Created /\ Len(sections') >= Len(sections)
      BY <1>3, <2>3, <2>5, <3>2
    <3> QED
      BY <1>1, <2>3, <2>6, <3>1, <3>3, <3>4, <3>5, <3>6, EditKeeps
  <2>7. CASE phase # "edit"
    <3>1. phase' = "amended" /\ phase \in Loaded
      BY <1>1, <1>4, <1>5, <2>7 DEF Loaded
    <3>2. ~ back
      BY <1>1, <1>2 DEF FileTypeInv, BackPhases
    <3>3. FileTypeInv'
      BY <1>1, <1>2, <2>3, <3>1, <3>2 DEF FileTypeInv, Phases
    <3>4. /\ \A k \in 1 .. Len(sections) : sections[k].type = "NULL" => sections[k].size = 0
          /\ sections[1].type = "NULL"
          /\ good => \A k \in 1 .. Len(sections) : HasBytes(sections[k]) => sections[k].data
          /\ \A s \in DOMAIN segments : \A j \in DOMAIN segments[s].secs : segments[s].secs[j] < Len(sections)
      <4>1. sections # <<>>
        BY <1>3
      <4> QED
        BY <1>2, <1>3, <3>1, <4>1 DEF SectionsInv
    <3>5. DOMAIN sections' = 1 .. Len(sections)
      BY <1>3, <2>3
    <3>6. \A k \in DOMAIN sections' : sections'[k].type = "NULL" => sections'[k].size = 0
      BY <2>3, <2>4, <3>4, <3>5
    <3>7. good' => \A k \in DOMAIN sections' : HasBytes(sections'[k]) => sections'[k].data
      <4>1. HasBytes(v) <=> HasBytes(sections[k0])
        BY <2>4 DEF HasBytes
      <4>2. sections[k0].data => v.data
        BY <1>3, <2>1, <2>2
      <4>3. k0 \in 1 .. Len(sections)
        OBVIOUS
      <4> QED
        BY <1>1, <2>3, <3>4, <3>5, <4>1, <4>2, <4>3
    <3>8. \A k \in DOMAIN sections' : sections'[k].data => sections'[k].size <= sections'[k].cap
      BY <1>3, <2>1, <2>3, <3>5
    <3>9. DataFits'
      BY <3>1, <3>3, <3>8, FitsAll
    <3>10. SectionsInv'
      <4>1. sections'[1].type = "NULL"
        BY <2>5, <3>4
      <4>2. \A s \in DOMAIN segments' : \A j \in DOMAIN segments'[s].secs :
              segments'[s].secs[j] < Len(sections')
        BY <1>1, <2>3, <3>4
      <4>3. phase' # "edit" /\ Len(sections') >= 2 /\ file'.names \in 1 .. Len(sections') - 1
        BY <1>1, <1>3, <2>3, <3>1
      <4> QED
        BY <3>6, <3>7, <3>8, <3>9, <4>1, <4>2, <4>3 DEF SectionsInv
    <3>11. OrderInv' /\ PlacedInv' /\ SavedInv' /\ LoadInv'
      BY <3>1 DEF OrderInv, PlacedInv, SavedInv, LoadInv, Loading
    <3> QED
      BY <3>3, <3>10, <3>11 DEF FileInv
  <2> QED
    BY <2>6, <2>7
<1> QED
  BY <1>5, CrashStep

\* Every section of an object is written through to.
LEMMA WriteThroughIs ==
  ASSUME NEW sec \in Header, Sound(sec)
  PROVE  WriteThrough(sec) \in Header /\ Sound(WriteThrough(sec)) /\ SamePlace(WriteThrough(sec), sec)
<1>1. NameSize \in Nat /\ SymSize \in Nat /\ RelSize \in Nat
  BY Sizes, ObjectAssumption
<1>2. sec \in Header /\ Fits(sec) /\ SamePlace(sec, sec)
  BY DEF SamePlace, Sound
<1>3. \A n \in Nat : Appended(sec, n) \in Header /\ Sound(Appended(sec, n)) /\ SamePlace(Appended(sec, n), sec)
  BY <1>2, AppendedIs, FitsIs
<1>4. /\ StringAdded(sec, NameSize) \in Header /\ Sound(StringAdded(sec, NameSize))
      /\ SamePlace(StringAdded(sec, NameSize), sec)
  BY <1>1, <1>2, StringAddedIs
<1>5. /\ Appended(Appended(sec, SymSize), SymSize) \in Header
      /\ Sound(Appended(Appended(sec, SymSize), SymSize))
      /\ SamePlace(Appended(Appended(sec, SymSize), SymSize), sec)
  <2>1. PICK r \in Header : r = Appended(sec, SymSize) /\ Fits(r) /\ SamePlace(r, sec)
    BY <1>1, <1>3 DEF Sound
  <2>2. Appended(r, SymSize) \in Header /\ Sound(Appended(r, SymSize)) /\ SamePlace(Appended(r, SymSize), r)
    BY <1>1, <2>1, AppendedIs, FitsIs
  <2> QED
    BY <2>1, <2>2 DEF SamePlace
<1>6. WriteThrough(sec) \in
        {sec, Appended(sec, SymSize), Appended(Appended(sec, SymSize), SymSize),
         StringAdded(sec, NameSize), Appended(sec, RelSize)}
  BY DEF WriteThrough, SymbolsAppended
<1> QED
  BY <1>1, <1>2, <1>3, <1>4, <1>5, <1>6

LEMMA UseTablesStep ==
  ASSUME FileInv, UseTables
  PROVE  FileInv'
<1>1. /\ phase = "edit" /\ sections' = [k \in DOMAIN sections |-> WriteThrough(sections[k])]
      /\ UNCHANGED <<segments, phase, pos, todo, order, generated, at, file, good, saves, back>>
  BY DEF UseTables, layout
<1>2. /\ Len(sections) \in Nat /\ Len(sections) >= 2 /\ sections[1] = Created
      /\ DOMAIN sections = 1 .. Len(sections)
      /\ \A k \in 1 .. Len(sections) : sections[k] \in Header /\ Sound(sections[k])
      /\ \A k \in 2 .. Len(sections) : sections[k].type # "NULL"
  BY <1>1, EditFacts, SectionTypes DEF FileInv
<1>3. \A k \in 1 .. Len(sections) : /\ WriteThrough(sections[k]) \in Header
                                    /\ Sound(WriteThrough(sections[k]))
                                    /\ WriteThrough(sections[k]).type = sections[k].type
  BY <1>2, WriteThroughIs DEF SamePlace
<1>4. /\ sections' \in Seq(Header) /\ Len(sections') = Len(sections)
      /\ \A k \in 1 .. Len(sections) : sections'[k] = WriteThrough(sections[k])
  BY <1>1, <1>2, <1>3
<1>5. WriteThrough(Created) = Created
  BY CreatedIs DEF WriteThrough
<1>6. /\ sections'[1] = Created /\ \A k \in 1 .. Len(sections') : Sound(sections'[k])
      /\ \A k \in 2 .. Len(sections') : sections'[k].type # "NULL"
  BY <1>2, <1>3, <1>4, <1>5
<1>7. /\ segments' \in Seq(SegmentHeader)
      /\ \A s \in 1 .. Len(segments') : \A j \in 1 .. Len(segments'[s].secs) :
           segments'[s].secs[j] < Len(sections')
  BY <1>1, <1>4, SegmentsInside
<1>8. phase = "edit" /\ UNCHANGED <<phase, pos, todo, order, generated, at, file, good, saves, back>>
  BY <1>1
<1> QED
  BY <1>2, <1>4, <1>6, <1>7, <1>8, EditKeeps

\* A segment is added, without sections.
LEMMA AddSegmentStep ==
  ASSUME FileInv, NEW t \in Templates, AddSegment(t)
  PROVE  FileInv'
<1> DEFINE new == [type |-> t.type, vaddr |-> t.vaddr, align |-> 0, memory |-> 0,
                   size |-> 0, offset |-> 0, fixed |-> FALSE, secs |-> <<>>]
<1>1. /\ phase = "edit" /\ segments' = Append(segments, new)
      /\ UNCHANGED <<sections, phase, pos, todo, order, generated, at, file, good, saves, back>>
  BY DEF AddSegment, layout
<1>2. new \in SegmentHeader /\ new.secs = <<>>
  <2>0. t \in [type : STRING, vaddr : Nat]
    BY FileAssumption
  <2>1. t.type \in STRING /\ t.vaddr \in Nat /\ <<>> \in Seq(Nat)
    BY <2>0
  <2> QED
    BY <2>1 DEF SegmentHeader
<1> HIDE DEF new
<1>3. /\ Len(sections) \in Nat /\ Len(sections) >= 2 /\ sections[1] = Created
      /\ sections \in Seq(Header)
      /\ \A k \in 1 .. Len(sections) : Sound(sections[k])
      /\ \A k \in 2 .. Len(sections) : sections[k].type # "NULL"
  BY <1>1, EditFacts
<1>4. /\ Len(segments) \in Nat /\ segments \in Seq(SegmentHeader)
      /\ \A s \in 1 .. Len(segments) : \A j \in 1 .. Len(segments[s].secs) :
           segments[s].secs[j] < Len(sections)
  BY SegmentsInside
<1>5. /\ segments' \in Seq(SegmentHeader) /\ Len(segments') = Len(segments) + 1
      /\ \A s \in 1 .. Len(segments') : segments'[s] = IF s <= Len(segments) THEN segments[s] ELSE new
  BY <1>1, <1>2, <1>4
<1>6. \A s \in 1 .. Len(segments') : \A j \in 1 .. Len(segments'[s].secs) :
        segments'[s].secs[j] < Len(sections')
  BY <1>1, <1>2, <1>4, <1>5
<1> QED
  BY <1>1, <1>3, <1>5, <1>6, EditKeeps

\* A section is given to the last segment.
LEMMA AddSectionIndexStep ==
  ASSUME FileInv, NEW i, AddSectionIndex(i)
  PROVE  FileInv'
<1>1. PICK s : /\ s = Len(segments) /\ phase = "edit" /\ s > 0 /\ i \in Numbers
               /\ segments' = [segments EXCEPT ![s].secs = Append(@, i),
                                 ![s].align = IF Sec(i).align > @ THEN Sec(i).align ELSE @]
               /\ UNCHANGED <<sections, phase, pos, todo, order, generated, at, file, good, saves, back>>
  BY DEF AddSectionIndex, layout
<1>2. /\ Len(sections) \in Nat /\ Len(sections) >= 2 /\ sections[1] = Created
      /\ sections \in Seq(Header)
      /\ \A k \in 1 .. Len(sections) : Sound(sections[k])
      /\ \A k \in 2 .. Len(sections) : sections[k].type # "NULL"
  BY <1>1, EditFacts
<1>3. /\ Len(segments) \in Nat /\ segments \in Seq(SegmentHeader) /\ s \in 1 .. Len(segments)
      /\ \A x \in 1 .. Len(segments) : segments[x] \in SegmentHeader
      /\ \A x \in 1 .. Len(segments) : \A j \in 1 .. Len(segments[x].secs) :
           segments[x].secs[j] < Len(sections)
      /\ i \in Nat /\ i < Len(sections) /\ Sec(i).align \in Nat
  <2>1. i \in Nat /\ i < Len(sections) /\ Sec(i) \in Header
    BY <1>1, SectionTypes DEF FileInv
  <2> QED
    BY <1>1, <2>1, SegmentsInside, HeaderFields
<1>4. segments[s].secs \in Seq(Nat) /\ segments[s].align \in Nat
  BY <1>3, SegmentFields
<1>5. PICK a \in Nat : a = IF Sec(i).align > segments[s].align THEN Sec(i).align ELSE segments[s].align
  BY <1>3, <1>4
<1>12. PICK q \in Seq(Nat) : q = Append(segments[s].secs, i)
  <2>1. PICK q0 \in Seq(Nat) : q0 = segments[s].secs
    BY <1>4
  <2>2. i \in Nat
    BY <1>3
  <2>3. Append(q0, i) \in Seq(Nat)
    BY <2>2
  <2> QED
    BY <2>1, <2>3
<1>13. PICK v : v = [segments[s] EXCEPT !.secs = q, !.align = a]
  OBVIOUS
<1>6. segments' = [segments EXCEPT ![s] = v]
  BY <1>1, <1>3, <1>5, <1>12, <1>13
<1>7. v \in SegmentHeader /\ v.secs = Append(segments[s].secs, i)
  <2>1. segments[s] \in SegmentHeader
    BY <1>3
  <2>2. v \in SegmentHeader /\ v.secs = q
    BY <1>5, <1>13, <2>1 DEF SegmentHeader
  <2> QED
    BY <1>12, <2>2
<1>8. /\ segments' \in Seq(SegmentHeader) /\ Len(segments') = Len(segments)
      /\ \A x \in 1 .. Len(segments) : segments'[x] = IF x = s THEN v ELSE segments[x]
  BY <1>3, <1>6, <1>7
<1>9. \A j \in 1 .. Len(v.secs) : v.secs[j] < Len(sections)
  BY <1>3, <1>4, <1>7
<1>10. \A x \in 1 .. Len(segments') : \A j \in 1 .. Len(segments'[x].secs) :
        segments'[x].secs[j] < Len(sections')
  BY SMTT(30), <1>1, <1>3, <1>8, <1>9
<1> QED
  BY SMTT(30), <1>1, <1>2, <1>8, <1>10, EditKeeps

-----------------------------------------------------------------------------
(* Laying out changes the places of sections, not their contents. *)

SameContents(a, b) ==
  a.type = b.type /\ a.size = b.size /\ a.cap = b.cap /\ a.data = b.data

LayoutPhases == {"order", "segment", "section", "loose"}

LEMMA LayoutKeeps ==
  ASSUME FileInv, phase \in Making \cup Loaded,
         phase' \in LayoutPhases \cup {"failed", "saved"},
         sections' \in Seq(Header), Len(sections') = Len(sections),
         \A k \in 1 .. Len(sections) : SameContents(sections'[k], sections[k]),
         segments' \in Seq(SegmentHeader), Len(segments') = Len(segments),
         \A s \in 1 .. Len(segments) : segments'[s].secs = segments[s].secs,
         pos' \in Int, todo' \in Seq(Nat), order' \in Seq(Nat), generated' \subseteq Nat,
         at' \in [next : Nat, start : Int, memory : Int, size : Int],
         good' = good, saves' \in Nat, back' \in {TRUE, FALSE, back}, phase' = "order" => ~ back',
         phase' \in LayoutPhases => file' = file
  PROVE  FileTypeInv' /\ SectionsInv' /\ First' = First
<1>1. FileTypeInv /\ SectionsInv
  BY DEF FileInv
<1>2. FileTypeInv'
  <2>1. phase' \in Phases
    BY DEF LayoutPhases, Phases
  <2>2. good \in BOOLEAN /\ back' \in BOOLEAN
    BY <1>1 DEF FileTypeInv
  <2>3. back' => phase' \in BackPhases
    BY DEF LayoutPhases, BackPhases
  <2> QED
    BY <2>1, <2>2, <2>3 DEF FileTypeInv
<1>3. /\ Len(sections) \in Nat /\ Len(sections) >= 2 /\ DOMAIN sections = 1 .. Len(sections)
      /\ DOMAIN sections' = 1 .. Len(sections)
      /\ \A k \in 1 .. Len(sections) : sections[k].type = "NULL" => sections[k].size = 0
      /\ sections[1].type = "NULL"
      /\ \A k \in 1 .. Len(sections) : sections[k].data => sections[k].size <= sections[k].cap
      /\ file.names \in 1 .. Len(sections) - 1
  <2>1. /\ Len(sections) \in Nat /\ DOMAIN sections = 1 .. Len(sections)
    BY <1>1, SectionTypes
  <2>2. Len(sections) >= 2 /\ file.names \in 1 .. Len(sections) - 1
    BY <1>1 DEF SectionsInv
  <2>3. DOMAIN sections' = 1 .. Len(sections)
    OBVIOUS
  <2>4. sections # <<>>
    BY <2>1, <2>2
  <2> QED
    BY <1>1, <2>1, <2>2, <2>3, <2>4 DEF SectionsInv
<1>4. SectionsInv'
  <2>1. \A k \in DOMAIN sections' : sections'[k].type = "NULL" => sections'[k].size = 0
    BY <1>3 DEF SameContents
  <2>2. sections'[1].type = "NULL"
    BY <1>3 DEF SameContents
  <2>3. \A s \in DOMAIN segments' : \A j \in DOMAIN segments'[s].secs :
          segments'[s].secs[j] < Len(sections')
    <3>1. DOMAIN segments' = 1 .. Len(segments) /\ DOMAIN segments = 1 .. Len(segments)
      BY <1>1, SegmentTypes
    <3> QED
      BY <1>1, <3>1 DEF SectionsInv
  <2>4. \A k \in DOMAIN sections' : sections'[k].data => sections'[k].size <= sections'[k].cap
    BY <1>3 DEF SameContents
  <2>5. phase' # "edit" /\ phase' # "crashed" /\ phase' \notin Loaded
    BY DEF LayoutPhases, Loaded
  <2>6. DataFits'
    BY <1>2, <2>4, <2>5, FitsAll
  <2>7. phase' \in Making \cup Loaded => file'.names \in 1 .. Len(sections') - 1
    BY <1>3, <2>5 DEF LayoutPhases, Making
  <2> QED
    BY <1>3, <2>1, <2>2, <2>3, <2>4, <2>5, <2>6, <2>7 DEF SectionsInv
<1>5. First' = First
  BY DEF First
<1> QED
  BY <1>2, <1>4, <1>5

LEMMA LayoutElse ==
  ASSUME phase' \in LayoutPhases \cup {"failed"}
  PROVE  SavedInv' /\ LoadInv'
BY DEF LayoutPhases, SavedInv, LoadInv, Loading

Laid == {"segment", "section", "loose"}

\* A section is placed behind the others, or none is.
LEMMA PlacedKeeps ==
  ASSUME FileInv, phase \in Laid, NEW i \in Int,
         sections' \in Seq(Header), Len(sections') = Len(sections),
         \A k \in 1 .. Len(sections) : k # i + 1 => sections'[k] = sections[k],
         First' = First, pos' \in Int, ~ back' => ~ back /\ pos <= pos',
         Placed' \subseteq Placed \cup {i},
         ~ back' /\ i \in Numbers /\ Filled(sections'[i + 1]) =>
           /\ pos <= sections'[i + 1].offset
           /\ sections'[i + 1].offset + sections'[i + 1].size <= pos'
  PROVE  PlacedInv'
<1>0. SUFFICES ASSUME ~ back' PROVE PlacedInv'
  BY DEF PlacedInv
<1>1. FileTypeInv /\ SectionsInv /\ PlacedInv
  BY DEF FileInv
<1>2. /\ Len(sections) \in Nat /\ \A k \in 1 .. Len(sections) : sections[k] \in Header
      /\ Numbers = 0 .. Len(sections) - 1
      /\ \A x \in Numbers : x + 1 \in 1 .. Len(sections)
  BY <1>1, SectionTypes
<1>3. Numbers' = Numbers
  BY DEF Numbers
<1>4. /\ First \in Nat /\ First <= pos /\ pos \in Int /\ pos <= pos'
      /\ \A x \in Placed : Filled(Sec(x)) => First <= Sec(x).offset /\ Sec(x).offset + Sec(x).size <= pos
      /\ \A x, y \in Placed : x # y /\ Filled(Sec(x)) /\ Filled(Sec(y)) => Apart(Sec(x), Sec(y))
  BY <1>0, <1>1, SegmentTypes DEF PlacedInv, Laid, FileTypeInv
<1>5. \A x \in Placed' : x \in Numbers /\ (x # i => x \in Placed)
  BY <1>3 DEF Placed
<1> DEFINE S(x) == sections'[x + 1]
<1>6. \A x \in Placed' : /\ S(x) \in Header /\ S(x).offset \in Int /\ S(x).size \in Nat
                         /\ (x # i => S(x) = Sec(x))
  <2> SUFFICES ASSUME NEW x \in Placed'
               PROVE  /\ S(x) \in Header /\ S(x).offset \in Int /\ S(x).size \in Nat
                      /\ (x # i => S(x) = Sec(x))
    OBVIOUS
  <2>1. x \in Int /\ x + 1 \in 1 .. Len(sections) /\ (x # i => x + 1 # i + 1)
    BY <1>2, <1>5
  <2>2. S(x) \in Header
    BY <2>1
  <2>3. x # i => S(x) = sections[x + 1]
    BY <2>1
  <2> QED
    BY <2>2, <2>3, HeaderFields DEF Sec
<1> HIDE DEF S
<1>7. \A x \in Placed' : Filled(S(x)) =>
        /\ First <= S(x).offset /\ S(x).offset + S(x).size <= pos'
        /\ (x # i => S(x).offset + S(x).size <= pos) /\ (x = i => pos <= S(x).offset)
  <2> SUFFICES ASSUME NEW x \in Placed', Filled(S(x))
               PROVE  /\ First <= S(x).offset /\ S(x).offset + S(x).size <= pos'
                      /\ (x # i => S(x).offset + S(x).size <= pos) /\ (x = i => pos <= S(x).offset)
    OBVIOUS
  <2>1. S(x).offset \in Int /\ S(x).size \in Nat
    BY <1>6
  <2>2. CASE x # i
    <3>1. Filled(Sec(x)) /\ x \in Placed /\ S(x) = Sec(x)
      BY <1>5, <1>6, <2>2
    <3>2. First <= S(x).offset /\ S(x).offset + S(x).size <= pos
      BY <1>4, <3>1
    <3> QED
      BY <1>4, <2>1, <2>2, <3>2
  <2>3. CASE x = i
    <3>1. pos <= S(x).offset /\ S(x).offset + S(x).size <= pos'
      BY <1>0, <1>5, <2>3 DEF S
    <3> QED
      BY <1>4, <2>1, <2>3, <3>1
  <2> QED
    BY <2>2, <2>3
<1>8. \A x, y \in Placed' : x # y /\ Filled(S(x)) /\ Filled(S(y)) => Apart(S(x), S(y))
  <2> SUFFICES ASSUME NEW x \in Placed', NEW y \in Placed', x # y, Filled(S(x)), Filled(S(y))
               PROVE  Apart(S(x), S(y))
    OBVIOUS
  <2>1. /\ S(x).offset \in Int /\ S(x).size \in Nat /\ S(y).offset \in Int /\ S(y).size \in Nat
    BY <1>6
  <2>2. CASE x # i /\ y # i
    <3>1. x \in Placed /\ y \in Placed /\ S(x) = Sec(x) /\ S(y) = Sec(y)
      BY <1>5, <1>6, <2>2
    <3> QED
      BY <1>4, <3>1
  <2>3. CASE x = i \/ y = i
    <3>1. S(x).offset + S(x).size <= S(y).offset \/ S(y).offset + S(y).size <= S(x).offset
      BY <1>4, <1>7, <2>1, <2>3
    <3> QED
      BY <3>1 DEF Apart
  <2> QED
    BY <2>2, <2>3
<1>9. \A x : Sec(x)' = S(x)
  BY DEF Sec, S
<1>10. First' <= pos'
  BY <1>4
<1> QED
  BY <1>7, <1>8, <1>9, <1>10 DEF PlacedInv

\* The elements of a worklist
LEMMA IntoIs ==
  ASSUME NEW q \in Seq(Nat)
  PROVE  /\ \A x \in Nat : Into(Append(q, x)) = Into(q) \cup {x} /\ Append(q, x) \in Seq(Nat)
         /\ q # <<>> => /\ Head(q) \in Nat /\ Tail(q) \in Seq(Nat)
                        /\ Into(q) = {Head(q)} \cup Into(Tail(q))
         /\ Into(<<>>) = {} /\ Into(q) \subseteq Nat
<1>1. Len(q) \in Nat /\ DOMAIN q = 1 .. Len(q) /\ \A k \in 1 .. Len(q) : q[k] \in Nat
  OBVIOUS
<1>2. ASSUME NEW x \in Nat
      PROVE  Into(Append(q, x)) = Into(q) \cup {x} /\ Append(q, x) \in Seq(Nat)
  <2>0. Append(q, x) \in Seq(Nat)
    OBVIOUS
  <2>1. PICK r \in Seq(Nat) : r = Append(q, x)
    BY <2>0
  <2>2. /\ DOMAIN r = 1 .. Len(q) + 1 /\ r[Len(q) + 1] = x
        /\ \A k \in 1 .. Len(q) : r[k] = q[k]
    BY <2>1
  <2>3. ASSUME NEW k \in DOMAIN r PROVE r[k] \in Into(q) \cup {x}
    <3>1. k \in 1 .. Len(q) \/ k = Len(q) + 1
      BY <1>1, <2>2
    <3> QED
      BY <1>1, <2>2, <3>1 DEF Into
  <2>4. ASSUME NEW k \in DOMAIN q PROVE q[k] \in Into(r)
    <3>1. k \in DOMAIN r /\ r[k] = q[k]
      BY <1>1, <2>2
    <3> QED
      BY <3>1 DEF Into
  <2>5. x \in Into(r)
    <3>1. Len(q) + 1 \in DOMAIN r
      BY <1>1, <2>2
    <3> QED
      BY <2>2, <3>1 DEF Into
  <2>6. Into(r) = Into(q) \cup {x}
    BY <2>3, <2>4, <2>5 DEF Into
  <2> QED
    BY <2>1, <2>6
<1>3. ASSUME q # <<>>
      PROVE  Head(q) \in Nat /\ Tail(q) \in Seq(Nat) /\ Into(q) = {Head(q)} \cup Into(Tail(q))
  <2>0. Tail(q) \in Seq(Nat)
    BY <1>3
  <2>1. PICK r \in Seq(Nat) : r = Tail(q)
    BY <2>0
  <2>2. /\ DOMAIN r = 1 .. Len(q) - 1 /\ Head(q) = q[1] /\ 1 \in DOMAIN q
        /\ \A k \in 1 .. Len(q) - 1 : r[k] = q[k + 1] /\ k + 1 \in DOMAIN q
    BY <1>1, <1>3, <2>1
  <2>3. ASSUME NEW k \in DOMAIN q PROVE q[k] \in {Head(q)} \cup Into(r)
    <3>1. k = 1 \/ (k - 1 \in DOMAIN r /\ r[k - 1] = q[k])
      BY <1>1, <2>2
    <3> QED
      BY <2>2, <3>1 DEF Into
  <2>4. ASSUME NEW k \in DOMAIN r PROVE r[k] \in Into(q)
    BY <2>2 DEF Into
  <2>5. Head(q) \in Into(q)
    BY <2>2 DEF Into
  <2>6. Into(q) = {Head(q)} \cup Into(r)
    BY <2>3, <2>4, <2>5 DEF Into
  <2> QED
    BY <1>1, <2>1, <2>2, <2>6
<1>4. Into(<<>>) = {} /\ Into(q) \subseteq Nat
  BY <1>1 DEF Into
<1> QED
  BY <1>2, <1>3, <1>4

-----------------------------------------------------------------------------
(* save: the order of the segments. *)

\* What LargestOf gives for a number and those of a sequence
LEMMA LargestIs ==
  ASSUME NEW n \in Nat, NEW f \in [1 .. n -> Nat], NEW a \in Nat
  PROVE  LargestOf({a} \cup {f[k] : k \in 1 .. n}, 0) \in Nat
<1> DEFINE S == {a} \cup {f[k] : k \in 1 .. n}
<1>1. PICK m \in S : \A x \in S : x <= m
  BY GreatestOf
<1>2. S # {} /\ S \subseteq Nat
  <2>1. \A k \in 1 .. n : f[k] \in Nat
    OBVIOUS
  <2> QED
    BY <2>1
<1>3. LargestOf(S, 0) = CHOOSE x \in S : \A y \in S : y <= x
  BY <1>2 DEF LargestOf
<1> HIDE DEF S
<1>4. LargestOf(S, 0) \in S
  BY <1>1, <1>3
<1>5. LargestOf(S, 0) \in Nat
  BY <1>2, <1>4
<1> QED
  BY <1>5 DEF S

LEMMA SeqOf ==
  ASSUME NEW S, NEW n \in Nat, NEW f \in [1 .. n -> S]
  PROVE  f \in Seq(S) /\ Len(f) = n /\ DOMAIN f = 1 .. n
OBVIOUS

SameSpan(a, b) ==
  /\ a.type = b.type /\ a.vaddr = b.vaddr /\ a.memory = b.memory /\ a.size = b.size
  /\ a.offset = b.offset /\ a.fixed = b.fixed

LEMMA AlignedIs ==
  ASSUME FileInv
  PROVE  /\ AlignedSegments \in Seq(SegmentHeader) /\ Len(AlignedSegments) = Len(segments)
         /\ \A s \in 1 .. Len(segments) :
              /\ AlignedSegments[s].secs = segments[s].secs
              /\ SameSpan(AlignedSegments[s], segments[s])
<1>1. FileTypeInv /\ SectionsInv
  BY DEF FileInv
<1>2. Len(segments) \in Nat /\ DOMAIN segments = 1 .. Len(segments)
  BY <1>1, SegmentTypes
<1> DEFINE align(s) == LargestOf({segments[s].align} \cup
                          {Sec(segments[s].secs[j]).align : j \in DOMAIN segments[s].secs}, 0)
<1>3. ASSUME NEW s \in 1 .. Len(segments)
      PROVE  align(s) \in Nat
  <2>1. /\ segments[s] \in SegmentHeader
        /\ \A j \in 1 .. Len(segments[s].secs) : segments[s].secs[j] \in Numbers
    BY <1>1, SegmentTypes
  <2>2. PICK n \in Nat : n = Len(segments[s].secs) /\ DOMAIN segments[s].secs = 1 .. n
    BY <2>1, SegmentFields
  <2> DEFINE f == [j \in 1 .. n |-> Sec(segments[s].secs[j]).align]
  <2>3. \A j \in 1 .. n : Sec(segments[s].secs[j]).align \in Nat
    BY <1>1, <2>1, <2>2, SectionTypes, HeaderFields
  <2>4. f \in [1 .. n -> Nat] /\ \A j \in 1 .. n : f[j] = Sec(segments[s].secs[j]).align
    BY <2>3
  <2>5. {Sec(segments[s].secs[j]).align : j \in DOMAIN segments[s].secs} = {f[j] : j \in 1 .. n}
    BY <2>2, <2>4
  <2>6. segments[s].align \in Nat
    BY <2>1, SegmentFields
  <2> HIDE DEF f
  <2>7. LargestOf({segments[s].align} \cup {f[j] : j \in 1 .. n}, 0) \in Nat
    BY <2>4, <2>6, LargestIs
  <2> QED
    BY <2>5, <2>7
<1>4. AlignedSegments = [s \in 1 .. Len(segments) |-> [segments[s] EXCEPT !.align = align(s)]]
  BY <1>2 DEF AlignedSegments
<1>5. ASSUME NEW s \in 1 .. Len(segments)
      PROVE  /\ [segments[s] EXCEPT !.align = align(s)] \in SegmentHeader
             /\ [segments[s] EXCEPT !.align = align(s)].secs = segments[s].secs
             /\ SameSpan([segments[s] EXCEPT !.align = align(s)], segments[s])
  <2>1. segments[s] \in SegmentHeader /\ align(s) \in Nat
    BY <1>1, <1>3, SegmentTypes
  <2> HIDE DEF align
  <2> QED
    BY <2>1 DEF SegmentHeader, SameSpan
<1> HIDE DEF align
<1>6. /\ AlignedSegments \in [1 .. Len(segments) -> SegmentHeader]
      /\ \A s \in 1 .. Len(segments) :
           /\ AlignedSegments[s].secs = segments[s].secs
           /\ SameSpan(AlignedSegments[s], segments[s])
  BY <1>4, <1>5
<1> QED
  BY <1>2, <1>6, SeqOf

LEMMA ArrangementIs ==
  ASSUME NEW n \in Nat, NEW p, p \in Arrangements(n)
  PROVE  p \in Seq(Nat) /\ Into(p) = 1 .. n
<1>1. /\ p \in [1 .. n -> 1 .. n]
      /\ \A k, l \in 1 .. n : p[k] = p[l] => k = l
  BY DEF Arrangements
<1>2. \A k \in 1 .. n : \E l \in 1 .. n : p[l] = k
  BY <1>1, Onto
<1>3. p \in [1 .. n -> Nat]
  BY <1>1
<1>4. p \in Seq(Nat) /\ DOMAIN p = 1 .. n
  BY <1>3, SeqOf
<1> QED
  BY <1>1, <1>2, <1>4 DEF Into

\* Save begins with every segment in the worklist.
LEMMA SaveStep ==
  ASSUME FileInv, Save
  PROVE  FileInv'
<1>1. /\ phase \in {"edit", "loaded", "amended"} /\ segments' = AlignedSegments
      /\ pos' = First /\ todo' = ZeroFirst /\ order' = <<>> /\ generated' = {}
      /\ phase' = "order" /\ saves' = saves + 1
      /\ UNCHANGED <<sections, at, file, good, back>>
  BY DEF Save, First
<1>2. FileTypeInv /\ SectionsInv
  BY DEF FileInv
<1>3. First \in Nat /\ Len(segments) \in Nat
  BY <1>2, SegmentTypes
<1>4. PICK p \in Arrangements(Len(segments)) : p = ZeroFirst
  BY <1>3, ZeroFirstIs
<1>7. todo' \in Seq(Nat) /\ Into(todo') = 1 .. Len(segments)
  BY <1>1, <1>3, <1>4, ArrangementIs
<1>8. /\ segments' \in Seq(SegmentHeader) /\ Len(segments') = Len(segments)
      /\ \A s \in 1 .. Len(segments) : segments'[s].secs = segments[s].secs
  BY <1>1, AlignedIs
<1>9. FileTypeInv' /\ SectionsInv' /\ First' = First
  <2>1. \A k \in 1 .. Len(sections) : SameContents(sections'[k], sections[k])
    BY <1>1 DEF SameContents
  <2>2. /\ sections' \in Seq(Header) /\ Len(sections') = Len(sections) /\ saves' \in Nat
        /\ order' \in Seq(Nat) /\ generated' \subseteq Nat
        /\ at' \in [next : Nat, start : Int, memory : Int, size : Int]
    BY <1>1, <1>2 DEF FileTypeInv
  <2>3. phase \in Making \cup Loaded /\ phase' \in LayoutPhases \cup {"failed", "saved"}
    BY <1>1 DEF Making, Loaded, LayoutPhases
  <2>5. ~ back' /\ file' = file
    BY <1>1, <1>2 DEF FileTypeInv, BackPhases
  <2>4. pos' \in Int /\ good' = good
    BY <1>1, <1>3
  <2> QED
    BY <1>1, <1>7, <1>8, <2>1, <2>2, <2>3, <2>4, <2>5, LayoutKeeps
<1>10. SavedInv' /\ LoadInv'
  BY <1>1, LayoutElse DEF LayoutPhases
<1>11. OrderInv'
  <2>1. DOMAIN segments' = 1 .. Len(segments)
    BY <1>8
  <2>2. Into(order') = {}
    BY <1>1 DEF Into
  <2> QED
    BY <1>1, <1>7, <1>9, <2>1, <2>2 DEF OrderInv
<1>12. PlacedInv'
  BY <1>1 DEF PlacedInv
<1> QED
  BY <1>9, <1>10, <1>11, <1>12 DEF FileInv

\* What the layout leaves alone: the sections of the segments, and the contents
LEMMA SameSegments ==
  ASSUME FileInv, UNCHANGED segments
  PROVE  /\ segments' \in Seq(SegmentHeader) /\ Len(segments') = Len(segments)
         /\ \A s \in 1 .. Len(segments) : segments'[s].secs = segments[s].secs
BY DEF FileInv, FileTypeInv

LEMMA SameSections ==
  ASSUME FileInv, UNCHANGED sections
  PROVE  /\ sections' \in Seq(Header) /\ Len(sections') = Len(sections)
         /\ \A k \in 1 .. Len(sections) : SameContents(sections'[k], sections[k])
         /\ \A k \in 1 .. Len(sections) : sections'[k] = sections[k]
BY DEF FileInv, FileTypeInv, SameContents

LEMMA Types ==
  ASSUME FileInv
  PROVE  /\ pos \in Int /\ back \in BOOLEAN /\ todo \in Seq(Nat) /\ order \in Seq(Nat) /\ generated \subseteq Nat
         /\ at \in [next : Nat, start : Int, memory : Int, size : Int]
         /\ saves \in Nat /\ First \in Nat /\ Len(sections) \in Nat
         /\ at.next \in Nat /\ at.start \in Int /\ at.memory \in Int /\ at.size \in Int
<1>1. FileTypeInv /\ SectionsInv
  BY DEF FileInv
<1>2. at \in [next : Nat, start : Int, memory : Int, size : Int]
  BY <1>1 DEF FileTypeInv
<1>3. at.next \in Nat /\ at.start \in Int /\ at.memory \in Int /\ at.size \in Int
  BY <1>2
<1> QED
  BY <1>1, <1>2, <1>3, SectionTypes, SegmentTypes DEF FileTypeInv

LEMMA OrderSegmentStep ==
  ASSUME FileInv, OrderSegment
  PROVE  FileInv'
<1>1. /\ phase = "order" /\ todo # <<>> /\ phase' = "order"
      /\ \/ todo' = Append(Tail(todo), Head(todo)) /\ order' = order
         \/ todo' = Tail(todo) /\ order' = Append(order, Head(todo))
      /\ UNCHANGED <<sections, segments, pos, generated, at, file, good, saves, back>>
  BY DEF OrderSegment
<1>2. /\ pos \in Int /\ todo \in Seq(Nat) /\ order \in Seq(Nat) /\ generated \subseteq Nat
      /\ at \in [next : Nat, start : Int, memory : Int, size : Int] /\ saves \in Nat
  BY Types
<1>3. Head(todo) \in Nat /\ Tail(todo) \in Seq(Nat) /\ Into(todo) = {Head(todo)} \cup Into(Tail(todo))
  BY <1>1, <1>2, IntoIs
<1>4. /\ todo' \in Seq(Nat) /\ order' \in Seq(Nat)
      /\ Into(todo') \cup Into(order') = Into(todo) \cup Into(order)
  <2>1. /\ Into(Append(Tail(todo), Head(todo))) = Into(Tail(todo)) \cup {Head(todo)}
        /\ Append(Tail(todo), Head(todo)) \in Seq(Nat)
    BY <1>3, IntoIs
  <2>2. /\ Into(Append(order, Head(todo))) = Into(order) \cup {Head(todo)}
        /\ Append(order, Head(todo)) \in Seq(Nat)
    BY <1>2, <1>3, IntoIs
  <2>3. CASE todo' = Append(Tail(todo), Head(todo)) /\ order' = order
    BY <1>2, <1>3, <2>1, <2>3
  <2>4. CASE todo' = Tail(todo) /\ order' = Append(order, Head(todo))
    BY <1>2, <1>3, <2>2, <2>4
  <2> QED
    BY <1>1, <2>3, <2>4
<1>5. FileTypeInv' /\ SectionsInv' /\ First' = First
  <2>1. phase \in Making \cup Loaded /\ phase' \in LayoutPhases \cup {"failed", "saved"}
    BY <1>1 DEF Making, LayoutPhases
  <2>2. pos' \in Int /\ generated' \subseteq Nat /\ good' = good /\ saves' \in Nat
        /\ ~ back' /\ file' = file
        /\ at' \in [next : Nat, start : Int, memory : Int, size : Int]
    BY <1>1, <1>2 DEF FileInv, FileTypeInv, BackPhases
  <2> QED
    BY <1>1, <1>4, <2>1, <2>2, SameSegments, SameSections, LayoutKeeps
<1>6. OrderInv'
  <2>1. DOMAIN segments = Into(todo) \cup Into(order) /\ pos = First /\ generated = {}
    BY <1>1 DEF FileInv, OrderInv
  <2> QED
    BY <1>1, <1>4, <1>5, <2>1 DEF OrderInv
<1>7. SavedInv' /\ LoadInv'
  BY <1>1, LayoutElse DEF LayoutPhases
<1>8. PlacedInv'
  BY <1>1 DEF PlacedInv
<1> QED
  BY <1>5, <1>6, <1>7, <1>8 DEF FileInv

LEMMA StartLayoutStep ==
  ASSUME FileInv, StartLayout
  PROVE  FileInv'
<1>1. /\ phase = "order" /\ todo = <<>> /\ phase' = "segment"
      /\ UNCHANGED <<sections, segments, pos, todo, order, generated, at, file, good, saves, back>>
  BY DEF StartLayout, layout
<1>2. /\ pos \in Int /\ todo \in Seq(Nat) /\ order \in Seq(Nat) /\ generated \subseteq Nat
      /\ at \in [next : Nat, start : Int, memory : Int, size : Int] /\ saves \in Nat
  BY Types
<1>3. DOMAIN segments = Into(order) /\ pos = First /\ generated = {}
  BY <1>1, <1>2, IntoIs DEF FileInv, OrderInv
<1>4. FileTypeInv' /\ SectionsInv' /\ First' = First
  <2>1. phase \in Making \cup Loaded /\ phase' \in LayoutPhases \cup {"failed", "saved"}
    BY <1>1 DEF Making, LayoutPhases
  <2> QED
    BY <1>1, <1>2, <2>1, SameSegments, SameSections, LayoutKeeps
<1>5. OrderInv'
  BY <1>1, <1>3 DEF OrderInv
<1>6. PlacedInv'
  <2>1. Placed' = {}
    BY <1>1, <1>3 DEF Placed
  <2>2. First' <= pos'
    BY <1>1, <1>2, <1>3, <1>4
  <2> QED
    BY <2>1, <2>2 DEF PlacedInv
<1>7. SavedInv' /\ LoadInv'
  BY <1>1, LayoutElse DEF LayoutPhases
<1> QED
  BY <1>4, <1>5, <1>6, <1>7 DEF FileInv

-----------------------------------------------------------------------------
(* save: the segments and their sections. *)

\* The segment that is laid out
LEMMA CurrentIs ==
  ASSUME FileInv, phase \in {"segment", "section"}, order # <<>>
  PROVE  /\ Head(order) \in DOMAIN segments /\ Head(order) \in 1 .. Len(segments)
         /\ Current \in SegmentHeader /\ Current = segments[Head(order)]
         /\ Tail(order) \in Seq(Nat) /\ Into(order) = {Head(order)} \cup Into(Tail(order))
         /\ Current.secs \in Seq(Nat) /\ Len(Current.secs) \in Nat
         /\ DOMAIN Current.secs = 1 .. Len(Current.secs)
         /\ Current.vaddr \in Nat /\ Current.align \in Nat
         /\ \A j \in 1 .. Len(Current.secs) : Current.secs[j] \in Numbers
<1>1. FileTypeInv /\ SectionsInv /\ Into(order) \subseteq DOMAIN segments
  BY DEF FileInv, OrderInv
<1>2. Tail(order) \in Seq(Nat) /\ Into(order) = {Head(order)} \cup Into(Tail(order))
  BY Types, IntoIs
<1>3. Head(order) \in DOMAIN segments /\ DOMAIN segments = 1 .. Len(segments)
  BY <1>1, <1>2, SegmentTypes
<1>4. Current \in SegmentHeader /\ Current = segments[Head(order)]
  BY <1>1, <1>3, SegmentTypes DEF Current
<1>5. \A j \in 1 .. Len(Current.secs) : Current.secs[j] \in Numbers
  BY <1>1, <1>3, <1>4, SegmentTypes
<1> QED
  BY <1>2, <1>3, <1>4, <1>5, SegmentFields

\* The section that is next in it
LEMMA NextIs ==
  ASSUME FileInv, HasNext
  PROVE  /\ phase = "section" /\ order # <<>> /\ at.next \in 1 .. Len(Current.secs)
         /\ Index \in Numbers /\ Index = Current.secs[at.next] /\ Index \in Nat
         /\ Index + 1 \in 1 .. Len(sections)
         /\ Place = sections[Index + 1] /\ Place = Sec(Index) /\ Place \in Header
         /\ \A j \in 1 .. at.next - 1 : Current.secs[j] \in generated
         /\ \A s \in DOMAIN segments \ Into(order) : \A j \in DOMAIN segments[s].secs :
              segments[s].secs[j] \in generated
         /\ Into(order) \subseteq DOMAIN segments
<1>1. phase = "section" /\ at.next <= Len(Current.secs)
  BY DEF HasNext
<1>2. /\ order # <<>> /\ at.next > 0 /\ Into(order) \subseteq DOMAIN segments
      /\ \A j \in 1 .. at.next - 1 : j \in DOMAIN Current.secs => Current.secs[j] \in generated
      /\ \A s \in DOMAIN segments \ Into(order) : \A j \in DOMAIN segments[s].secs :
           segments[s].secs[j] \in generated
  BY <1>1 DEF FileInv, OrderInv
<1>3. /\ Len(Current.secs) \in Nat /\ DOMAIN Current.secs = 1 .. Len(Current.secs)
      /\ \A j \in 1 .. Len(Current.secs) : Current.secs[j] \in Numbers
  BY <1>1, <1>2, CurrentIs
<1>4. at.next \in 1 .. Len(Current.secs)
  BY <1>1, <1>2, <1>3, Types
<1>5. Index \in Numbers /\ Index = Current.secs[at.next]
  BY <1>3, <1>4 DEF Index
<1>6. Index \in Nat /\ Index + 1 \in 1 .. Len(sections) /\ Sec(Index) = sections[Index + 1] /\ Sec(Index) \in Header
  BY <1>5, SectionTypes DEF FileInv
<1>7. \A j \in 1 .. at.next - 1 : j \in DOMAIN Current.secs
  BY <1>3, <1>4
<1> QED
  BY <1>1, <1>2, <1>4, <1>5, <1>6, <1>7 DEF Place

LEMMA CountedIs ==
  ASSUME FileInv, HasNext, NEW gap \in Int
  PROVE  Counted(gap) \in [next : Nat, start : Int, memory : Int, size : Int] /\ Counted(gap).next = at.next + 1
<1>1. /\ at \in [next : Nat, start : Int, memory : Int, size : Int]
      /\ at.next \in Nat /\ at.memory \in Int /\ at.size \in Int
  BY Types
<1>2. Place.size \in Nat
  BY NextIs, HeaderFields
<1>3. PICK m \in Int : m = IF TakesMemory(Place) THEN at.memory + (Place.size + gap) ELSE at.memory
  BY <1>1, <1>2
<1>4. PICK z \in Int : z = IF Place.type # "NOBITS" THEN at.size + (Place.size + gap) ELSE at.size
  BY <1>1, <1>2
<1>5. Counted(gap) = [at EXCEPT !.next = at.next + 1, !.memory = m, !.size = z]
  BY <1>3, <1>4 DEF Counted, Stepped
<1>6. at.next + 1 \in Nat
  BY <1>1
<1> QED
  BY <1>1, <1>5, <1>6

LEMMA StartSegmentStep ==
  ASSUME FileInv, StartSegment
  PROVE  FileInv'
<1>1. /\ phase = "segment" /\ order # <<>> /\ phase' = "section"
      /\ UNCHANGED <<sections, segments, todo, order, generated, file, good, saves, back>>
      /\ \/ at' = AtOnce(1, EhdrSize, PhdrSize * Len(segments)) /\ pos' = pos
         \/ at' = AtOnce(1, 0, pos) /\ pos' = pos
         \/ at' = AtOnce(1, 0, 0) /\ pos' = pos
         \/ pos' = Congruent(Current.align) /\ at' = AtOnce(1, pos', 0)
         \/ Current.secs # <<>> /\ at' = AtOnce(1, Sec(Current.secs[1]).offset, 0) /\ pos' = pos
         \/ at' = AtOnce(1, pos, 0) /\ pos' = pos
  BY DEF StartSegment
<1>2. /\ pos \in Int /\ todo \in Seq(Nat) /\ order \in Seq(Nat) /\ generated \subseteq Nat
      /\ at \in [next : Nat, start : Int, memory : Int, size : Int] /\ saves \in Nat
  BY Types
<1>3. \A start, size \in Int : /\ AtOnce(1, start, size) \in [next : Nat, start : Int, memory : Int, size : Int]
                               /\ AtOnce(1, start, size).next = 1
  BY DEF AtOnce
<1>4. pos' \in Int /\ pos <= pos'
  <2>1. Congruent(Current.align) \in Int /\ pos <= Congruent(Current.align)
    BY <1>1, <1>2, CurrentIs, CongruentIs
  <2> QED
    BY <1>1, <1>2, <2>1
<1>5. at' \in [next : Nat, start : Int, memory : Int, size : Int] /\ at'.next = 1
  <2>1. EhdrSize \in Int /\ PhdrSize * Len(segments) \in Int
    BY Sizes, SegmentTypes DEF FileInv
  <2>2. ASSUME Current.secs # <<>> PROVE Sec(Current.secs[1]).offset \in Int
    <3>1. 1 \in 1 .. Len(Current.secs) /\ Current.secs[1] \in Numbers
      BY <1>1, <2>2, CurrentIs
    <3>2. Sec(Current.secs[1]) \in Header
      BY <3>1, SectionTypes DEF FileInv
    <3> QED
      BY <3>2, HeaderFields
  <2>3. pos \in Int /\ pos' \in Int /\ 0 \in Int
    BY <1>2, <1>4
  <2>4. \E start, size \in Int : at' = AtOnce(1, start, size)
    BY <1>1, <2>1, <2>2, <2>3
  <2>5. PICK start \in Int, size \in Int : at' = AtOnce(1, start, size)
    BY <2>4
  <2> QED
    BY <1>3, <2>5
<1>6. FileTypeInv' /\ SectionsInv' /\ First' = First
  <2>1. phase \in Making \cup Loaded /\ phase' \in LayoutPhases \cup {"failed", "saved"}
    BY <1>1 DEF Making, LayoutPhases
  <2> QED
    BY <1>1, <1>2, <1>4, <1>5, <2>1, SameSegments, SameSections, LayoutKeeps
<1>7. OrderInv'
  <2>1. /\ Into(order) \subseteq DOMAIN segments
        /\ \A s \in DOMAIN segments \ Into(order) : \A j \in DOMAIN segments[s].secs :
             segments[s].secs[j] \in generated
    BY <1>1 DEF FileInv, OrderInv
  <2>2. \A j \in 1 .. at'.next - 1 : FALSE
    BY <1>5
  <2> QED
    BY <1>1, <1>5, <2>1, <2>2 DEF OrderInv
<1>8. PlacedInv'
  <2>1. Placed' \subseteq Placed
    BY <1>1 DEF Placed, Numbers
  <2>2. Placed' \subseteq Placed \cup {-1} /\ -1 \in Int /\ -1 \notin Numbers
    BY <2>1, SectionTypes DEF FileInv
  <2> QED
    BY <1>1, <1>4, <1>6, <2>2, SameSections, PlacedKeeps DEF Laid
<1>9. SavedInv' /\ LoadInv'
  BY <1>1, LayoutElse DEF LayoutPhases
<1> QED
  BY <1>6, <1>7, <1>8, <1>9 DEF FileInv

\* The next section counts as placed, the rest of the order stays.
LEMMA StepOrder ==
  ASSUME FileInv, HasNext, phase' = "section", UNCHANGED <<segments, order>>,
         at'.next = at.next + 1, generated' = generated \cup {Index}
  PROVE  OrderInv'
<1>1. /\ order # <<>> /\ at.next \in 1 .. Len(Current.secs)
      /\ Index = Current.secs[at.next]
      /\ \A j \in 1 .. at.next - 1 : Current.secs[j] \in generated
      /\ \A s \in DOMAIN segments \ Into(order) : \A j \in DOMAIN segments[s].secs :
           segments[s].secs[j] \in generated
      /\ Into(order) \subseteq DOMAIN segments
  BY NextIs
<1>2. Current' = Current
  BY DEF Current
<1>3. \A j \in 1 .. at'.next - 1 : Current.secs[j] \in generated'
  <2> SUFFICES ASSUME NEW j \in 1 .. at'.next - 1 PROVE Current.secs[j] \in generated'
    OBVIOUS
  <2>1. j \in 1 .. at.next - 1 \/ j = at.next
    BY <1>1
  <2> QED
    BY <1>1, <2>1
<1>4. at'.next > 0
  BY <1>1
<1> QED
  BY <1>1, <1>2, <1>3, <1>4 DEF OrderInv

LEMMA PlaceNullStep ==
  ASSUME FileInv, PlaceNull
  PROVE  FileInv'
<1>1. /\ HasNext /\ Place.type = "NULL" /\ at' = [at EXCEPT !.next = Stepped]
      /\ generated' = generated \cup {Index}
      /\ UNCHANGED <<sections, segments, phase, pos, todo, order, file, good, saves, back>>
  BY DEF PlaceNull
<1>2. /\ pos \in Int /\ todo \in Seq(Nat) /\ order \in Seq(Nat) /\ generated \subseteq Nat
      /\ at \in [next : Nat, start : Int, memory : Int, size : Int] /\ saves \in Nat
      /\ at.next \in Nat
  BY Types
<1>3. phase = "section" /\ Index \in Nat /\ Index \in Numbers /\ Place = sections[Index + 1]
  BY <1>1, NextIs
<1>4. at' \in [next : Nat, start : Int, memory : Int, size : Int] /\ at'.next = at.next + 1
  BY SMTT(30), <1>1, <1>2 DEF Stepped
<1>5. FileTypeInv' /\ SectionsInv' /\ First' = First
  <2>1. phase \in Making \cup Loaded /\ phase' \in LayoutPhases \cup {"failed", "saved"}
    BY <1>1, <1>3 DEF Making, LayoutPhases
  <2> QED
    BY <1>1, <1>2, <1>3, <1>4, <2>1, SameSegments, SameSections, LayoutKeeps
<1>6. OrderInv'
  BY <1>1, <1>3, <1>4, StepOrder
<1>7. PlacedInv'
  <2>1. Placed' \subseteq Placed \cup {Index}
    BY <1>1, <1>3 DEF Placed, Numbers
  <2>2. ~ Filled(sections'[Index + 1])
    BY <1>1, <1>3 DEF Filled, HasBytes
  <2>3. Index \in Int /\ pos' \in Int /\ pos <= pos'
    BY <1>1, <1>2, <1>3
  <2> QED
    BY <1>1, <1>3, <1>5, <2>1, <2>2, <2>3, SameSections, PlacedKeeps DEF Laid
<1>8. SavedInv' /\ LoadInv'
  BY <1>1, <1>3, LayoutElse DEF LayoutPhases
<1> QED
  BY <1>5, <1>6, <1>7, <1>8 DEF FileInv

\* A section goes some way behind the position, or before it.
LEMMA GenerateStep ==
  ASSUME FileInv, HasNext, Place.type # "NULL", NEW gap \in Int, Generate(gap),
         back' \in BOOLEAN, ~ back' => ~ back /\ gap >= 0
  PROVE  FileInv'
<1>1. /\ at' = Counted(gap) /\ generated' = generated \cup {Index}
      /\ pos' = pos + gap + (IF Place.type # "NOBITS" THEN Place.size ELSE 0)
      /\ UNCHANGED <<segments, phase, todo, order, file, good, saves>>
  BY DEF Generate
<1>2. /\ pos \in Int /\ todo \in Seq(Nat) /\ order \in Seq(Nat) /\ generated \subseteq Nat
      /\ saves \in Nat /\ at.start \in Int /\ Len(sections) \in Nat
  BY Types
<1>3. /\ phase = "section" /\ order # <<>> /\ Index \in Nat /\ Index \in Numbers
      /\ Index + 1 \in 1 .. Len(sections)
      /\ Place = sections[Index + 1] /\ Place \in Header
      /\ Place.size \in Nat /\ Place.address \in Int /\ Current.vaddr \in Nat
  <2>1. phase = "section" /\ order # <<>> /\ Place \in Header
    BY NextIs
  <2> QED
    BY <2>1, NextIs, CurrentIs, HeaderFields
<1>4. PICK a : a = IF Place.fixed THEN Place.address ELSE Current.vaddr + (pos + gap) - at.start
  OBVIOUS
<1>16. a \in Int
  <2>1. Current.vaddr + (pos + gap) - at.start \in Int
    BY SMTT(30), <1>2, <1>3
  <2>2. CASE Place.fixed
    BY <1>3, <1>4, <2>2
  <2>3. CASE ~ Place.fixed
    BY <1>4, <2>1, <2>3
  <2> QED
    BY <2>2, <2>3
<1>5. PICK v : v = [Place EXCEPT !.fixed = TRUE, !.address = a, !.offset = pos + gap]
  OBVIOUS
<1>6. /\ v \in Header /\ SameContents(v, Place) /\ v.offset = pos + gap
      /\ v.type = Place.type /\ v.size = Place.size
  <2>1. PICK o \in Int : o = pos + gap
    BY <1>2
  <2>2. PICK sec \in Header : sec = Place
    BY <1>3
  <2>3. v = [sec EXCEPT !.fixed = TRUE, !.address = a, !.offset = o]
    BY <1>5, <2>1, <2>2
  <2>4. v \in Header /\ SameContents(v, sec) /\ v.offset = o /\ v.type = sec.type /\ v.size = sec.size
    <3>1. v \in Header
      BY <1>16, <2>3 DEF Header
    <3>2. v.type = sec.type /\ v.size = sec.size /\ v.cap = sec.cap /\ v.data = sec.data /\ v.offset = o
      BY <2>3 DEF Header
    <3> QED
      BY <3>1, <3>2 DEF SameContents
  <2> QED
    BY <2>1, <2>2, <2>4
<1>7. sections' = [sections EXCEPT ![Index + 1] = v]
  <2>1. sections' = [sections EXCEPT ![Index + 1] = [sections[Index + 1] EXCEPT !.fixed = TRUE,
             !.address = IF Place.fixed THEN Place.address ELSE Current.vaddr + (pos + gap) - at.start,
             !.offset = pos + gap]]
    BY DEF Generate
  <2> QED
    BY <1>3, <1>4, <1>5, <2>1, Zenon
<1>8. sections \in Seq(Header)
  BY DEF FileInv, FileTypeInv
<1>9. /\ sections' \in Seq(Header) /\ Len(sections') = Len(sections)
      /\ \A k \in 1 .. Len(sections) : sections'[k] = IF k = Index + 1 THEN v ELSE sections[k]
  BY <1>3, <1>6, <1>7, <1>8
<1>10. /\ at' \in [next : Nat, start : Int, memory : Int, size : Int] /\ at'.next = at.next + 1
  BY <1>1, CountedIs
<1>11. pos' \in Int /\ (~ back' => ~ back /\ pos <= pos') /\ (Place.type # "NOBITS" => pos' = pos + gap + Place.size)
  BY SMTT(30), <1>1, <1>2, <1>3
<1>12. FileTypeInv' /\ SectionsInv' /\ First' = First
  <2>1. phase \in Making \cup Loaded /\ phase' \in LayoutPhases \cup {"failed", "saved"}
    BY <1>1, <1>3 DEF Making, LayoutPhases
  <2>2. \A k \in 1 .. Len(sections) : SameContents(sections'[k], sections[k])
    BY <1>3, <1>6, <1>9 DEF SameContents
  <2>3. /\ generated' \subseteq Nat /\ saves' \in Nat /\ good' = good /\ todo' \in Seq(Nat) /\ order' \in Seq(Nat)
        /\ phase' = "section" /\ file' = file /\ back' \in {TRUE, FALSE, back}
    BY <1>1, <1>2, <1>3
  <2> QED
    BY <1>1, <1>9, <1>10, <1>11, <2>1, <2>2, <2>3, SameSegments, LayoutKeeps
<1>13. OrderInv'
  BY <1>1, <1>3, <1>10, StepOrder
<1>14. PlacedInv'
  <2>1. Placed' \subseteq Placed \cup {Index}
    BY <1>1, <1>3, <1>9 DEF Placed, Numbers
  <2>2. ~ back' /\ Filled(sections'[Index + 1]) =>
           /\ pos <= sections'[Index + 1].offset
           /\ sections'[Index + 1].offset + sections'[Index + 1].size <= pos'
    <3>1. sections'[Index + 1] = v
      BY <1>3, <1>9
    <3>2. ASSUME Filled(v) PROVE v.type # "NOBITS"
      BY <3>2 DEF Filled, HasBytes
    <3> QED
      BY <1>2, <1>3, <1>6, <1>11, <3>1, <3>2
  <2>3. \A k \in 1 .. Len(sections) : k # Index + 1 => sections'[k] = sections[k]
    BY <1>9
  <2> QED
    BY <1>3, <1>9, <1>11, <1>12, <2>1, <2>2, <2>3, PlacedKeeps DEF Laid
<1>15. SavedInv' /\ LoadInv'
  BY <1>1, <1>3, LayoutElse DEF LayoutPhases
<1> QED
  BY <1>12, <1>13, <1>14, <1>15 DEF FileInv

LEMMA PlaceFixedStep ==
  ASSUME FileInv, PlaceFixed
  PROVE  FileInv'
<1>1. HasNext /\ Place.type # "NULL"
  BY DEF PlaceFixed
<1>2. CASE ByAddress
  <2>1. /\ ~ Below(Requested, Passed) /\ Generate(Requested - Passed)
        /\ back' = (back \/ Requested < Passed)
    BY <1>2 DEF PlaceFixed
  <2>2. Requested \in Int /\ Passed \in Int
    <3>1. phase = "section" /\ order # <<>> /\ Place \in Header
      BY <1>1, NextIs
    <3>2. Current.vaddr \in Nat /\ Place.address \in Int /\ at.start \in Int /\ pos \in Int
      BY <3>1, CurrentIs, HeaderFields, Types
    <3> QED
      BY <3>2 DEF Requested, Passed
  <2>3. PICK gap \in Int : gap = Requested - Passed
    BY <2>2
  <2>4. Generate(gap)
    BY <2>1, <2>3, Zenon
  <2>5. back' \in BOOLEAN /\ (~ back' => ~ back /\ gap >= 0)
    <3>1. back \in BOOLEAN
      BY Types
    <3>2. ~ (Requested < Passed) => gap >= 0
      BY <2>2, <2>3
    <3> QED
      BY <2>1, <3>1, <3>2, Zenon
  <2> QED
    BY <1>1, <2>4, <2>5, GenerateStep
<1>3. CASE ~ ByAddress
  <2>1. Generate(0) /\ back' = back /\ back \in BOOLEAN
    BY <1>3, Types DEF PlaceFixed
  <2> QED
    BY <1>1, <2>1, GenerateStep
<1> QED
  BY <1>2, <1>3

LEMMA PlaceNewStep ==
  ASSUME FileInv, PlaceNew
  PROVE  FileInv'
<1>1. HasNext /\ Place.type # "NULL" /\ Generate(RoundedUp(pos, Place.align) - pos)
  BY DEF PlaceNew
<1>2. RoundedUp(pos, Place.align) \in Int /\ pos <= RoundedUp(pos, Place.align)
  <2>1. pos \in Int /\ Place.align \in Nat
    BY <1>1, NextIs, HeaderFields, Types
  <2> QED
    BY <2>1, RoundedUpIs
<1>3. PICK gap \in Int : gap = RoundedUp(pos, Place.align) - pos /\ gap >= 0
  <2>1. pos \in Int
    BY Types
  <2> QED
    BY <1>2, <2>1
<1>4. Generate(gap)
  BY <1>1, <1>3, Zenon
<1>5. back' = back /\ back \in BOOLEAN
  BY Types DEF PlaceNew
<1> QED
  BY <1>1, <1>3, <1>4, <1>5, GenerateStep

LEMMA SaveAbortsStep ==
  ASSUME FileInv, SaveAborts
  PROVE  FileInv'
<1>1. /\ HasNext /\ phase' = "failed"
      /\ UNCHANGED <<sections, segments, pos, todo, order, generated, at, file, good, saves, back>>
  BY DEF SaveAborts, layout
<1>2. /\ pos \in Int /\ todo \in Seq(Nat) /\ order \in Seq(Nat) /\ generated \subseteq Nat
      /\ at \in [next : Nat, start : Int, memory : Int, size : Int] /\ saves \in Nat
  BY Types
<1>3. FileTypeInv' /\ SectionsInv'
  <2>1. phase \in Making \cup Loaded /\ phase' \in LayoutPhases \cup {"failed", "saved"}
    BY <1>1, NextIs DEF Making
  <2> QED
    BY <1>1, <1>2, <2>1, SameSegments, SameSections, LayoutKeeps
<1>4. OrderInv' /\ PlacedInv'
  BY <1>1 DEF OrderInv, PlacedInv
<1>5. SavedInv' /\ LoadInv'
  BY <1>1, LayoutElse
<1> QED
  BY <1>3, <1>4, <1>5 DEF FileInv

LEMMA CountGeneratedStep ==
  ASSUME FileInv, CountGenerated
  PROVE  FileInv'
<1>1. /\ HasNext /\ Index \in generated /\ at' = Counted(Place.offset - at.start - at.size)
      /\ UNCHANGED <<sections, segments, phase, pos, todo, order, generated, file, good, saves, back>>
  BY DEF CountGenerated
<1>2. /\ pos \in Int /\ todo \in Seq(Nat) /\ order \in Seq(Nat) /\ generated \subseteq Nat
      /\ saves \in Nat /\ at.start \in Int /\ at.size \in Int
  BY Types
<1>3. phase = "section" /\ Place.offset \in Int
  BY <1>1, NextIs, HeaderFields
<1>4. PICK gap \in Int : gap = Place.offset - at.start - at.size
  BY <1>2, <1>3
<1>5. /\ at' \in [next : Nat, start : Int, memory : Int, size : Int] /\ at'.next = at.next + 1
  BY <1>1, <1>4, CountedIs
<1>6. FileTypeInv' /\ SectionsInv' /\ First' = First
  <2>1. phase \in Making \cup Loaded /\ phase' \in LayoutPhases \cup {"failed", "saved"}
    BY <1>1, <1>3 DEF Making, LayoutPhases
  <2> QED
    BY <1>1, <1>2, <1>3, <1>5, <2>1, SameSegments, SameSections, LayoutKeeps
<1>7. OrderInv'
  <2>1. generated' = generated \cup {Index}
    BY <1>1
  <2> QED
    BY <1>1, <1>3, <1>5, <2>1, StepOrder
<1>8. PlacedInv'
  <2>1. Placed' \subseteq Placed
    BY <1>1, <1>3 DEF Placed, Numbers
  <2>2. Placed' \subseteq Placed \cup {-1} /\ -1 \in Int /\ -1 \notin Numbers
    BY <2>1, SectionTypes DEF FileInv
  <2>3. pos' \in Int /\ pos <= pos'
    BY <1>1, <1>2
  <2> QED
    BY <1>1, <1>3, <1>6, <2>2, <2>3, SameSections, PlacedKeeps DEF Laid
<1>9. SavedInv' /\ LoadInv'
  BY <1>1, <1>3, LayoutElse DEF LayoutPhases
<1> QED
  BY <1>6, <1>7, <1>8, <1>9 DEF FileInv

LEMMA FinishSegmentStep ==
  ASSUME FileInv, FinishSegment
  PROVE  FileInv'
<1>1. /\ phase = "section" /\ at.next > Len(Current.secs) /\ order' = Tail(order) /\ phase' = "segment"
      /\ segments' = [segments EXCEPT ![Head(order)] =
           [@ EXCEPT !.size = at.size, !.offset = at.start, !.fixed = TRUE,
                     !.memory = IF Below(Current.memory, at.memory) THEN at.memory ELSE Current.memory]]
      /\ UNCHANGED <<sections, pos, todo, generated, at, file, good, saves, back>>
  BY DEF FinishSegment
<1>2. /\ pos \in Int /\ todo \in Seq(Nat) /\ order \in Seq(Nat) /\ generated \subseteq Nat
      /\ at \in [next : Nat, start : Int, memory : Int, size : Int] /\ saves \in Nat
      /\ at.next \in Nat /\ at.start \in Int /\ at.memory \in Int /\ at.size \in Int
  BY Types
<1>3. /\ order # <<>>
      /\ \A j \in 1 .. at.next - 1 : j \in DOMAIN Current.secs => Current.secs[j] \in generated
      /\ \A x \in DOMAIN segments \ Into(order) : \A j \in DOMAIN segments[x].secs :
           segments[x].secs[j] \in generated
      /\ Into(order) \subseteq DOMAIN segments
  BY <1>1 DEF FileInv, OrderInv
<1>4. PICK s : s = Head(order)
  OBVIOUS
<1>5. /\ s \in 1 .. Len(segments) /\ Current = segments[s] /\ Current \in SegmentHeader
      /\ Tail(order) \in Seq(Nat) /\ Into(order) = {s} \cup Into(Tail(order))
      /\ Len(Current.secs) \in Nat /\ DOMAIN Current.secs = 1 .. Len(Current.secs)
  BY <1>1, <1>3, <1>4, CurrentIs
<1>6. Current.memory \in Int
  BY <1>5, SegmentFields
<1>7. PICK m \in Int : m = IF Below(Current.memory, at.memory) THEN at.memory ELSE Current.memory
  BY <1>2, <1>6
<1>8. PICK v : v = [Current EXCEPT !.size = at.size, !.offset = at.start, !.fixed = TRUE, !.memory = m]
  OBVIOUS
<1>9. v \in SegmentHeader /\ v.secs = Current.secs
  BY <1>2, <1>5, <1>8 DEF SegmentHeader
<1>10. segments' = [segments EXCEPT ![s] = v]
  <2>1. segments' = [segments EXCEPT ![s] =
           [segments[s] EXCEPT !.size = at.size, !.offset = at.start, !.fixed = TRUE,
              !.memory = IF Below(Current.memory, at.memory) THEN at.memory ELSE Current.memory]]
    BY <1>1, <1>4
  <2> QED
    BY <1>5, <1>7, <1>8, <2>1, Zenon
<1>11. segments \in Seq(SegmentHeader) /\ DOMAIN segments = 1 .. Len(segments) /\ Len(segments) \in Nat
  BY SegmentTypes DEF FileInv, FileTypeInv
<1>12. /\ segments' \in Seq(SegmentHeader) /\ Len(segments') = Len(segments)
       /\ DOMAIN segments' = DOMAIN segments
       /\ \A x \in 1 .. Len(segments) : segments'[x].secs = segments[x].secs
  BY <1>5, <1>9, <1>10, <1>11
<1>13. FileTypeInv' /\ SectionsInv' /\ First' = First
  <2>1. phase \in Making \cup Loaded /\ phase' \in LayoutPhases \cup {"failed", "saved"}
    BY <1>1 DEF Making, LayoutPhases
  <2> QED
    BY <1>1, <1>2, <1>5, <1>12, <2>1, SameSections, LayoutKeeps
<1>14. OrderInv'
  <2>1. Into(order') \subseteq DOMAIN segments'
    BY <1>1, <1>3, <1>5, <1>12
  <2>2. ASSUME NEW x \in DOMAIN segments' \ Into(order'), NEW j \in DOMAIN segments'[x].secs
        PROVE  segments'[x].secs[j] \in generated
    <3>1. x \in 1 .. Len(segments) /\ segments'[x].secs = segments[x].secs /\ j \in DOMAIN segments[x].secs
      BY <1>11, <1>12, <2>2
    <3>2. CASE x \notin Into(order)
      BY <1>3, <1>11, <3>1, <3>2
    <3>3. CASE x \in Into(order)
      <4>1. x = s
        BY <1>1, <1>5, <2>2, <3>3
      <4>2. j \in DOMAIN Current.secs
        BY <1>5, <3>1, <4>1
      <4>3. j \in 1 .. at.next - 1
        BY SMTT(30), <1>1, <1>2, <1>5, <4>2
      <4> QED
        BY <1>3, <1>5, <3>1, <4>1, <4>2, <4>3
    <3> QED
      BY <3>2, <3>3
  <2> QED
    BY <1>1, <2>1, <2>2 DEF OrderInv
<1>15. PlacedInv'
  <2>1. Placed' \subseteq Placed
    BY <1>1 DEF Placed, Numbers
  <2>2. Placed' \subseteq Placed \cup {-1} /\ -1 \in Int /\ -1 \notin Numbers
    BY <2>1, SectionTypes DEF FileInv
  <2>3. pos' \in Int /\ pos <= pos'
    BY <1>1, <1>2
  <2> QED
    BY <1>1, <1>13, <2>2, <2>3, SameSections, PlacedKeeps DEF Laid
<1>16. SavedInv' /\ LoadInv'
  BY <1>1, LayoutElse DEF LayoutPhases
<1> QED
  BY <1>13, <1>14, <1>15, <1>16 DEF FileInv

-----------------------------------------------------------------------------
(* save: what is left, and the section table. *)

LEMMA StartLooseStep ==
  ASSUME FileInv, StartLoose
  PROVE  FileInv'
<1>1. /\ phase = "segment" /\ order = <<>> /\ phase' = "loose" /\ at' = AtOnce(0, 0, 0)
      /\ UNCHANGED <<sections, segments, pos, todo, order, generated, file, good, saves, back>>
  BY DEF StartLoose
<1>2. /\ pos \in Int /\ todo \in Seq(Nat) /\ order \in Seq(Nat) /\ generated \subseteq Nat
      /\ saves \in Nat
  BY Types
<1>3. at' \in [next : Nat, start : Int, memory : Int, size : Int] /\ at'.next = 0
  BY <1>1 DEF AtOnce
<1>4. FileTypeInv' /\ SectionsInv' /\ First' = First
  <2>1. phase \in Making \cup Loaded /\ phase' \in LayoutPhases \cup {"failed", "saved"}
    BY <1>1 DEF Making, LayoutPhases
  <2> QED
    BY <1>1, <1>2, <1>3, <2>1, SameSegments, SameSections, LayoutKeeps
<1>5. OrderInv'
  BY <1>1 DEF FileInv, OrderInv
<1>6. PlacedInv'
  <2>1. \A i \in Numbers : i \in Nat
    BY SectionTypes DEF FileInv
  <2>2. Placed' \subseteq Placed
    <3>1. \A i \in Numbers : ~ (i < at'.next)
      BY <1>3, <2>1
    <3>2. Numbers' = Numbers
      BY <1>1 DEF Numbers
    <3> QED
      BY <1>1, <3>1, <3>2 DEF Placed
  <2>3. Placed' \subseteq Placed \cup {-1} /\ -1 \in Int /\ -1 \notin Numbers
    BY <2>1, <2>2
  <2>4. pos' \in Int /\ pos <= pos'
    BY <1>1, <1>2
  <2> QED
    BY <1>1, <1>4, <2>3, <2>4, SameSections, PlacedKeeps DEF Laid
<1>7. SavedInv' /\ LoadInv'
  BY <1>1, LayoutElse DEF LayoutPhases
<1> QED
  BY <1>4, <1>5, <1>6, <1>7 DEF FileInv

\* A section that no segment has is placed behind the others, as what comes next.
LEMMA PlaceLooseStep ==
  ASSUME FileInv, PlaceLoose
  PROVE  FileInv'
<1>1. /\ phase = "loose" /\ at.next < Len(sections) /\ at' = [at EXCEPT !.next = at.next + 1]
      /\ UNCHANGED <<segments, phase, todo, order, generated, file, good, saves, back>>
  BY DEF PlaceLoose, Stepped
<1>2. /\ pos \in Int /\ todo \in Seq(Nat) /\ order \in Seq(Nat) /\ generated \subseteq Nat
      /\ at \in [next : Nat, start : Int, memory : Int, size : Int] /\ saves \in Nat
      /\ at.next \in Nat /\ Len(sections) \in Nat
  BY Types
<1>3. PICK i \in Nat : i = at.next
  BY <1>2
<1>4. at' \in [next : Nat, start : Int, memory : Int, size : Int] /\ at'.next = i + 1
  <2>1. at' = [at EXCEPT !.next = i + 1] /\ i + 1 \in Nat
    BY <1>1, <1>3
  <2> QED
    BY <1>2, <2>1
<1>5. /\ i + 1 \in 1 .. Len(sections) /\ i \in Numbers /\ Sec(i) = sections[i + 1]
      /\ sections[i + 1] \in Header
  <2>1. i + 1 \in 1 .. Len(sections) /\ Numbers = 0 .. Len(sections) - 1
    BY <1>1, <1>2, <1>3, SectionTypes DEF FileInv
  <2>2. i \in Numbers
    BY <2>1
  <2> QED
    BY <2>1, <2>2, SectionTypes DEF FileInv
<1>6. PICK sec \in Header : sec = sections[i + 1]
  BY <1>5
<1>7. PICK here \in Int : here = RoundedUp(pos, sec.align) /\ pos <= here
  <2>1. sec.align \in Nat
    BY HeaderFields
  <2> QED
    BY <1>2, <2>1, RoundedUpIs
<1>8. sections \in Seq(Header) /\ sec.size \in Nat /\ sec.offset \in Int
  BY HeaderFields DEF FileInv, FileTypeInv
<1>9. ASSUME Loose(i)
      PROVE  \E v : /\ v \in Header /\ SameContents(v, sec) /\ v.type = sec.type /\ v.size = sec.size
                    /\ sections' = [sections EXCEPT ![i + 1] = v]
                    /\ i # 0 => v.offset = here
                    /\ pos' = here + (IF HasBytes(sec) THEN sec.size ELSE 0)
  <2>1. /\ sections' = [sections EXCEPT ![i + 1].offset = IF i = 0 THEN @ ELSE here]
        /\ pos' = here + (IF HasBytes(sec) THEN sec.size ELSE 0)
    BY <1>3, <1>5, <1>6, <1>7, <1>9 DEF PlaceLoose
  <2>2. PICK o \in Int : o = IF i = 0 THEN sec.offset ELSE here
    BY <1>7, <1>8
  <2>3. PICK v : v = [sec EXCEPT !.offset = o]
    OBVIOUS
  <2>4. v \in Header
    BY <2>3 DEF Header
  <2>5. v.type = sec.type /\ v.size = sec.size /\ v.cap = sec.cap /\ v.data = sec.data /\ v.offset = o
    BY <2>3 DEF Header
  <2>6. sections' = [sections EXCEPT ![i + 1] = v]
    BY <1>6, <2>1, <2>2, <2>3
  <2> QED
    BY <2>1, <2>2, <2>4, <2>5, <2>6 DEF SameContents
<1>10. /\ sections' \in Seq(Header) /\ Len(sections') = Len(sections)
       /\ \A k \in 1 .. Len(sections) : k # i + 1 => sections'[k] = sections[k]
       /\ SameContents(sections'[i + 1], sec)
       /\ sections'[i + 1].type = sec.type /\ sections'[i + 1].size = sec.size
       /\ ~ Loose(i) => pos' = pos
       /\ Loose(i) /\ i # 0 => sections'[i + 1].offset = here
       /\ Loose(i) => pos' = here + (IF HasBytes(sec) THEN sec.size ELSE 0)
  <2>1. CASE Loose(i)
    <3>1. PICK v : /\ v \in Header /\ SameContents(v, sec) /\ v.type = sec.type /\ v.size = sec.size
                   /\ sections' = [sections EXCEPT ![i + 1] = v]
                   /\ i # 0 => v.offset = here
                   /\ pos' = here + (IF HasBytes(sec) THEN sec.size ELSE 0)
      BY <1>9, <2>1
    <3>2. v \in Header /\ sections' = [sections EXCEPT ![i + 1] = v] /\ i + 1 \in 1 .. Len(sections)
      BY <1>5, <3>1
    <3>3. PICK k0 \in 1 .. Len(sections) : k0 = i + 1
      BY <3>2
    <3>4. sections' = [sections EXCEPT ![k0] = v]
      BY <3>2, <3>3
    <3>5. /\ sections' \in Seq(Header) /\ Len(sections') = Len(sections) /\ sections'[k0] = v
          /\ \A k \in 1 .. Len(sections) : k # k0 => sections'[k] = sections[k]
      BY <1>8, <3>2, <3>4
    <3>6. /\ SameContents(sections'[i + 1], sec) /\ sections'[i + 1].type = sec.type
          /\ sections'[i + 1].size = sec.size /\ (i # 0 => sections'[i + 1].offset = here)
      BY <3>1, <3>3, <3>5
    <3> QED
      BY <2>1, <3>1, <3>3, <3>5, <3>6
  <2>2. CASE ~ Loose(i)
    <3>1. sections' = sections /\ pos' = pos
      BY <1>3, <2>2 DEF PlaceLoose
    <3> QED
      BY <1>6, <1>8, <2>2, <3>1 DEF SameContents
  <2> QED
    BY <2>1, <2>2
<1>11. pos' \in Int /\ pos <= pos'
  BY SMTT(30), <1>2, <1>7, <1>8, <1>10
<1>12. FileTypeInv' /\ SectionsInv' /\ First' = First
  <2>1. phase \in Making \cup Loaded /\ phase' \in LayoutPhases \cup {"failed", "saved"}
    BY <1>1 DEF Making, LayoutPhases
  <2>2. \A k \in 1 .. Len(sections) : SameContents(sections'[k], sections[k])
    BY <1>6, <1>10 DEF SameContents
  <2>3. todo' \in Seq(Nat) /\ order' \in Seq(Nat) /\ generated' \subseteq Nat /\ saves' \in Nat /\ good' = good
    BY <1>1, <1>2
  <2> QED
    BY <1>1, <1>4, <1>10, <1>11, <2>1, <2>2, <2>3, SameSegments, LayoutKeeps
<1>13. OrderInv'
  BY <1>1 DEF FileInv, OrderInv
<1>14. PlacedInv'
  <2> DEFINE new == IF Loose(i) THEN i ELSE -1
  <2>1. Numbers' = Numbers
    BY <1>10 DEF Numbers
  <2>2. \A x \in Numbers : x \in Int /\ x >= 0
    BY SectionTypes DEF FileInv
  <2>3. Placed' \subseteq Placed \cup {new} /\ new \in Int
    <3>1. \A x \in Numbers : x < at'.next => x < at.next \/ x = i
      BY <1>3, <1>4, <2>2
    <3>2. \A x : Loose(x)' <=> Loose(x)
      BY <1>1 DEF Loose
    <3>3. \A x \in Placed' : /\ x \in Numbers
                             /\ x \in generated \/ (x < at'.next /\ Loose(x))
      BY <1>1, <2>1, <3>2 DEF Placed
    <3>4. \A x \in Placed' : x \in Placed \/ x = new
      BY <1>1, <3>1, <3>3 DEF Placed
    <3> QED
      BY <3>4
  <2>4. ASSUME new \in Numbers, Filled(sections'[new + 1])
        PROVE  /\ pos <= sections'[new + 1].offset
               /\ sections'[new + 1].offset + sections'[new + 1].size <= pos'
    <3>1. Loose(i) /\ new = i
      BY <2>2, <2>4
    <3>2. HasBytes(sec) /\ sec.size > 0
      BY <1>10, <2>4, <3>1 DEF Filled, HasBytes
    <3>3. i # 0
      <4>1. sections # <<>>
        BY <1>5, <1>8
      <4>2. sections[1].type = "NULL"
        BY <4>1 DEF FileInv, SectionsInv
      <4> QED
        BY <1>6, <3>2, <4>2 DEF HasBytes
    <3> QED
      BY <1>7, <1>8, <1>10, <3>1, <3>2, <3>3
  <2>5. \A k \in 1 .. Len(sections) : k # new + 1 => sections'[k] = sections[k]
    <3>1. CASE Loose(i)
      BY <1>10, <3>1
    <3>2. CASE ~ Loose(i)
      <4>1. sections' = sections
        BY <1>3, <3>2 DEF PlaceLoose
      <4> QED
        BY <4>1
    <3> QED
      BY <3>1, <3>2
  <2> HIDE DEF new
  <2> QED
    BY <1>1, <1>10, <1>11, <1>12, <2>3, <2>4, <2>5, PlacedKeeps DEF Laid
<1>15. SavedInv' /\ LoadInv'
  BY <1>1, LayoutElse DEF LayoutPhases
<1> QED
  BY <1>12, <1>13, <1>14, <1>15 DEF FileInv

LEMMA TableIs ==
  ASSUME FileInv
  PROVE  Table \in Int /\ pos <= Table
BY Types, RoundedUpIs DEF Table

\* A file that is written has every section in its place.
LEMMA WriteFileStep ==
  ASSUME FileInv, WriteFile
  PROVE  FileInv'
<1>1. /\ phase = "loose" /\ at.next >= Len(sections) /\ phase' = "saved"
      /\ file' = [sections |-> sections, segments |-> segments, names |-> file.names, table |-> Table,
                  length |-> Table + ShdrSize * Len(sections), whole |-> TRUE]
      /\ UNCHANGED <<sections, segments, pos, todo, order, generated, at, good, saves, back>>
  BY DEF WriteFile, layout
<1>0. FileTypeInv' /\ SectionsInv'
  <2>1. phase \in Making \cup Loaded /\ phase' \in LayoutPhases \cup {"failed", "saved"}
    BY <1>1 DEF Making
  <2>2. phase' \notin LayoutPhases /\ phase' # "order"
    BY <1>1 DEF LayoutPhases
  <2> QED
    BY <1>1, Types, <2>1, <2>2, SameSegments, SameSections, LayoutKeeps
<1>13. CASE back
  <2>1. OrderInv' /\ PlacedInv' /\ SavedInv' /\ LoadInv'
    BY <1>1, <1>13 DEF OrderInv, PlacedInv, SavedInv, LoadInv, Loading
  <2> QED
    BY <1>0, <2>1 DEF FileInv
<1>14. SUFFICES ASSUME ~ back PROVE FileInv'
  BY <1>13
<1>2. /\ pos \in Int /\ todo \in Seq(Nat) /\ order \in Seq(Nat) /\ generated \subseteq Nat
      /\ at \in [next : Nat, start : Int, memory : Int, size : Int] /\ saves \in Nat
      /\ First \in Nat /\ at.next \in Nat /\ Table \in Int /\ pos <= Table
  BY Types, TableIs
<1>3. /\ sections \in Seq(Header) /\ segments \in Seq(SegmentHeader)
      /\ Len(sections) \in Nat /\ Len(sections) >= 2 /\ sections[1].type = "NULL"
      /\ \A k \in 1 .. Len(sections) : sections[k].type = "NULL" => sections[k].size = 0
  <2>1. FileTypeInv /\ SectionsInv
    BY DEF FileInv
  <2>2. Len(sections) >= 2 /\ Len(sections) \in Nat /\ DOMAIN sections = 1 .. Len(sections)
    BY <1>1, <2>1, SectionTypes DEF SectionsInv, Making
  <2>3. sections # <<>>
    BY <2>2
  <2> QED
    BY <2>1, <2>2, <2>3 DEF FileTypeInv, SectionsInv
<1>4. /\ First <= pos
      /\ pos <= Table /\ Table \in Nat
      /\ \A i \in Placed : Filled(Sec(i)) => First <= Sec(i).offset /\ Sec(i).offset + Sec(i).size <= pos
      /\ \A i, j \in Placed : i # j /\ Filled(Sec(i)) /\ Filled(Sec(j)) => Apart(Sec(i), Sec(j))
  <2>1. First <= pos /\ First \in Nat /\ pos \in Int /\ pos <= Table /\ Table \in Int
    BY <1>1, <1>2, <1>14 DEF FileInv, PlacedInv
  <2>2. Table \in Nat
    BY <2>1
  <2> QED
    BY <1>1, <1>14, <2>1, <2>2 DEF FileInv, PlacedInv
<1>15. file.names \in 1 .. Len(sections) - 1
  BY <1>1 DEF FileInv, SectionsInv, Making
<1>5. \A i \in Numbers : i \in Placed
  <2> SUFFICES ASSUME NEW i \in Numbers PROVE i \in Placed
    OBVIOUS
  <2>1. CASE Loose(i)
    <3>1. i \in Nat /\ i < Len(sections)
      BY SectionTypes DEF FileInv
    <3>2. i < at.next
      BY <1>1, <1>2, <1>3, <3>1
    <3> QED
      BY <1>1, <2>1, <3>2 DEF Placed
  <2>2. CASE ~ Loose(i)
    <3>1. PICK s \in DOMAIN segments : \E j \in DOMAIN segments[s].secs : segments[s].secs[j] = i
      BY <2>2 DEF Loose
    <3>2. order = <<>> /\ \A x \in DOMAIN segments \ Into(order) : \A l \in DOMAIN segments[x].secs :
             segments[x].secs[l] \in generated
      BY <1>1 DEF FileInv, OrderInv
    <3>3. s \notin Into(order)
      BY <3>2 DEF Into
    <3> QED
      BY <3>1, <3>2, <3>3 DEF Placed
  <2> QED
    BY <2>1, <2>2
<1>6. \A i, j \in Numbers : i # j /\ Filled(Sec(i)) /\ Filled(Sec(j)) => Apart(Sec(i), Sec(j))
  BY <1>4, <1>5
<1>7. \A k \in 1 .. Len(sections) : Filled(sections[k]) =>
        First <= sections[k].offset /\ sections[k].offset + sections[k].size <= Table
  <2> SUFFICES ASSUME NEW k \in 1 .. Len(sections), Filled(sections[k])
               PROVE  First <= sections[k].offset /\ sections[k].offset + sections[k].size <= Table
    OBVIOUS
  <2>1. k - 1 \in Numbers /\ Sec(k - 1) = sections[k]
    BY <1>3, SectionTypes DEF FileInv, Sec
  <2>2. First <= sections[k].offset /\ sections[k].offset + sections[k].size <= pos
    BY <1>4, <1>5, <2>1
  <2>3. sections[k] \in Header
    BY <1>3
  <2>4. sections[k].offset \in Int /\ sections[k].size \in Nat
    BY <2>3, HeaderFields
  <2> QED
    BY SMTT(30), <1>2, <2>2, <2>4
<1>8. WellFormed(file')
  <2>1. PICK f : f = file'
    OBVIOUS
  <2>2. /\ f.sections = sections /\ f.segments = segments /\ f.names = file.names /\ f.table = Table
        /\ f.length = Table + ShdrSize * Len(sections) /\ f.whole = TRUE
    BY <1>1, <2>1
  <2>3. PICK length \in Nat : length = Table + ShdrSize * Len(sections)
    <3>1. ShdrSize * Len(sections) \in Nat
      BY <1>3, Sizes
    <3> QED
      BY <1>4, <3>1
  <2>4. f = [sections |-> sections, segments |-> segments, names |-> file.names, table |-> Table,
             length |-> length, whole |-> TRUE]
    BY <1>1, <2>1, <2>3
  <2>5. f \in [sections : Seq(Header), segments : Seq(SegmentHeader), names : Nat,
               table : Nat, length : Nat, whole : BOOLEAN]
    <3>1. file.names \in Nat
      BY <1>3, <1>15
    <3> QED
      BY <1>3, <1>4, <2>4, <3>1
  <2>6. f.names \in 1 .. Len(f.sections) - 1 /\ f.sections[1].type = "NULL"
    BY <1>3, <1>15, <2>2
  <2>7. EhdrSize + PhdrSize * Len(f.segments) <= f.table
    BY <1>2, <1>4, <2>2 DEF First
  <2>8. /\ f.length <= f.table + ShdrSize * Len(f.sections)
        /\ (f.whole <=> f.length = f.table + ShdrSize * Len(f.sections))
    BY <2>2, <2>3
  <2>9. ASSUME NEW k \in 1 .. Len(f.sections)
        PROVE  /\ HasBytes(f.sections[k]) /\ f.sections[k].size > 0 =>
                    /\ EhdrSize + PhdrSize * Len(f.segments) <= f.sections[k].offset
                    /\ f.sections[k].offset + f.sections[k].size <= f.table
               /\ f.sections[k].type = "NULL" => f.sections[k].size = 0
    BY <1>3, <1>7, <2>2 DEF First, Filled
  <2>10. WellFormed(f)
    BY <2>5, <2>6, <2>7, <2>8, <2>9 DEF WellFormed
  <2> QED
    BY <2>1, <2>10
<1>10. OrderInv' /\ PlacedInv'
  BY <1>1 DEF OrderInv, PlacedInv
<1>11. SavedInv'
  <2>1. sections' = file'.sections /\ segments' = file'.segments
    BY <1>1
  <2>2. Numbers' = Numbers /\ \A i : Sec(i)' = Sec(i)
    BY <1>1 DEF Numbers, Sec
  <2> QED
    BY <1>6, <2>1, <2>2 DEF SavedInv
<1>12. LoadInv'
  BY <1>1, <1>8 DEF LoadInv, Loading
<1> QED
  BY <1>0, <1>10, <1>11, <1>12 DEF FileInv

-----------------------------------------------------------------------------
(* load. *)

Ascends(n, S) ==
  CHOOSE f : f = [k \in 0 .. n |-> IF k = 0 THEN <<>>
                                   ELSE IF k - 1 \in S THEN Append(f[k - 1], k - 1)
                                   ELSE f[k - 1]]

LEMMA AscendingFound == \A n, S : Ascending(n, S) = Ascends(n, S)[n]
BY Zenon DEF Ascending, Ascends

Rising(q) == \A j, k \in DOMAIN q : j < k => q[j] < q[k]

\* The numbers of a set below n, in their order
LEMMA AscendingIs ==
  ASSUME NEW n \in Nat, NEW S, S \subseteq 0 .. n - 1
  PROVE  Ascending(n, S) \in Seq(Nat) /\ Into(Ascending(n, S)) = S /\ Rising(Ascending(n, S))
<1> DEFINE D == [k \in 0 .. n |-> {q \in Seq(Nat) : Into(q) = S \cap 0 .. k - 1 /\ Rising(q)}]
           next(k, q) == IF k - 1 \in S THEN Append(q, k - 1) ELSE q
           g == [k \in 1 .. n |-> [q \in Seq(Nat) |-> next(k, q)]]
<1>1. <<>> \in D[0]
  <2>1. <<>> \in Seq(Nat) /\ Into(<<>>) = {} /\ Rising(<<>>) /\ S \cap 0 .. 0 - 1 = {}
    BY DEF Into, Rising
  <2> QED
    BY <2>1
<1>2. ASSUME NEW k \in 1 .. n, NEW q \in D[k - 1]
      PROVE  next(k, q) \in D[k] /\ q \in Seq(Nat)
  <2>1. k - 1 \in 0 .. n /\ k - 1 \in Nat /\ k \in 0 .. n
    OBVIOUS
  <2>2. q \in Seq(Nat) /\ Into(q) = S \cap 0 .. k - 1 - 1 /\ Rising(q)
    BY <2>1
  <2>3. CASE k - 1 \in S
    <3>1. PICK r : r = Append(q, k - 1)
      OBVIOUS
    <3>2. r \in Seq(Nat) /\ Into(r) = Into(q) \cup {k - 1}
      BY <2>1, <2>2, <3>1, IntoIs
    <3>3. Into(r) = S \cap 0 .. k - 1
      <4>1. S \cap 0 .. k - 1 = (S \cap 0 .. k - 1 - 1) \cup {k - 1}
        BY <2>1, <2>3
      <4> QED
        BY <2>2, <3>2, <4>1
    <3>4. Rising(r)
      <4>1. /\ Len(q) \in Nat /\ DOMAIN q = 1 .. Len(q) /\ DOMAIN r = 1 .. Len(q) + 1
            /\ r[Len(q) + 1] = k - 1 /\ \A x \in 1 .. Len(q) : r[x] = q[x]
        BY <2>1, <2>2, <3>1
      <4>2. ASSUME NEW x \in 1 .. Len(q) PROVE r[x] < k - 1
        <5>1. q[x] \in Into(q)
          BY <4>1 DEF Into
        <5> QED
          BY <2>1, <2>2, <4>1, <5>1
      <4>3. ASSUME NEW x \in DOMAIN r, NEW y \in DOMAIN r, x < y PROVE r[x] < r[y]
        <5>1. x \in 1 .. Len(q) /\ (y \in 1 .. Len(q) \/ y = Len(q) + 1)
          BY <4>1, <4>3
        <5>2. CASE y \in 1 .. Len(q)
          BY <2>2, <4>1, <4>3, <5>1, <5>2 DEF Rising
        <5>3. CASE y = Len(q) + 1
          BY <4>1, <4>2, <5>1, <5>3
        <5> QED
          BY <5>1, <5>2, <5>3
      <4> QED
        BY <4>3 DEF Rising
    <3> QED
      BY <2>1, <2>2, <2>3, <3>1, <3>2, <3>3, <3>4
  <2>4. CASE k - 1 \notin S
    <3>1. S \cap 0 .. k - 1 = S \cap 0 .. k - 1 - 1
      BY <2>1, <2>4
    <3> QED
      BY <2>1, <2>2, <2>4, <3>1
  <2> QED
    BY <2>3, <2>4
<1>3. \A k \in 1 .. n : \A q \in D[k - 1] : g[k][q] = next(k, q)
  <2> SUFFICES ASSUME NEW k \in 1 .. n, NEW q \in D[k - 1] PROVE g[k][q] = next(k, q)
    OBVIOUS
  <2>1. q \in Seq(Nat)
    BY <1>2
  <2> HIDE DEF D, next
  <2> QED
    BY <2>1
<1>4. PICK e : e[0] = <<>> /\ \A k \in 1 .. n : e[k] = g[k][e[k - 1]] /\ e[k] \in D[k]
  <2> HIDE DEF D, g
  <2>1. \A k \in 1 .. n : \A q \in D[k - 1] : g[k][q] \in D[k]
    BY <1>2, <1>3
  <2>2. Leads(n, D, <<>>, g)
    BY <1>1, <2>1 DEF Leads
  <2>3. \E e : Recurs(e, n, D, <<>>, g)
    BY <2>2, Recursion
  <2> QED
    BY <2>3 DEF Recurs
<1> HIDE DEF D, g
<1>5. \A k \in 1 .. n : e[k] = next(k, e[k - 1])
  <2> SUFFICES ASSUME NEW k \in 1 .. n PROVE e[k] = next(k, e[k - 1])
    OBVIOUS
  <2>1. e[k - 1] \in D[k - 1]
    <3>1. k - 1 = 0 \/ k - 1 \in 1 .. n
      OBVIOUS
    <3> QED
      BY <1>1, <1>4, <3>1
  <2> HIDE DEF next
  <2> QED
    BY <1>3, <1>4, <2>1
<1> DEFINE h == [k \in 0 .. n |-> e[k]]
<1>6. h = [k \in 0 .. n |-> IF k = 0 THEN <<>> ELSE IF k - 1 \in S THEN Append(h[k - 1], k - 1) ELSE h[k - 1]]
  <2>1. \A k \in 0 .. n : h[k] = e[k] /\ (k # 0 => k \in 1 .. n /\ k - 1 \in 0 .. n)
    OBVIOUS
  <2>2. \A k \in 0 .. n : h[k] = IF k = 0 THEN <<>> ELSE IF k - 1 \in S THEN Append(h[k - 1], k - 1) ELSE h[k - 1]
    <3> HIDE DEF h
    <3> QED
      BY <1>4, <1>5, <2>1
  <2>3. h = [k \in 0 .. n |-> h[k]]
    OBVIOUS
  <2> HIDE DEF h
  <2> QED
    BY <2>2, <2>3
<1>7. PICK f : /\ f = Ascends(n, S)
               /\ f = [k \in 0 .. n |-> IF k = 0 THEN <<>>
                                        ELSE IF k - 1 \in S THEN Append(f[k - 1], k - 1)
                                        ELSE f[k - 1]]
  BY <1>6, Zenon DEF Ascends
<1>8. f[0] = <<>> /\ \A k \in 1 .. n : f[k] = next(k, f[k - 1])
  <2>1. \A k \in 0 .. n : f[k] = IF k = 0 THEN <<>>
                                 ELSE IF k - 1 \in S THEN Append(f[k - 1], k - 1)
                                 ELSE f[k - 1]
    BY <1>7
  <2> QED
    BY <2>1
<1> DEFINE T == {k \in 0 .. n : f[k] \in D[k]}
<1>9. \A k \in 0 .. n : k \in T
  <2> HIDE DEF next
  <2>1. 0 \in T
    BY <1>1, <1>8
  <2>2. ASSUME NEW m \in 0 .. n - 1, m \in T
        PROVE  m + 1 \in T
    <3>1. m + 1 \in 1 .. n /\ m + 1 - 1 = m /\ m + 1 \in 0 .. n
      OBVIOUS
    <3>2. f[m + 1] = next(m + 1, f[m]) /\ f[m] \in D[m + 1 - 1]
      BY <1>8, <2>2, <3>1
    <3> QED
      BY <1>2, <3>1, <3>2
  <2> HIDE DEF T
  <2> QED
    BY <2>1, <2>2, Upwards
<1>10. f[n] \in Seq(Nat) /\ Into(f[n]) = S \cap 0 .. n - 1 /\ Rising(f[n])
  <2>1. n \in T /\ n \in 0 .. n
    BY <1>9
  <2>2. f[n] \in D[n]
    BY <2>1
  <2> QED
    BY <2>1, <2>2 DEF D
<1>11. S \cap 0 .. n - 1 = S
  OBVIOUS
<1> QED
  BY <1>7, <1>10, <1>11, AscendingFound

LEMMA Rest ==
  ASSUME NEW a \in Nat, NEW b \in Nat, a <= b
  PROVE  \E e \in Nat : b = a + e
<1>1. b - a \in Nat /\ b = a + (b - a)
  OBVIOUS
<1> QED
  BY <1>1

\* What is known of a file
LEMMA FileIs ==
  ASSUME WellFormed(file)
  PROVE  /\ file.sections \in Seq(Header) /\ file.segments \in Seq(SegmentHeader)
         /\ Len(file.sections) \in Nat /\ Len(file.sections) >= 2 /\ Len(file.segments) \in Nat
         /\ file.table \in Nat /\ file.length \in Nat /\ file.names \in 1 .. Len(file.sections) - 1
         /\ EhdrSize <= file.table /\ file.whole \in BOOLEAN
         /\ ShdrSize * Len(file.sections) \in Nat
         /\ file.length <= file.table + ShdrSize * Len(file.sections)
         /\ (file.whole <=> file.length = file.table + ShdrSize * Len(file.sections))
         /\ file.sections[1].type = "NULL"
         /\ \A k \in 1 .. Len(file.sections) :
              /\ file.sections[k] \in Header
              /\ file.sections[k].type = "NULL" => file.sections[k].size = 0
              /\ Filled(file.sections[k]) =>
                   file.sections[k].offset \in Nat /\ file.sections[k].offset + file.sections[k].size <= file.table
         /\ \A s \in 1 .. Len(file.segments) : file.segments[s] \in SegmentHeader
<1>1. /\ file \in [sections : Seq(Header), segments : Seq(SegmentHeader), names : Nat,
                   table : Nat, length : Nat, whole : BOOLEAN]
      /\ file.names \in 1 .. Len(file.sections) - 1 /\ file.sections[1].type = "NULL"
      /\ EhdrSize + PhdrSize * Len(file.segments) <= file.table
      /\ file.length <= file.table + ShdrSize * Len(file.sections)
      /\ (file.whole <=> file.length = file.table + ShdrSize * Len(file.sections))
  BY DEF WellFormed
<1>2. \A k \in 1 .. Len(file.sections) :
        /\ HasBytes(file.sections[k]) /\ file.sections[k].size > 0 =>
             /\ EhdrSize + PhdrSize * Len(file.segments) <= file.sections[k].offset
             /\ file.sections[k].offset + file.sections[k].size <= file.table
        /\ file.sections[k].type = "NULL" => file.sections[k].size = 0
  BY DEF WellFormed
<1>3. /\ file.sections \in Seq(Header) /\ file.segments \in Seq(SegmentHeader)
      /\ file.table \in Nat /\ file.length \in Nat /\ file.whole \in BOOLEAN
  BY <1>1
<1>4. Len(file.sections) \in Nat /\ Len(file.segments) \in Nat
  BY <1>3
<1>5. Len(file.sections) >= 2
  BY <1>1, <1>4
<1>6. PhdrSize * Len(file.segments) \in Nat /\ ShdrSize * Len(file.sections) \in Nat
  BY <1>4, Sizes
<1>7. EhdrSize <= file.table
  <2>1. PICK m \in Nat : m = PhdrSize * Len(file.segments)
    BY <1>6
  <2>2. EhdrSize + m <= file.table
    BY <1>1, <2>1
  <2> QED
    BY <1>3, <2>2, Sizes
<1>8. ASSUME NEW k \in 1 .. Len(file.sections)
      PROVE  /\ file.sections[k] \in Header
             /\ Filled(file.sections[k]) =>
                  file.sections[k].offset \in Nat /\ file.sections[k].offset + file.sections[k].size <= file.table
  <2>1. file.sections[k] \in Header
    BY <1>3
  <2>2. file.sections[k].offset \in Int
    BY <2>1, HeaderFields
  <2> QED
    BY SMTT(30), <1>2, <1>6, <2>1, <2>2, Sizes DEF Filled
<1>9. \A s \in 1 .. Len(file.segments) : file.segments[s] \in SegmentHeader
  BY <1>3
<1> QED
  BY <1>1, <1>2, <1>3, <1>4, <1>5, <1>6, <1>7, <1>8, <1>9

LEMMA HeaderReadIs ==
  ASSUME NEW h \in Header, h.type = "NULL" => h.size = 0, NEW words \in Nat
  PROVE  LET sec == HeaderRead(h, words)
         IN  /\ sec \in Header /\ (sec.type = "NULL" => sec.size = 0)
             /\ (h.type = "NULL" => sec.type = "NULL")
             /\ (words >= 9 => SameHeader(sec, h) /\ sec.name = h.name)
<1>1. Created \in Header
  BY CreatedIs
<1>2. /\ h.name \in STRING /\ h.type \in STRING /\ h.alloc \in BOOLEAN
      /\ h.tls \in BOOLEAN /\ h.size \in Nat /\ h.align \in Nat
      /\ h.address \in Int /\ h.offset \in Int
  BY HeaderFields
<1>3. /\ Created.name \in STRING /\ Created.type \in STRING /\ Created.address \in Int
      /\ Created.offset \in Int /\ Created.size \in Nat /\ Created.align \in Nat
  BY <1>1, HeaderFields
<1>4. PICK a \in STRING : a = IF words >= 1 THEN h.name ELSE Created.name
  BY <1>2, <1>3
<1>5. PICK t \in STRING : t = IF words >= 2 THEN h.type ELSE Created.type
  BY <1>2, <1>3
<1>6. PICK alloc \in BOOLEAN : alloc <=> (words >= 3 /\ h.alloc)
  BY <1>2
<1>7. PICK tls \in BOOLEAN : tls <=> (words >= 3 /\ h.tls)
  BY <1>2
<1>8. PICK address \in Int : address = IF words >= 4 THEN h.address ELSE Created.address
  BY <1>2, <1>3
<1>9. PICK offset \in Int : offset = IF words >= 5 THEN h.offset ELSE Created.offset
  BY <1>2, <1>3
<1>10. PICK size \in Nat : size = IF words >= 6 THEN h.size ELSE Created.size
  BY <1>2, <1>3
<1>11. PICK align \in Nat : align = IF words >= 9 THEN h.align ELSE Created.align
  BY <1>2, <1>3
<1>12. PICK sec : sec = [Created EXCEPT !.name = a, !.type = t, !.alloc = alloc, !.tls = tls,
                           !.address = address, !.offset = offset, !.size = size, !.align = align,
                           !.fixed = TRUE]
  OBVIOUS
<1>13. HeaderRead(h, words) = sec
  <2>1. alloc = (words >= 3 /\ h.alloc) /\ tls = (words >= 3 /\ h.tls)
    BY <1>2, <1>6, <1>7
  <2> QED
    BY <1>4, <1>5, <1>8, <1>9, <1>10, <1>11, <1>12, <2>1 DEF HeaderRead
<1>14. /\ sec \in Header /\ sec.name = a /\ sec.type = t /\ sec.address = address
       /\ sec.offset = offset /\ sec.size = size /\ sec.align = align
  BY ZenonT(30), <1>1, <1>12 DEF Header
<1>15. sec.alloc = alloc /\ sec.tls = tls
  BY <1>1, <1>12 DEF Header
<1>16. sec.type = "NULL" => sec.size = 0
  <2>1. Created.type = "NULL" /\ Created.size = 0
    BY CreatedIs
  <2> QED
    BY <1>5, <1>10, <1>14, <2>1
<1>17. h.type = "NULL" => sec.type = "NULL"
  <2>1. Created.type = "NULL"
    BY CreatedIs
  <2> QED
    BY <1>5, <1>14, <2>1
<1>18. ASSUME words >= 9
       PROVE  SameHeader(sec, h) /\ sec.name = h.name
  <2>1. /\ sec.name = h.name /\ sec.type = h.type /\ sec.address = h.address
        /\ sec.offset = h.offset /\ sec.size = h.size /\ sec.align = h.align
    BY <1>4, <1>5, <1>8, <1>9, <1>10, <1>11, <1>14, <1>18
  <2>2. alloc = h.alloc /\ tls = h.tls
    BY <1>2, <1>6, <1>7, <1>18
  <2> QED
    BY <1>15, <2>1, <2>2 DEF SameHeader
<1> QED
  BY <1>13, <1>14, <1>16, <1>17, <1>18, Zenon

LEMMA WordsAtIs ==
  ASSUME file.length \in Nat, NEW place \in Nat, NEW size \in Nat \ {0}
  PROVE  /\ WordsAt(place, size) \in Nat /\ WordsAt(place, size) <= size
         /\ WordsAt(place, size) = size => good /\ place + size <= file.length
         /\ good /\ place + size <= file.length => WordsAt(place, size) = size
<1>1. CASE ~ good \/ file.length <= place
  BY <1>1 DEF WordsAt
<1>2. CASE good /\ ~ (file.length <= place)
  BY <1>2 DEF WordsAt
<1> QED
  BY <1>1, <1>2

\* The header of the file decides whether anything is loaded.
LEMMA LoadStep ==
  ASSUME FileInv, Load
  PROVE  FileInv'
<1>1. /\ phase = "saved" /\ sections' = <<>> /\ segments' = <<>>
      /\ good' = (file.length >= EhdrSize)
      /\ phase' = IF good' THEN "sections" ELSE "rejected"
      /\ UNCHANGED <<pos, todo, order, generated, at, file, saves, back>>
  BY DEF Load, layout
<1>2. WellFormed(file)
  <2>1. ~ back
    BY DEF Load, Readable
  <2> QED
    BY <1>1, <2>1 DEF FileInv, LoadInv
<1>3. /\ pos \in Int /\ todo \in Seq(Nat) /\ order \in Seq(Nat) /\ generated \subseteq Nat
      /\ at \in [next : Nat, start : Int, memory : Int, size : Int] /\ saves \in Nat
  BY Types
<1>4. good' \in BOOLEAN /\ (file.whole => good') /\ file.length \in Nat
  <2>1. file.whole => file.length >= EhdrSize
    BY <1>2, FileIs, Sizes
  <2>2. file.length \in Nat /\ (file.length >= EhdrSize) \in BOOLEAN
    BY <1>2, FileIs
  <2>3. good' \in BOOLEAN
    BY <1>1, <2>2
  <2> QED
    BY <1>1, <2>1, <2>2, <2>3
<1>5. phase' \in {"sections", "rejected"}
  BY <1>1
<1>6. FileTypeInv'
  <2>2. ~ back'
    BY <1>1 DEF Load, Readable
  <2>1. <<>> \in Seq(Header) /\ <<>> \in Seq(SegmentHeader)
    OBVIOUS
  <2> QED
    <3>1. sections' \in Seq(Header) /\ segments' \in Seq(SegmentHeader) /\ phase' \in Phases
      BY <1>1, <1>5, <2>1 DEF Phases
    <3>2. back' = FALSE
      BY <1>1, <2>2, Types
    <3>3. /\ pos' \in Int /\ todo' \in Seq(Nat) /\ order' \in Seq(Nat) /\ generated' \subseteq Nat
          /\ at' \in [next : Nat, start : Int, memory : Int, size : Int] /\ saves' \in Nat
      BY <1>1, <1>3
    <3> QED
      BY <1>4, <3>1, <3>2, <3>3 DEF FileTypeInv
<1>7. SectionsInv'
  <2>1. Numbers' = {}
    BY <1>1 DEF Numbers
  <2>2. DataFits'
    BY <1>5, <2>1 DEF DataFits
  <2> QED
    BY <1>1, <1>5, <2>2 DEF SectionsInv, Making, Loaded
<1>8. OrderInv' /\ PlacedInv' /\ SavedInv'
  BY <1>5 DEF OrderInv, PlacedInv, SavedInv
<1>9. LoadInv'
  <2>1. Len(file.sections) >= 2 /\ Len(file.sections) \in Nat
    BY <1>2, FileIs
  <2>2. DOMAIN sections' = {} /\ Len(sections') = 0
    BY <1>1
  <2>3. ReadWhole' /\ NamesKept'
    BY <2>2 DEF ReadWhole, NamesKept
  <2>4. WellFormed(file')
    BY <1>1, <1>2
  <2> QED
    BY <1>1, <1>4, <1>5, <2>1, <2>2, <2>3, <2>4 DEF LoadInv
<1> QED
  BY <1>6, <1>7, <1>8, <1>9 DEF FileInv

\* A file that is cut short is not whole.
LEMMA TruncateStep ==
  ASSUME FileInv, NEW length \in Cuts, Truncate(length)
  PROVE  FileInv'
<1>1. /\ phase = "saved" /\ saves = 0 /\ file.whole /\ length < file.length
      /\ file' = [file EXCEPT !.length = length, !.whole = FALSE]
      /\ UNCHANGED <<sections, segments, phase, pos, todo, order, generated, at, good, saves, back>>
  BY DEF Truncate, layout
<1>11. CASE back
  <2>1. FileTypeInv' /\ SectionsInv'
    BY <1>1 DEF FileInv, FileTypeInv, SectionsInv, Making, Loaded, DataFits, Numbers, Sec
  <2>2. OrderInv' /\ PlacedInv' /\ SavedInv' /\ LoadInv'
    BY <1>1, <1>11 DEF OrderInv, PlacedInv, SavedInv, LoadInv, Loading
  <2> QED
    BY <2>1, <2>2 DEF FileInv
<1>12. SUFFICES ASSUME ~ back PROVE FileInv'
  BY <1>11
<1>2. WellFormed(file) /\ length \in Nat
  BY <1>1, <1>12, Sizes DEF FileInv, LoadInv
<1>3. PICK f : f = file'
  OBVIOUS
<1>4. /\ file \in [sections : Seq(Header), segments : Seq(SegmentHeader), names : Nat,
                   table : Nat, length : Nat, whole : BOOLEAN]
  BY <1>2 DEF WellFormed
<1>5. /\ f \in [sections : Seq(Header), segments : Seq(SegmentHeader), names : Nat,
                table : Nat, length : Nat, whole : BOOLEAN]
      /\ f.sections = file.sections /\ f.segments = file.segments /\ f.names = file.names
      /\ f.table = file.table /\ f.length = length
  BY <1>1, <1>2, <1>3, <1>4
<1>6. f.whole = FALSE
  BY <1>1, <1>3, <1>4
<1>7. WellFormed(f)
  <2>1. /\ f.names \in 1 .. Len(f.sections) - 1 /\ f.sections[1].type = "NULL"
        /\ EhdrSize + PhdrSize * Len(f.segments) <= f.table
    BY <1>2, <1>5 DEF WellFormed
  <2>2. \A k \in 1 .. Len(f.sections) :
          /\ HasBytes(f.sections[k]) /\ f.sections[k].size > 0 =>
               /\ EhdrSize + PhdrSize * Len(f.segments) <= f.sections[k].offset
               /\ f.sections[k].offset + f.sections[k].size <= f.table
          /\ f.sections[k].type = "NULL" => f.sections[k].size = 0
    BY <1>2, <1>5 DEF WellFormed
  <2>3. /\ file.length = file.table + ShdrSize * Len(file.sections)
        /\ file.table \in Nat /\ ShdrSize * Len(file.sections) \in Nat /\ file.length \in Nat
    BY <1>1, <1>2, FileIs
  <2>4. /\ f.length < f.table + ShdrSize * Len(f.sections)
        /\ f.length <= f.table + ShdrSize * Len(f.sections)
        /\ f.length # f.table + ShdrSize * Len(f.sections)
    BY <1>1, <1>2, <1>5, <2>3
  <2> QED
    BY <1>5, <1>6, <2>1, <2>2, <2>4 DEF WellFormed
<1>8. FileTypeInv' /\ SectionsInv'
  <2>1. /\ sections \in Seq(Header) /\ segments \in Seq(SegmentHeader) /\ good \in BOOLEAN /\ phase \in Phases
    BY DEF FileInv, FileTypeInv
  <2>2. FileTypeInv'
    BY <1>1, <1>12, <2>1, Types DEF FileTypeInv
  <2>3. DataFits' <=> DataFits
    BY <1>1 DEF DataFits, Numbers, Sec
  <2>4. SectionsInv'
    BY <1>1, <2>3 DEF FileInv, SectionsInv, Making, Loaded
  <2> QED
    BY <2>2, <2>4
<1>9. OrderInv' /\ PlacedInv' /\ SavedInv'
  BY <1>1 DEF OrderInv, PlacedInv, SavedInv
<1>10. LoadInv'
  <2>1. phase' = "saved"
    BY <1>1
  <2> QED
    BY <1>3, <1>7, <2>1 DEF LoadInv, Loading
<1> QED
  BY <1>8, <1>9, <1>10 DEF FileInv

\* The header and the contents of a section are read, or what is there of them.
LEMMA LoadSectionStep ==
  ASSUME FileInv, LoadSection
  PROVE  FileInv'
<1> DEFINE n == Len(sections)
           h == file.sections[n + 1]
           words == WordsAt(file.table + ShdrSize * n, ShdrSize)
           ok == words = ShdrSize
           d(sec) == DataRead(sec, ok)
<1>1. /\ phase = "sections" /\ n < Len(file.sections)
      /\ UNCHANGED <<segments, phase, pos, todo, order, generated, at, file, saves, back>>
  BY DEF LoadSection, layout
<1>2. FileTypeInv /\ SectionsInv /\ WellFormed(file) /\ ~ back
  BY <1>1 DEF FileInv, LoadInv, Loading, FileTypeInv, BackPhases
<1>3. /\ segments = <<>> /\ (file.whole => good) /\ (good => ReadWhole /\ NamesKept)
  BY <1>1 DEF FileInv, LoadInv, Loading
<1>4. /\ n \in Nat /\ Len(file.sections) \in Nat /\ file.table \in Nat /\ file.length \in Nat
      /\ n + 1 \in 1 .. Len(file.sections) /\ h \in Header /\ (h.type = "NULL" => h.size = 0)
  <2>1. n \in Nat /\ Len(file.sections) \in Nat
    BY <1>2, Types, FileIs
  <2>2. n + 1 \in 1 .. Len(file.sections)
    BY <1>1, <2>1
  <2> QED
    BY <1>2, <2>1, <2>2, FileIs
<1>5. file.table + ShdrSize * n \in Nat /\ ShdrSize \in Nat \ {0} /\ ShdrSize >= 9
  <2>1. ShdrSize * n \in Nat /\ ShdrSize \in Nat /\ ShdrSize >= 9
    BY <1>4, Sizes
  <2> QED
    BY <1>4, <2>1
<1>6. /\ words \in Nat /\ (ok => good /\ file.table + ShdrSize * n + ShdrSize <= file.length)
      /\ (good /\ file.table + ShdrSize * n + ShdrSize <= file.length => ok)
  BY <1>4, <1>5, WordsAtIs
<1>7. PICK sec \in Header : /\ sec = HeaderRead(h, words) /\ (sec.type = "NULL" => sec.size = 0)
                            /\ (h.type = "NULL" => sec.type = "NULL")
                            /\ (words >= 9 => SameHeader(sec, h) /\ sec.name = h.name)
  <2> HIDE DEF h, words
  <2>1. PICK sec : sec = HeaderRead(h, words)
    OBVIOUS
  <2> QED
    BY <1>4, <1>6, <2>1, HeaderReadIs
<1>8. /\ sections' = Append(sections, [sec EXCEPT !.data = d(sec), !.cap = IF d(sec) THEN sec.size ELSE 0,
                                                    !.room = IF d(sec) THEN sec.size + 1 ELSE 0])
      /\ good' = (ok /\ (AsksData(sec) /\ sec.size > 0 => InFile(sec)))
  BY <1>7, Zenon DEF LoadSection
<1>9. d(sec) \in BOOLEAN /\ (d(sec) <=> AsksData(sec) /\ (sec.size = 0 \/ (ok /\ InFile(sec))))
  BY DEF DataRead, AsksData
<1>10. good' \in BOOLEAN /\ (good' <=> ok /\ (AsksData(sec) /\ sec.size > 0 => InFile(sec)))
  BY <1>8
<1> HIDE DEF ok, words, d, h
<1>11. sec.size \in Nat /\ sec.offset \in Int /\ sec.cap \in Nat
  BY HeaderFields
<1>12. PICK c \in Nat : c = IF d(sec) THEN sec.size ELSE 0
  BY <1>11
<1>28. PICK room \in Nat : room = IF d(sec) THEN sec.size + 1 ELSE 0
  BY <1>11
<1>13. PICK v : v = [sec EXCEPT !.data = d(sec), !.cap = c, !.room = room]
  OBVIOUS
<1>14. v \in Header
  BY <1>9, <1>12, <1>13 DEF Header
<1>15. /\ v.type = sec.type /\ v.size = sec.size /\ v.cap = c /\ v.name = sec.name
       /\ v.align = sec.align /\ v.address = sec.address /\ v.offset = sec.offset
  BY <1>13 DEF Header
<1>16. v.alloc = sec.alloc /\ v.tls = sec.tls /\ v.data = d(sec)
  BY <1>13 DEF Header
<1>17. sections' = Append(sections, v)
  BY <1>8, <1>12, <1>13, <1>28
<1>18. sections \in Seq(Header) /\ \A k \in 1 .. n : sections[k] \in Header
  BY <1>2, SectionTypes DEF FileTypeInv
<1>19. /\ sections' \in Seq(Header) /\ Len(sections') = n + 1 /\ DOMAIN sections' = 1 .. n + 1
       /\ sections'[n + 1] = v /\ \A k \in 1 .. n : sections'[k] = sections[k]
  BY <1>4, <1>14, <1>17, <1>18
<1>20. \A k \in DOMAIN sections' : k \in 1 .. n \/ k = n + 1
  BY <1>4, <1>19
<1> HIDE DEF n
<1>21. FileTypeInv'
  BY <1>1, <1>2, <1>10, <1>19 DEF FileTypeInv
<1>22. SectionsInv'
  <2>1. \A k \in DOMAIN sections' : sections'[k].type = "NULL" => sections'[k].size = 0
    <3>1. \A k \in 1 .. n : sections[k].type = "NULL" => sections[k].size = 0
      BY <1>2, SectionTypes DEF SectionsInv, n
    <3> QED
      BY <1>7, <1>15, <1>19, <1>20, <3>1
  <2>2. sections'[1].type = "NULL"
    <3>1. CASE n = 0
      <4>1. h.type = "NULL"
        BY <1>2, <3>1, FileIs DEF h
      <4> QED
        BY <1>7, <1>15, <1>19, <3>1, <4>1
    <3>2. CASE n # 0
      <4>1. 1 \in 1 .. n /\ sections # <<>>
        BY <1>4, <1>18, <3>2 DEF n
      <4> QED
        BY <1>2, <1>19, <4>1 DEF SectionsInv
    <3> QED
      BY <3>1, <3>2
  <2>3. \A k \in DOMAIN sections' : sections'[k].data => sections'[k].size <= sections'[k].cap
    <3>1. \A k \in 1 .. n : sections[k].data => sections[k].size <= sections[k].cap
      BY <1>2, SectionTypes DEF SectionsInv, n
    <3>2. v.data => v.size <= v.cap
      BY <1>11, <1>12, <1>15, <1>16
    <3> QED
      BY <1>19, <1>20, <3>1, <3>2
  <2>5. DataFits'
    BY <1>1, <1>21, <2>3, FitsAll
  <2>4. DOMAIN segments' = {}
    BY <1>1, <1>3
  <2> QED
    BY <1>1, <2>1, <2>2, <2>3, <2>4, <2>5 DEF SectionsInv, Making, Loaded
<1>23. OrderInv' /\ PlacedInv' /\ SavedInv'
  BY <1>1 DEF OrderInv, PlacedInv, SavedInv
<1>24. good' => ReadWhole' /\ NamesKept'
  <2> SUFFICES ASSUME good' PROVE ReadWhole' /\ NamesKept'
    OBVIOUS
  <2>1. ok /\ good
    BY <1>6, <1>10 DEF ok
  <2>2. words >= 9
    BY <1>5, <2>1 DEF ok
  <2>3. SameHeader(v, h) /\ v.name = h.name
    BY <1>7, <1>15, <1>16, <2>2 DEF SameHeader
  <2>4. HasBytes(v) => v.data
    <3> SUFFICES ASSUME HasBytes(v) PROVE d(sec)
      BY <1>16
    <3>1. HasBytes(sec)
      BY <1>15 DEF HasBytes
    <3>2. file.table + ShdrSize * n + ShdrSize <= file.length
      BY <1>6, <2>1
    <3>3. file.table < file.length
      <4>1. PICK m \in Nat : m = ShdrSize * n
        BY <1>4, Sizes
      <4> QED
        BY <1>4, <1>5, <3>2, <4>1
    <3>4. AsksData(sec)
      <4>1. CASE sec.size = 0
        BY <1>4, <3>1, <3>3, <4>1 DEF AsksData
      <4>2. CASE sec.size > 0
        <5>1. Filled(h) /\ h.size = sec.size
          <6>1. h.type = sec.type /\ h.size = sec.size
            BY <1>7, <2>2 DEF SameHeader
          <6> QED
            BY <3>1, <4>2, <6>1 DEF Filled, HasBytes
        <5>2. h.offset \in Nat /\ h.offset + h.size <= file.table
          BY <1>2, <1>4, <5>1, FileIs DEF h
        <5> QED
          BY <1>4, <1>11, <3>1, <3>3, <5>1, <5>2 DEF AsksData
      <4> QED
        BY <1>11, <4>1, <4>2
    <3>5. sec.size = 0 \/ InFile(sec)
      BY <1>10, <1>11, <3>4
    <3> QED
      BY <1>9, <2>1, <3>4, <3>5
  <2>5. ReadWhole /\ NamesKept
    BY <1>3, <2>1
  <2>6. \A k \in 1 .. n : /\ SameHeader(sections[k], file.sections[k]) /\ (HasBytes(sections[k]) => sections[k].data)
                          /\ sections[k].name = file.sections[k].name
    BY <1>2, <2>5, SectionTypes DEF ReadWhole, NamesKept, n
  <2>7. \A k \in DOMAIN sections' :
          /\ SameHeader(sections'[k], file.sections[k]) /\ (HasBytes(sections'[k]) => sections'[k].data)
          /\ sections'[k].name = file.sections[k].name
    BY <1>19, <1>20, <2>3, <2>4, <2>6 DEF h
  <2> QED
    BY <1>1, <2>7 DEF ReadWhole, NamesKept
<1>25. file.whole => good'
  <2> SUFFICES ASSUME file.whole PROVE good'
    OBVIOUS
  <2>1. good /\ file.length = file.table + ShdrSize * Len(file.sections)
    BY <1>2, <1>3, FileIs
  <2>2. ShdrSize * n + ShdrSize <= ShdrSize * Len(file.sections)
    <3>1. PICK e \in Nat : Len(file.sections) = n + 1 + e
      <4>1. n + 1 <= Len(file.sections)
        BY <1>4
      <4>2. n + 1 \in Nat /\ Len(file.sections) \in Nat
        BY <1>4
      <4> QED
        BY <4>1, <4>2, Rest
    <3>2. ShdrSize * (n + 1 + e) = ShdrSize * n + ShdrSize + ShdrSize * e /\ ShdrSize * e \in Nat /\ ShdrSize * n \in Nat
      <4>1. ShdrSize * e \in Nat /\ ShdrSize * n \in Nat /\ ShdrSize * 1 = ShdrSize
        BY <1>4, <1>5
      <4>2. ShdrSize * ((n + 1) + e) = ShdrSize * (n + 1) + ShdrSize * e
        BY <1>4, <1>5, Distribute
      <4>3. ShdrSize * (n + 1) = ShdrSize * n + ShdrSize * 1
        BY <1>4, <1>5, Distribute
      <4> QED
        BY <4>1, <4>2, <4>3
    <3> QED
      BY <1>5, <3>1, <3>2
  <2>3. ok
    <3>1. PICK a \in Nat : a = ShdrSize * n
      BY <1>4, Sizes
    <3>3. PICK b \in Nat : b = ShdrSize * Len(file.sections)
      BY <1>2, FileIs
    <3>2. file.table + a + ShdrSize <= file.length
      BY SMTT(30), <1>4, <1>5, <2>1, <2>2, <3>1, <3>3
    <3> QED
      BY <1>6, <2>1, <3>1, <3>2 DEF ok
  <2>4. ASSUME AsksData(sec), sec.size > 0
        PROVE  InFile(sec)
    <3>1. h.type = sec.type /\ h.size = sec.size /\ h.offset = sec.offset
      BY <1>5, <1>7, <2>3 DEF SameHeader, ok
    <3>2. Filled(h)
      BY <2>4, <3>1 DEF Filled, HasBytes, AsksData
    <3>3. h.offset + h.size <= file.table
      BY <1>2, <1>4, <3>2, FileIs DEF h
    <3>4. file.table <= file.length
      <4>1. PICK m \in Nat : m = ShdrSize * Len(file.sections)
        BY <1>4, Sizes
      <4> QED
        BY <1>4, <2>1, <4>1
    <3> QED
      BY <1>4, <1>11, <3>1, <3>3, <3>4 DEF InFile
  <2> QED
    BY <1>10, <2>3, <2>4
<1>26. ASSUME ~ file.whole, n + 1 = Len(file.sections)
       PROVE  ~ good' /\ ~ HasNames(v)
  <2>1. ~ ok
    <3>1. /\ file.length <= file.table + ShdrSize * Len(file.sections)
          /\ file.length # file.table + ShdrSize * Len(file.sections)
      BY <1>2, <1>26, FileIs
    <3>2. ShdrSize * (n + 1) = ShdrSize * n + ShdrSize
      <4>1. ShdrSize * (n + 1) = ShdrSize * n + ShdrSize * 1 /\ ShdrSize * 1 = ShdrSize
        BY <1>4, <1>5, Distribute
      <4> QED
        BY <4>1
    <3>3. PICK a \in Nat : a = ShdrSize * n
      BY <1>4, Sizes
    <3>4. file.length < file.table + a + ShdrSize
      <4>1. PICK b \in Nat : b = ShdrSize * Len(file.sections) /\ b = a + ShdrSize
        BY <1>2, <1>26, <3>2, <3>3, FileIs
      <4> QED
        BY SMTT(30), <1>4, <1>5, <3>1, <3>3, <4>1
    <3> QED
      BY <1>4, <1>5, <1>6, <3>3, <3>4 DEF ok
  <2> QED
    BY <1>9, <1>10, <1>11, <1>15, <1>16, <2>1 DEF HasNames
<1>27. LoadInv'
  <2>1. sections'[Len(sections')] = v /\ Len(sections') = n + 1
    BY <1>19
  <2>2. WellFormed(file') /\ Len(sections') <= Len(file.sections)
    BY <1>1, <1>2, <1>4, <1>19 DEF n
  <2>3. ~ file.whole /\ Len(sections') = Len(file.sections) => ~ good' /\ ~ HasNames(v)
    BY <1>26, <2>1
  <2> QED
    BY <1>1, <1>3, <1>24, <1>25, <2>1, <2>2, <2>3 DEF LoadInv
<1> QED
  BY <1>21, <1>22, <1>23, <1>27 DEF FileInv

\* The names are there or none is.
LEMMA NameSectionsStep ==
  ASSUME FileInv, NameSections
  PROVE  FileInv'
<1>1. /\ phase = "sections" /\ Len(sections) = Len(file.sections) /\ phase' = "segments"
      /\ sections' = [k \in DOMAIN sections |->
           [sections[k] EXCEPT !.name = IF HasNames(Sec(file.names)) THEN @ ELSE ""]]
      /\ UNCHANGED <<segments, pos, todo, order, generated, at, file, good, saves, back>>
  BY DEF NameSections, layout
<1>2. FileTypeInv /\ SectionsInv /\ WellFormed(file) /\ ~ back
  BY <1>1 DEF FileInv, LoadInv, Loading, FileTypeInv, BackPhases
<1>3. /\ segments = <<>> /\ (file.whole => good) /\ (good => ReadWhole /\ NamesKept)
      /\ ~ file.whole => ~ good /\ ~ HasNames(sections[Len(sections)])
  BY <1>1 DEF FileInv, LoadInv
<1>4. PICK n \in Nat : /\ n = Len(sections) /\ DOMAIN sections = 1 .. n /\ n >= 2
                       /\ \A k \in 1 .. n : sections[k] \in Header
  <2>1. Len(sections) \in Nat /\ DOMAIN sections = 1 .. Len(sections)
        /\ \A k \in 1 .. Len(sections) : sections[k] \in Header
    BY <1>2, SectionTypes
  <2>2. Len(sections) >= 2
    BY <1>1, <1>2, FileIs
  <2> QED
    BY <2>1, <2>2
<1> DEFINE named == HasNames(Sec(file.names))
           v(k) == [sections[k] EXCEPT !.name = IF named THEN sections[k].name ELSE ""]
<1>5. ASSUME NEW k \in 1 .. n
      PROVE  /\ v(k) \in Header /\ SameContents(v(k), sections[k]) /\ SameHeader(v(k), sections[k])
             /\ v(k).name = IF named THEN sections[k].name ELSE ""
  <2>1. PICK sec \in Header : sec = sections[k]
    BY <1>4
  <2>2. PICK a \in STRING : a = IF named THEN sec.name ELSE ""
    <3>1. sec.name \in STRING /\ "" \in STRING
      BY HeaderFields, FileAssumption
    <3> QED
      BY <3>1
  <2>3. PICK w : w = [sec EXCEPT !.name = a]
    OBVIOUS
  <2>4. w \in Header /\ w.name = a
    BY <2>3 DEF Header
  <2>5. /\ w.type = sec.type /\ w.size = sec.size /\ w.cap = sec.cap /\ w.align = sec.align
        /\ w.address = sec.address /\ w.offset = sec.offset
    BY <2>3 DEF Header
  <2>6. w.alloc = sec.alloc /\ w.tls = sec.tls /\ w.data = sec.data
    BY <2>3 DEF Header
  <2>7. v(k) = w
    BY <2>1, <2>2, <2>3, Zenon
  <2> HIDE DEF v
  <2> QED
    BY <2>1, <2>2, <2>4, <2>5, <2>6, <2>7 DEF SameContents, SameHeader
<1>6. sections' = [k \in 1 .. n |-> v(k)]
  BY <1>1, <1>4, Zenon
<1> HIDE DEF v, named
<1>7. sections' \in [1 .. n -> Header] /\ \A k \in 1 .. n : sections'[k] = v(k)
  BY <1>5, <1>6
<1>8. sections' \in Seq(Header) /\ Len(sections') = n /\ DOMAIN sections' = 1 .. n
  BY <1>4, <1>7, SeqOf
<1>13. \A k \in 1 .. n : SameContents(sections'[k], sections[k]) /\ SameHeader(sections'[k], sections[k])
  BY <1>5, <1>7, Zenon
<1>14. \A k \in 1 .. n : sections'[k].name = IF named THEN sections[k].name ELSE ""
  BY <1>5, <1>7, Zenon
<1>9. FileTypeInv'
  BY <1>1, <1>2, <1>8 DEF FileTypeInv, Phases
<1>10. SectionsInv'
  <2>1. /\ \A k \in 1 .. n : sections[k].type = "NULL" => sections[k].size = 0
        /\ sections[1].type = "NULL"
    <3>1. sections # <<>>
      BY <1>4
    <3> QED
      BY <1>2, <1>4, <3>1 DEF SectionsInv
  <2>2. \A k \in DOMAIN sections' : sections'[k].type = "NULL" => sections'[k].size = 0
    BY <1>8, <1>13, <2>1 DEF SameContents
  <2>3. sections'[1].type = "NULL"
    BY <1>4, <1>13, <2>1 DEF SameContents
  <2>4. \A k \in DOMAIN sections' : sections'[k].data => sections'[k].size <= sections'[k].cap
    <3>1. \A k \in 1 .. n : sections[k].data => sections[k].size <= sections[k].cap
      BY <1>2, <1>4 DEF SectionsInv
    <3> QED
      BY <1>8, <1>13, <3>1 DEF SameContents
  <2>6. DataFits'
    BY <1>1, <1>9, <2>4, FitsAll
  <2>5. DOMAIN segments' = {}
    <3>1. segments' = <<>>
      BY <1>1, <1>3, Zenon
    <3> QED
      BY <3>1
  <2> QED
    BY <1>1, <2>2, <2>3, <2>4, <2>5, <2>6 DEF SectionsInv, Making, Loaded
<1>11. OrderInv' /\ PlacedInv' /\ SavedInv'
  BY <1>1 DEF OrderInv, PlacedInv, SavedInv
<1>12. LoadInv'
  <2>1. good <=> file.whole
    <3>1. good \in BOOLEAN /\ file.whole \in BOOLEAN
      BY <1>2, FileIs DEF FileTypeInv
    <3> QED
      BY <1>3, <3>1
  <2>2. ASSUME good
        PROVE  ReadWhole' /\ (NamesKept' \/ Erased')
    <3>1. \A k \in 1 .. n : /\ SameHeader(sections[k], file.sections[k])
                            /\ (HasBytes(sections[k]) => sections[k].data)
                            /\ sections[k].name = file.sections[k].name
      BY <1>3, <1>4, <2>2 DEF ReadWhole, NamesKept
    <3>2. \A k \in 1 .. n : /\ SameHeader(sections'[k], file.sections[k])
                            /\ (HasBytes(sections'[k]) => sections'[k].data)
                            /\ sections'[k].name = IF named THEN file.sections[k].name ELSE ""
      <4>1. \A k \in 1 .. n : sections'[k].name = IF named THEN file.sections[k].name ELSE ""
        BY <1>14, <3>1
      <4>2. ASSUME NEW k \in 1 .. n
            PROVE  /\ SameHeader(sections'[k], file.sections[k])
                   /\ (HasBytes(sections'[k]) => sections'[k].data)
        <5>1. SameHeader(sections'[k], sections[k]) /\ SameHeader(sections[k], file.sections[k])
          BY <1>13, <3>1
        <5>2. SameHeader(sections'[k], file.sections[k])
          BY <5>1 DEF SameHeader
        <5>3. sections'[k].type = sections[k].type /\ sections'[k].data = sections[k].data
          BY <1>13 DEF SameContents
        <5>4. HasBytes(sections[k]) => sections[k].data
          BY <3>1
        <5>5. HasBytes(sections'[k]) => sections'[k].data
          BY <5>3, <5>4 DEF HasBytes
        <5> QED
          BY <5>2, <5>5
      <4> QED
        BY <4>1, <4>2
    <3>3. ReadWhole'
      BY <1>1, <1>8, <3>2 DEF ReadWhole
    <3>4. CASE named
      BY <1>1, <1>8, <3>2, <3>3, <3>4 DEF NamesKept
    <3>5. CASE ~ named
      BY <1>8, <3>2, <3>3, <3>5 DEF Erased
    <3> QED
      BY <3>4, <3>5
  <2>3. ASSUME ~ good, file.names = Len(sections') - 1
        PROVE  Erased'
    <3>1. Sec(file.names) = sections[n]
      BY <1>4, <1>8, <2>3 DEF Sec
    <3>2. ~ named
      BY <1>3, <1>4, <2>1, <2>3, <3>1 DEF named
    <3> QED
      BY <1>8, <1>14, <3>2 DEF Erased
  <2>4. Len(sections') = Len(file.sections) /\ WellFormed(file')
    BY <1>1, <1>2, <1>4, <1>8
  <2> QED
    BY <1>1, <1>3, <2>1, <2>2, <2>3, <2>4 DEF LoadInv
<1> QED
  BY <1>9, <1>10, <1>11, <1>12 DEF FileInv

LEMMA SectionsOfIs ==
  ASSUME FileInv, NEW seg
  PROVE  /\ SectionsOf(seg) \in Seq(Nat)
         /\ \A j \in DOMAIN SectionsOf(seg) : SectionsOf(seg)[j] < Len(sections)
<1> DEFINE S == {i \in Numbers : IF Sec(i).alloc
                     THEN IsSectInSeg(Sec(i).address, Sec(i).size, seg.vaddr, seg.vaddr + seg.memory)
                     ELSE IsSectInSeg(Sec(i).offset, Sec(i).size, seg.offset, seg.offset + seg.size)}
<1>1. PICK n \in Nat : n = Len(sections) /\ Numbers = 0 .. n - 1
  BY SectionTypes DEF FileInv
<1>2. S \subseteq 0 .. n - 1
  BY <1>1
<1>3. SectionsOf(seg) = Ascending(n, S)
  BY <1>1 DEF SectionsOf
<1> HIDE DEF S
<1>4. PICK q : q = Ascending(n, S)
  OBVIOUS
<1>5. q \in Seq(Nat) /\ Into(q) = S
  BY <1>2, <1>4, AscendingIs
<1>6. ASSUME NEW j \in DOMAIN q PROVE q[j] < n
  <2>1. q[j] \in Into(q)
    BY DEF Into
  <2> QED
    BY <1>2, <1>5, <2>1
<1> QED
  BY <1>1, <1>3, <1>4, <1>5, <1>6

LEMMA LoadSegmentStep ==
  ASSUME FileInv, LoadSegment
  PROVE  FileInv'
<1>1. PICK s : /\ s = Len(segments) + 1 /\ phase = "segments" /\ s <= Len(file.segments)
               /\ UNCHANGED <<sections, pos, todo, order, generated, at, file, saves, back>>
               /\ \/ /\ SegmentRead(file.segments[s], EhdrSize + PhdrSize * (s - 1))
                     /\ segments' = Append(segments, [file.segments[s] EXCEPT
                                       !.fixed = TRUE, !.secs = SectionsOf(file.segments[s])])
                     /\ phase' = phase /\ good' = good
                  \/ phase' = "rejected" /\ good' = FALSE /\ segments' = segments
  BY DEF LoadSegment, layout
<1>2. FileTypeInv /\ SectionsInv /\ WellFormed(file) /\ ~ back
  BY <1>1 DEF FileInv, LoadInv, Loading, FileTypeInv, BackPhases
<1>3. /\ Len(sections) = Len(file.sections) /\ (good <=> file.whole)
      /\ good => ReadWhole /\ (NamesKept \/ Erased)
      /\ ~ good /\ file.names = Len(sections) - 1 => Erased
      /\ segments # <<>> => good
  BY <1>1 DEF FileInv, LoadInv
<1>4. segments \in Seq(SegmentHeader) /\ Len(segments) \in Nat /\ s \in 1 .. Len(file.segments)
  <2>1. segments \in Seq(SegmentHeader) /\ Len(segments) \in Nat /\ Len(file.segments) \in Nat
    BY <1>2, SegmentTypes, FileIs DEF FileTypeInv
  <2> QED
    BY <1>1, <2>1
<1>5. PICK h \in SegmentHeader : h = file.segments[s]
  BY <1>2, <1>4, FileIs
<1>6. CASE /\ SegmentRead(h, EhdrSize + PhdrSize * (s - 1))
           /\ segments' = Append(segments, [h EXCEPT !.fixed = TRUE, !.secs = SectionsOf(h)])
           /\ phase' = phase /\ good' = good
  <2>1. good
    <3>1. WordsAt(EhdrSize + PhdrSize * (s - 1), PhdrSize) = PhdrSize
      BY <1>6 DEF SegmentRead
    <3>2. PhdrSize * (s - 1) \in Nat
      <4>1. s - 1 \in Nat
        BY <1>4
      <4> QED
        BY <4>1, Sizes
    <3>3. EhdrSize + PhdrSize * (s - 1) \in Nat /\ PhdrSize \in Nat \ {0}
      BY <3>2, Sizes
    <3>4. file.length \in Nat
      BY <1>2, FileIs
    <3> QED
      BY <3>1, <3>3, <3>4, WordsAtIs
  <2>2. PICK q \in Seq(Nat) : q = SectionsOf(h) /\ \A j \in DOMAIN q : q[j] < Len(sections)
    BY SectionsOfIs
  <2>3. PICK v : v = [h EXCEPT !.fixed = TRUE, !.secs = q]
    OBVIOUS
  <2>4. v \in SegmentHeader /\ v.secs = q
    BY <2>3 DEF SegmentHeader
  <2>5. segments' = Append(segments, v)
    BY <1>6, <2>2, <2>3
  <2>6. /\ segments' \in Seq(SegmentHeader) /\ DOMAIN segments' = 1 .. Len(segments) + 1
        /\ segments'[Len(segments) + 1] = v
        /\ \A x \in 1 .. Len(segments) : segments'[x] = segments[x]
    BY <1>4, <2>4, <2>5
  <2>7. FileTypeInv'
    BY <1>1, <1>2, <1>6, <2>6 DEF FileTypeInv
  <2>8. SectionsInv'
    <3>1. \A x \in DOMAIN segments' : \A j \in DOMAIN segments'[x].secs : segments'[x].secs[j] < Len(sections')
      <4>1. \A x \in DOMAIN segments' : x \in 1 .. Len(segments) \/ x = Len(segments) + 1
        BY <1>4, <2>6
      <4>2. \A x \in 1 .. Len(segments) : \A j \in DOMAIN segments[x].secs : segments[x].secs[j] < Len(sections)
        BY <1>2, SegmentTypes DEF SectionsInv
      <4> QED
        BY <1>1, <2>2, <2>4, <2>6, <4>1, <4>2
    <3>2. DataFits'
      BY <1>1, <1>2, <1>6 DEF SectionsInv, DataFits, Numbers, Sec
    <3> QED
      BY <1>1, <1>2, <1>6, <3>1, <3>2 DEF SectionsInv, Making, Loaded
  <2>9. OrderInv' /\ PlacedInv' /\ SavedInv'
    BY <1>1, <1>6 DEF OrderInv, PlacedInv, SavedInv
  <2>10. LoadInv'
    <3>1. (ReadWhole' <=> ReadWhole) /\ (NamesKept' <=> NamesKept) /\ (Erased' <=> Erased)
      BY <1>1 DEF ReadWhole, NamesKept, Erased
    <3> QED
      BY <1>1, <1>2, <1>3, <1>6, <2>1, <3>1 DEF LoadInv
  <2> QED
    BY <2>7, <2>8, <2>9, <2>10 DEF FileInv
<1>7. CASE phase' = "rejected" /\ good' = FALSE /\ segments' = segments
  <2>1. FileTypeInv'
    BY <1>1, <1>2, <1>7 DEF FileTypeInv, Phases
  <2>2. SectionsInv'
    <3>1. DataFits'
      BY <1>1, <1>2, <1>7 DEF SectionsInv, DataFits, Numbers, Sec
    <3> QED
      BY <1>1, <1>2, <1>7, <3>1 DEF SectionsInv, Making, Loaded
  <2>3. OrderInv' /\ PlacedInv' /\ SavedInv'
    BY <1>7 DEF OrderInv, PlacedInv, SavedInv
  <2>4. LoadInv'
    BY <1>1, <1>2, <1>7 DEF LoadInv
  <2> QED
    BY <2>1, <2>2, <2>3, <2>4 DEF FileInv
<1> QED
  BY <1>1, <1>5, <1>6, <1>7

\* A file that is accepted has a section with the name of the symbol table.
LEMMA EndLoadStep ==
  ASSUME FileInv, FinishLoad \/ ElfValid
  PROVE  FileInv'
<1>1. /\ UNCHANGED <<sections, segments, pos, todo, order, generated, at, file, good, saves, back>>
      /\ \/ phase = "segments" /\ phase' = "loaded"
         \/ phase = "loaded" /\ phase' = "accepted" /\ Named(".symtab") # {}
         \/ phase = "loaded" /\ phase' = "rejected"
  BY DEF FinishLoad, ElfValid, layout
<1>2. FileTypeInv /\ SectionsInv /\ WellFormed(file) /\ ~ back
  BY <1>1 DEF FileInv, LoadInv, Loading, FileTypeInv, BackPhases
<1>3. /\ Len(sections) = Len(file.sections) /\ (good <=> file.whole)
      /\ good => ReadWhole /\ (NamesKept \/ Erased)
      /\ ~ good /\ file.names = Len(sections) - 1 => Erased
      /\ segments # <<>> => good
  BY <1>1 DEF FileInv, LoadInv
<1>4. FileTypeInv'
  BY <1>1, <1>2 DEF FileTypeInv, Phases
<1>5. SectionsInv'
  <2>1. DataFits'
    BY <1>1, <1>2 DEF SectionsInv, DataFits, Numbers, Sec
  <2>2. Len(sections) >= 2 /\ file.names \in 1 .. Len(sections) - 1
    BY <1>2, <1>3, FileIs
  <2>3. good => \A k \in DOMAIN sections : HasBytes(sections[k]) => sections[k].data
    BY <1>3 DEF ReadWhole
  <2> QED
    BY <1>1, <1>2, <2>1, <2>2, <2>3 DEF SectionsInv, Making, Loaded
<1>6. OrderInv' /\ PlacedInv' /\ SavedInv'
  BY <1>1 DEF OrderInv, PlacedInv, SavedInv
<1>7. LoadInv'
  <2>1. (ReadWhole' <=> ReadWhole) /\ (NamesKept' <=> NamesKept) /\ (Erased' <=> Erased)
    BY <1>1 DEF ReadWhole, NamesKept, Erased
  <2>2. ASSUME Named(".symtab") # {} PROVE ~ Erased
    <3>1. PICK i \in Numbers : Sec(i).name = ".symtab"
      BY <2>2 DEF Named
    <3>2. i + 1 \in DOMAIN sections /\ Sec(i) = sections[i + 1]
      BY <1>2, SectionTypes
    <3> QED
      BY <3>1, <3>2 DEF Erased
  <2> QED
    BY <1>1, <1>2, <1>3, <2>1, <2>2 DEF LoadInv
<1> QED
  BY <1>4, <1>5, <1>6, <1>7 DEF FileInv

-----------------------------------------------------------------------------
(* Every state of an object, and of the files of other programs *)

LEMMA ShstrtabIs ==
  Shstrtab \in Header /\ Sound(Shstrtab) /\ Shstrtab.type = "STRTAB" /\ Shstrtab.name = ".shstrtab"
<1>1. PICK sec : sec = [Created EXCEPT !.type = "STRTAB"]
  OBVIOUS
<1>2. sec \in Header /\ sec.type = "STRTAB" /\ sec.size = 0 /\ sec.cap = 0 /\ sec.data = FALSE
  <2>1. Created \in Header /\ Created.size = 0 /\ Created.cap = 0 /\ Created.data = FALSE /\ "STRTAB" \in STRING
    BY CreatedIs, FileAssumption
  <2> QED
    BY <1>1, <2>1 DEF Header
<1>3. Fits(sec)
  BY <1>2 DEF Fits
<1>4. PICK r \in Header : r = StringAdded(sec, NameSize) /\ Sound(r) /\ r.type = "STRTAB"
  <2>1. /\ StringAdded(sec, NameSize) \in Header /\ Sound(StringAdded(sec, NameSize))
        /\ SamePlace(StringAdded(sec, NameSize), sec)
    BY <1>2, <1>3, StringAddedIs, Sizes
  <2> QED
    BY <1>2, <2>1 DEF SamePlace
<1>5. PICK v : v = [r EXCEPT !.name = ".shstrtab", !.align = 1]
  OBVIOUS
<1>6. v \in Header
  <2>1. ".shstrtab" \in STRING
    BY FileAssumption
  <2> QED
    BY <1>5, <2>1 DEF Header
<1>7. /\ v.type = r.type /\ v.size = r.size /\ v.cap = r.cap /\ v.data = r.data
      /\ v.name = ".shstrtab"
  BY <1>5 DEF Header
<1>8. Sound(v)
  BY <1>4, <1>7 DEF Fits, Sound, HasBytes
<1>9. Shstrtab = v
  BY <1>1, <1>4, <1>5 DEF Shstrtab
<1> QED
  BY <1>4, <1>6, <1>7, <1>8, <1>9

LEMMA FileBegins ==
  ASSUME FileInit
  PROVE  FileInv
<1>1. /\ segments = <<>> /\ good = TRUE /\ saves = 0 /\ back = FALSE
      /\ pos = 0 /\ todo = <<>> /\ order = <<>> /\ generated = {} /\ at = AtOnce(0, 0, 0)
      /\ \/ sections = <<Created, Shstrtab>> /\ phase = "edit" /\ file = NoFile
         \/ sections = <<>> /\ phase = "saved" /\ WellFormed(file)
  BY FileAssumption DEF FileInit
<1>2. sections \in Seq(Header) /\ \A k \in 1 .. Len(sections) : Sound(sections[k])
  <2>1. Created \in Header /\ Sound(Created) /\ Shstrtab \in Header /\ Sound(Shstrtab)
    BY CreatedIs, ShstrtabIs
  <2>2. CASE sections = <<Created, Shstrtab>>
    <3>1. Len(sections) = 2 /\ sections[1] = Created /\ sections[2] = Shstrtab
      BY <2>2
    <3>2. <<Created, Shstrtab>> \in Seq(Header)
      BY <2>1
    <3>3. \A k \in 1 .. 2 : k = 1 \/ k = 2
      OBVIOUS
    <3> QED
      BY <2>1, <2>2, <3>1, <3>2, <3>3
  <2>3. CASE sections = <<>>
    BY <2>3
  <2> QED
    BY <1>1, <2>2, <2>3
<1>3. FileTypeInv
  <2>1. at \in [next : Nat, start : Int, memory : Int, size : Int]
    BY <1>1 DEF AtOnce
  <2>2. segments \in Seq(SegmentHeader) /\ todo \in Seq(Nat) /\ order \in Seq(Nat)
    BY <1>1
  <2>3. phase \in Phases
    BY <1>1 DEF Phases
  <2>4. good \in BOOLEAN /\ saves \in Nat /\ pos \in Int /\ generated \subseteq Nat /\ back = FALSE
    BY <1>1
  <2> QED
    BY <1>2, <2>1, <2>2, <2>3, <2>4 DEF FileTypeInv
<1>4. SectionsInv
  <2>6. DOMAIN sections = 1 .. Len(sections)
    BY <1>2
  <2>7. \A k \in DOMAIN sections : sections[k].data => sections[k].size <= sections[k].cap
    BY <1>2, <2>6 DEF Sound, Fits
  <2>1. DataFits
    <3>1. phase # "crashed"
      BY <1>1
    <3>2. ASSUME NEW i \in Numbers, Sec(i).data, Sec(i).cap <= Sec(i).room
          PROVE  Sec(i).size <= Sec(i).room
      <4>1. i + 1 \in 1 .. Len(sections) /\ Sec(i) = sections[i + 1] /\ Sec(i) \in Header
        BY <1>3, <3>2, SectionTypes
      <4> QED
        BY <2>6, <2>7, <3>2, <4>1, FitsRoom
    <3> QED
      BY <3>1, <3>2 DEF DataFits
  <2>2. DOMAIN segments = {}
    BY <1>1
  <2>3. CASE sections = <<Created, Shstrtab>> /\ phase = "edit"
    <3>1. /\ Len(sections) = 2 /\ sections[1] = Created /\ sections[2] = Shstrtab
          /\ DOMAIN sections = 1 .. 2
      BY <2>3
    <3>2. \A k \in 1 .. 2 : k = 1 \/ k = 2
      OBVIOUS
    <3>3. Created.type = "NULL" /\ Created.size = 0 /\ Shstrtab.type # "NULL"
      BY CreatedIs, ShstrtabIs
    <3>4. \A k \in DOMAIN sections : sections[k].type = "NULL" => sections[k].size = 0
      BY <3>1, <3>2, <3>3
    <3>5. \A k \in 2 .. Len(sections) : sections[k].type # "NULL"
      <4>1. \A k \in 2 .. 2 : k = 2
        OBVIOUS
      <4> QED
        BY <3>1, <3>3, <4>1
    <3>6. \A k \in DOMAIN sections : Sound(sections[k])
      BY <1>2, <3>1
    <3>7. file.names \in 1 .. Len(sections) - 1
      <4>1. file = NoFile
        BY <1>1, <2>3
      <4> QED
        BY <3>1, <4>1 DEF NoFile
    <3> QED
      BY <2>1, <2>2, <2>3, <2>7, <3>1, <3>3, <3>4, <3>5, <3>6, <3>7 DEF SectionsInv, Loaded
  <2>4. CASE sections = <<>> /\ phase = "saved"
    BY <2>1, <2>2, <2>4, <2>7 DEF SectionsInv, Making, Loaded
  <2> QED
    BY <1>1, <2>3, <2>4
<1>5. OrderInv /\ PlacedInv /\ SavedInv
  BY <1>1 DEF OrderInv, PlacedInv, SavedInv
<1>6. LoadInv
  BY <1>1 DEF LoadInv, Loading
<1> QED
  BY <1>3, <1>4, <1>5, <1>6 DEF FileInv

LEMMA FileStays ==
  ASSUME FileInv, UNCHANGED fileVars
  PROVE  FileInv'
<1>1. UNCHANGED <<sections, segments, phase, pos, todo, order, generated, at, file, good, saves, back>>
  BY DEF fileVars
<1>2. FileTypeInv'
  BY <1>1 DEF FileInv, FileTypeInv
<1>3. SectionsInv'
  <2>1. DataFits' <=> DataFits
    BY <1>1 DEF DataFits, Numbers, Sec
  <2> QED
    BY <1>1, <2>1 DEF FileInv, SectionsInv
<1>4. OrderInv'
  BY <1>1 DEF FileInv, OrderInv, First, Current
<1>5. PlacedInv'
  BY <1>1 DEF FileInv, PlacedInv, Placed, First, Numbers, Sec, Loose
<1>6. SavedInv'
  BY <1>1 DEF FileInv, SavedInv, Numbers, Sec
<1>7. LoadInv'
  BY <1>1 DEF FileInv, LoadInv, WellFormed, ReadWhole, NamesKept, Erased, HasNames
<1> QED
  BY <1>2, <1>3, <1>4, <1>5, <1>6, <1>7 DEF FileInv

LEMMA FileStep ==
  ASSUME FileInv, FileNext
  PROVE  FileInv'
<1>1. ASSUME Edit PROVE FileInv'
  <2>1. ASSUME NEW recipe \in Recipes, AddSection(recipe) PROVE FileInv'
    BY <2>1, AddSectionStep
  <2>2. ASSUME NEW i \in Numbers, AppendData(i, NameSize) PROVE FileInv'
    BY <2>2, AppendDataStep, Sizes
  <2>3. ASSUME NEW t \in Templates, AddSegment(t) PROVE FileInv'
    BY <2>3, AddSegmentStep
  <2>4. ASSUME NEW i \in Numbers, AddSectionIndex(i) PROVE FileInv'
    BY <2>4, AddSectionIndexStep
  <2> QED
    BY <1>1, <2>1, <2>2, <2>3, <2>4 DEF Edit
<1>2. ASSUME LayOut PROVE FileInv'
  BY <1>2, OrderSegmentStep, StartLayoutStep, StartSegmentStep, PlaceNullStep, PlaceFixedStep,
     SaveAbortsStep, PlaceNewStep, CountGeneratedStep, FinishSegmentStep, StartLooseStep,
     PlaceLooseStep, WriteFileStep DEF LayOut
<1>3. ASSUME NEW length \in Cuts, Truncate(length) PROVE FileInv'
  BY <1>3, TruncateStep
<1>4. ASSUME Read PROVE FileInv'
  BY <1>4, LoadStep, LoadSectionStep, NameSectionsStep, LoadSegmentStep, EndLoadStep DEF Read
<1> QED
  BY <1>1, <1>2, <1>3, <1>4, SaveStep DEF FileNext

\* The inductive invariant of the file holds always.
LEMMA FileHolds == ObjectSpec => []FileInv
<1>1. ObjectInit => FileInv
  BY FileBegins DEF ObjectInit
<1>2. FileInv /\ [ObjectNext]_objectVars => FileInv'
  <2> SUFFICES ASSUME FileInv, [ObjectNext]_objectVars PROVE FileInv'
    OBVIOUS
  <2>1. CASE UseTables
    BY <2>1, UseTablesStep
  <2>2. CASE UseFile
    BY <2>2, FileStep DEF UseFile
  <2>3. CASE UNCHANGED objectVars
    BY <2>3, FileStays DEF objectVars
  <2> QED
    BY <2>1, <2>2, <2>3 DEF ObjectNext
<1> QED
  BY <1>1, <1>2, PTL DEF ObjectSpec

\* The contents of a section that were set, appended or read fit the memory that holds
\* them, also those of loaded sections, unless memory was short when they grew; and
\* append_data leaves its memory only then, or in a file that could not be read whole
\* (elfio_section.hpp:134-187, 260-289).
THEOREM ContentsFit == ObjectSpec => []DataFits
<1>1. FileInv => DataFits
  BY DEF FileInv, SectionsInv
<1> QED
  BY <1>1, FileHolds, PTL

\* In a file that was written no two sections share a place, and the tables are apart
\* from them, however the segments overlap, unless the save placed a section before the
\* position (elfio.hpp:202-247, 316-352, 882-890).
THEOREM PartsStayApart == ObjectSpec => []PartsDisjoint
<1>1. FileInv => PartsDisjoint
  <2> SUFFICES ASSUME FileInv, phase = "saved", saves > 0, ~ back PROVE PartsDisjoint
    BY DEF PartsDisjoint
  <2>1. /\ sections = file.sections /\ segments = file.segments /\ WellFormed(file)
        /\ \A i, j \in Numbers : i # j /\ Filled(Sec(i)) /\ Filled(Sec(j)) => Apart(Sec(i), Sec(j))
    BY DEF FileInv, SavedInv, LoadInv
  <2>2. /\ \A i \in Numbers : /\ i + 1 \in 1 .. Len(sections) /\ Sec(i) = sections[i + 1]
                              /\ Sec(i) \in Header /\ i \in Nat
    BY SectionTypes DEF FileInv
  <2>3. ASSUME NEW i \in Numbers, Filled(Sec(i))
        PROVE  First <= Sec(i).offset /\ Sec(i).offset + Sec(i).size <= file.table
    <3>1. i + 1 \in 1 .. Len(file.sections) /\ Sec(i) = file.sections[i + 1]
      BY <2>1, <2>2
    <3> QED
      BY <2>1, <2>3, <3>1 DEF WellFormed, Filled, First
  <2>4. ASSUME NEW i \in Numbers, NEW j \in Numbers, i # j
        PROVE  ~ Overlap(i, j)
    <3> SUFFICES ASSUME Overlap(i, j) PROVE FALSE
      OBVIOUS
    <3>1. PICK a \in Header, b \in Header : a = Sec(i) /\ b = Sec(j)
      BY <2>2
    <3>2. /\ a.size \in Nat /\ b.size \in Nat /\ a.offset \in Int /\ b.offset \in Int
      BY HeaderFields
    <3>3. a.size > 0 /\ b.size > 0 /\ a.type # "NOBITS" /\ b.type # "NOBITS"
      BY <3>1 DEF Overlap
    <3>4. a.type # "NULL" /\ b.type # "NULL"
      <4>1. \A k \in DOMAIN sections : sections[k].type = "NULL" => sections[k].size = 0
        BY DEF FileInv, SectionsInv
      <4>2. DOMAIN sections = 1 .. Len(sections)
        BY SectionTypes DEF FileInv
      <4> QED
        BY <2>2, <3>1, <3>3, <4>1, <4>2
    <3>5. Filled(a) /\ Filled(b)
      BY <3>3, <3>4 DEF Filled, HasBytes
    <3>6. a.offset + a.size <= b.offset \/ b.offset + b.size <= a.offset
      BY <2>1, <2>4, <3>1, <3>5 DEF Apart
    <3>7. \/ a.offset <= b.offset /\ b.offset < a.offset + a.size
          \/ a.offset <= b.offset + b.size - 1 /\ b.offset + b.size - 1 < a.offset + a.size
          \/ b.offset <= a.offset /\ a.offset < b.offset + b.size
          \/ b.offset <= a.offset + a.size - 1 /\ a.offset + a.size - 1 < b.offset + b.size
      BY <3>1 DEF Overlap
    <3> QED
      BY <3>2, <3>3, <3>6, <3>7
  <2>5. \A i \in Numbers : HasBytes(Sec(i)) /\ Sec(i).size > 0 =>
          EhdrSize + PhdrSize * Len(segments) <= Sec(i).offset /\ Sec(i).offset + Sec(i).size <= file.table
    BY <2>3 DEF Filled, First
  <2>6. \A i, j \in Numbers : i < j /\ HasBytes(Sec(i)) /\ Sec(i).size > 0 /\ HasBytes(Sec(j)) /\ Sec(j).size > 0 =>
          \/ Sec(i).offset + Sec(i).size <= Sec(j).offset
          \/ Sec(j).offset + Sec(j).size <= Sec(i).offset
    <3>1. \A i, j \in Numbers : i < j => i # j
      BY <2>2
    <3> QED
      BY <2>1, <3>1 DEF Filled, Apart
  <2>7. \A i, j \in Numbers : i < j => ~ Overlap(i, j)
    BY <2>2, <2>4
  <2> QED
    BY <2>5, <2>6, <2>7 DEF PartsDisjoint
<1> QED
  BY <1>1, FileHolds, PTL

\* What load and the tools accept was read whole, however the file was cut short, if it
\* has segments or its section of names comes last (elfio.hpp:142-199, 497-621).
THEOREM AcceptedReadWhole == ObjectSpec => []AcceptedIsWhole
<1>1. FileInv => AcceptedIsWhole
  <2> SUFFICES ASSUME FileInv, phase = "accepted",
                      segments # <<>> \/ file.names = Len(file.sections) - 1,
                      NEW i \in Numbers
               PROVE  /\ Sec(i).name = file.sections[i + 1].name /\ Sec(i).type = file.sections[i + 1].type
                      /\ Sec(i).size = file.sections[i + 1].size
                      /\ HasBytes(Sec(i)) => Sec(i).data
    BY DEF AcceptedIsWhole
  <2>1. /\ Len(sections) = Len(file.sections)
        /\ good => ReadWhole /\ (NamesKept \/ Erased)
        /\ ~ good /\ file.names = Len(sections) - 1 => Erased
        /\ segments # <<>> => good
        /\ ~ Erased
    BY DEF FileInv, LoadInv
  <2>2. ReadWhole /\ NamesKept
    BY <2>1
  <2>3. i + 1 \in DOMAIN sections /\ Sec(i) = sections[i + 1]
    BY SectionTypes DEF FileInv
  <2> QED
    BY <2>2, <2>3 DEF ReadWhole, NamesKept, SameHeader
<1> QED
  BY <1>1, FileHolds, PTL

=============================================================================

------------------------------ MODULE UsoReloc ------------------------------
(***************************************************************************)
(* Relocation of one section, from the ELF table that elf2uso splits in    *)
(* two (src/tools/elf2uso.cpp, reloc_build) to the words that uso_open     *)
(* leaves in memory (src/src/uso.c, apply_uso_relocs and link_uso).        *)
(*                                                                         *)
(* The program is a sequence of words with one relocation entry each, in   *)
(* table order; a word that is not relocated never changes and is left     *)
(* out.  A word has a top and a bottom half of Half values, 2^16 in the    *)
(* code; the target field of a call has Field values, 2^26 in the code.    *)
(* Sections are linked one after the other and share nothing.              *)
(***************************************************************************)
EXTENDS Integers, Sequences

CONSTANTS
  Half,      \* the values of half a word
  Field,     \* the values of the target field of a call
  Opcode,    \* what the instructions hold in their top bits
  Syms,      \* the symbols that are referenced
  Undefined, \* the ones the ELF does not define
  Addresses, \* where a symbol can be
  Tables     \* the relocation tables that are examined

Word == Half * Half
Sign == Half \div 2

Types == {"R_MIPS_32", "R_MIPS_26", "R_MIPS_HI16", "R_MIPS_LO16", "other"}
Entry == [type : Types, sym : Syms, addend : 0 .. Word - 1]

Is(t, i, type) == t[i].type = type

\* LO16 j holds a bottom half of what HI16 i refers to: a compiler uses one lui for
\* several loads and stores.
SameReference(t, i, j) ==
  Is(t, j, "R_MIPS_LO16") /\ t[j].sym = t[i].sym /\ t[j].addend = t[i].addend

\* The assembler moves each HI16 to its LO16: the first LO16 after it is for the
\* same symbol and addend.
Paired(t, i, j) ==
  /\ i < j /\ SameReference(t, i, j)
  /\ \A k \in i + 1 .. j - 1 : ~ Is(t, k, "R_MIPS_LO16")

Assembled(t) ==
  \A i \in DOMAIN t :
    /\ Is(t, i, "R_MIPS_HI16") => \E j \in DOMAIN t : Paired(t, i, j)
    /\ Is(t, i, "R_MIPS_26") => t[i].addend % 4 = 0

ASSUME WidthsAssumption ==
  /\ Half \in Nat /\ Sign \in Nat \ {0} /\ Half = 2 * Sign
  /\ Field \in Nat \ {0} /\ Word % (4 * Field) = 0
  /\ Opcode \in Nat /\ Opcode < Half /\ Opcode * Field + Field <= Word

ASSUME TablesAssumption ==
  /\ Undefined \subseteq Syms
  /\ Addresses \subseteq 0 .. Word - 1
  /\ \A t \in Tables : t \in Seq(Entry) /\ Assembled(t)

VARIABLES
  elf,  \* the section's relocation entries in the ELF
  addr, \* symbol -> its address at run time, 0 for an unresolved weak import
  pass, \* the table that link_uso is at: "internal", "external" or "done"
  todo, \* the entries of that table that are not applied yet
  text, \* the relocated words
  halted

vars == <<elf, addr, pass, todo, text, halted>>

-----------------------------------------------------------------------------
(* The word that the assembler emits for an entry: REL entries keep the      *)
(* addend in place.                                                          *)

\* What lui must load so that adding the sign-extended bottom half gives a.
HighPart(a) == ((a + Sign) \div Half) % Half

InPlace(e) ==
  CASE e.type = "R_MIPS_26"   -> (Opcode * Field) + ((e.addend \div 4) % Field)
    [] e.type = "R_MIPS_HI16" -> (Opcode * Half) + HighPart(e.addend)
    [] e.type = "R_MIPS_LO16" -> (Opcode * Half) + (e.addend % Half)
    [] OTHER                  -> e.addend

-----------------------------------------------------------------------------
(* An operator whose comment begins with "Fault:" is what the next           *)
(* definition would be with a plausible bug.                                 *)

\* Fault: a symbol without a value of its own counts as defined.
RelocBuildIgnoresUndefined(t, p) ==
  IF p = "internal" THEN DOMAIN t ELSE {i \in DOMAIN t : t[i].sym \in Undefined}

\* reloc_build: entries keep their order in the table they go to
RelocBuild(t, p) ==
  {i \in DOMAIN t : (t[i].sym \in Undefined) = (p = "external")}

First(S) == CHOOSE i \in S : \A j \in S : i <= j

LaterLo(i) == {j \in todo : j > i /\ Is(elf, j, "R_MIPS_LO16")}

\* Fault: the bottom half is added as it stands.
DisplacementUnsigned(lo) == lo

\* The bottom half as HI16 processing sign-extends it, modulo Word
Displacement(lo) == IF lo > Sign THEN lo + Word - Half ELSE lo

\* Fault: no carry for a bottom half that will be sign-extended.
HiWithoutCarry(a) == a \div Half

\* Fault: hi is wider than half a word when it takes the carry.
HiWide(a) == (a \div Half) + (IF a % Half >= Sign THEN 1 ELSE 0)

Hi(a) == ((a \div Half) + (IF a % Half >= Sign THEN 1 ELSE 0)) % Half

RelocateHi(i, s) ==
  LET lo == text[First(LaterLo(i))] % Half
      a  == (((text[i] % Half) * Half) + Displacement(lo) + s) % Word
  IN  IF LaterLo(i) = {} THEN text[i] ELSE ((text[i] \div Half) * Half) + Hi(a)

\* Fault: the sum runs over into the opcode.
RelocateLoCarries(w, s) == (w + (s % Half)) % Word

RelocateLo(w, s) == ((w \div Half) * Half) + (((w % Half) + s) % Half)

\* Fault: the field is not scaled to bytes before the symbol is added.
RelocateCallUnscaled(w, s) == ((w \div Field) * Field) + (((w % Field) + s) % Field)

RelocateCall(w, s) ==
  ((w \div Field) * Field) + (((((w % Field) * 4) + s) % (4 * Field)) \div 4)

Relocated(i, s) ==
  CASE Is(elf, i, "R_MIPS_32")   -> (text[i] + s) % Word
    [] Is(elf, i, "R_MIPS_26")   -> RelocateCall(text[i], s)
    [] Is(elf, i, "R_MIPS_HI16") -> RelocateHi(i, s)
    [] Is(elf, i, "R_MIPS_LO16") -> RelocateLo(text[i], s)

\* One iteration of the loop of apply_uso_relocs
ApplyReloc ==
  /\ halted = "no" /\ todo # {}
  /\ LET i == First(todo) IN
       /\ ~ Is(elf, i, "other")
       /\ text' = [text EXCEPT ![i] = Relocated(i, addr[elf[i].sym])]
       /\ todo' = todo \ {i}
  /\ UNCHANGED <<elf, addr, pass, halted>>

\* assertf: elf2uso passes on types that the runtime does not know
InvalidType ==
  /\ halted = "no" /\ todo # {}
  /\ Is(elf, First(todo), "other")
  /\ halted' = "assert"
  /\ UNCHANGED <<elf, addr, pass, todo, text>>

\* link_uso: the section's internal relocations, then its external ones
NextTable ==
  /\ halted = "no" /\ todo = {} /\ pass # "done"
  /\ pass' = IF pass = "internal" THEN "external" ELSE "done"
  /\ todo' = IF pass = "internal" THEN RelocBuild(elf, "external") ELSE {}
  /\ UNCHANGED <<elf, addr, text, halted>>

Init ==
  /\ elf \in Tables /\ addr \in [Syms -> Addresses]
  /\ pass = "internal" /\ todo = RelocBuild(elf, "internal")
  /\ text = [i \in DOMAIN elf |-> InPlace(elf[i])]
  /\ halted = "no"

Next == ApplyReloc \/ InvalidType \/ NextTable

Spec == Init /\ [][Next]_vars

-----------------------------------------------------------------------------
(* Properties. *)

TypeOK ==
  /\ elf \in Seq(Entry) /\ addr \in [Syms -> Addresses]
  /\ pass \in {"internal", "external", "done"}
  /\ todo \subseteq DOMAIN elf
  /\ text \in [DOMAIN elf -> 0 .. Word - 1]
  /\ halted \in {"no", "assert"}

\* The address that the program means by an entry
Meant(e) == (e.addend + addr[e.sym]) % Word

\* The address that a lui of hi and an instruction with offset lo reach: the
\* processor sign-extends lo.
Reached(hi, lo) == ((hi * Half) + (IF lo >= Sign THEN lo + Word - Half ELSE lo)) % Word

\* After linking, every reference is to its symbol plus its addend: pointers,
\* calls, and each HI16 together with each LO16 of the same symbol and addend,
\* the first behind it or not, although the HI16 is computed from one LO16 that is
\* itself relocated later, internal and external entries are applied apart, and
\* several HI16 may share a LO16
\* (uso.c:214-320, elf2uso.cpp:284-327).
ReachesSymbol ==
  pass = "done" =>
    \A i \in DOMAIN elf :
      /\ Is(elf, i, "R_MIPS_32") => text[i] = Meant(elf[i])
      /\ Is(elf, i, "R_MIPS_26") => text[i] % Field = (Meant(elf[i]) \div 4) % Field
      /\ Is(elf, i, "R_MIPS_HI16") =>
           \A j \in DOMAIN elf : SameReference(elf, i, j) =>
             Reached(text[i] % Half, text[j] % Half) = Meant(elf[i])

\* No relocation reaches the bits of an instruction above its immediate or
\* target field, whatever carries the sum has (uso.c:250, 288, 299).
KeepsOpcode ==
  \A i \in DOMAIN elf :
    /\ elf[i].type \in {"R_MIPS_HI16", "R_MIPS_LO16"} => text[i] \div Half = Opcode
    /\ Is(elf, i, "R_MIPS_26") => text[i] \div Field = Opcode

=============================================================================

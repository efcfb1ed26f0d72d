--------------------------- MODULE UsoRelocProofs ---------------------------
(***************************************************************************)
(* What the relocation loop computes, for words of any width.  The heart   *)
(* is HiExact: the high half computed from the bottom half that is still   *)
(* in place is the one that the relocated bottom half needs, provided that *)
(* the bottom half of the addend is not the one value that the code does   *)
(* not sign-extend.                                                        *)
(***************************************************************************)
EXTENDS UsoReloc, UsoLemmas

\* The addends for which the loop is right
OffBoundary(t) ==
  \A i \in DOMAIN t : Is(t, i, "R_MIPS_HI16") => t[i].addend % Half # Sign

-----------------------------------------------------------------------------
(* Words and their halves. *)

LEMMA Widths ==
  /\ Half \in Nat \ {0} /\ Sign \in Nat \ {0} /\ Half = 2 * Sign
  /\ Word \in Nat \ {0} /\ Word = Half * Half /\ Half <= Word
<1>1. Half \in Nat \ {0} /\ Sign \in Nat \ {0} /\ Half = 2 * Sign
  BY WidthsAssumption
<1>2. Half * Half \in Nat \ {0} /\ Half <= Half * Half
  BY <1>1
<1> QED
  BY <1>1, <1>2 DEF Word

LEMMA HalvesOf ==
  ASSUME NEW w \in 0 .. Word - 1
  PROVE  \E q \in 0 .. Half - 1, r \in 0 .. Half - 1 :
           w = q * Half + r /\ q = w \div Half /\ r = w % Half
<1>0. Half \in Nat \ {0} /\ Word = Half * Half /\ w \in Nat
  BY Widths
<1>1. PICK q \in Nat, r \in 0 .. Half - 1 :
        w = Half * q + r /\ q = w \div Half /\ r = w % Half
  BY <1>0, DivMod
<1>2. q < Half
  <2>1. CASE q >= Half
    <3>1. PICK d \in Nat : q = Half + d
      BY <1>0, <2>1
    <3>2. Half * q = Half * Half + Half * d
      BY <1>0, <3>1
    <3>3. Half * d >= 0
      BY <1>0
    <3> QED
      BY <1>0, <1>1, <3>2, <3>3
  <2> QED
    BY <1>0, <2>1
<1> QED
  BY <1>0, <1>1, <1>2

LEMMA HalvesJoin ==
  ASSUME NEW q \in 0 .. Half - 1, NEW r \in 0 .. Half - 1
  PROVE  /\ q * Half + r \in 0 .. Word - 1
         /\ (q * Half + r) \div Half = q /\ (q * Half + r) % Half = r
<1>0. Half \in Nat \ {0} /\ Word = Half * Half
  BY Widths
<1>1. (Half * q + r) \div Half = q /\ (Half * q + r) % Half = r
  BY <1>0, DivModOf
<1>2. q * Half = Half * q
  BY <1>0
<1>3. q * Half + r <= Half * Half - 1
  <2> DEFINE d == Half - 1 - q
  <2>1. d \in Nat /\ q + d = Half - 1
    BY <1>0
  <2> HIDE DEF d
  <2>2. (q + d) * Half = q * Half + d * Half /\ d * Half >= 0
    BY <1>0, <2>1, Distribute
  <2>3. (q + d) * Half = Half * Half - Half
    BY <1>0, <2>1
  <2> QED
    BY <1>0, <2>2, <2>3
<1>4. q * Half >= 0
  BY <1>0
<1> QED
  BY <1>0, <1>1, <1>2, <1>3, <1>4

-----------------------------------------------------------------------------
(* The high half. *)

\* Adding the carry after the division is rounding before it.
LEMMA HiIsHighPart ==
  ASSUME NEW w \in 0 .. Word - 1
  PROVE  Hi(w) = HighPart(w) /\ Hi(w) \in 0 .. Half - 1
<1>0. Half \in Nat \ {0} /\ Sign \in Nat \ {0} /\ Half = 2 * Sign
  BY Widths
<1>1. PICK q \in 0 .. Half - 1, r \in 0 .. Half - 1 :
        w = q * Half + r /\ q = w \div Half /\ r = w % Half
  BY HalvesOf
<1>2. (w + Sign) \div Half = q + (IF r >= Sign THEN 1 ELSE 0)
  <2>1. CASE r >= Sign
    <3>1. Half * (q + 1) = q * Half + Half
      BY <1>0, Distribute
    <3>2. w + Sign = Half * (q + 1) + (r - Sign)
      BY <1>0, <1>1, <3>1
    <3>3. q + 1 \in Nat /\ r - Sign \in 0 .. Half - 1
      BY <1>0, <2>1
    <3>4. (Half * (q + 1) + (r - Sign)) \div Half = q + 1
      BY <1>0, <3>3, DivModOf
    <3> QED
      BY <2>1, <3>2, <3>4
  <2>2. CASE r < Sign
    <3>1. Half * q = q * Half
      BY <1>0, Distribute
    <3>2. w + Sign = Half * q + (r + Sign)
      BY <1>0, <1>1, <3>1
    <3>3. r + Sign \in 0 .. Half - 1
      BY <1>0, <2>2
    <3>4. (Half * q + (r + Sign)) \div Half = q
      BY <1>0, <3>3, DivModOf
    <3> QED
      BY <1>0, <2>2, <3>2, <3>4
  <2> QED
    BY <1>0, <2>1, <2>2
<1>3. Hi(w) = HighPart(w)
  BY <1>1, <1>2 DEF Hi, HighPart
<1>4. q + (IF r >= Sign THEN 1 ELSE 0) \in Nat
  BY <1>0
<1>5. Hi(w) \in 0 .. Half - 1
  BY <1>0, <1>1, <1>4, DivMod DEF Hi
<1> QED
  BY <1>3, <1>5

\* A lui of the high half and the sign-extended bottom half reach the word.
LEMMA ReachesWord ==
  ASSUME NEW w \in 0 .. Word - 1
  PROVE  Reached(HighPart(w), w % Half) = w
<1>0. /\ Half \in Nat \ {0} /\ Sign \in Nat \ {0} /\ Half = 2 * Sign
      /\ Word \in Nat \ {0} /\ Word = Half * Half
  BY Widths
<1>1. PICK q \in 0 .. Half - 1, r \in 0 .. Half - 1 :
        w = q * Half + r /\ q = w \div Half /\ r = w % Half
  BY HalvesOf
<1>2. HighPart(w) = (q + (IF r >= Sign THEN 1 ELSE 0)) % Half
  BY <1>1, HiIsHighPart DEF Hi
<1>3. w % Word = w /\ w \in Nat
  BY <1>0
<1>4. CASE r < Sign
  <2>1. HighPart(w) = q
    BY <1>0, <1>2, <1>4
  <2>2. ~ (w % Half >= Sign)
    BY <1>0, <1>1, <1>4
  <2>3. Reached(HighPart(w), w % Half) = (q * Half + r) % Word
    BY <1>1, <2>1, <2>2 DEF Reached
  <2> QED
    BY <1>1, <1>3, <2>3
<1>5. CASE r >= Sign
  <2>1. Reached(HighPart(w), w % Half) = (HighPart(w) * Half + (r + Word - Half)) % Word
    BY <1>1, <1>5 DEF Reached
  <2>2. CASE q + 1 < Half
    <3>1. HighPart(w) = q + 1
      BY <1>0, <1>2, <1>5, <2>2
    <3>2. (q + 1) * Half = q * Half + Half
      BY <1>0, Distribute
    <3>3. (q + 1) * Half + (r + Word - Half) = w + Word
      BY <1>0, <1>1, <3>2
    <3>4. (w + Word) % Word = w
      BY <1>0, <1>3, ModPlusSelf
    <3> QED
      BY <2>1, <3>1, <3>3, <3>4
  <2>3. CASE q + 1 = Half
    <3>1. HighPart(w) = 0
      BY <1>0, <1>2, <1>5, <2>3
    <3>2. q * Half + Half = Word
      <4>1. (q + 1) * Half = q * Half + 1 * Half
        BY <1>0, Distribute
      <4> QED
        BY <1>0, <2>3, <4>1
    <3>3. 0 * Half + (r + Word - Half) = w
      BY <1>0, <1>1, <3>2
    <3> QED
      BY <1>3, <2>1, <3>1, <3>3
  <2> QED
    BY <1>0, <2>2, <2>3
<1> QED
  BY <1>0, <1>4, <1>5

\* The high half that RelocateHi computes is that of the relocated address.
LEMMA HiExact ==
  ASSUME NEW a \in 0 .. Word - 1, NEW s \in 0 .. Word - 1, a % Half # Sign
  PROVE  Hi(((HighPart(a) * Half) + Displacement(a % Half) + s) % Word)
           = HighPart((a + s) % Word)
<1>0. /\ Half \in Nat \ {0} /\ Sign \in Nat \ {0} /\ Half = 2 * Sign
      /\ Word \in Nat \ {0} /\ Half <= Word
  BY Widths
<1>1. a \in Nat /\ s \in Nat
  BY <1>0
<1>2. a % Half \in 0 .. Half - 1 /\ HighPart(a) \in 0 .. Half - 1
  <2>1. a % Half \in 0 .. Half - 1
    BY <1>0, <1>1, DivMod
  <2> QED
    BY <2>1, HiIsHighPart
<1>3. PICK x \in Nat : x = (HighPart(a) * Half) + Displacement(a % Half)
  <2>1. Displacement(a % Half) \in Nat
    BY <1>0, <1>2 DEF Displacement
  <2>2. HighPart(a) * Half \in Nat
    BY <1>0, <1>2
  <2> QED
    BY <2>1, <2>2
<1>4. x % Word = a
  <2>1. Displacement(a % Half) = IF a % Half >= Sign THEN (a % Half) + Word - Half ELSE a % Half
    BY <1>0, <1>2 DEF Displacement
  <2>2. Reached(HighPart(a), a % Half) = x % Word
    BY <1>3, <2>1 DEF Reached
  <2> QED
    BY <2>2, ReachesWord
<1>5. ((x % Word) + s) % Word = (x + s) % Word
  BY <1>0, <1>1, ModOfSum
<1>6. (a + s) % Word \in 0 .. Word - 1
  BY <1>0, <1>1, DivMod
<1> QED
  BY <1>3, <1>4, <1>5, <1>6, HiIsHighPart

\* The other three kinds
LEMMA LoExact ==
  ASSUME NEW a \in 0 .. Word - 1, NEW s \in 0 .. Word - 1
  PROVE  ((a % Half) + s) % Half = ((a + s) % Word) % Half
<1>1. a \in Nat /\ s \in Nat /\ a + s \in Nat /\ Half \in Nat \ {0} /\ Word = Half * Half
  BY Widths
<1>2. ((a % Half) + s) % Half = (a + s) % Half
  BY <1>1, ModOfSum
<1>3. ((a + s) % (Half * Half)) % Half = (a + s) % Half
  BY <1>1, ModOfMod
<1> QED
  BY <1>1, <1>2, <1>3

LEMMA CallExact ==
  ASSUME NEW a \in 0 .. Word - 1, NEW s \in 0 .. Word - 1, a % 4 = 0
  PROVE  (((((a \div 4) % Field) * 4) + s) % (4 * Field)) \div 4
           = (((a + s) % Word) \div 4) % Field
<1>0. /\ a \in Nat /\ s \in Nat /\ Word \in Nat \ {0}
      /\ Field \in Nat \ {0} /\ Word % (4 * Field) = 0
  BY Widths, WidthsAssumption
<1>1. PICK n \in Nat \ {0} : n = 4 * Field
  BY <1>0
<1>2. PICK m \in Nat \ {0} : Word = n * m
  <2>1. Word = n * (Word \div n) + (Word % n) /\ Word \div n \in Nat
    BY <1>0, <1>1, DivMod
  <2>2. Word = n * (Word \div n)
    BY <1>0, <1>1, <2>1
  <2>3. Word \div n # 0
    BY <1>0, <1>1, <2>2
  <2> QED
    BY <2>1, <2>2, <2>3
\* Both sides are the quotient by 4 of the sum modulo 4 * Field.
<1>3. \A x \in Nat : (x % n) \div 4 = (x \div 4) % Field
  <2> SUFFICES ASSUME NEW x \in Nat PROVE (x % n) \div 4 = (x \div 4) % Field
    OBVIOUS
  <2>1. PICK b \in Nat, c \in 0 .. 3 : x = 4 * b + c /\ b = x \div 4
    OBVIOUS
  <2>2. PICK q \in Nat, r \in 0 .. Field - 1 : b = Field * q + r /\ r = b % Field
    BY <1>0, DivMod
  <2>3. x = n * q + (4 * r + c)
    <3>1. PICK fq \in Nat : fq = Field * q
      BY <1>0
    <3>2. 4 * fq = n * q
      BY <1>0, <1>1, <3>1
    <3>3. x = 4 * (fq + r) + c
      BY <2>1, <2>2, <3>1
    <3> QED
      BY <3>2, <3>3
  <2>4. PICK t \in 0 .. n - 1 : t = 4 * r + c
    BY <1>0, <1>1
  <2>5. (n * q + t) % n = t
    BY <1>1, DivModOf
  <2>6. (4 * r + c) \div 4 = r
    BY <1>0
  <2> QED
    BY <2>1, <2>2, <2>3, <2>4, <2>5, <2>6
<1>4. ((a \div 4) % Field) * 4 = a % n
  <2>1. (a % n) \div 4 = (a \div 4) % Field
    BY <1>0, <1>3
  <2>2. (a % n) % 4 = 0
    <3>1. (a % (4 * Field)) % 4 = a % 4
      BY <1>0, ModOfMod
    <3> QED
      BY <1>1, <3>1
  <2>3. a % n \in Nat
    BY <1>0, <1>1, DivMod
  <2>4. /\ a % n = 4 * ((a % n) \div 4) + ((a % n) % 4)
        /\ (a % n) \div 4 \in Nat
    BY <2>3, DivMod
  <2>5. PICK d \in Nat : d = (a % n) \div 4 /\ a % n = 4 * d
    BY <2>2, <2>4
  <2>6. d * 4 = 4 * d
    OBVIOUS
  <2> QED
    BY <2>1, <2>5, <2>6, ZenonT(30)
<1>5. ((a % n) + s) % n = (a + s) % n
  <2>1. a \in Nat /\ s \in Nat
    BY <1>0
  <2> QED
    BY <2>1, ModOfSum
<1>6. ((a + s) % Word) % n = (a + s) % n
  <2>1. a + s \in Nat
    BY <1>0
  <2> QED
    BY <1>2, <2>1, ModOfMod
<1>7. (a + s) % Word \in Nat
  BY <1>0, DivMod
<1>8. (((a + s) % Word) % n) \div 4 = (((a + s) % Word) \div 4) % Field
  BY <1>3, <1>7
<1> QED
  BY <1>1, <1>4, <1>5, <1>6, <1>8

-----------------------------------------------------------------------------
(* Types and opcodes, for any table. *)

OpcodeInv == TypeOK /\ elf \in Tables /\ KeepsOpcode

LEMMA FirstOf ==
  ASSUME NEW n \in Nat, NEW T, T \subseteq 1 .. n, T # {}
  PROVE  First(T) \in T /\ \A j \in T : First(T) <= j
BY LeastIndex DEF First

LEMMA TableFacts ==
  ASSUME TypeOK
  PROVE  /\ Len(elf) \in Nat /\ DOMAIN elf = 1 .. Len(elf)
         /\ \A i \in DOMAIN elf : /\ elf[i] \in Entry /\ text[i] \in 0 .. Word - 1
                                  /\ addr[elf[i].sym] \in 0 .. Word - 1
<1>1. elf \in Seq(Entry)
  BY DEF TypeOK
<1>2. Len(elf) \in Nat /\ DOMAIN elf = 1 .. Len(elf)
  BY <1>1
<1>3. \A i \in DOMAIN elf : elf[i] \in Entry
  BY <1>1
<1>4. \A i \in DOMAIN elf : elf[i].sym \in Syms
  BY <1>3 DEF Entry
<1> QED
  BY <1>2, <1>3, <1>4, TablesAssumption DEF TypeOK

LEMMA OpcodeWidths ==
  /\ Field \in Nat \ {0} /\ Opcode \in 0 .. Half - 1
  /\ \A y \in 0 .. Field - 1 : /\ (Opcode * Field) + y \in 0 .. Word - 1
                               /\ ((Opcode * Field) + y) \div Field = Opcode
                               /\ ((Opcode * Field) + y) % Field = y
<1>1. /\ Field \in Nat \ {0} /\ Opcode \in Nat /\ Opcode < Half
      /\ Opcode * Field + Field <= Word /\ Half \in Nat /\ Word \in Nat
  BY WidthsAssumption, Widths
<1>2. Opcode * Field \in Nat /\ Opcode * Field = Field * Opcode
  BY <1>1
<1>3. \A y \in 0 .. Field - 1 : /\ ((Field * Opcode) + y) \div Field = Opcode
                                /\ ((Field * Opcode) + y) % Field = y
  BY <1>1, DivModOf
<1> QED
  BY <1>1, <1>2, <1>3

LEMMA InPlaceFits ==
  ASSUME NEW e \in Entry
  PROVE  /\ InPlace(e) \in 0 .. Word - 1
         /\ e.type = "R_MIPS_HI16" =>
              InPlace(e) \div Half = Opcode /\ InPlace(e) % Half = HighPart(e.addend)
         /\ e.type = "R_MIPS_LO16" =>
              InPlace(e) \div Half = Opcode /\ InPlace(e) % Half = e.addend % Half
         /\ e.type = "R_MIPS_26" =>
              /\ InPlace(e) \div Field = Opcode
              /\ InPlace(e) % Field = (e.addend \div 4) % Field
<1>1. PICK a \in 0 .. Word - 1 : a = e.addend
  BY DEF Entry
<1>2. a \in Nat /\ a \div 4 \in Nat /\ Half \in Nat \ {0}
  BY Widths
<1>3. HighPart(a) \in 0 .. Half - 1 /\ a % Half \in 0 .. Half - 1
  BY <1>2, HiIsHighPart, DivMod
<1>4. (a \div 4) % Field \in 0 .. Field - 1
  BY <1>2, OpcodeWidths, DivMod
<1>5. CASE e.type = "R_MIPS_HI16"
  BY <1>1, <1>3, <1>5, OpcodeWidths, HalvesJoin DEF InPlace
<1>6. CASE e.type = "R_MIPS_LO16"
  BY <1>1, <1>3, <1>6, OpcodeWidths, HalvesJoin DEF InPlace
<1>7. CASE e.type = "R_MIPS_26"
  BY <1>1, <1>4, <1>7, OpcodeWidths DEF InPlace
<1>8. CASE e.type \in {"R_MIPS_32", "other"}
  BY <1>1, <1>8 DEF InPlace
<1> QED
  BY <1>5, <1>6, <1>7, <1>8 DEF Entry, Types

LEMMA RelocatedFits ==
  ASSUME OpcodeInv, NEW i \in DOMAIN elf, ~ Is(elf, i, "other"),
         NEW s \in 0 .. Word - 1
  PROVE  /\ Relocated(i, s) \in 0 .. Word - 1
         /\ elf[i].type \in {"R_MIPS_HI16", "R_MIPS_LO16"} =>
              Relocated(i, s) \div Half = Opcode
         /\ Is(elf, i, "R_MIPS_26") => Relocated(i, s) \div Field = Opcode
<1>0. /\ TypeOK /\ Half \in Nat \ {0} /\ Word \in Nat \ {0} /\ Opcode \in 0 .. Half - 1
      /\ Sign \in Nat /\ Half <= Word /\ Field \in Nat \ {0} /\ s \in Nat
  BY Widths, OpcodeWidths DEF OpcodeInv
<1>1. text[i] \in 0 .. Word - 1 /\ text[i] \in Nat /\ elf[i] \in Entry
  BY <1>0, TableFacts
<1>2. CASE Is(elf, i, "R_MIPS_32")
  <2>0. PICK x \in Nat : x = text[i] + s
    BY <1>0, <1>1
  <2>1. x % Word \in 0 .. Word - 1
    BY <1>0, DivMod
  <2> QED
    BY <1>2, <2>0, <2>1 DEF Relocated, Is
<1>3. CASE Is(elf, i, "R_MIPS_26")
  <2>1. text[i] \div Field = Opcode
    BY <1>3 DEF OpcodeInv, KeepsOpcode
  <2>2. PICK n \in Nat \ {0}, x \in Nat :
          n = 4 * Field /\ x = ((text[i] % Field) * 4) + s
    <3>1. text[i] % Field \in Nat
      BY <1>0, <1>1, DivMod
    <3> QED
      BY <1>0, <3>1
  <2>3. PICK y \in 0 .. n - 1 : y = x % n
    BY DivMod
  <2>4. y \div 4 \in 0 .. Field - 1
    BY <1>0, <2>2, <2>3
  <2>5. Relocated(i, s) = (Opcode * Field) + (y \div 4)
    BY <1>3, <2>1, <2>2, <2>3 DEF Relocated, RelocateCall, Is
  <2> QED
    BY <1>3, <2>4, <2>5, OpcodeWidths DEF Is
<1>4. CASE Is(elf, i, "R_MIPS_HI16")
  <2>1. text[i] \div Half = Opcode
    BY <1>4 DEF OpcodeInv, KeepsOpcode, Is
  <2>2. CASE LaterLo(i) = {}
    BY <1>1, <1>4, <2>1, <2>2 DEF Relocated, RelocateHi, Is
  <2>3. CASE LaterLo(i) # {}
    <3>1. First(LaterLo(i)) \in DOMAIN elf
      BY <1>0, <2>3, TableFacts, FirstOf DEF LaterLo, TypeOK
    <3>2. PICK lo \in 0 .. Half - 1 : lo = text[First(LaterLo(i))] % Half
      <4>1. PICK x \in Nat : x = text[First(LaterLo(i))]
        BY <1>0, <3>1, TableFacts
      <4> QED
        BY <1>0, <4>1, DivMod
    <3>3. PICK hi \in 0 .. Half - 1 : hi = text[i] % Half
      BY <1>0, <1>1, DivMod
    <3>4. (hi * Half) + Displacement(lo) + s \in Nat
      <4>1. hi * Half \in Nat /\ Displacement(lo) \in Nat
        BY <1>0 DEF Displacement
      <4> QED
        BY <1>0, <4>1
    <3>5. PICK a \in 0 .. Word - 1 : a = ((hi * Half) + Displacement(lo) + s) % Word
      BY <1>0, <3>4, DivMod
    <3>6. Relocated(i, s) = (Opcode * Half) + Hi(a)
      BY <1>4, <2>1, <2>3, <3>2, <3>3, <3>5 DEF Relocated, RelocateHi, Is
    <3>7. Hi(a) \in 0 .. Half - 1
      BY HiIsHighPart
    <3> QED
      BY <1>0, <1>4, <3>6, <3>7, HalvesJoin DEF Is
  <2> QED
    BY <2>2, <2>3
<1>5. CASE Is(elf, i, "R_MIPS_LO16")
  <2>1. text[i] \div Half = Opcode
    BY <1>5 DEF OpcodeInv, KeepsOpcode, Is
  <2>2. ((text[i] % Half) + s) % Half \in 0 .. Half - 1
    <3>1. PICK x \in Nat : x = (text[i] % Half) + s
      <4>1. text[i] % Half \in Nat
        BY <1>0, <1>1, DivMod
      <4> QED
        BY <1>0, <4>1
    <3> QED
      BY <1>0, <3>1, DivMod
  <2>3. Relocated(i, s) = (Opcode * Half) + (((text[i] % Half) + s) % Half)
    BY <1>5, <2>1 DEF Relocated, RelocateLo, Is
  <2> QED
    BY <1>0, <1>5, <2>2, <2>3, HalvesJoin DEF Is
<1> QED
  BY <1>1, <1>2, <1>3, <1>4, <1>5 DEF Is, Entry, Types

LEMMA InitOpcode == Init => OpcodeInv
<1> SUFFICES ASSUME Init PROVE OpcodeInv
  OBVIOUS
<1>1. elf \in Tables /\ elf \in Seq(Entry)
  BY TablesAssumption DEF Init
<1>2. \A i \in DOMAIN elf : elf[i] \in Entry /\ text[i] = InPlace(elf[i])
  BY <1>1 DEF Init
<1>3. TypeOK
  BY <1>1, <1>2, InPlaceFits DEF Init, TypeOK, RelocBuild
<1>4. KeepsOpcode
  BY <1>2, InPlaceFits DEF KeepsOpcode, Is
<1> QED
  BY <1>1, <1>3, <1>4 DEF OpcodeInv

LEMMA NextOpcode == OpcodeInv /\ [Next]_vars => OpcodeInv'
<1> SUFFICES ASSUME OpcodeInv, [Next]_vars PROVE OpcodeInv'
  OBVIOUS
<1>0. TypeOK /\ elf \in Tables /\ KeepsOpcode
  BY DEF OpcodeInv
<1>1. CASE ApplyReloc
  <2>1. PICK i : i = First(todo)
    OBVIOUS
  <2>2. i \in DOMAIN elf
    BY <1>0, <1>1, <2>1, TableFacts, FirstOf DEF ApplyReloc, TypeOK
  <2>3. /\ ~ Is(elf, i, "other") /\ todo' = todo \ {i}
        /\ text' = [text EXCEPT ![i] = Relocated(i, addr[elf[i].sym])]
        /\ UNCHANGED <<elf, addr, pass, halted>>
    BY <1>1, <2>1 DEF ApplyReloc
  <2>4. PICK w : w = Relocated(i, addr[elf[i].sym])
    OBVIOUS
  <2>5. /\ w \in 0 .. Word - 1
        /\ elf[i].type \in {"R_MIPS_HI16", "R_MIPS_LO16"} => w \div Half = Opcode
        /\ Is(elf, i, "R_MIPS_26") => w \div Field = Opcode
    BY <1>0, <2>2, <2>3, <2>4, TableFacts, RelocatedFits
  <2>6. text' = [text EXCEPT ![i] = w]
    BY <2>3, <2>4
  <2>7. TypeOK'
    BY <1>0, <2>3, <2>5, <2>6 DEF TypeOK
  <2>8. \A j \in DOMAIN elf : text'[j] = IF j = i THEN w ELSE text[j]
    BY <1>0, <2>6 DEF TypeOK
  <2>9. KeepsOpcode'
    BY <1>0, <2>3, <2>5, <2>8 DEF KeepsOpcode, Is
  <2> QED
    BY <1>0, <2>3, <2>7, <2>9 DEF OpcodeInv
<1>2. CASE InvalidType
  BY <1>0, <1>2 DEF InvalidType, OpcodeInv, TypeOK, KeepsOpcode, Is
<1>3. CASE NextTable
  <2>1. UNCHANGED <<elf, addr, text, halted>> /\ todo' \subseteq DOMAIN elf
    BY <1>3 DEF NextTable, RelocBuild
  <2>2. pass' \in {"internal", "external", "done"}
    BY <1>3 DEF NextTable
  <2> QED
    BY <1>0, <2>1, <2>2 DEF OpcodeInv, TypeOK, KeepsOpcode, Is
<1>4. CASE UNCHANGED vars
  BY <1>0, <1>4 DEF vars, OpcodeInv, TypeOK, KeepsOpcode, Is
<1> QED
  BY <1>1, <1>2, <1>3, <1>4 DEF Next

\* Words stay words, and no relocation reaches an opcode (uso.c:250, 288, 299).
THEOREM OpcodesKept == Spec => [](TypeOK /\ KeepsOpcode)
<1>1. OpcodeInv => TypeOK /\ KeepsOpcode
  BY DEF OpcodeInv
<1> QED
  BY <1>1, InitOpcode, NextOpcode, PTL DEF Spec

\* The words, the addresses and the state of the linking have their types through
\* every relocation (uso.c:214-320).
THEOREM TypeCorrect == Spec => []TypeOK
<1>1. OpcodeInv => TypeOK
  BY DEF OpcodeInv
<1> QED
  BY <1>1, InitOpcode, NextOpcode, PTL DEF Spec

-----------------------------------------------------------------------------
(* Every reference reaches its symbol. *)

\* What a word holds once its entry is applied
Linked(e) ==
  CASE e.type = "R_MIPS_32"   -> Meant(e)
    [] e.type = "R_MIPS_26"   -> (Opcode * Field) + ((Meant(e) \div 4) % Field)
    [] e.type = "R_MIPS_HI16" -> (Opcode * Half) + HighPart(Meant(e))
    [] e.type = "R_MIPS_LO16" -> (Opcode * Half) + (Meant(e) % Half)
    [] OTHER                  -> e.addend

Pending(i) == i \in todo \/ (pass = "internal" /\ elf[i].sym \in Undefined)

\* The loop applies the table in order, so the LO16 of a HI16 is still in place.
RelocInv ==
  /\ OpcodeInv
  /\ todo \subseteq RelocBuild(elf, pass)
  /\ pass = "done" => todo = {}
  /\ \A i \in todo : \A j \in RelocBuild(elf, pass) : i < j => j \in todo
  /\ \A i \in DOMAIN elf :
       text[i] = IF Pending(i) THEN InPlace(elf[i]) ELSE Linked(elf[i])

LEMMA LoStillInPlace ==
  ASSUME RelocInv, NEW i \in todo, Is(elf, i, "R_MIPS_HI16")
  PROVE  \E j \in DOMAIN elf :
           /\ LaterLo(i) # {} /\ First(LaterLo(i)) = j
           /\ text[j] = InPlace(elf[j]) /\ Is(elf, j, "R_MIPS_LO16")
           /\ elf[j].addend = elf[i].addend
<1>0. /\ TypeOK /\ todo \subseteq DOMAIN elf /\ i \in DOMAIN elf /\ Assembled(elf)
      /\ Len(elf) \in Nat /\ DOMAIN elf = 1 .. Len(elf)
  BY TablesAssumption, TableFacts DEF RelocInv, OpcodeInv, TypeOK
<1>1. PICK k \in DOMAIN elf : Paired(elf, i, k)
  BY <1>0 DEF Assembled
<1>2. k \in RelocBuild(elf, pass)
  BY <1>0, <1>1 DEF Paired, SameReference, RelocInv, RelocBuild
<1>3. k \in todo /\ k \in LaterLo(i)
  BY <1>1, <1>2 DEF Paired, SameReference, RelocInv, LaterLo
<1>4. PICK j : j = First(LaterLo(i))
  OBVIOUS
<1>5. LaterLo(i) \subseteq 1 .. Len(elf)
  BY <1>0 DEF LaterLo
<1>6. j \in LaterLo(i) /\ j <= k
  BY <1>0, <1>3, <1>4, <1>5, FirstOf
<1>7. j = k
  <2>1. ~ (j \in i + 1 .. k - 1)
    BY <1>1, <1>6 DEF Paired, LaterLo
  <2>2. j > i /\ j \in 1 .. Len(elf) /\ k \in 1 .. Len(elf) /\ i \in 1 .. Len(elf)
    BY <1>0, <1>5, <1>6 DEF LaterLo
  <2> QED
    BY <1>0, <1>6, <2>1, <2>2
<1>8. text[k] = InPlace(elf[k])
  BY <1>0, <1>3 DEF RelocInv, Pending
<1> QED
  BY <1>0, <1>1, <1>3, <1>4, <1>7, <1>8 DEF Paired, SameReference

LEMMA RelocatedIsLinked ==
  ASSUME RelocInv, OffBoundary(elf), NEW i \in todo, ~ Is(elf, i, "other")
  PROVE  Relocated(i, addr[elf[i].sym]) = Linked(elf[i])
<1>0. TypeOK /\ i \in DOMAIN elf /\ elf[i] \in Entry
  BY TableFacts DEF RelocInv, OpcodeInv, TypeOK
<1>1. PICK s \in 0 .. Word - 1, a \in 0 .. Word - 1 :
        s = addr[elf[i].sym] /\ a = elf[i].addend
  BY <1>0, TableFacts DEF Entry
<1>2. Meant(elf[i]) = (a + s) % Word
  BY <1>1 DEF Meant
<1>3. text[i] = InPlace(elf[i])
  BY <1>0 DEF RelocInv, Pending
<1>4. CASE Is(elf, i, "R_MIPS_32")
  <2>1. text[i] = a
    BY <1>1, <1>3, <1>4 DEF InPlace, Is
  <2> QED
    BY <1>1, <1>2, <1>4, <2>1 DEF Relocated, Linked, Is
<1>5. CASE Is(elf, i, "R_MIPS_26")
  <2>1. text[i] \div Field = Opcode /\ text[i] % Field = (a \div 4) % Field
    BY <1>0, <1>1, <1>3, <1>5, InPlaceFits DEF Is
  <2>2. a % 4 = 0
    BY <1>0, <1>1, <1>5, TablesAssumption DEF RelocInv, OpcodeInv, Assembled
  <2>3. Relocated(i, s) = (Opcode * Field)
          + ((((((a \div 4) % Field) * 4) + s) % (4 * Field)) \div 4)
    BY <1>5, <2>1 DEF Relocated, RelocateCall, Is
  <2>4. Relocated(i, s) = (Opcode * Field) + ((((a + s) % Word) \div 4) % Field)
    BY <2>2, <2>3, CallExact
  <2> QED
    BY <1>1, <1>2, <1>5, <2>4 DEF Linked, Is
<1>6. CASE Is(elf, i, "R_MIPS_HI16")
  <2>1. text[i] \div Half = Opcode /\ text[i] % Half = HighPart(a)
    BY <1>0, <1>1, <1>3, <1>6, InPlaceFits DEF Is
  <2>2. PICK j \in DOMAIN elf :
          /\ LaterLo(i) # {} /\ First(LaterLo(i)) = j
          /\ text[j] = InPlace(elf[j]) /\ Is(elf, j, "R_MIPS_LO16")
          /\ elf[j].addend = a
    BY <1>1, <1>6, LoStillInPlace
  <2>3. text[j] % Half = a % Half
    BY <1>0, <2>2, TableFacts, InPlaceFits DEF Is
  <2>4. Relocated(i, s) = (Opcode * Half)
          + Hi(((HighPart(a) * Half) + Displacement(a % Half) + s) % Word)
    BY <1>6, <2>1, <2>2, <2>3 DEF Relocated, RelocateHi, Is
  <2>5. a % Half # Sign
    BY <1>0, <1>1, <1>6 DEF OffBoundary
  <2>6. Relocated(i, s) = (Opcode * Half) + HighPart((a + s) % Word)
    BY <2>4, <2>5, HiExact
  <2> QED
    BY <1>1, <1>2, <1>6, <2>6 DEF Linked, Is
<1>7. CASE Is(elf, i, "R_MIPS_LO16")
  <2>1. text[i] \div Half = Opcode /\ text[i] % Half = a % Half
    BY <1>0, <1>1, <1>3, <1>7, InPlaceFits DEF Is
  <2>2. Relocated(i, s) = (Opcode * Half) + (((a % Half) + s) % Half)
    BY <1>7, <2>1 DEF Relocated, RelocateLo, Is
  <2>3. Relocated(i, s) = (Opcode * Half) + (((a + s) % Word) % Half)
    BY <2>2, LoExact
  <2> QED
    BY <1>1, <1>2, <1>7, <2>3 DEF Linked, Is
<1> QED
  BY <1>0, <1>4, <1>5, <1>6, <1>7 DEF Is, Entry, Types

LEMMA InitReloc == Init => RelocInv
<1> SUFFICES ASSUME Init PROVE RelocInv
  OBVIOUS
<1>1. OpcodeInv
  BY InitOpcode
<1>2. \A i \in DOMAIN elf : Pending(i) /\ text[i] = InPlace(elf[i])
  BY DEF Init, RelocBuild, Pending
<1> QED
  BY <1>1, <1>2 DEF Init, RelocInv

LEMMA NextReloc ==
  ASSUME \A t \in Tables : OffBoundary(t), RelocInv, [Next]_vars
  PROVE  RelocInv'
<1>0. OpcodeInv' /\ TypeOK /\ todo \subseteq DOMAIN elf /\ elf \in Tables
  BY NextOpcode DEF RelocInv, OpcodeInv, TypeOK
<1>1. CASE ApplyReloc
  <2>1. PICK i : i = First(todo)
    OBVIOUS
  <2>2. i \in todo /\ \A j \in todo : i <= j
    BY <1>0, <1>1, <2>1, TableFacts, FirstOf DEF ApplyReloc
  <2>3. /\ ~ Is(elf, i, "other") /\ todo' = todo \ {i}
        /\ text' = [text EXCEPT ![i] = Relocated(i, addr[elf[i].sym])]
        /\ UNCHANGED <<elf, addr, pass, halted>>
    BY <1>1, <2>1 DEF ApplyReloc
  <2>4. PICK w : w = Relocated(i, addr[elf[i].sym]) /\ w = Linked(elf[i])
    BY <1>0, <2>2, <2>3, RelocatedIsLinked
  <2>5. \A j \in DOMAIN elf : text'[j] = IF j = i THEN w ELSE text[j]
    BY <1>0, <2>3, <2>4 DEF TypeOK
  <2>6. \A j : Linked(elf[j])' = Linked(elf[j])
    BY <2>3 DEF Linked, Meant
  <2>7. /\ ~ Pending(i)'
        /\ \A j \in DOMAIN elf : j # i => (Pending(j)' <=> Pending(j))
    BY <2>2, <2>3 DEF Pending, RelocInv, RelocBuild
  <2>8. \A j \in DOMAIN elf :
          text'[j] = IF Pending(j)' THEN InPlace(elf[j]) ELSE Linked(elf[j])
    BY <2>2, <2>4, <2>5, <2>7 DEF RelocInv
  <2>9. \A j \in todo' : \A k \in RelocBuild(elf, pass) : j < k => k \in todo'
    <3> SUFFICES ASSUME NEW j \in todo', NEW k \in RelocBuild(elf, pass), j < k
                 PROVE  k \in todo'
      OBVIOUS
    <3>1. k \in todo /\ j \in todo /\ i <= j
      BY <2>2, <2>3 DEF RelocInv
    <3>2. i \in Nat /\ j \in Nat /\ k \in Nat
      BY <1>0, <2>2, <3>1, TableFacts
    <3> QED
      BY <2>3, <3>1, <3>2
  <2>10. /\ todo' \subseteq RelocBuild(elf, pass)
         /\ pass = "done" => todo' = {}
    BY <2>3 DEF RelocInv
  <2> QED
    BY <1>0, <2>3, <2>6, <2>8, <2>9, <2>10 DEF RelocInv, RelocBuild
<1>2. CASE UNCHANGED <<elf, addr, pass, todo, text>>
  <2>1. \A j : (Pending(j)' <=> Pending(j)) /\ Linked(elf[j])' = Linked(elf[j])
    BY <1>2 DEF Pending, Linked, Meant
  <2> QED
    BY <1>0, <1>2, <2>1 DEF RelocInv, RelocBuild
<1>3. CASE NextTable
  <2>1. UNCHANGED <<elf, addr, text, halted>> /\ todo = {}
    BY <1>3 DEF NextTable
  <2>2. \A j : Linked(elf[j])' = Linked(elf[j])
    BY <2>1 DEF Linked, Meant
  <2>3. CASE pass = "internal"
    <3>1. pass' = "external" /\ todo' = RelocBuild(elf, "external")
      BY <1>3, <2>3 DEF NextTable
    <3>2. \A j \in DOMAIN elf : Pending(j)' <=> Pending(j)
      BY <2>1, <2>3, <3>1 DEF Pending, RelocBuild
    <3> QED
      BY <1>0, <2>1, <2>2, <3>1, <3>2 DEF RelocInv, RelocBuild
  <2>4. CASE pass # "internal"
    <3>1. pass' = "done" /\ todo' = {}
      BY <1>3, <2>4 DEF NextTable
    <3>2. \A j \in DOMAIN elf : ~ Pending(j)' /\ ~ Pending(j)
      BY <2>1, <2>4, <3>1 DEF Pending
    <3> QED
      BY <1>0, <2>1, <2>2, <3>1, <3>2 DEF RelocInv
  <2> QED
    BY <2>3, <2>4
<1> QED
  BY <1>1, <1>2, <1>3 DEF Next, InvalidType, vars

LEMMA LinkedReaches == RelocInv => ReachesSymbol
<1> SUFFICES ASSUME RelocInv, pass = "done", NEW i \in DOMAIN elf
             PROVE  /\ Is(elf, i, "R_MIPS_32") => text[i] = Meant(elf[i])
                    /\ Is(elf, i, "R_MIPS_26") =>
                         text[i] % Field = (Meant(elf[i]) \div 4) % Field
                    /\ Is(elf, i, "R_MIPS_HI16") =>
                         \A j \in DOMAIN elf : SameReference(elf, i, j) =>
                           Reached(text[i] % Half, text[j] % Half) = Meant(elf[i])
  BY DEF ReachesSymbol
<1>1. \A j \in DOMAIN elf : text[j] = Linked(elf[j])
  BY DEF RelocInv, Pending
<1>2. PICK w \in 0 .. Word - 1 : w = Meant(elf[i])
  <2>1. PICK x \in Nat : x = elf[i].addend + addr[elf[i].sym]
    BY TableFacts, Widths DEF RelocInv, OpcodeInv, Entry
  <2> QED
    BY <2>1, Widths, DivMod DEF Meant
<1>3. Opcode \in 0 .. Half - 1 /\ Half \in Nat \ {0} /\ Field \in Nat \ {0} /\ w \in Nat
  BY OpcodeWidths, Widths
<1>4. CASE Is(elf, i, "R_MIPS_32")
  BY <1>1, <1>4 DEF Linked, Is
<1>5. CASE Is(elf, i, "R_MIPS_26")
  <2>1. PICK y \in 0 .. Field - 1 : y = (w \div 4) % Field
    <3>1. w \div 4 \in Nat
      BY <1>3
    <3> QED
      BY <1>3, <3>1, DivMod
  <2>2. text[i] = (Opcode * Field) + y
    BY <1>1, <1>2, <1>5, <2>1 DEF Linked, Is
  <2> QED
    BY <1>2, <1>5, <2>1, <2>2, OpcodeWidths DEF Is
<1>6. ASSUME Is(elf, i, "R_MIPS_HI16"), NEW j \in DOMAIN elf,
             SameReference(elf, i, j)
      PROVE  Reached(text[i] % Half, text[j] % Half) = Meant(elf[i])
  <2>1. Is(elf, j, "R_MIPS_LO16") /\ Meant(elf[j]) = w
    BY <1>2, <1>6 DEF SameReference, Meant
  <2>2. w % Half \in 0 .. Half - 1 /\ HighPart(w) \in 0 .. Half - 1
    BY <1>3, DivMod, HiIsHighPart
  <2>3. text[i] = (Opcode * Half) + HighPart(w) /\ text[j] = (Opcode * Half) + (w % Half)
    BY <1>1, <1>2, <1>6, <2>1 DEF Linked, Is
  <2>4. text[i] % Half = HighPart(w) /\ text[j] % Half = w % Half
    BY <1>3, <2>2, <2>3, HalvesJoin
  <2> QED
    BY <1>2, <2>4, ReachesWord
<1> QED
  BY <1>4, <1>5, <1>6 DEF Is

\* For words of any width and any table whose HI16 addends do not end in the one
\* bottom half that uso.c:274 does not sign-extend, linking makes every pointer,
\* call, and HI16 with every LO16 of its symbol and addend reach the symbol
\* (uso.c:214-320).
THEOREM LinkReaches ==
  ASSUME \A t \in Tables : OffBoundary(t)
  PROVE  Spec => []ReachesSymbol
<1>1. Init => RelocInv
  BY InitReloc
<1>2. RelocInv /\ [Next]_vars => RelocInv'
  BY NextReloc
<1> QED
  BY <1>1, <1>2, LinkedReaches, PTL DEF Spec

=============================================================================

----------------------------- MODULE MCUsoReloc -----------------------------
(***************************************************************************)
(* Instances of UsoReloc with words of 6 bits: halves of 3, a target field *)
(* of 2.  A program is two references, each to any symbol with any of the  *)
(* addends, in the forms a compiler emits: a pointer, a call, one lui for  *)
(* one or two uses of the bottom half, two lui for one use.                *)
(***************************************************************************)
EXTENDS UsoReloc, SequencesExt

CONSTANTS local, import

CONSTANT Addends

Entries(types, sym, addend) ==
  [k \in DOMAIN types |-> [type |-> types[k], sym |-> sym, addend |-> addend]]

Forms ==
  {<<"R_MIPS_32">>, <<"R_MIPS_26">>, <<"other">>,
   <<"R_MIPS_HI16", "R_MIPS_LO16">>,
   <<"R_MIPS_HI16", "R_MIPS_LO16", "R_MIPS_LO16">>,
   <<"R_MIPS_HI16", "R_MIPS_HI16", "R_MIPS_LO16">>}

References == {Entries(types, s, a) : types \in Forms, s \in Syms, a \in Addends}

\* The second reference may also stand between the words of the first.
Programs ==
  {p \o q : p \in References, q \in References}
    \cup {<<p[1]>> \o q \o Tail(p) : p \in References, q \in References}

MCTables == {t \in Programs : Assembled(t)}

\* The sign boundary of the bottom half, 4 modulo 8, is in the second set only.
PlainAddends == {0, 3, 40, 63}
BoundaryAddends == {4, 60}
MCAddresses == {0, 12, 47}

=============================================================================

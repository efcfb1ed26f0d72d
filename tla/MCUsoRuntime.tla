---------------------------- MODULE MCUsoRuntime ----------------------------
(***************************************************************************)
(* Instances of UsoRuntime for TLC.  "base" and "alt" both export f, as    *)
(* two USOs that carry the same inline C++ function do; "user" and "peer"  *)
(* import f, and "user" also imports w, weakly, which only "alt" exports.  *)
(* The other images serve one question each.                               *)
(***************************************************************************)
EXTENDS UsoRuntime, TLC

CONSTANTS base, alt, user, peer, f, w, pro, epi

MCSymbols == {f, w, pro, epi}
MCContract == ContractClauses
MCSymmetry == Permutations(Handles) \cup Permutations(Vars)

\* A table with one row per file, from rows that are not empty.
Table(rows) == [x \in Files |-> IF x \in DOMAIN rows THEN rows[x] ELSE {}]

MCExports == Table((base :> {f, pro, epi}) @@ (alt :> {f, w}) @@ (user :> {pro, epi}) @@ (peer :> {epi}))
MCImports == Table((user :> {f, w}) @@ (peer :> {f}))
MCWeak == Table(user :> {w})
MCEhFrame == Files \ {alt}

\* "peer" exports nothing: its image has no export symbol table.
BareExports == [x \in Files |-> IF x = peer THEN {} ELSE MCExports[x]]

\* "base" and "user" each import a name that the other exports, "base" from the
\* main program; "peer" imports from "base" and exports nothing.
KnotExports == Table((base :> {f, pro, epi}) @@ (user :> {w, pro, epi}))
KnotImports == Table((base :> {w}) @@ (user :> {f}) @@ (peer :> {f}))

NoImports == Table(<<>>)

\* The contract with a clause left out.
OpensWhileEnding == ContractClauses \ {"not_ending"}

=============================================================================

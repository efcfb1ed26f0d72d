----------------------------- MODULE MCUsoBuild -----------------------------
(***************************************************************************)
(* Instances of UsoBuild.  Every USO has "_prolog" of its own; "call" is   *)
(* exported by a USO or defined by the program on request, "lib" by the    *)
(* program only; "end" is defined by the program and not exported.         *)
(***************************************************************************)
EXTENDS UsoBuild

CONSTANTS _prolog, call, lib, end

MCNames == {_prolog, call, lib, end}

Undef(name, bind, type) ==
  [name |-> name, bind |-> bind, type |-> type, section |-> "undef", default |-> TRUE, null |-> TRUE]
Def(name, default) ==
  [name |-> name, bind |-> "global", type |-> "func", section |-> "output",
   default |-> default, null |-> FALSE]

Importer == {Undef(call, "global", "notype"), Undef(lib, "global", "notype"), Def(_prolog, FALSE)}
Exporter == {Def(call, TRUE), Undef(lib, "global", "func"), Def(_prolog, FALSE)}
Hider == {Def(call, FALSE), Undef(end, "global", "notype"), Def(_prolog, TRUE)}
CallsHook == {Undef(_prolog, "global", "notype"), Def(lib, TRUE)}
HasCommon == {[Def(call, TRUE) EXCEPT !.section = "common"]}
NullValue == {[Def(call, TRUE) EXCEPT !.section = "other", !.null = TRUE]}
WeakImporter == {Undef(call, "weak", "notype"), Def(_prolog, FALSE)}

MCElfs == {Importer, Exporter, Hider, CallsHook, HasCommon, NullValue}
WeakElfs == {Importer, WeakImporter}

Defs(S) == [name : S, null : {FALSE}]
MCPrograms ==
  {[defs |-> Defs({end}), request |-> Defs({call, lib})],
   [defs |-> Defs({end, lib}), request |-> {}],
   [defs |-> Defs({}), request |-> [name : {lib}, null : {TRUE}]]}

=============================================================================

------------------------------ MODULE UsoLoader ------------------------------
(***************************************************************************)
(* What src/src/uso.h promises of a loader of shared objects, without      *)
(* handles, list or callbacks: a file is loaded at most once, each open    *)
(* takes a reference, a file is linked against files that are loaded, and  *)
(* it is unloaded only when no reference remains and no loaded file uses   *)
(* it.  UsoRuntime implements this.                                        *)
(***************************************************************************)
EXTENDS Naturals

CONSTANT Files

VARIABLES
  loaded, \* the loaded files
  refs,   \* file -> number of references, 0 when it is not loaded
  uses    \* pairs <<f, g>>: f is linked against a symbol of g

loaderVars == <<loaded, refs, uses>>

Init == loaded = {} /\ refs = [f \in Files |-> 0] /\ uses = {}

\* The first open links f against the loaded files D.
Load(f, D) ==
  /\ f \notin loaded
  /\ loaded' = loaded \cup {f}
  /\ refs' = [refs EXCEPT ![f] = 1]
  /\ uses' = uses \cup ({f} \X D)

Acquire(f) ==
  /\ f \in loaded
  /\ refs' = [refs EXCEPT ![f] = @ + 1]
  /\ UNCHANGED <<loaded, uses>>

Release(f) ==
  /\ f \in loaded /\ refs[f] > 0
  /\ refs' = [refs EXCEPT ![f] = @ - 1]
  /\ UNCHANGED <<loaded, uses>>

Unload(f) ==
  /\ f \in loaded /\ refs[f] = 0
  /\ \A g \in loaded : <<g, f>> \notin uses
  /\ loaded' = loaded \ {f}
  /\ uses' = {u \in uses : u[1] # f}
  /\ UNCHANGED refs

Next ==
  \E f \in Files :
    (\E D \in SUBSET loaded : Load(f, D)) \/ Acquire(f) \/ Release(f) \/ Unload(f)

Spec == Init /\ [][Next]_loaderVars

=============================================================================

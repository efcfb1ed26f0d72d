----------------------------- MODULE UsoRuntime -----------------------------
(***************************************************************************)
(* The USO runtime of src/src/uso.c: the list of loaded USOs, their        *)
(* reference counts, the binding of their import symbols, and the user     *)
(* code (constructors, _prolog, _epilog, destructors) that uso_open and    *)
(* uso_close call back and that may itself call uso_open and uso_close.    *)
(*                                                                         *)
(* There is one thread of control.  The user code in progress is a stack   *)
(* of frames, one for each uso_open or uso_close that is waiting for a     *)
(* constructor, a hook or a destructor to return; everything those two     *)
(* functions do between two callbacks is one action.                       *)
(***************************************************************************)
EXTENDS Naturals, Sequences, FiniteSets

CONSTANTS
  Files,      \* the file names given to uso_open
  Rom,        \* the ones fopen finds
  Symbols,    \* symbol names
  Prolog,     \* the symbol "_prolog"
  Epilog,     \* the symbol "_epilog"
  Exports,    \* the names in the export symbol table of each file
  Imports,    \* the names in its import symbol table
  Weak,       \* the imports whose name_len has its top bit set
  HasEhFrame, \* the files whose .eh_frame section is not empty
  GlobalSyms, \* the names in the global symbol file given to uso_init
  Handles,    \* the addresses at which malloc can place a handle
  Vars,       \* the program's uso_handle_t pointer variables
  Global,     \* stands for an address in the main program
  NULL,
  MaxDepth,   \* bound: nested uso_open and uso_close calls
  Contract    \* the clauses of ContractClauses the program observes

\* What a program must do for the guarantees below; see MayOpen and MayClose.
ContractClauses ==
  {"init", "memory", "valid", "balanced", "not_on_stack", "not_ending"}

ASSUME ImagesAssumption ==
  /\ Rom \subseteq Files
  /\ Exports \in [Files -> SUBSET Symbols]
  /\ Imports \in [Files -> SUBSET Symbols]
  /\ \A f \in Files : /\ Weak[f] \subseteq Imports[f]
                      /\ Imports[f] \cap (Exports[f] \cup {Prolog, Epilog}) = {}
  /\ HasEhFrame \subseteq Files

ASSUME ValuesAssumption ==
  /\ NULL \notin Handles /\ NULL \notin Files
  /\ Global \notin Handles /\ Global # NULL
  /\ IsFiniteSet(Vars)
  /\ MaxDepth \in Nat
  /\ Contract \subseteq ContractClauses

VARIABLES
  initted,  \* __uso_initted
  list,     \* __uso_list_head .. __uso_list_tail, in the order of the next links
  file,     \* handle -> its name, NULL when no handle is allocated there
  ref,      \* handle -> ref_count
  bind,     \* handle -> import symbol -> the USO its ptr points into,
            \* Global for the main program, NULL for a null ptr
  ehframes, \* handles whose exception frames libgcc has registered
  stack,    \* the uso_open and uso_close calls that wait for user code
  ptr,      \* pointer variable -> the handle it holds
  opened,   \* history: the file the variable's handle was obtained for
  owns,     \* history: the variables that hold a reference they must close
  halted    \* "assert" after a failed assertf, "fault" after a bad access

runtimeVars == <<initted, list, file, ref, bind, ehframes>>
clientVars == <<ptr, opened, owns>>
vars == <<runtimeVars, stack, clientVars, halted>>

-----------------------------------------------------------------------------
(* The list of loaded USOs.  An operator whose comment begins with "Fault:"  *)
(* is what the next definition would be with a plausible bug; nothing in the *)
(* specification uses it.                                                    *)

Loaded == {list[i] : i \in DOMAIN list}

\* The addresses malloc can still give.
Free == {h \in Handles \ Loaded : file[h] = NULL}

\* Fault: links the new handle in front of the head.
InsertUsoAtHead(l, h) == <<h>> \o l

\* insert_uso appends at the tail
InsertUso(l, h) == Append(l, h)

\* Fault: the previous handle is left without a next link.
RemoveUsoCuts(l, h) == SubSeq(l, 1, (CHOOSE i \in DOMAIN l : l[i] = h) - 1)

\* remove_uso unlinks the handle and keeps the order of the others
RemoveUso(l, h) ==
  LET k == CHOOSE i \in DOMAIN l : l[i] = h
  IN  [i \in 1 .. Len(l) - 1 |-> IF i < k THEN l[i] ELSE l[i + 1]]

\* Fault: the search goes on after the first match.
LastLoaded(S) ==
  list[CHOOSE i \in DOMAIN list :
         list[i] \in S /\ \A j \in DOMAIN list : list[j] \in S => j <= i]

\* The first handle on the list that is in S, as every traversal finds it.
FirstLoaded(S) ==
  list[CHOOSE i \in DOMAIN list :
         list[i] \in S /\ \A j \in DOMAIN list : list[j] \in S => i <= j]

\* Fault: a USO that is only kept for its users is not found by name.
NamedAndReferenced(f) == {h \in Loaded : file[h] = f /\ ref[h] # 0}

\* uso_get_handle
Named(f) == {h \in Loaded : file[h] = f}
GetHandle(f) == IF Named(f) # {} THEN FirstLoaded(Named(f)) ELSE NULL

\* uso_get_handle_ptr, for an address in the image of handle p or outside them
GetHandlePtr(p) == IF p \in Loaded THEN p ELSE NULL

-----------------------------------------------------------------------------
(* Symbols. *)

\* search_loaded_symbols: the USOs in load order, then the main program
Exporting(s) == {h \in Loaded : s \in Exports[file[h]]}
SearchLoadedSymbols(s) ==
  IF Exporting(s) # {} THEN FirstLoaded(Exporting(s))
  ELSE IF s \in GlobalSyms THEN Global ELSE NULL

\* fixup_import_syms: the pointer written for each import, and its verdict
BindImports(f) ==
  [s \in Symbols |-> IF s \in Imports[f] THEN SearchLoadedSymbols(s) ELSE NULL]
ImportsResolve(f) ==
  \A s \in Imports[f] \ Weak[f] : SearchLoadedSymbols(s) # NULL

\* Fault: only the first other USO is examined.
IsUsoCloseableByFirst(h) ==
  Loaded # {h} =>
    \A s \in Exports[file[h]] : bind[FirstLoaded(Loaded \ {h})][s] = NULL

\* is_uso_closeable: no other USO has a non-null import of a name h exports
IsUsoCloseable(h) ==
  \A x \in Loaded \ {h} : \A s \in Exports[file[h]] : bind[x][s] = NULL

\* Fault: the import table is read without the check for a null one.
ReadsNullImports(h) ==
  Exports[file[h]] # {} /\ \E x \in Loaded \ {h} : Imports[file[x]] = {}

\* A file without export symbols has a null export_syms, which is_uso_closeable
\* reads as soon as another USO is on the list.
ReadsNullExports(h) == Exports[file[h]] = {} /\ Loaded # {h}

-----------------------------------------------------------------------------
(* User code in progress. *)

StartPhases == {"ctors", "prolog"}
EndPhases == {"epilog", "dtors"}
Frame(h, phase, v) == [h |-> h, phase |-> phase, var |-> v]

Top == stack[Len(stack)]
Pop(s) == SubSeq(s, 1, Len(s) - 1)
SetTopPhase(phase) == [stack EXCEPT ![Len(stack)].phase = phase]

OnStack == {stack[i].h : i \in DOMAIN stack}
Ending == {stack[i].h : i \in {j \in DOMAIN stack : stack[j].phase \in EndPhases}}

\* Variables that wait for a uso_open still in progress to return.
Pending ==
  {stack[i].var : i \in {j \in DOMAIN stack : stack[j].phase \in StartPhases}}

\* The program's part.  "init": uso_init comes first, and once.  "memory": there
\* is room for what is opened.  "valid": handles that
\* uso_is_handle_valid rejects are not closed.  "balanced": a variable is closed
\* once for each time it was opened, or while no reference remains, which is
\* the retry of main.cpp.  "not_on_stack": a callback does not drop the last
\* reference to a USO that one of the callbacks in progress belongs to.
\* "not_ending": a callback does not open a USO that is being closed, nor one
\* that would import a symbol from it.
Obliged(clause, condition) == clause \in Contract => condition

MayOpen(f) ==
  /\ Obliged("init", initted)
  /\ Obliged("memory", f \in Rom /\ Named(f) = {} => Free # {})
  /\ Obliged("not_ending",
       \A h \in Ending :
         /\ file[h] # f
         /\ Named(f) = {} => \A s \in Imports[f] : SearchLoadedSymbols(s) # h)

MayClose(h, isOwner) ==
  /\ Obliged("valid", h \in Loaded)
  /\ Obliged("balanced", h \in Loaded /\ ~ isOwner => ref[h] = 0)
  /\ Obliged("not_on_stack", h \in Loaded \cap OnStack => ref[h] > 1)

Running == halted = "no"
CanNest == Len(stack) < MaxDepth
Idle(v) == v \notin Pending \cup owns

-----------------------------------------------------------------------------
(* uso_init, outside of any callback.  A second call forgets what is loaded. *)

UsoInit ==
  /\ Running /\ stack = <<>> /\ Obliged("init", ~ initted)
  /\ initted' = TRUE /\ list' = <<>>
  /\ UNCHANGED <<file, ref, bind, ehframes, stack, clientVars, halted>>

(* uso_open: variable v is to receive the handle of file f. *)

Assign(v, h, f) ==
  /\ ptr' = [ptr EXCEPT ![v] = h]
  /\ opened' = [opened EXCEPT ![v] = f]

CallOpen(v, f) == Running /\ Idle(v) /\ MayOpen(f)

OpenUninitted(v, f) ==
  /\ CallOpen(v, f) /\ ~ initted
  /\ halted' = "assert"
  /\ UNCHANGED <<runtimeVars, stack, clientVars>>

\* Fault: the count starts again at one.
OpenAgainResets(v, f) ==
  /\ CallOpen(v, f) /\ initted /\ Named(f) # {}
  /\ ref' = [ref EXCEPT ![GetHandle(f)] = 1]
  /\ Assign(v, GetHandle(f), f)
  /\ owns' = owns \cup {v}
  /\ UNCHANGED <<initted, list, file, bind, ehframes, stack, halted>>

\* The file is open already: one more reference to the handle it has.
OpenAgain(v, f) ==
  /\ CallOpen(v, f) /\ initted /\ Named(f) # {}
  /\ ref' = [ref EXCEPT ![GetHandle(f)] = @ + 1]
  /\ Assign(v, GetHandle(f), f)
  /\ owns' = owns \cup {v}
  /\ UNCHANGED <<initted, list, file, bind, ehframes, stack, halted>>

\* No such file, or a strong import is unresolved: what was allocated is freed.
OpenFails(v, f) ==
  /\ CallOpen(v, f) /\ initted /\ Named(f) = {}
  /\ f \notin Rom \/ (Free # {} /\ ~ ImportsResolve(f))
  /\ Assign(v, NULL, NULL)
  /\ UNCHANGED <<runtimeVars, stack, owns, halted>>

\* malloc and memalign return null, which uso_open writes through.
OpenOutOfMemory(v, f) ==
  /\ CallOpen(v, f) /\ initted /\ Named(f) = {}
  /\ f \in Rom /\ Free = {}
  /\ halted' = "fault"
  /\ UNCHANGED <<runtimeVars, stack, clientVars>>

\* Load, link, append to the list and register the exception frames, up to the
\* first constructor.  The reference is v's from here on, but v is Pending.
OpenLoads(v, f) ==
  /\ CallOpen(v, f) /\ initted /\ Named(f) = {} /\ CanNest
  /\ f \in Rom /\ ImportsResolve(f)
  /\ \E h \in Free :
       /\ file' = [file EXCEPT ![h] = f]
       /\ ref' = [ref EXCEPT ![h] = 1]
       /\ bind' = [bind EXCEPT ![h] = BindImports(f)]
       /\ list' = InsertUso(list, h)
       /\ ehframes' = IF f \in HasEhFrame THEN ehframes \cup {h} ELSE ehframes
       /\ stack' = Append(stack, Frame(h, "ctors", v))
       /\ Assign(v, h, f)
  /\ owns' = owns \cup {v}
  /\ UNCHANGED <<initted, halted>>

(* The rest of uso_open, when the user code on top of the stack returns. *)

\* start_uso and end_uso read the image between two callbacks.  If it was
\* freed meanwhile the access is undefined; the model stops there.
TouchFreed ==
  /\ Running /\ stack # <<>>
  /\ Top.h \notin Loaded /\ Top.phase # "prolog"
  /\ halted' = "fault"
  /\ UNCHANGED <<runtimeVars, stack, clientVars>>

Returns(phase) ==
  /\ Running /\ stack # <<>> /\ Top.phase = phase
  /\ Top.h \in Loaded \/ phase = "prolog"

CtorsReturn ==
  /\ Returns("ctors")
  /\ stack' = IF Prolog \in Exports[file[Top.h]] THEN SetTopPhase("prolog")
                                                ELSE Pop(stack)
  /\ UNCHANGED <<runtimeVars, clientVars, halted>>

PrologReturns ==
  /\ Returns("prolog")
  /\ stack' = Pop(stack)
  /\ UNCHANGED <<runtimeVars, clientVars, halted>>

(* uso_close of handle h, by variable v or by a caller that looked h up. *)

\* Fault: the test for zero is missing.
DropRefBelowZero(h) == ref[h] - 1

\* Fault: the last reference is never dropped.
DropRefKeepsOne(h) == IF ref[h] > 1 THEN ref[h] - 1 ELSE ref[h]

\* Fault: one close drops every reference.
DropRefAll(h) == 0

DropRef(h) == IF ref[h] # 0 THEN ref[h] - 1 ELSE 0

CloseKeeps(h) ==
  /\ ~ ReadsNullExports(h) /\ ~ (IsUsoCloseable(h) /\ DropRef(h) = 0)
  /\ UNCHANGED <<stack, halted>>

CloseEnds(h) ==
  /\ ~ ReadsNullExports(h) /\ IsUsoCloseable(h) /\ DropRef(h) = 0 /\ CanNest
  /\ stack' = Append(stack, Frame(h,
       IF Epilog \in Exports[file[h]] THEN "epilog" ELSE "dtors", NULL))
  /\ UNCHANGED halted

CloseFaults(h) ==
  /\ ReadsNullExports(h)
  /\ halted' = "fault"
  /\ UNCHANGED stack

UsoClose(h) ==
  /\ h \in Loaded
  /\ ref' = [ref EXCEPT ![h] = DropRef(h)]
  /\ CloseKeeps(h) \/ CloseEnds(h) \/ CloseFaults(h)
  /\ UNCHANGED <<initted, list, file, bind, ehframes, ptr, opened>>

CloseVar(v) ==
  /\ Running /\ v \notin Pending /\ MayClose(ptr[v], v \in owns)
  /\ UsoClose(ptr[v])
  /\ owns' = owns \ {v}

CloseInvalid(v) ==
  /\ Running /\ v \notin Pending /\ MayClose(ptr[v], v \in owns)
  /\ ptr[v] \notin Loaded
  /\ halted' = "assert"
  /\ UNCHANGED <<runtimeVars, stack, clientVars>>

\* uso_close(uso_get_handle(f)), the retry of a USO nobody references.
CloseByName(f) ==
  /\ Running /\ Named(f) # {} /\ MayClose(GetHandle(f), FALSE)
  /\ UsoClose(GetHandle(f))
  /\ UNCHANGED owns

(* The rest of uso_close. *)

\* Fault: the frames are deregistered before the destructors run.
EpilogReturnsDeregisters ==
  /\ Returns("epilog")
  /\ stack' = SetTopPhase("dtors")
  /\ ehframes' = ehframes \ {Top.h}
  /\ UNCHANGED <<initted, list, file, ref, bind, clientVars, halted>>

EpilogReturns ==
  /\ Returns("epilog")
  /\ stack' = SetTopPhase("dtors")
  /\ UNCHANGED <<runtimeVars, clientVars, halted>>

\* After the destructors: deregister the frames, unlink and free.
DtorsReturn ==
  /\ Returns("dtors")
  /\ LET h == Top.h IN
       /\ list' = RemoveUso(list, h)
       /\ ehframes' = ehframes \ {h}
       /\ file' = [file EXCEPT ![h] = NULL]
       /\ ref' = [ref EXCEPT ![h] = 0]
       /\ bind' = [bind EXCEPT ![h] = [s \in Symbols |-> NULL]]
  /\ stack' = Pop(stack)
  /\ UNCHANGED <<initted, clientVars, halted>>

\* uso_get_handle, which takes no reference.
LookUp(v, f) ==
  /\ Running /\ Idle(v)
  /\ Assign(v, GetHandle(f), IF Named(f) # {} THEN f ELSE NULL)
  /\ UNCHANGED <<runtimeVars, stack, owns, halted>>

LookUpPtr(v, p) ==
  /\ Running /\ Idle(v)
  /\ Assign(v, GetHandlePtr(p), IF p \in Loaded THEN file[p] ELSE NULL)
  /\ UNCHANGED <<runtimeVars, stack, owns, halted>>

-----------------------------------------------------------------------------
Init ==
  /\ initted = FALSE /\ list = <<>>
  /\ file = [h \in Handles |-> NULL]
  /\ ref = [h \in Handles |-> 0]
  /\ bind = [h \in Handles |-> [s \in Symbols |-> NULL]]
  /\ ehframes = {} /\ stack = <<>>
  /\ ptr = [v \in Vars |-> NULL]
  /\ opened = [v \in Vars |-> NULL]
  /\ owns = {} /\ halted = "no"

Open(v, f) ==
  \/ OpenUninitted(v, f) \/ OpenAgain(v, f) \/ OpenFails(v, f)
  \/ OpenOutOfMemory(v, f) \/ OpenLoads(v, f)

CallbackReturns == CtorsReturn \/ PrologReturns \/ EpilogReturns \/ DtorsReturn

Next ==
  \/ UsoInit
  \/ \E v \in Vars, f \in Files : Open(v, f) \/ LookUp(v, f)
  \/ \E v \in Vars, p \in Handles \cup {Global} : LookUpPtr(v, p)
  \/ \E v \in Vars : CloseVar(v) \/ CloseInvalid(v)
  \/ \E f \in Files : CloseByName(f)
  \/ CallbackReturns
  \/ TouchFreed

Spec == Init /\ [][Next]_vars

\* Callbacks return, and a program that is done with a USO retries its close,
\* as the loop of main.cpp does on every frame.
Fairness ==
  /\ WF_vars(CallbackReturns)
  /\ \A f \in Files : WF_vars(CloseByName(f))

FairSpec == Spec /\ Fairness
-----------------------------------------------------------------------------
(* Properties. *)

FrameType == [h : Handles, phase : StartPhases \cup EndPhases, var : Vars \cup {NULL}]

\* Every variable has a value of the C type it models.
TypeOK ==
  /\ initted \in BOOLEAN
  /\ list \in Seq(Handles)
  /\ file \in [Handles -> Files \cup {NULL}]
  /\ ref \in [Handles -> Nat]
  /\ bind \in [Handles -> [Symbols -> Handles \cup {Global, NULL}]]
  /\ ehframes \subseteq Handles
  /\ stack \in Seq(FrameType)
  /\ ptr \in [Vars -> Handles \cup {NULL}]
  /\ opened \in [Vars -> Files \cup {NULL}]
  /\ owns \subseteq Vars
  /\ halted \in {"no", "assert", "fault"}

\* No handle is on the list twice and no file name is, so uso_open finds the
\* existing handle of a file instead of loading a second copy (uso.c:526-532).
LoadedOnce ==
  \A i, j \in DOMAIN list : file[list[i]] = file[list[j]] => i = j

\* An import bound to a USO is bound to one that stands earlier on the list and
\* exports the name: is_uso_closeable keeps a USO while another one points into
\* it, and dependencies have no cycle (uso.c:435-456, 591-606).
ImportsPointEarlier ==
  \A i \in DOMAIN list : \A s \in Symbols :
    bind[list[i]][s] \in Handles =>
      \E j \in 1 .. i - 1 : /\ list[j] = bind[list[i]][s]
                            /\ s \in Exports[file[list[j]]]

\* Two loaded USOs that import the same name from USOs share one definition,
\* whatever was loaded and unloaded between them (uso.c:125-143).
OneDefinition ==
  \A x, y \in Loaded : \A s \in Symbols :
    {bind[x][s], bind[y][s]} \subseteq Handles => bind[x][s] = bind[y][s]

\* ref_count is the number of variables that hold a reference: none is lost and
\* none is counted twice across failures, callbacks and retries (uso.c:530, 568,
\* 593-595).
RefCountExact ==
  \A h \in Loaded : ref[h] = Cardinality({v \in owns : ptr[v] = h})

\* Memory is allocated for a handle exactly while it is on the list: unlinking a
\* USO at the head, in the middle or at the tail loses none of the others, also
\* when the list changed while its epilog and destructors ran, and its memory is
\* freed in the step that unlinks it (uso.c:88-104, 598-605).
NothingOrphaned == \A h \in Handles : file[h] # NULL <=> h \in Loaded

\* A variable that holds a reference holds the address of a USO that is loaded
\* and is the file it was opened for (uso.c:577-607).
OwnedStaysLoaded ==
  \A v \in owns : ptr[v] \in Loaded /\ file[ptr[v]] = opened[v]

\* User code in progress belongs to a USO that is still loaded and whose
\* exception frames are registered, so it returns into live code and what it
\* throws can be unwound (uso.c:390-418, 566-574, 597-606).
CallbackCodeLives ==
  \A i \in DOMAIN stack :
    /\ stack[i].h \in Loaded
    /\ file[stack[i].h] \in HasEhFrame => stack[i].h \in ehframes

\* From the moment uso_close begins to end a USO until its memory is freed, it
\* has no reference and nothing is bound to it, whatever the epilog and the
\* destructors open, close and bind (uso.c:405-418, 596-605).
EndingStaysUnused ==
  \A h \in Ending :
    ref[h] = 0 /\ \A x \in Loaded : \A s \in Symbols : bind[x][s] # h

\* A USO leaves the list only when it has no reference and no other loaded USO
\* is bound to it: what uso_close decided before end_uso still holds after it
\* (uso.c:596-605).
UnloadsOnlyUnused ==
  [][\A h \in Loaded : h \notin Loaded' =>
       ref[h] = 0 /\ \A x \in Loaded \ {h} : \A s \in Symbols : bind[x][s] # h]_vars

\* The library serves the program without a failed assertion and without
\* reading freed or null memory (uso.c:435-456, 589-607).
NeverHalts == halted = "no"

(* The runtime implements the abstract loader. *)

RefsOf(f) == IF Named(f) # {} THEN ref[GetHandle(f)] ELSE 0
Uses ==
  {u \in Files \X Files :
     \E x, h \in Loaded : /\ u = <<file[x], file[h]>>
                          /\ \E s \in Symbols : bind[x][s] = h}

Loader == INSTANCE UsoLoader WITH
  loaded <- {file[h] : h \in Loaded},
  refs <- [f \in Files |-> RefsOf(f)],
  uses <- Uses

\* Each step of the runtime is a load, an acquire, a release or an unload of
\* the abstract loader, or changes nothing it sees (uso.h:22-32).
ImplementsLoader == Loader!Spec

(* Liveness, and what uso.h says that the code does not do. *)

\* Once the program holds no reference for ever and keeps retrying its closes,
\* every USO is unloaded except those that refuse each other for ever, because
\* another one that is left has bound a name they export, to whomever; whatever
\* clause of the contract the program broke before, as long as nothing stopped
\* it (uso.c:435-456, 589-607, main.cpp:36-43).
ShutdownCompletes ==
  [](halted = "no") /\ <>[](owns = {}) =>
    <>[](\A h \in Loaded : \E x \in Loaded \ {h} : \E s \in Exports[file[h]] :
           bind[x][s] # NULL)

\* uso.h:31: "The USO will be unloaded when the reference count reaches zero and
\* it is not being used by another loaded USO".  Between calls, an unreferenced
\* USO on the list is one that another loaded USO is bound to.
UnusedIsUnloaded ==
  stack = <<>> =>
    \A h \in Loaded :
      ref[h] = 0 => \E x \in Loaded \ {h} : \E s \in Symbols : bind[x][s] = h

=============================================================================

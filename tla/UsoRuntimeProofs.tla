-------------------------- MODULE UsoRuntimeProofs --------------------------
(***************************************************************************)
(* Theorems about uso.c.  First what it keeps whatever the program does    *)
(* with it: types, and that no file is loaded twice; they begin with what  *)
(* its linked list does.  Then what it guarantees to a program that keeps  *)
(* the whole contract.  Those properties are not inductive one by one:     *)
(* uso_close may free a USO after its callbacks because nothing has come   *)
(* to use it meanwhile, that holds because counts are exact and bindings   *)
(* go to the first exporter on the list, and those hold because nothing is *)
(* freed while in use.  ContractInv is their conjunction with what they    *)
(* need.                                                                   *)
(***************************************************************************)
EXTENDS UsoRuntime, UsoLemmas, SequenceTheorems

-----------------------------------------------------------------------------
(* The operators on the list. *)

Members(l) == {l[i] : i \in DOMAIN l}
Injective(l) == \A i, j \in DOMAIN l : l[i] = l[j] => i = j

\* A traversal that looks for a member of S stops at the least index that holds one.
LEMMA FirstLoadedIsFirst ==
  ASSUME list \in Seq(Handles), NEW S, Loaded \cap S # {}
  PROVE  \E i \in 1 .. Len(list) :
           /\ FirstLoaded(S) = list[i] /\ list[i] \in S
           /\ \A j \in 1 .. Len(list) : list[j] \in S => i <= j
<1>1. DOMAIN list = 1 .. Len(list) /\ Len(list) \in Nat
  BY LenProperties
<1> DEFINE T == {i \in 1 .. Len(list) : list[i] \in S}
<1>2. T \subseteq 1 .. Len(list) /\ T # {}
  BY <1>1 DEF Loaded
<1>3. \E i \in T : \A j \in T : i <= j
  BY <1>1, <1>2, LeastIndex
<1>4. \E i \in DOMAIN list :
        list[i] \in S /\ \A j \in DOMAIN list : list[j] \in S => i <= j
  BY <1>1, <1>3
<1> QED
  BY <1>1, <1>4 DEF FirstLoaded

LEMMA FirstLoadedType ==
  ASSUME list \in Seq(Handles), NEW S, Loaded \cap S # {}
  PROVE  /\ FirstLoaded(S) \in Loaded /\ FirstLoaded(S) \in S
         /\ FirstLoaded(S) \in Handles
<1>1. DOMAIN list = 1 .. Len(list)
  BY LenProperties
<1> QED
  BY <1>1, FirstLoadedIsFirst, ElementOfSeq DEF Loaded

LEMMA AppendMembers ==
  ASSUME NEW S, NEW l \in Seq(S), NEW h \in S
  PROVE  /\ InsertUso(l, h) \in Seq(S)
         /\ Len(InsertUso(l, h)) = Len(l) + 1
         /\ \A i \in 1 .. Len(l) : InsertUso(l, h)[i] = l[i]
         /\ InsertUso(l, h)[Len(l) + 1] = h
         /\ Members(InsertUso(l, h)) = Members(l) \cup {h}
<1>1. /\ InsertUso(l, h) \in Seq(S)
      /\ Len(InsertUso(l, h)) = Len(l) + 1
      /\ \A i \in 1 .. Len(l) : InsertUso(l, h)[i] = l[i]
      /\ InsertUso(l, h)[Len(l) + 1] = h
  BY DEF InsertUso
<1>2. /\ DOMAIN l = 1 .. Len(l) /\ Len(l) \in Nat
      /\ DOMAIN InsertUso(l, h) = 1 .. Len(l) + 1
  BY <1>1, LenProperties
<1>3. \A i \in 1 .. Len(l) + 1 : i \in 1 .. Len(l) \/ i = Len(l) + 1
  BY <1>2
<1>4. Len(l) + 1 \in 1 .. Len(l) + 1 /\ 1 .. Len(l) \subseteq 1 .. Len(l) + 1
  BY <1>2
<1> HIDE DEF InsertUso
<1> QED
  BY <1>1, <1>2, <1>3, <1>4 DEF Members

\* Unlinking the element at k moves the later ones up by one place.
LEMMA RemoveUsoAt ==
  ASSUME NEW S, NEW l \in Seq(S), NEW h \in Members(l)
  PROVE  \E k \in 1 .. Len(l) :
           /\ l[k] = h
           /\ RemoveUso(l, h) =
                [i \in 1 .. Len(l) - 1 |-> IF i < k THEN l[i] ELSE l[i + 1]]
           /\ RemoveUso(l, h) \in Seq(S)
           /\ Len(RemoveUso(l, h)) = Len(l) - 1
<1>1. DOMAIN l = 1 .. Len(l) /\ Len(l) \in Nat
  BY LenProperties
<1> DEFINE k == CHOOSE i \in DOMAIN l : l[i] = h
           r == [i \in 1 .. Len(l) - 1 |-> IF i < k THEN l[i] ELSE l[i + 1]]
<1>2. k \in 1 .. Len(l) /\ l[k] = h
  BY <1>1 DEF Members
<1>3. RemoveUso(l, h) = r
  BY DEF RemoveUso
<1> HIDE DEF k
<1>4. \A i \in 1 .. Len(l) - 1 : r[i] \in S
  BY <1>1, <1>2, ElementOfSeq
<1>5. Len(l) - 1 \in Nat
  BY <1>1, <1>2
<1>6. r \in [1 .. Len(l) - 1 -> S]
  BY <1>4
<1>7. r \in Seq(S)
  BY <1>5, <1>6, SeqDef
<1>8. Len(r) = Len(l) - 1
  BY <1>5, <1>7, LenProperties
<1> HIDE DEF r
<1>9. r = [i \in 1 .. Len(l) - 1 |-> IF i < k THEN l[i] ELSE l[i + 1]]
  BY DEF r
<1> QED
  BY <1>2, <1>3, <1>7, <1>8, <1>9

\* What remains stands in the order it had: place i of the new list holds what
\* place m[i] of the old one held.
LEMMA RemoveUsoKeepsOrder ==
  ASSUME NEW S, NEW l \in Seq(S), NEW h \in Members(l), Injective(l)
  PROVE  \E m \in [1 .. Len(l) - 1 -> 1 .. Len(l)] :
           /\ \A i \in 1 .. Len(l) - 1 :
                RemoveUso(l, h)[i] = l[m[i]] /\ l[m[i]] # h
           /\ \A i, j \in 1 .. Len(l) - 1 : i < j <=> m[i] < m[j]
           /\ \A j \in 1 .. Len(l) : l[j] # h => \E i \in 1 .. Len(l) - 1 : m[i] = j
<1>1. PICK k \in 1 .. Len(l) :
        /\ l[k] = h
        /\ RemoveUso(l, h) =
             [i \in 1 .. Len(l) - 1 |-> IF i < k THEN l[i] ELSE l[i + 1]]
  BY RemoveUsoAt
<1>2. DOMAIN l = 1 .. Len(l) /\ Len(l) \in Nat
  BY LenProperties
<1> DEFINE m == [i \in 1 .. Len(l) - 1 |-> IF i < k THEN i ELSE i + 1]
<1>3. m \in [1 .. Len(l) - 1 -> 1 .. Len(l)]
  BY <1>2
<1>4. ASSUME NEW i \in 1 .. Len(l) - 1
      PROVE  RemoveUso(l, h)[i] = l[m[i]] /\ l[m[i]] # h
  <2>1. RemoveUso(l, h)[i] = l[m[i]] /\ m[i] # k /\ m[i] \in 1 .. Len(l)
    BY <1>1, <1>2
  <2> HIDE DEF m
  <2> QED
    BY <2>1, <1>1, <1>2 DEF Injective
<1>5. \A i, j \in 1 .. Len(l) - 1 : i < j <=> m[i] < m[j]
  BY <1>2
<1>6. ASSUME NEW j \in 1 .. Len(l), l[j] # h
      PROVE  \E i \in 1 .. Len(l) - 1 : m[i] = j
  <2>1. CASE j < k
    <3>1. j \in 1 .. Len(l) - 1 /\ m[j] = j
      BY <2>1, <1>2
    <3> QED
      BY <3>1
  <2>2. CASE j > k
    <3>1. j - 1 \in 1 .. Len(l) - 1 /\ m[j - 1] = j
      BY <2>2, <1>2
    <3> QED
      BY <3>1
  <2> QED
    BY <2>1, <2>2, <1>1, <1>2, <1>6
<1> HIDE DEF m
<1> QED
  BY <1>3, <1>4, <1>5, <1>6

LEMMA RemoveUsoMembers ==
  ASSUME NEW S, NEW l \in Seq(S), NEW h \in Members(l), Injective(l)
  PROVE  Members(RemoveUso(l, h)) = Members(l) \ {h}
<1>1. PICK m \in [1 .. Len(l) - 1 -> 1 .. Len(l)] :
        /\ \A i \in 1 .. Len(l) - 1 :
             RemoveUso(l, h)[i] = l[m[i]] /\ l[m[i]] # h
        /\ \A j \in 1 .. Len(l) : l[j] # h => \E i \in 1 .. Len(l) - 1 : m[i] = j
  BY RemoveUsoKeepsOrder
<1>2. DOMAIN l = 1 .. Len(l) /\ DOMAIN RemoveUso(l, h) = 1 .. Len(l) - 1
  BY RemoveUsoAt, LenProperties
<1>3. ASSUME NEW i \in 1 .. Len(l) - 1
      PROVE  RemoveUso(l, h)[i] \in Members(l) \ {h}
  <2>1. m[i] \in 1 .. Len(l)
    OBVIOUS
  <2> QED
    BY <1>1, <1>2, <2>1 DEF Members
<1>4. ASSUME NEW j \in 1 .. Len(l), l[j] # h
      PROVE  l[j] \in Members(RemoveUso(l, h))
  <2>1. PICK i \in 1 .. Len(l) - 1 : m[i] = j
    BY <1>1, <1>4
  <2> QED
    BY <1>1, <1>2, <2>1 DEF Members
<1>5. Members(RemoveUso(l, h)) \subseteq Members(l) \ {h}
  BY <1>2, <1>3 DEF Members
<1>6. Members(l) \ {h} \subseteq Members(RemoveUso(l, h))
  BY <1>2, <1>4 DEF Members
<1> QED
  BY <1>5, <1>6

-----------------------------------------------------------------------------
(* Types. *)

LEMMA GetHandleType ==
  ASSUME TypeOK, NEW f
  PROVE  /\ Named(f) # {} =>
              /\ GetHandle(f) \in Named(f) /\ GetHandle(f) \in Loaded
              /\ GetHandle(f) \in Handles
         /\ GetHandle(f) \in Handles \cup {NULL}
<1>1. list \in Seq(Handles)
  BY DEF TypeOK
<1>2. Named(f) # {} => Loaded \cap Named(f) # {}
  BY DEF Named
<1>3. Named(f) # {} => FirstLoaded(Named(f)) \in Loaded \cap Named(f) \cap Handles
  BY <1>1, <1>2, FirstLoadedType
<1> QED
  BY <1>3 DEF GetHandle

LEMMA SearchType ==
  ASSUME TypeOK, NEW s
  PROVE  /\ SearchLoadedSymbols(s) \in Handles \cup {Global, NULL}
         /\ SearchLoadedSymbols(s) \in Handles =>
              SearchLoadedSymbols(s) \in Loaded /\ SearchLoadedSymbols(s) \in Exporting(s)
<1>1. list \in Seq(Handles)
  BY DEF TypeOK
<1>2. Exporting(s) # {} => Loaded \cap Exporting(s) # {}
  BY DEF Exporting
<1>3. Exporting(s) # {} =>
        FirstLoaded(Exporting(s)) \in Loaded \cap Exporting(s) \cap Handles
  BY <1>1, <1>2, FirstLoadedType
<1>4. Global \notin Handles /\ NULL \notin Handles
  BY ValuesAssumption
<1> QED
  BY <1>3, <1>4 DEF SearchLoadedSymbols

LEMMA LoadedAreHandles ==
  ASSUME list \in Seq(Handles)
  PROVE  Loaded \subseteq Handles /\ Loaded = Members(list)
<1>1. DOMAIN list = 1 .. Len(list)
  BY LenProperties
<1> QED
  BY <1>1, ElementOfSeq DEF Loaded, Members

LEMMA StackType ==
  ASSUME TypeOK, stack # <<>>
  PROVE  /\ Len(stack) \in Nat /\ Len(stack) > 0 /\ Len(stack) \in DOMAIN stack
         /\ Top \in FrameType /\ Top.h \in Handles
         /\ Pop(stack) \in Seq(FrameType) /\ Len(Pop(stack)) = Len(stack) - 1
         /\ \A i \in 1 .. Len(stack) - 1 : Pop(stack)[i] = stack[i]
         /\ \A p \in StartPhases \cup EndPhases :
              /\ SetTopPhase(p) \in Seq(FrameType) /\ Len(SetTopPhase(p)) = Len(stack)
              /\ \A i \in 1 .. Len(stack) - 1 : SetTopPhase(p)[i] = stack[i]
              /\ SetTopPhase(p)[Len(stack)] = Frame(Top.h, p, Top.var)
<1>1. stack \in Seq(FrameType)
  BY DEF TypeOK
<1>2. /\ Len(stack) \in Nat /\ Len(stack) > 0
      /\ DOMAIN stack = 1 .. Len(stack)
  BY <1>1, EmptySeq, LenProperties
<1>3. Top \in FrameType /\ Top.h \in Handles
  <2>1. Len(stack) \in 1 .. Len(stack)
    BY <1>2
  <2>2. stack[Len(stack)] \in FrameType
    BY <1>1, <2>1, ElementOfSeq
  <2> QED
    BY <2>2 DEF Top, FrameType
<1>4. /\ Pop(stack) \in Seq(FrameType) /\ Len(Pop(stack)) = Len(stack) - 1
      /\ \A i \in 1 .. Len(stack) - 1 : Pop(stack)[i] = stack[i]
  <2>1. \A i \in 1 .. Len(stack) - 1 : stack[i] \in FrameType
    <3>1. \A i \in 1 .. Len(stack) - 1 : i \in 1 .. Len(stack)
      BY <1>2
    <3> QED
      BY <1>1, <3>1, ElementOfSeq
  <2> QED
    BY <1>2, <2>1, SubSeqProperties DEF Pop
<1>5. ASSUME NEW p \in StartPhases \cup EndPhases
      PROVE  /\ SetTopPhase(p) \in Seq(FrameType) /\ Len(SetTopPhase(p)) = Len(stack)
             /\ \A i \in 1 .. Len(stack) - 1 : SetTopPhase(p)[i] = stack[i]
             /\ SetTopPhase(p)[Len(stack)] = Frame(Top.h, p, Top.var)
  <2> DEFINE n == Len(stack)
             e == [stack[n] EXCEPT !.phase = p]
  <2>1. n \in 1 .. Len(stack) /\ stack[n] \in FrameType
    BY <1>2, <1>3 DEF Top
  <2>2. e \in FrameType /\ e = Frame(Top.h, p, Top.var)
    BY <2>1 DEF FrameType, Top, Frame
  <2>3. SetTopPhase(p) = [stack EXCEPT ![n] = e]
    BY DEF SetTopPhase
  <2> HIDE DEF n, e
  <2>4. /\ [stack EXCEPT ![n] = e] \in Seq(FrameType)
        /\ Len([stack EXCEPT ![n] = e]) = Len(stack)
        /\ \A j \in 1 .. Len(stack) :
             [stack EXCEPT ![n] = e][j] = IF j = n THEN e ELSE stack[j]
    BY <1>1, <2>1, <2>2, ExceptSeq
  <2>5. n = Len(stack) /\ Len(stack) \in Nat
    BY <1>2 DEF n
  <2>6. \A i \in 1 .. Len(stack) - 1 : i \in 1 .. Len(stack) /\ i # n
    BY <2>5
  <2> QED
    BY <2>1, <2>2, <2>3, <2>4, <2>5, <2>6
<1> QED
  BY <1>2, <1>3, <1>4, <1>5

LEMMA InitType == Init => TypeOK
<1> SUFFICES ASSUME Init PROVE TypeOK
  OBVIOUS
<1>1. <<>> \in Seq(Handles) /\ <<>> \in Seq(FrameType)
  BY EmptySeq
<1> QED
  BY <1>1 DEF Init, TypeOK

\* What uso_open does when it loads a file.
LEMMA OpenLoadsType ==
  ASSUME TypeOK, NEW v \in Vars, NEW f \in Files, OpenLoads(v, f)
  PROVE  TypeOK'
<1>1. PICK h \in Handles \ Loaded :
        /\ file' = [file EXCEPT ![h] = f]
        /\ ref' = [ref EXCEPT ![h] = 1]
        /\ bind' = [bind EXCEPT ![h] = BindImports(f)]
        /\ list' = InsertUso(list, h)
        /\ ehframes' = IF f \in HasEhFrame THEN ehframes \cup {h} ELSE ehframes
        /\ stack' = Append(stack, Frame(h, "ctors", v))
        /\ Assign(v, h, f)
  BY DEF OpenLoads, Free
<1>2. list' \in Seq(Handles)
  BY <1>1, AppendMembers DEF TypeOK
<1>3. BindImports(f) \in [Symbols -> Handles \cup {Global, NULL}]
  BY SearchType DEF BindImports
<1>4. stack' \in Seq(FrameType)
  <2>1. Frame(h, "ctors", v) \in FrameType
    BY DEF Frame, FrameType, StartPhases
  <2> QED
    BY <1>1, <2>1 DEF TypeOK
<1>5. bind' \in [Handles -> [Symbols -> Handles \cup {Global, NULL}]]
  BY <1>1, <1>3 DEF TypeOK
<1>6. /\ file' \in [Handles -> Files \cup {NULL}] /\ ref' \in [Handles -> Nat]
      /\ ehframes' \subseteq Handles
      /\ ptr' \in [Vars -> Handles \cup {NULL}]
      /\ opened' \in [Vars -> Files \cup {NULL}]
      /\ owns' \subseteq Vars /\ halted' = halted /\ initted' = initted
  BY <1>1 DEF TypeOK, Assign, OpenLoads
<1> QED
  BY <1>2, <1>4, <1>5, <1>6 DEF TypeOK

LEMMA OpenType ==
  ASSUME TypeOK, NEW v \in Vars, NEW f \in Files, Open(v, f)
  PROVE  TypeOK'
<1>1. CASE OpenUninitted(v, f)
  BY <1>1 DEF OpenUninitted, runtimeVars, clientVars, TypeOK
<1>2. CASE OpenAgain(v, f)
  <2>1. GetHandle(f) \in Handles
    BY <1>2, GetHandleType DEF OpenAgain
  <2> QED
    BY <1>2, <2>1 DEF OpenAgain, Assign, TypeOK
<1>3. CASE OpenFails(v, f)
  BY <1>3 DEF OpenFails, Assign, runtimeVars, TypeOK
<1>4. CASE OpenLoads(v, f)
  BY <1>4, OpenLoadsType
<1>5. CASE OpenOutOfMemory(v, f)
  BY <1>5 DEF OpenOutOfMemory, runtimeVars, clientVars, TypeOK
<1> QED
  BY <1>1, <1>2, <1>3, <1>4, <1>5 DEF Open

LEMMA CallbackType ==
  ASSUME TypeOK, CallbackReturns
  PROVE  TypeOK'
<1>1. stack # <<>> /\ (Top.h \in Loaded \/ PrologReturns)
  BY DEF CallbackReturns, CtorsReturn, PrologReturns, EpilogReturns, DtorsReturn, Returns
<1>2. CASE CtorsReturn
  <2>1. stack' \in Seq(FrameType)
    BY <1>1, <1>2, StackType DEF CtorsReturn, StartPhases
  <2> QED
    BY <1>2, <2>1 DEF CtorsReturn, runtimeVars, clientVars, TypeOK
<1>3. CASE PrologReturns
  <2>1. stack' \in Seq(FrameType)
    BY <1>1, <1>3, StackType DEF PrologReturns
  <2> QED
    BY <1>3, <2>1 DEF PrologReturns, runtimeVars, clientVars, TypeOK
<1>4. CASE EpilogReturns
  <2>1. stack' \in Seq(FrameType)
    BY <1>1, <1>4, StackType DEF EpilogReturns, EndPhases
  <2> QED
    BY <1>4, <2>1 DEF EpilogReturns, runtimeVars, clientVars, TypeOK
<1>5. CASE DtorsReturn
  <2>1. stack' \in Seq(FrameType) /\ Top.h \in Handles
    BY <1>1, <1>5, StackType DEF DtorsReturn
  <2>2. Top.h \in Members(list)
    BY <1>5 DEF DtorsReturn, Returns, Loaded, Members
  <2>3. list' \in Seq(Handles)
    BY <1>5, <2>2, RemoveUsoAt DEF DtorsReturn, TypeOK
  <2>4. /\ file' \in [Handles -> Files \cup {NULL}] /\ ref' \in [Handles -> Nat]
        /\ ehframes' \subseteq Handles
        /\ bind' \in [Handles -> [Symbols -> Handles \cup {Global, NULL}]]
    BY <1>5, <2>1 DEF DtorsReturn, TypeOK
  <2> QED
    BY <1>5, <2>1, <2>3, <2>4 DEF DtorsReturn, clientVars, TypeOK
<1> QED
  BY <1>2, <1>3, <1>4, <1>5 DEF CallbackReturns

LEMMA CloseType ==
  ASSUME TypeOK, NEW h, UsoClose(h), owns' \subseteq Vars
  PROVE  TypeOK'
<1>1. h \in Handles
  BY LoadedAreHandles DEF UsoClose, TypeOK
<1>2. DropRef(h) \in Nat
  BY <1>1 DEF DropRef, TypeOK
<1>3. ref' \in [Handles -> Nat]
  BY <1>1, <1>2 DEF UsoClose, TypeOK
<1>4. stack' \in Seq(FrameType) /\ halted' \in {"no", "assert", "fault"}
  <2>1. CASE CloseKeeps(h)
    BY <2>1 DEF CloseKeeps, TypeOK
  <2>2. CASE CloseFaults(h)
    BY <2>2 DEF CloseFaults, TypeOK
  <2>3. CASE CloseEnds(h)
    <3> DEFINE p == IF Epilog \in Exports[file[h]] THEN "epilog" ELSE "dtors"
    <3>1. Frame(h, p, NULL) \in FrameType
      BY <1>1 DEF Frame, FrameType, EndPhases
    <3> HIDE DEF p
    <3>2. stack' = Append(stack, Frame(h, p, NULL))
      BY <2>3 DEF CloseEnds, p
    <3> QED
      BY <2>3, <3>1, <3>2 DEF CloseEnds, TypeOK
  <2> QED
    BY <2>1, <2>2, <2>3 DEF UsoClose
<1> QED
  BY <1>3, <1>4 DEF UsoClose, TypeOK

LEMMA NextType == TypeOK /\ [Next]_vars => TypeOK'
<1> SUFFICES ASSUME TypeOK, [Next]_vars PROVE TypeOK'
  OBVIOUS
<1>1. CASE UsoInit
  BY <1>1, EmptySeq DEF UsoInit, clientVars, TypeOK
<1>2. CASE \E v \in Vars, f \in Files : Open(v, f)
  BY <1>2, OpenType
<1>3. CASE \E v \in Vars, f \in Files : LookUp(v, f)
  BY <1>3, GetHandleType DEF LookUp, Assign, runtimeVars, TypeOK
<1>4. CASE \E v \in Vars : CloseVar(v)
  <2>1. PICK v \in Vars : UsoClose(ptr[v]) /\ owns' = owns \ {v}
    BY <1>4 DEF CloseVar
  <2>2. owns' \subseteq Vars
    BY <2>1 DEF TypeOK
  <2> QED
    BY <2>1, <2>2, CloseType
<1>5. CASE \E v \in Vars : CloseInvalid(v)
  BY <1>5 DEF CloseInvalid, runtimeVars, clientVars, TypeOK
<1>6. CASE \E f \in Files : CloseByName(f)
  <2>1. PICK f \in Files : UsoClose(GetHandle(f)) /\ owns' = owns
    BY <1>6 DEF CloseByName
  <2>2. owns' \subseteq Vars
    BY <2>1 DEF TypeOK
  <2> QED
    BY <2>1, <2>2, CloseType
<1>7. CASE CallbackReturns
  BY <1>7, CallbackType
<1>8. CASE TouchFreed
  BY <1>8 DEF TouchFreed, runtimeVars, clientVars, TypeOK
<1>9. CASE UNCHANGED vars
  BY <1>9 DEF vars, runtimeVars, clientVars, TypeOK
<1>10. CASE \E v \in Vars, p \in Handles \cup {Global} : LookUpPtr(v, p)
  <2>1. PICK v \in Vars, p \in Handles \cup {Global} : LookUpPtr(v, p)
    BY <1>10
  <2>2. p \in Loaded => p \in Handles /\ file[p] \in Files \cup {NULL}
    BY LoadedAreHandles DEF TypeOK
  <2> QED
    BY <2>1, <2>2 DEF LookUpPtr, GetHandlePtr, Assign, runtimeVars, TypeOK
<1> QED
  BY <1>1, <1>2, <1>3, <1>4, <1>5, <1>6, <1>7, <1>8, <1>9, <1>10 DEF Next

\* Every variable of uso.c and of the program keeps the type it was declared with,
\* whatever the program does.
THEOREM TypeCorrect == Spec => []TypeOK
BY InitType, NextType, PTL DEF Spec

-----------------------------------------------------------------------------
(* A file is loaded once, whatever the program does. *)

OnceOn(l, F) == \A i, j \in DOMAIN l : F[l[i]] = F[l[j]] => i = j

LEMMA InsertKeepsOnce ==
  ASSUME NEW l \in Seq(Handles), NEW F, NEW G, NEW h \in Handles, OnceOn(l, F),
         \A x \in Members(l) : G[x] = F[x] /\ F[x] # G[h]
  PROVE  OnceOn(InsertUso(l, h), G)
<1> DEFINE r == InsertUso(l, h)
<1>1. /\ r \in Seq(Handles) /\ Len(r) = Len(l) + 1
      /\ \A i \in 1 .. Len(l) : r[i] = l[i]
      /\ r[Len(l) + 1] = h
  BY AppendMembers
<1>2. /\ DOMAIN l = 1 .. Len(l) /\ Len(l) \in Nat
      /\ DOMAIN r = 1 .. Len(l) + 1
  BY <1>1, LenProperties
<1> HIDE DEF r
<1>3. \A i \in 1 .. Len(l) : G[r[i]] = F[l[i]] /\ F[l[i]] # G[h]
  BY <1>1, <1>2 DEF Members
<1>4. \A i \in 1 .. Len(l) + 1 : i \in 1 .. Len(l) \/ i = Len(l) + 1
  BY <1>2
<1>5. ASSUME NEW i \in 1 .. Len(l) + 1, NEW j \in 1 .. Len(l) + 1, G[r[i]] = G[r[j]]
      PROVE  i = j
  <2>1. CASE i \in 1 .. Len(l) /\ j \in 1 .. Len(l)
    BY <1>2, <1>3, <1>5, <2>1 DEF OnceOn
  <2>2. CASE i = Len(l) + 1 \/ j = Len(l) + 1
    BY <1>1, <1>3, <1>4, <1>5, <2>2
  <2> QED
    BY <1>4, <2>1, <2>2
<1> QED
  BY <1>2, <1>5 DEF OnceOn, r

LEMMA RemoveKeepsOnce ==
  ASSUME NEW l \in Seq(Handles), NEW F, NEW G, NEW h \in Members(l), OnceOn(l, F),
         \A x \in Members(l) : x # h => G[x] = F[x]
  PROVE  OnceOn(RemoveUso(l, h), G)
<1>1. Injective(l)
  BY DEF OnceOn, Injective
<1>2. PICK m \in [1 .. Len(l) - 1 -> 1 .. Len(l)] :
        /\ \A i \in 1 .. Len(l) - 1 :
             RemoveUso(l, h)[i] = l[m[i]] /\ l[m[i]] # h
        /\ \A i, j \in 1 .. Len(l) - 1 : i < j <=> m[i] < m[j]
  BY <1>1, RemoveUsoKeepsOrder
<1>3. /\ DOMAIN l = 1 .. Len(l) /\ Len(l) \in Nat
      /\ DOMAIN RemoveUso(l, h) = 1 .. Len(l) - 1
  BY RemoveUsoAt, LenProperties
<1>4. ASSUME NEW i \in 1 .. Len(l) - 1, NEW j \in 1 .. Len(l) - 1,
             G[RemoveUso(l, h)[i]] = G[RemoveUso(l, h)[j]]
      PROVE  i = j
  <2>1. m[i] \in 1 .. Len(l) /\ m[j] \in 1 .. Len(l)
    OBVIOUS
  <2>2. F[l[m[i]]] = F[l[m[j]]]
    BY <1>2, <1>3, <1>4, <2>1 DEF Members
  <2>3. m[i] = m[j]
    BY <1>3, <2>1, <2>2 DEF OnceOn
  <2> QED
    BY <1>2, <1>3, <2>1, <2>3
<1> QED
  BY <1>3, <1>4 DEF OnceOn

LEMMA NextLoadedOnce == TypeOK /\ LoadedOnce /\ [Next]_vars => LoadedOnce'
<1> SUFFICES ASSUME TypeOK, LoadedOnce, [Next]_vars PROVE LoadedOnce'
  OBVIOUS
<1>1. CASE UNCHANGED <<list, file>>
  BY <1>1 DEF LoadedOnce
<1>2. CASE UsoInit
  BY <1>2 DEF UsoInit, LoadedOnce
<1>0. /\ list \in Seq(Handles) /\ file \in [Handles -> Files \cup {NULL}]
      /\ Loaded = Members(list) /\ Loaded \subseteq Handles /\ OnceOn(list, file)
  BY LoadedAreHandles DEF TypeOK, LoadedOnce, OnceOn
<1>3. ASSUME NEW v \in Vars, NEW f \in Files, OpenLoads(v, f)
      PROVE  LoadedOnce'
  <2>1. PICK h \in Handles \ Loaded :
          list' = InsertUso(list, h) /\ file' = [file EXCEPT ![h] = f]
    BY <1>3 DEF OpenLoads, Free
  <2>2. \A x \in Members(list) : file'[x] = file[x] /\ file[x] # file'[h]
    BY <1>0, <1>3, <2>1 DEF OpenLoads, Named
  <2>3. OnceOn(InsertUso(list, h), file')
    BY <1>0, <2>2, InsertKeepsOnce
  <2> QED
    BY <2>1, <2>3 DEF LoadedOnce, OnceOn
<1>4. CASE DtorsReturn
  <2>1. /\ Top.h \in Members(list)
        /\ list' = RemoveUso(list, Top.h) /\ file' = [file EXCEPT ![Top.h] = NULL]
    BY <1>0, <1>4 DEF DtorsReturn, Returns
  <2>2. \A x \in Members(list) : x # Top.h => file'[x] = file[x]
    BY <1>0, <2>1
  <2>3. OnceOn(RemoveUso(list, Top.h), file')
    BY <1>0, <2>1, <2>2, RemoveKeepsOnce
  <2> QED
    BY <2>1, <2>3 DEF LoadedOnce, OnceOn
<1>5. ASSUME NEW v \in Vars, NEW f \in Files, Open(v, f)
      PROVE  UNCHANGED <<list, file>> \/ OpenLoads(v, f)
  BY <1>5 DEF Open, OpenUninitted, OpenAgain, OpenFails, OpenOutOfMemory, runtimeVars
<1>6. CallbackReturns => UNCHANGED <<list, file>> \/ DtorsReturn
  BY DEF CallbackReturns, CtorsReturn, PrologReturns, EpilogReturns, runtimeVars
<1>7. Next => \/ UNCHANGED <<list, file>> \/ UsoInit \/ CallbackReturns
              \/ \E v \in Vars, f \in Files : Open(v, f)
  BY DEF Next, LookUp, LookUpPtr, CloseVar, CloseInvalid, CloseByName, UsoClose, TouchFreed,
         runtimeVars
<1>8. UNCHANGED vars => UNCHANGED <<list, file>>
  BY DEF vars, runtimeVars
<1> QED
  BY <1>1, <1>2, <1>3, <1>4, <1>5, <1>6, <1>7, <1>8

\* No file name is ever on the list twice, whatever the program and its callbacks
\* open and close (uso.c:526-532): uso_open never loads a second copy.
THEOREM NeverLoadedTwice == Spec => []LoadedOnce
<1>1. Init => LoadedOnce
  BY DEF Init, LoadedOnce
<1> QED
  BY <1>1, TypeCorrect, NextLoadedOnce, PTL DEF Spec

-----------------------------------------------------------------------------
(* A program that keeps the contract. *)

\* Every import that is bound to a USO is bound to the first one on the list that
\* exports the name, which stands before the importer.
BoundOn(l, F, B) ==
  \A i \in 1 .. Len(l) : \A s \in Symbols :
    B[l[i]][s] \in Handles =>
      \E k \in 1 .. i - 1 :
        /\ l[k] = B[l[i]][s] /\ s \in Exports[F[l[k]]]
        /\ \A j \in 1 .. Len(l) : s \in Exports[F[l[j]]] => k <= j

Unused ==
  {h \in Loaded : ref[h] = 0 /\ \A x \in Loaded : \A s \in Symbols : bind[x][s] # h}
Owners(h) == {v \in owns : ptr[v] = h}

ListInv ==
  /\ LoadedOnce
  /\ BoundOn(list, file, bind)
  /\ \A h \in Loaded : /\ file[h] \in Files
                       /\ file[h] \in HasEhFrame => h \in ehframes
  /\ initted \/ list = <<>>

ClientInv == RefCountExact /\ OwnedStaysLoaded

StackInv ==
  \A i \in 1 .. Len(stack) :
    /\ stack[i].h \in Loaded
    /\ stack[i].phase \in EndPhases => stack[i].h \in Unused
    /\ \A j \in 1 .. Len(stack) : stack[i].h = stack[j].h => i = j

ContractInv == TypeOK /\ ListInv /\ ClientInv /\ StackInv

-----------------------------------------------------------------------------
LEMMA InsertKeepsBound ==
  ASSUME NEW l \in Seq(Handles), NEW F, NEW G, NEW B, NEW C,
         NEW h \in Handles \ Members(l), BoundOn(l, F, B),
         \A x \in Members(l) : G[x] = F[x] /\ C[x] = B[x],
         \A s \in Symbols : C[h][s] \in Handles =>
           \E k \in 1 .. Len(l) :
             /\ l[k] = C[h][s] /\ s \in Exports[F[l[k]]]
             /\ \A j \in 1 .. Len(l) : s \in Exports[F[l[j]]] => k <= j
  PROVE  BoundOn(InsertUso(l, h), G, C)
<1> DEFINE r == InsertUso(l, h)
<1>1. /\ r \in Seq(Handles) /\ Len(r) = Len(l) + 1
      /\ \A i \in 1 .. Len(l) : r[i] = l[i]
      /\ r[Len(l) + 1] = h
  BY AppendMembers
<1>2. DOMAIN l = 1 .. Len(l) /\ Len(l) \in Nat
  BY LenProperties
<1> HIDE DEF r
<1>3. \A i \in 1 .. Len(l) : r[i] = l[i] /\ G[r[i]] = F[l[i]] /\ C[r[i]] = B[l[i]]
  BY <1>1, <1>2 DEF Members
<1>4. \A i \in 1 .. Len(l) + 1 : i \in 1 .. Len(l) \/ i = Len(l) + 1
  BY <1>2
<1>5. ASSUME NEW i \in 1 .. Len(l) + 1, NEW s \in Symbols, C[r[i]][s] \in Handles
      PROVE  \E k \in 1 .. i - 1 :
               /\ r[k] = C[r[i]][s] /\ s \in Exports[G[r[k]]]
               /\ \A j \in 1 .. Len(l) + 1 : s \in Exports[G[r[j]]] => k <= j
  <2>1. \E k \in 1 .. Len(l) :
          /\ k < i /\ l[k] = C[r[i]][s] /\ s \in Exports[F[l[k]]]
          /\ \A j \in 1 .. Len(l) : s \in Exports[F[l[j]]] => k <= j
    <3>1. CASE i \in 1 .. Len(l)
      <4>1. B[l[i]][s] = C[r[i]][s]
        BY <1>3, <3>1
      <4>2. PICK k \in 1 .. i - 1 :
              /\ l[k] = B[l[i]][s] /\ s \in Exports[F[l[k]]]
              /\ \A j \in 1 .. Len(l) : s \in Exports[F[l[j]]] => k <= j
        BY <1>5, <3>1, <4>1 DEF BoundOn
      <4>3. k \in 1 .. Len(l) /\ k < i
        BY <1>2, <3>1
      <4> QED
        BY <4>1, <4>2, <4>3
    <3>2. CASE i = Len(l) + 1
      <4>1. r[i] = h
        BY <1>1, <3>2
      <4>2. \A k \in 1 .. Len(l) : k < i
        BY <1>2, <3>2
      <4> QED
        BY <1>5, <4>1, <4>2
    <3> QED
      BY <1>4, <3>1, <3>2
  <2>2. PICK k \in 1 .. Len(l) :
          /\ k < i /\ l[k] = C[r[i]][s] /\ s \in Exports[F[l[k]]]
          /\ \A j \in 1 .. Len(l) : s \in Exports[F[l[j]]] => k <= j
    BY <2>1
  <2>3. k \in 1 .. i - 1 /\ k <= Len(l) + 1
    BY <1>2, <2>2
  <2>4. \A j \in 1 .. Len(l) + 1 : s \in Exports[G[r[j]]] => k <= j
    BY <1>3, <1>4, <2>2, <2>3
  <2> QED
    BY <1>3, <2>2, <2>3, <2>4
<1> QED
  BY <1>1, <1>5 DEF BoundOn, r

LEMMA RemoveKeepsBound ==
  ASSUME NEW l \in Seq(Handles), NEW F, NEW G, NEW B, NEW C,
         NEW h \in Members(l), Injective(l), BoundOn(l, F, B),
         \A x \in Members(l) : x # h => G[x] = F[x] /\ C[x] = B[x],
         \A x \in Members(l) : \A s \in Symbols : B[x][s] # h
  PROVE  BoundOn(RemoveUso(l, h), G, C)
<1> DEFINE r == RemoveUso(l, h)
<1>1. PICK m \in [1 .. Len(l) - 1 -> 1 .. Len(l)] :
        /\ \A i \in 1 .. Len(l) - 1 : r[i] = l[m[i]] /\ l[m[i]] # h
        /\ \A i, j \in 1 .. Len(l) - 1 : i < j <=> m[i] < m[j]
        /\ \A j \in 1 .. Len(l) : l[j] # h => \E i \in 1 .. Len(l) - 1 : m[i] = j
  BY RemoveUsoKeepsOrder
<1>2. DOMAIN l = 1 .. Len(l) /\ Len(l) \in Nat /\ Len(r) = Len(l) - 1
  BY RemoveUsoAt, LenProperties
<1> HIDE DEF r
<1>3. ASSUME NEW i \in 1 .. Len(l) - 1
      PROVE  /\ m[i] \in 1 .. Len(l) /\ r[i] = l[m[i]]
             /\ G[r[i]] = F[l[m[i]]] /\ C[r[i]] = B[l[m[i]]]
  <2>1. m[i] \in 1 .. Len(l)
    OBVIOUS
  <2> QED
    BY <1>1, <1>2, <2>1 DEF Members
<1>4. ASSUME NEW i \in 1 .. Len(l) - 1, NEW s \in Symbols, C[r[i]][s] \in Handles
      PROVE  \E k \in 1 .. i - 1 :
               /\ r[k] = C[r[i]][s] /\ s \in Exports[G[r[k]]]
               /\ \A j \in 1 .. Len(l) - 1 : s \in Exports[G[r[j]]] => k <= j
  <2>1. m[i] \in 1 .. Len(l) /\ C[r[i]][s] = B[l[m[i]]][s]
    BY <1>3
  <2>2. PICK q \in 1 .. m[i] - 1 :
          /\ l[q] = B[l[m[i]]][s] /\ s \in Exports[F[l[q]]]
          /\ \A j \in 1 .. Len(l) : s \in Exports[F[l[j]]] => q <= j
    BY <1>4, <2>1 DEF BoundOn
  <2>3. q \in 1 .. Len(l) /\ q < m[i]
    BY <1>2, <2>1
  <2>4. l[q] # h
    BY <1>2, <2>1, <2>2 DEF Members
  <2>5. PICK k \in 1 .. Len(l) - 1 : m[k] = q
    BY <1>1, <2>3, <2>4
  <2>6. k < i
    BY <1>1, <2>3, <2>5
  <2>7. k \in 1 .. i - 1
    BY <1>2, <2>6
  <2>8. r[k] = C[r[i]][s] /\ s \in Exports[G[r[k]]]
    BY <1>3, <2>1, <2>2, <2>5
  <2>9. ASSUME NEW j \in 1 .. Len(l) - 1, s \in Exports[G[r[j]]]
        PROVE  k <= j
    <3>1. m[j] \in 1 .. Len(l) /\ q <= m[j]
      BY <1>3, <2>2, <2>9
    <3>2. ~ (m[j] < m[k])
      BY <2>5, <3>1, <1>2
    <3>3. ~ (j < k)
      BY <1>1, <3>2
    <3> QED
      BY <1>2, <3>3
  <2> QED
    BY <2>7, <2>8, <2>9
<1> QED
  BY <1>2, <1>4 DEF BoundOn, r

-----------------------------------------------------------------------------
(* What follows from the invariant in a state. *)

LEMMA ListFacts ==
  ASSUME TypeOK
  PROVE  /\ list \in Seq(Handles) /\ DOMAIN list = 1 .. Len(list) /\ Len(list) \in Nat
         /\ Loaded = Members(list) /\ Loaded \subseteq Handles
         /\ \A i \in 1 .. Len(list) : list[i] \in Loaded
         /\ \A h \in Loaded : \E i \in 1 .. Len(list) : list[i] = h
<1>1. list \in Seq(Handles)
  BY DEF TypeOK
<1>2. DOMAIN list = 1 .. Len(list) /\ Len(list) \in Nat
  BY <1>1, LenProperties
<1> QED
  BY <1>1, <1>2, LoadedAreHandles DEF Loaded

LEMMA LoadedOnceInjective == ASSUME LoadedOnce PROVE Injective(list)
BY DEF LoadedOnce, Injective

\* A USO that is closeable has nothing bound to it.
LEMMA CloseableIsUnbound ==
  ASSUME TypeOK, ListInv, NEW h \in Loaded, IsUsoCloseable(h)
  PROVE  \A x \in Loaded : \A s \in Symbols : bind[x][s] # h
<1> SUFFICES ASSUME NEW x \in Loaded, NEW s \in Symbols, bind[x][s] = h
             PROVE  FALSE
  OBVIOUS
<1>1. PICK i \in 1 .. Len(list) : list[i] = x
  BY ListFacts
<1>2. h \in Handles /\ NULL \notin Handles
  BY ListFacts, ValuesAssumption
<1>3. PICK k \in 1 .. i - 1 : list[k] = h /\ s \in Exports[file[list[k]]]
  BY <1>1, <1>2 DEF ListInv, BoundOn
<1>4. CASE x = h
  <2>1. k \in 1 .. Len(list) /\ k # i
    BY ListFacts
  <2> QED
    BY <1>1, <1>3, <1>4, <2>1, ListFacts DEF ListInv, LoadedOnce
<1>5. CASE x # h
  BY <1>2, <1>3, <1>5 DEF IsUsoCloseable
<1> QED
  BY <1>4, <1>5

\* An import is bound to the first USO on the list that exports its name.
LEMMA SearchFindsFirst ==
  ASSUME TypeOK, NEW s, SearchLoadedSymbols(s) \in Handles
  PROVE  \E k \in 1 .. Len(list) :
           /\ list[k] = SearchLoadedSymbols(s) /\ s \in Exports[file[list[k]]]
           /\ \A j \in 1 .. Len(list) : s \in Exports[file[list[j]]] => k <= j
<1>1. Global \notin Handles /\ NULL \notin Handles
  BY ValuesAssumption
<1>2. /\ Exporting(s) # {}
      /\ SearchLoadedSymbols(s) = FirstLoaded(Exporting(s))
  BY <1>1 DEF SearchLoadedSymbols
<1>3. Loaded \cap Exporting(s) # {}
  BY <1>2 DEF Exporting
<1>4. PICK k \in 1 .. Len(list) :
        /\ FirstLoaded(Exporting(s)) = list[k] /\ list[k] \in Exporting(s)
        /\ \A j \in 1 .. Len(list) : list[j] \in Exporting(s) => k <= j
  BY <1>3, ListFacts, FirstLoadedIsFirst
<1>5. \A j \in 1 .. Len(list) : s \in Exports[file[list[j]]] => list[j] \in Exporting(s)
  BY ListFacts DEF Exporting
<1>6. s \in Exports[file[list[k]]]
  BY <1>4 DEF Exporting
<1> QED
  BY <1>2, <1>4, <1>5, <1>6

LEMMA OwnersFinite ==
  ASSUME TypeOK, NEW h
  PROVE  IsFiniteSet(Owners(h)) /\ Cardinality(Owners(h)) \in Nat
<1>1. Owners(h) \in SUBSET Vars
  BY DEF Owners, TypeOK
<1>2. IsFiniteSet(Owners(h))
  BY <1>1, ValuesAssumption, FS_Subset
<1> QED
  BY <1>2, FS_CardinalityType

\* A variable that takes a reference joins the owners of its handle.
LEMMA OwnersGain ==
  ASSUME TypeOK, NEW v \in Vars \ owns, NEW h,
         ptr' = [ptr EXCEPT ![v] = h], owns' = owns \cup {v}
  PROVE  /\ Owners(h)' = Owners(h) \cup {v}
         /\ Cardinality(Owners(h)') = Cardinality(Owners(h)) + 1
         /\ \A x : x # h => Owners(x)' = Owners(x)
<1>1. ptr'[v] = h /\ \A u \in Vars : u # v => ptr'[u] = ptr[u]
  BY DEF TypeOK
<1>2. owns \subseteq Vars
  BY DEF TypeOK
<1>3. Owners(h)' = Owners(h) \cup {v} /\ v \notin Owners(h)
  BY <1>1, <1>2 DEF Owners
<1>4. \A x : x # h => Owners(x)' = Owners(x)
  BY <1>1, <1>2 DEF Owners
<1>5. Cardinality(Owners(h) \cup {v}) = Cardinality(Owners(h)) + 1
  BY <1>3, OwnersFinite, FS_AddElement
<1> QED
  BY <1>3, <1>4, <1>5

-----------------------------------------------------------------------------
(* uso_open. *)

LEMMA OpenLoadsFacts ==
  ASSUME TypeOK, NEW v \in Vars, NEW f \in Files, OpenLoads(v, f)
  PROVE  \E h \in Handles \ Loaded :
           /\ list' = InsertUso(list, h) /\ Loaded' = Loaded \cup {h}
           /\ file'[h] = f /\ ref'[h] = 1 /\ bind'[h] = BindImports(f)
           /\ \A x \in Loaded : /\ file'[x] = file[x] /\ ref'[x] = ref[x]
                                /\ bind'[x] = bind[x]
           /\ file' = [file EXCEPT ![h] = f]
           /\ ehframes \subseteq ehframes' /\ (f \in HasEhFrame => h \in ehframes')
           /\ stack' = Append(stack, Frame(h, "ctors", v))
           /\ ptr' = [ptr EXCEPT ![v] = h] /\ opened' = [opened EXCEPT ![v] = f]
           /\ owns' = owns \cup {v} /\ initted'
<1>1. PICK h \in Handles \ Loaded :
        /\ file' = [file EXCEPT ![h] = f]
        /\ ref' = [ref EXCEPT ![h] = 1]
        /\ bind' = [bind EXCEPT ![h] = BindImports(f)]
        /\ list' = InsertUso(list, h)
        /\ ehframes' = IF f \in HasEhFrame THEN ehframes \cup {h} ELSE ehframes
        /\ stack' = Append(stack, Frame(h, "ctors", v))
        /\ Assign(v, h, f)
  BY DEF OpenLoads, Free
<1>2. Members(InsertUso(list, h)) = Members(list) \cup {h}
  <2>1. list \in Seq(Handles) /\ h \in Handles
    BY DEF TypeOK
  <2> QED
    BY <2>1, AppendMembers
<1>3. Loaded' = Members(list') /\ Loaded = Members(list)
  BY DEF Loaded, Members
<1>4. Loaded' = Loaded \cup {h}
  BY <1>1, <1>2, <1>3
<1>5. /\ file'[h] = f /\ ref'[h] = 1 /\ bind'[h] = BindImports(f)
      /\ \A x \in Loaded : file'[x] = file[x] /\ ref'[x] = ref[x] /\ bind'[x] = bind[x]
  BY <1>1, ListFacts DEF TypeOK
<1>6. /\ ehframes \subseteq ehframes' /\ (f \in HasEhFrame => h \in ehframes')
      /\ ptr' = [ptr EXCEPT ![v] = h] /\ opened' = [opened EXCEPT ![v] = f]
      /\ owns' = owns \cup {v} /\ initted'
  BY <1>1 DEF OpenLoads, Assign
<1> QED
  BY <1>1, <1>4, <1>5, <1>6

LEMMA OpenLoadsListInv ==
  ASSUME TypeOK, ListInv, NEW v \in Vars, NEW f \in Files, OpenLoads(v, f)
  PROVE  ListInv'
<1>1. PICK h \in Handles \ Loaded :
        /\ list' = InsertUso(list, h) /\ Loaded' = Loaded \cup {h}
        /\ file'[h] = f /\ bind'[h] = BindImports(f)
        /\ \A x \in Loaded : file'[x] = file[x] /\ bind'[x] = bind[x]
        /\ ehframes \subseteq ehframes' /\ (f \in HasEhFrame => h \in ehframes')
        /\ initted'
  BY OpenLoadsFacts
<1>2. LoadedOnce'
  <2>1. Open(v, f) /\ Next
    BY DEF Open, Next
  <2> QED
    BY <2>1, NextLoadedOnce DEF ListInv
<1>3. BoundOn(list, file, bind)'
  <2>1. \A s \in Symbols : bind'[h][s] \in Handles =>
          \E k \in 1 .. Len(list) :
            /\ list[k] = bind'[h][s] /\ s \in Exports[file[list[k]]]
            /\ \A j \in 1 .. Len(list) : s \in Exports[file[list[j]]] => k <= j
    <3> SUFFICES ASSUME NEW s \in Symbols, bind'[h][s] \in Handles
                 PROVE  \E k \in 1 .. Len(list) :
                          /\ list[k] = bind'[h][s] /\ s \in Exports[file[list[k]]]
                          /\ \A j \in 1 .. Len(list) :
                               s \in Exports[file[list[j]]] => k <= j
      OBVIOUS
    <3>1. bind'[h][s] = SearchLoadedSymbols(s)
      BY <1>1, ValuesAssumption DEF BindImports
    <3> QED
      BY <3>1, SearchFindsFirst
  <2>2. h \in Handles \ Members(list) /\ list \in Seq(Handles)
    BY ListFacts
  <2>3. \A x \in Members(list) : file'[x] = file[x] /\ bind'[x] = bind[x]
    BY <1>1, ListFacts
  <2>4. BoundOn(InsertUso(list, h), file', bind')
    BY <2>1, <2>2, <2>3, InsertKeepsBound DEF ListInv
  <2> QED
    BY <1>1, <2>4 DEF BoundOn
<1>4. \A x \in Loaded' : /\ file'[x] \in Files
                         /\ file'[x] \in HasEhFrame => x \in ehframes'
  BY <1>1 DEF ListInv
<1> QED
  BY <1>1, <1>2, <1>3, <1>4 DEF ListInv

LEMMA OpenLoadsClientInv ==
  ASSUME TypeOK, ClientInv, NEW v \in Vars, NEW f \in Files, OpenLoads(v, f)
  PROVE  ClientInv'
<1>1. PICK h \in Handles \ Loaded :
        /\ Loaded' = Loaded \cup {h} /\ file'[h] = f /\ ref'[h] = 1
        /\ \A x \in Loaded : file'[x] = file[x] /\ ref'[x] = ref[x]
        /\ ptr' = [ptr EXCEPT ![v] = h] /\ opened' = [opened EXCEPT ![v] = f]
        /\ owns' = owns \cup {v}
  BY OpenLoadsFacts
<1>2. v \notin owns /\ owns \subseteq Vars
  BY DEF OpenLoads, CallOpen, Idle, TypeOK
<1>3. Owners(h) = {} /\ Cardinality(Owners(h)) = 0
  <2>1. Owners(h) = {}
    BY DEF Owners, ClientInv, OwnedStaysLoaded
  <2> QED
    BY <2>1, FS_EmptySet
<1>4. /\ Cardinality(Owners(h)') = 1
      /\ \A x : x # h => Owners(x)' = Owners(x)
  <2>1. v \in Vars \ owns
    BY <1>2
  <2>2. /\ Cardinality(Owners(h)') = Cardinality(Owners(h)) + 1
        /\ \A x : x # h => Owners(x)' = Owners(x)
    BY <1>1, <2>1, OwnersGain
  <2> QED
    BY <1>3, <2>2
<1>5. \A x \in Loaded : ref[x] = Cardinality(Owners(x))
  BY DEF ClientInv, RefCountExact, Owners
<1>6. \A x \in Loaded' : ref'[x] = Cardinality(Owners(x)')
  BY <1>1, <1>4, <1>5
<1>7. RefCountExact'
  BY <1>6 DEF RefCountExact, Owners
<1>8. OwnedStaysLoaded'
  <2>1. ptr'[v] = h /\ opened'[v] = f
    BY <1>1 DEF TypeOK
  <2>2. \A u \in owns : ptr'[u] = ptr[u] /\ opened'[u] = opened[u]
    BY <1>1, <1>2 DEF TypeOK
  <2>3. \A u \in owns : ptr'[u] \in Loaded' /\ file'[ptr'[u]] = opened'[u]
    BY <1>1, <2>2 DEF ClientInv, OwnedStaysLoaded
  <2> QED
    BY <1>1, <2>1, <2>3 DEF OwnedStaysLoaded
<1> QED
  BY <1>7, <1>8 DEF ClientInv

StackFacts ==
  /\ stack \in Seq(FrameType) /\ Len(stack) \in Nat /\ DOMAIN stack = 1 .. Len(stack)
  /\ \A i \in 1 .. Len(stack) : stack[i] \in FrameType

LEMMA StackIsTyped == TypeOK => StackFacts
BY LenProperties, ElementOfSeq DEF TypeOK, StackFacts

LEMMA OpenLoadsStackInv ==
  ASSUME Contract = ContractClauses, TypeOK, StackInv,
         NEW v \in Vars, NEW f \in Files, OpenLoads(v, f)
  PROVE  StackInv'
<1>1. PICK h \in Handles \ Loaded :
        /\ Loaded' = Loaded \cup {h} /\ bind'[h] = BindImports(f)
        /\ \A x \in Loaded : ref'[x] = ref[x] /\ bind'[x] = bind[x]
        /\ stack' = Append(stack, Frame(h, "ctors", v))
  BY OpenLoadsFacts
<1>2. StackFacts
  BY StackIsTyped
<1>3. /\ Len(stack') = Len(stack) + 1
      /\ \A i \in 1 .. Len(stack) : stack'[i] = stack[i]
      /\ stack'[Len(stack) + 1] = Frame(h, "ctors", v)
  BY <1>1, <1>2 DEF StackFacts
<1>4. \A i \in 1 .. Len(stack) + 1 : i \in 1 .. Len(stack) \/ i = Len(stack) + 1
  BY <1>2 DEF StackFacts
<1>5. \A i \in 1 .. Len(stack) : stack[i].h \in Loaded /\ stack[i].h # h
  BY <1>1 DEF StackInv
<1>6. /\ stack'[Len(stack) + 1].h = h
      /\ stack'[Len(stack) + 1].phase \notin EndPhases
  BY <1>3 DEF Frame, EndPhases
<1>7. ASSUME NEW i \in 1 .. Len(stack), stack[i].phase \in EndPhases
      PROVE  stack[i].h \in Unused'
  <2>1. PICK e : e = stack[i].h
    OBVIOUS
  <2>2. e \in Ending
    BY <1>2, <1>7, <2>1 DEF Ending, StackFacts
  <2>3. \A s \in Imports[f] : SearchLoadedSymbols(s) # e
    BY <2>2 DEF OpenLoads, CallOpen, MayOpen, Obliged, ContractClauses
  <2>4. e \in Loaded /\ e \in Handles /\ NULL \notin Handles /\ e \in Unused
    BY <1>7, <2>1, ListFacts, ValuesAssumption DEF StackInv
  <2>5. \A s \in Symbols : bind'[h][s] # e
    BY <1>1, <2>3, <2>4 DEF BindImports
  <2>6. e \in Unused'
    BY <1>1, <2>4, <2>5 DEF Unused
  <2> QED
    BY <2>1, <2>6
<1>8. ASSUME NEW i \in 1 .. Len(stack) + 1
      PROVE  /\ stack'[i].h \in Loaded'
             /\ stack'[i].phase \in EndPhases => stack'[i].h \in Unused'
             /\ \A j \in 1 .. Len(stack) + 1 : stack'[i].h = stack'[j].h => i = j
  <2>1. stack'[i].h \in Loaded'
    BY <1>1, <1>3, <1>4, <1>5, <1>6
  <2>2. stack'[i].phase \in EndPhases => stack'[i].h \in Unused'
    BY <1>3, <1>4, <1>6, <1>7
  <2>3. \A j \in 1 .. Len(stack) + 1 : stack'[i].h = stack'[j].h => i = j
    <3>1. CASE i \in 1 .. Len(stack)
      BY <1>3, <1>4, <1>5, <1>6, <3>1 DEF StackInv
    <3>2. CASE i = Len(stack) + 1
      BY <1>3, <1>4, <1>5, <1>6, <3>2
    <3> QED
      BY <1>4, <3>1, <3>2
  <2> QED
    BY <2>1, <2>2, <2>3
<1> QED
  BY <1>3, <1>8 DEF StackInv

\* The other outcomes of uso_open leave the list and the stack as they are.
LEMMA OpenAgainInv ==
  ASSUME Contract = ContractClauses, TypeOK, ListInv, ClientInv, StackInv,
         NEW v \in Vars, NEW f \in Files, OpenAgain(v, f)
  PROVE  ListInv' /\ ClientInv' /\ StackInv'
<1>0. PICK h : h = GetHandle(f)
  OBVIOUS
<1>1. h \in Loaded /\ h \in Handles /\ file[h] = f
  BY <1>0, GetHandleType DEF OpenAgain, Named
<1>2. v \in Vars \ owns /\ owns \subseteq Vars
  BY DEF OpenAgain, CallOpen, Idle, TypeOK
<1>3. /\ ref' = [ref EXCEPT ![h] = @ + 1]
      /\ ptr' = [ptr EXCEPT ![v] = h] /\ opened' = [opened EXCEPT ![v] = f]
      /\ owns' = owns \cup {v}
      /\ UNCHANGED <<initted, list, file, bind, ehframes, stack>>
  BY <1>0 DEF OpenAgain, Assign
<1>4. h \notin Ending
  BY <1>1 DEF OpenAgain, CallOpen, MayOpen, Obliged, ContractClauses
<1>5. Loaded' = Loaded
  BY <1>3 DEF Loaded
<1>6. ListInv'
  BY <1>3, <1>5 DEF ListInv, LoadedOnce, BoundOn
<1>7. RefCountExact'
  <2>1. /\ Cardinality(Owners(h)') = Cardinality(Owners(h)) + 1
        /\ \A x : x # h => Owners(x)' = Owners(x)
    BY <1>2, <1>3, OwnersGain
  <2>2. \A x \in Loaded : ref[x] = Cardinality(Owners(x))
    BY DEF ClientInv, RefCountExact, Owners
  <2>3. \A x \in Loaded : ref'[x] = IF x = h THEN ref[h] + 1 ELSE ref[x]
    BY <1>1, <1>3, ListFacts DEF TypeOK
  <2>4. \A x \in Loaded : ref'[x] = Cardinality(Owners(x)')
    BY <1>1, <2>1, <2>2, <2>3
  <2> QED
    BY <1>5, <2>4 DEF RefCountExact, Owners
<1>8. OwnedStaysLoaded'
  <2>1. ptr'[v] = h /\ opened'[v] = f
    BY <1>3 DEF TypeOK
  <2>2. \A u \in owns : ptr'[u] = ptr[u] /\ opened'[u] = opened[u]
    BY <1>2, <1>3 DEF TypeOK
  <2> QED
    BY <1>1, <1>3, <1>5, <2>1, <2>2 DEF ClientInv, OwnedStaysLoaded
<1>9. StackInv'
  <2>1. ASSUME NEW i \in 1 .. Len(stack), stack[i].phase \in EndPhases
        PROVE  stack[i].h \in Unused'
    <3>1. PICK e : e = stack[i].h
      OBVIOUS
    <3>2. e \in Ending /\ e \in Loaded /\ e \in Unused
      BY <2>1, <3>1, StackIsTyped DEF Ending, StackFacts, StackInv
    <3>3. ref'[e] = ref[e]
      BY <1>3, <1>4, <3>2, ListFacts DEF TypeOK
    <3> QED
      BY <1>3, <1>5, <3>1, <3>2, <3>3 DEF Unused
  <2> QED
    BY <1>3, <1>5, <2>1 DEF StackInv
<1> QED
  BY <1>6, <1>7, <1>8, <1>9 DEF ClientInv

-----------------------------------------------------------------------------
(* uso_close, up to the first callback. *)

LEMMA CloseFacts ==
  ASSUME TypeOK, NEW h, UsoClose(h)
  PROVE  /\ h \in Loaded /\ Loaded' = Loaded
         /\ ref' = [ref EXCEPT ![h] = DropRef(h)]
         /\ UNCHANGED <<initted, list, file, bind, ehframes, ptr, opened>>
         /\ \A x \in Loaded : x # h => ref'[x] = ref[x]
         /\ ref'[h] = DropRef(h)
<1>1. /\ h \in Loaded /\ ref' = [ref EXCEPT ![h] = DropRef(h)]
      /\ UNCHANGED <<initted, list, file, bind, ehframes, ptr, opened>>
  BY DEF UsoClose
<1>2. /\ \A x \in Loaded : x # h => ref'[x] = ref[x]
      /\ ref'[h] = DropRef(h)
  BY <1>1, ListFacts DEF TypeOK
<1> QED
  BY <1>1, <1>2 DEF Loaded

LEMMA CloseListInv ==
  ASSUME TypeOK, ListInv, NEW h, UsoClose(h)
  PROVE  ListInv'
<1>1. Loaded' = Loaded /\ UNCHANGED <<initted, list, file, bind, ehframes>>
  BY CloseFacts
<1> QED
  BY <1>1 DEF ListInv, LoadedOnce, BoundOn

LEMMA CloseStackInv ==
  ASSUME Contract = ContractClauses, TypeOK, ListInv, StackInv,
         NEW h, NEW b, UsoClose(h), MayClose(h, b)
  PROVE  StackInv'
<1>1. /\ h \in Loaded /\ Loaded' = Loaded /\ bind' = bind
      /\ \A x \in Loaded : x # h => ref'[x] = ref[x]
      /\ ref'[h] = DropRef(h) /\ ref[h] \in Nat
  BY CloseFacts, ListFacts DEF TypeOK
<1>2. StackFacts
  BY StackIsTyped
<1>3. \A x \in Unused : x \in Unused'
  BY <1>1 DEF Unused, DropRef
<1>4. CASE UNCHANGED stack
  BY <1>1, <1>3, <1>4 DEF StackInv
<1>5. CASE CloseEnds(h)
  <2>1. PICK p \in EndPhases : stack' = Append(stack, Frame(h, p, NULL))
    BY <1>5 DEF CloseEnds, EndPhases
  <2>2. /\ Len(stack') = Len(stack) + 1
        /\ \A i \in 1 .. Len(stack) : stack'[i] = stack[i]
        /\ stack'[Len(stack) + 1] = Frame(h, p, NULL)
    BY <1>2, <2>1 DEF StackFacts
  <2>3. \A i \in 1 .. Len(stack) + 1 : i \in 1 .. Len(stack) \/ i = Len(stack) + 1
    BY <1>2 DEF StackFacts
  <2>4. stack'[Len(stack) + 1].h = h
    BY <2>2 DEF Frame
  <2>5. h \notin OnStack
    BY <1>1, <1>5 DEF CloseEnds, DropRef, MayClose, Obliged, ContractClauses
  <2>6. \A i \in 1 .. Len(stack) : stack'[i].h # h
    BY <1>2, <2>2, <2>5 DEF OnStack, StackFacts
  <2>7. h \in Unused'
    BY <1>1, <1>5, CloseableIsUnbound DEF CloseEnds, Unused
  <2>8. ASSUME NEW i \in 1 .. Len(stack) + 1
        PROVE  /\ stack'[i].h \in Loaded'
               /\ stack'[i].phase \in EndPhases => stack'[i].h \in Unused'
               /\ \A j \in 1 .. Len(stack) + 1 : stack'[i].h = stack'[j].h => i = j
    <3>1. CASE i \in 1 .. Len(stack)
      BY <1>1, <1>3, <2>2, <2>3, <2>4, <2>6, <3>1 DEF StackInv
    <3>2. CASE i = Len(stack) + 1
      BY <1>1, <2>3, <2>4, <2>6, <2>7, <3>2
    <3> QED
      BY <2>3, <3>1, <3>2
  <2> QED
    BY <2>2, <2>8 DEF StackInv
<1> QED
  BY <1>4, <1>5 DEF UsoClose, CloseKeeps, CloseFaults

\* What closing takes from the owners of a handle it takes from its count.
LEMMA CloseVarClientInv ==
  ASSUME Contract = ContractClauses, TypeOK, ClientInv, NEW v \in Vars, CloseVar(v)
  PROVE  ClientInv'
<1>1. PICK h : h = ptr[v]
  OBVIOUS
<1>2. UsoClose(h) /\ MayClose(h, v \in owns) /\ owns' = owns \ {v}
  BY <1>1 DEF CloseVar
<1>3. /\ h \in Loaded /\ Loaded' = Loaded /\ file' = file
      /\ ptr' = ptr /\ opened' = opened
      /\ \A x \in Loaded : x # h => ref'[x] = ref[x]
      /\ ref'[h] = DropRef(h) /\ ref[h] \in Nat
  BY <1>2, CloseFacts, ListFacts DEF TypeOK
<1>4. \A x \in Loaded : ref[x] = Cardinality(Owners(x))
  BY DEF ClientInv, RefCountExact, Owners
<1>5. \A x : Owners(x)' = Owners(x) \ {v}
  BY <1>2, <1>3 DEF Owners
<1>6. \A x \in Loaded : x # h => Owners(x)' = Owners(x)
  BY <1>1, <1>5 DEF Owners
<1>7. ref'[h] = Cardinality(Owners(h)')
  <2>1. CASE v \in owns
    <3>1. v \in Owners(h)
      BY <1>1, <2>1 DEF Owners
    <3>2. Cardinality(Owners(h) \ {v}) = Cardinality(Owners(h)) - 1
      BY <3>1, OwnersFinite, FS_RemoveElement
    <3>3. Cardinality(Owners(h)) # 0
      BY <3>1, OwnersFinite, FS_EmptySet
    <3> QED
      BY <1>3, <1>4, <1>5, <3>2, <3>3 DEF DropRef
  <2>2. CASE v \notin owns
    <3>1. ref[h] = 0
      BY <1>2, <1>3, <2>2 DEF MayClose, Obliged, ContractClauses
    <3>2. Owners(h)' = Owners(h)
      BY <1>5, <2>2 DEF Owners
    <3> QED
      BY <1>3, <1>4, <3>1, <3>2 DEF DropRef
  <2> QED
    BY <2>1, <2>2
<1>8. \A x \in Loaded : ref'[x] = Cardinality(Owners(x)')
  BY <1>3, <1>4, <1>6, <1>7
<1> QED
  BY <1>2, <1>3, <1>8 DEF ClientInv, RefCountExact, OwnedStaysLoaded, Owners

LEMMA CloseByNameClientInv ==
  ASSUME Contract = ContractClauses, TypeOK, ClientInv,
         NEW f \in Files, CloseByName(f)
  PROVE  ClientInv'
<1>1. PICK h : h = GetHandle(f)
  OBVIOUS
<1>2. UsoClose(h) /\ MayClose(h, FALSE) /\ owns' = owns
  BY <1>1 DEF CloseByName
<1>3. /\ h \in Loaded /\ Loaded' = Loaded /\ file' = file
      /\ ptr' = ptr /\ opened' = opened
      /\ \A x \in Loaded : x # h => ref'[x] = ref[x]
      /\ ref'[h] = DropRef(h)
  BY <1>2, CloseFacts
<1>4. ref[h] = 0
  BY <1>2, <1>3 DEF MayClose, Obliged, ContractClauses
<1>5. \A x \in Loaded : ref'[x] = ref[x]
  BY <1>3, <1>4 DEF DropRef
<1> QED
  BY <1>2, <1>3, <1>5 DEF ClientInv, RefCountExact, OwnedStaysLoaded

-----------------------------------------------------------------------------
(* The callbacks return. *)

\* The USO whose destructors return is unused, and it goes.
LEMMA DtorsReturnFacts ==
  ASSUME TypeOK, ListInv, StackInv, DtorsReturn
  PROVE  \E h \in Unused :
           /\ h = Top.h /\ h \in Loaded /\ h \in Handles
           /\ list' = RemoveUso(list, h) /\ Loaded' = Loaded \ {h}
           /\ ehframes' = ehframes \ {h}
           /\ \A x \in Loaded : x # h =>
                file'[x] = file[x] /\ ref'[x] = ref[x] /\ bind'[x] = bind[x]
           /\ stack' = Pop(stack) /\ UNCHANGED <<initted, ptr, opened, owns>>
<1>1. PICK h : h = Top.h
  OBVIOUS
<1>2. /\ stack # <<>> /\ Top.phase = "dtors" /\ h \in Loaded
      /\ list' = RemoveUso(list, h) /\ ehframes' = ehframes \ {h}
      /\ file' = [file EXCEPT ![h] = NULL] /\ ref' = [ref EXCEPT ![h] = 0]
      /\ bind' = [bind EXCEPT ![h] = [s \in Symbols |-> NULL]]
      /\ stack' = Pop(stack) /\ UNCHANGED <<initted, ptr, opened, owns>>
  BY <1>1 DEF DtorsReturn, Returns, clientVars
<1>3. h \in Unused
  <2>1. Len(stack) \in 1 .. Len(stack)
    BY <1>2, StackType, StackIsTyped DEF StackFacts
  <2> QED
    BY <1>1, <1>2, <2>1 DEF StackInv, Top, EndPhases
<1>4. Members(RemoveUso(list, h)) = Members(list) \ {h}
  BY <1>2, ListFacts, LoadedOnceInjective, RemoveUsoMembers DEF ListInv
<1>5. Loaded' = Loaded \ {h}
  BY <1>2, <1>4 DEF Loaded, Members
<1>6. \A x \in Loaded : x # h =>
        file'[x] = file[x] /\ ref'[x] = ref[x] /\ bind'[x] = bind[x]
  BY <1>2, ListFacts DEF TypeOK
<1> QED
  BY <1>1, <1>2, <1>3, <1>5, <1>6, ListFacts

LEMMA DtorsReturnInv ==
  ASSUME TypeOK, ListInv, ClientInv, StackInv, DtorsReturn
  PROVE  ListInv' /\ ClientInv' /\ StackInv'
<1>1. PICK h \in Unused :
        /\ h = Top.h /\ h \in Loaded /\ h \in Handles
        /\ list' = RemoveUso(list, h) /\ Loaded' = Loaded \ {h}
        /\ ehframes' = ehframes \ {h}
        /\ \A x \in Loaded : x # h =>
             file'[x] = file[x] /\ ref'[x] = ref[x] /\ bind'[x] = bind[x]
        /\ stack' = Pop(stack) /\ UNCHANGED <<initted, ptr, opened, owns>>
  BY DtorsReturnFacts
<1>2. ref[h] = 0 /\ \A x \in Loaded : \A s \in Symbols : bind[x][s] # h
  BY <1>1 DEF Unused
<1>3. ListInv'
  <2>1. LoadedOnce'
    BY NextLoadedOnce DEF ListInv, Next, CallbackReturns
  <2>2. /\ list \in Seq(Handles) /\ h \in Members(list) /\ Injective(list)
        /\ BoundOn(list, file, bind)
    BY <1>1, ListFacts, LoadedOnceInjective DEF ListInv
  <2>3. /\ \A x \in Members(list) : x # h => file'[x] = file[x] /\ bind'[x] = bind[x]
        /\ \A x \in Members(list) : \A s \in Symbols : bind[x][s] # h
    BY <1>1, <1>2, ListFacts
  <2>4. BoundOn(RemoveUso(list, h), file', bind')
    BY <2>2, <2>3, RemoveKeepsBound
  <2>5. \A x \in Loaded' : /\ file'[x] \in Files
                           /\ file'[x] \in HasEhFrame => x \in ehframes'
    BY <1>1 DEF ListInv
  <2>6. initted' \/ list' = <<>>
    BY <1>1 DEF ListInv, Loaded
  <2> QED
    BY <1>1, <2>1, <2>4, <2>5, <2>6 DEF ListInv, BoundOn
<1>4. ClientInv'
  <2>1. \A x \in Loaded : ref[x] = Cardinality(Owners(x))
    BY DEF ClientInv, RefCountExact, Owners
  <2>2. Owners(h) = {}
    BY <1>1, <1>2, <2>1, OwnersFinite, FS_EmptySet
  <2>3. \A u \in owns : ptr[u] \in Loaded' /\ file'[ptr[u]] = opened[u]
    BY <1>1, <2>2 DEF ClientInv, OwnedStaysLoaded, Owners
  <2>4. \A x \in Loaded' : ref'[x] = Cardinality(Owners(x))
    BY <1>1, <2>1
  <2> QED
    BY <1>1, <2>3, <2>4 DEF ClientInv, RefCountExact, OwnedStaysLoaded, Owners
<1>5. StackInv'
  <2>1. stack # <<>>
    BY DEF DtorsReturn, Returns
  <2>2. /\ Len(stack) \in Nat /\ Len(stack) > 0 /\ Len(stack') = Len(stack) - 1
        /\ \A i \in 1 .. Len(stack) - 1 : stack'[i] = stack[i]
        /\ stack[Len(stack)].h = h
    BY <1>1, <2>1, StackType DEF Top
  <2>3. \A i \in 1 .. Len(stack) - 1 : i \in 1 .. Len(stack) /\ i # Len(stack)
    BY <2>2
  <2>4. Len(stack) \in 1 .. Len(stack)
    BY <2>2
  <2>5. \A i \in 1 .. Len(stack) - 1 : stack[i].h # h
    BY <2>2, <2>3, <2>4 DEF StackInv
  <2>6. \A x \in Unused : x # h => x \in Unused'
    BY <1>1 DEF Unused
  <2>7. ASSUME NEW i \in 1 .. Len(stack) - 1
        PROVE  /\ stack'[i].h \in Loaded'
               /\ stack'[i].phase \in EndPhases => stack'[i].h \in Unused'
               /\ \A j \in 1 .. Len(stack) - 1 : stack'[i].h = stack'[j].h => i = j
    <3>1. stack'[i] = stack[i] /\ stack[i].h # h /\ i \in 1 .. Len(stack)
      BY <2>2, <2>3, <2>5
    <3>2. stack[i].h \in Loaded'
      BY <1>1, <3>1 DEF StackInv
    <3>3. stack[i].phase \in EndPhases => stack[i].h \in Unused'
      BY <2>6, <3>1 DEF StackInv
    <3>4. \A j \in 1 .. Len(stack) - 1 : stack[i].h = stack[j].h => i = j
      BY <2>3, <3>1 DEF StackInv
    <3> QED
      BY <2>2, <3>1, <3>2, <3>3, <3>4
  <2> QED
    BY <2>2, <2>7 DEF StackInv
<1> QED
  BY <1>3, <1>4, <1>5

\* What the list and the clients need does not depend on the stack.
LEMMA UnchangedInv ==
  ASSUME ListInv, ClientInv, UNCHANGED <<runtimeVars, clientVars>>
  PROVE  ListInv' /\ ClientInv' /\ Loaded' = Loaded /\ Unused' = Unused
<1>1. UNCHANGED <<initted, list, file, ref, bind, ehframes, ptr, opened, owns>>
  BY DEF runtimeVars, clientVars
<1>2. Loaded' = Loaded /\ LoadedOnce' /\ BoundOn(list, file, bind)'
  BY <1>1 DEF Loaded, ListInv, LoadedOnce, BoundOn
<1>3. ListInv'
  BY <1>1, <1>2 DEF ListInv
<1>4. ClientInv'
  BY <1>1, <1>2 DEF ClientInv, RefCountExact, OwnedStaysLoaded
<1> QED
  BY <1>1, <1>2, <1>3, <1>4 DEF Unused

\* Between two callbacks only the stack changes, and no frame becomes an end.
LEMMA PhaseChangeInv ==
  ASSUME TypeOK, ListInv, ClientInv, StackInv,
         CtorsReturn \/ PrologReturns \/ EpilogReturns
  PROVE  ListInv' /\ ClientInv' /\ StackInv'
<1>1. /\ UNCHANGED <<runtimeVars, clientVars>> /\ stack # <<>>
      /\ \/ stack' = Pop(stack)
         \/ stack' = SetTopPhase("prolog")
         \/ Top.phase = "epilog" /\ stack' = SetTopPhase("dtors")
  BY DEF CtorsReturn, PrologReturns, EpilogReturns, Returns
<1>2. ListInv' /\ ClientInv' /\ Loaded' = Loaded /\ Unused' = Unused
  BY <1>1, UnchangedInv
<1>3. Len(stack) \in Nat /\ Len(stack) > 0
  BY <1>1, StackType
<1>4. CASE stack' = Pop(stack)
  <2>1. /\ Len(stack') = Len(stack) - 1
        /\ \A i \in 1 .. Len(stack) - 1 : stack'[i] = stack[i]
    BY <1>1, <1>4, StackType
  <2>2. \A i \in 1 .. Len(stack) - 1 : i \in 1 .. Len(stack)
    BY <1>3
  <2> QED
    BY <1>2, <2>1, <2>2 DEF StackInv
<1>5. ASSUME NEW p \in StartPhases \cup EndPhases, stack' = SetTopPhase(p),
             p \in EndPhases => Top.phase \in EndPhases
      PROVE  StackInv'
  <2>1. /\ Len(stack') = Len(stack)
        /\ \A i \in 1 .. Len(stack) - 1 : stack'[i] = stack[i]
        /\ stack'[Len(stack)] = Frame(Top.h, p, Top.var)
    BY <1>1, <1>5, StackType
  <2>2. \A i \in 1 .. Len(stack) : i \in 1 .. Len(stack) - 1 \/ i = Len(stack)
    BY <1>3
  <2>3. stack'[Len(stack)].h = stack[Len(stack)].h /\ stack'[Len(stack)].phase = p
    BY <2>1 DEF Frame, Top
  <2>4. \A i \in 1 .. Len(stack) :
          /\ stack'[i].h = stack[i].h
          /\ stack'[i].phase \in EndPhases => stack[i].phase \in EndPhases
    BY <1>5, <2>1, <2>2, <2>3 DEF Top
  <2> QED
    BY <1>2, <2>1, <2>4 DEF StackInv
<1>6. StackInv'
  BY <1>1, <1>4, <1>5 DEF StartPhases, EndPhases
<1> QED
  BY <1>2, <1>6

-----------------------------------------------------------------------------
(* The induction. *)

LEMMA InitContract == Init => ContractInv
<1> SUFFICES ASSUME Init PROVE ContractInv
  OBVIOUS
<1>1. TypeOK
  BY InitType
<1>2. list = <<>> /\ stack = <<>> /\ owns = {} /\ Loaded = {}
  BY DEF Init, Loaded
<1>3. Len(list) = 0 /\ Len(stack) = 0
  BY <1>2
<1>4. ListInv
  BY <1>2, <1>3 DEF ListInv, LoadedOnce, BoundOn
<1>5. ClientInv
  BY <1>2 DEF ClientInv, RefCountExact, OwnedStaysLoaded
<1>6. StackInv
  BY <1>3 DEF StackInv
<1> QED
  BY <1>1, <1>4, <1>5, <1>6 DEF ContractInv

\* uso_init comes before every open, so it drops nothing.
LEMMA UsoInitInv ==
  ASSUME Contract = ContractClauses, TypeOK, ListInv, ClientInv, StackInv, UsoInit
  PROVE  ListInv' /\ ClientInv' /\ StackInv'
<1>1. UNCHANGED <<file, ref, bind, ehframes, stack, ptr, opened, owns>> /\ initted'
  BY DEF UsoInit, clientVars
<1>2. list' = list
  BY DEF UsoInit, ListInv, Obliged, ContractClauses
<1>3. Loaded' = Loaded /\ Unused' = Unused
  BY <1>1, <1>2 DEF Loaded, Unused
<1>4. ListInv'
  BY <1>1, <1>2, <1>3 DEF ListInv, LoadedOnce, BoundOn
<1>5. ClientInv'
  BY <1>1, <1>3 DEF ClientInv, RefCountExact, OwnedStaysLoaded
<1>6. StackInv'
  BY <1>1, <1>3 DEF StackInv
<1> QED
  BY <1>4, <1>5, <1>6

\* A variable that holds no reference may take any value.
LEMMA AssignInv ==
  ASSUME TypeOK, ListInv, ClientInv, StackInv,
         NEW v \in Vars, NEW h, NEW f, Idle(v), Assign(v, h, f),
         UNCHANGED <<runtimeVars, stack, owns>>
  PROVE  ListInv' /\ ClientInv' /\ StackInv'
<1>1. UNCHANGED <<initted, list, file, ref, bind, ehframes, stack, owns>>
  BY DEF runtimeVars
<1>2. Loaded' = Loaded /\ Unused' = Unused
  BY <1>1 DEF Loaded, Unused
<1>3. v \notin owns /\ owns \subseteq Vars
  BY DEF Idle, TypeOK
<1>4. \A u \in owns : ptr'[u] = ptr[u] /\ opened'[u] = opened[u]
  BY <1>3 DEF Assign, TypeOK
<1>5. ListInv'
  BY <1>1, <1>2 DEF ListInv, LoadedOnce, BoundOn
<1>6. OwnedStaysLoaded'
  BY <1>1, <1>2, <1>4 DEF ClientInv, OwnedStaysLoaded
<1>7. \A x : Owners(x)' = Owners(x)
  BY <1>1, <1>4 DEF Owners
<1>8. \A x \in Loaded : ref[x] = Cardinality(Owners(x))
  BY DEF ClientInv, RefCountExact, Owners
<1>9. RefCountExact'
  BY <1>1, <1>2, <1>7, <1>8 DEF RefCountExact, Owners
<1>10. StackInv'
  BY <1>1, <1>2 DEF StackInv
<1> QED
  BY <1>5, <1>6, <1>9, <1>10 DEF ClientInv

LEMMA NextContract ==
  ASSUME Contract = ContractClauses, ContractInv, [Next]_vars
  PROVE  ContractInv'
<1>1. TypeOK /\ ListInv /\ ClientInv /\ StackInv
  BY DEF ContractInv
<1>2. TypeOK'
  BY <1>1, NextType
<1> SUFFICES ListInv' /\ ClientInv' /\ StackInv'
  BY <1>2 DEF ContractInv
\* uso_init, and the steps that change at most the stack or halt.
<1>3. CASE UsoInit
  BY <1>1, <1>3, UsoInitInv
<1>4. CASE UNCHANGED <<runtimeVars, clientVars, stack>>
  BY <1>1, <1>4, UnchangedInv DEF StackInv
\* uso_open and uso_get_handle
<1>5. ASSUME NEW v \in Vars, NEW f \in Files, Open(v, f) \/ LookUp(v, f)
      PROVE  ListInv' /\ ClientInv' /\ StackInv'
  <2>1. CASE OpenUninitted(v, f)
    BY <1>4, <2>1 DEF OpenUninitted
  <2>2. CASE OpenAgain(v, f)
    BY <1>1, <2>2, OpenAgainInv
  <2>3. CASE OpenFails(v, f)
    BY <1>1, <2>3, AssignInv DEF OpenFails, CallOpen
  <2>4. CASE OpenLoads(v, f)
    BY <1>1, <2>4, OpenLoadsListInv, OpenLoadsClientInv, OpenLoadsStackInv
  <2>5. CASE LookUp(v, f)
    BY <1>1, <2>5, AssignInv DEF LookUp
  <2>6. CASE OpenOutOfMemory(v, f)
    BY <1>4, <2>6 DEF OpenOutOfMemory
  <2> QED
    BY <1>5, <2>1, <2>2, <2>3, <2>4, <2>5, <2>6 DEF Open
<1>11. ASSUME NEW v \in Vars, NEW p \in Handles \cup {Global}, LookUpPtr(v, p)
       PROVE  ListInv' /\ ClientInv' /\ StackInv'
  BY <1>1, <1>11, AssignInv DEF LookUpPtr
\* uso_close
<1>6. ASSUME NEW v \in Vars, CloseVar(v) \/ CloseInvalid(v)
      PROVE  ListInv' /\ ClientInv' /\ StackInv'
  <2>1. CASE CloseVar(v)
    <3>1. PICK h : h = ptr[v]
      OBVIOUS
    <3>2. UsoClose(h) /\ MayClose(h, v \in owns)
      BY <2>1, <3>1 DEF CloseVar
    <3> QED
      BY <1>1, <2>1, <3>2, CloseListInv, CloseVarClientInv, CloseStackInv
  <2>2. CASE CloseInvalid(v)
    BY <1>4, <2>2 DEF CloseInvalid
  <2> QED
    BY <1>6, <2>1, <2>2
<1>7. ASSUME NEW f \in Files, CloseByName(f)
      PROVE  ListInv' /\ ClientInv' /\ StackInv'
  <2>1. PICK h : h = GetHandle(f)
    OBVIOUS
  <2>2. UsoClose(h) /\ MayClose(h, FALSE)
    BY <1>7, <2>1 DEF CloseByName
  <2> QED
    BY <1>1, <1>7, <2>2, CloseListInv, CloseByNameClientInv, CloseStackInv
\* The callbacks
<1>8. CASE CallbackReturns
  BY <1>1, <1>8, PhaseChangeInv, DtorsReturnInv DEF CallbackReturns
<1>9. CASE TouchFreed
  BY <1>4, <1>9 DEF TouchFreed
<1>10. CASE UNCHANGED vars
  BY <1>4, <1>10 DEF vars
<1> QED
  BY <1>3, <1>5, <1>6, <1>7, <1>8, <1>9, <1>10, <1>11 DEF Next

\* The strengthened invariant: whatever the images and however many handles,
\* variables and nested calls, a program that keeps the contract never leaves it
\* (uso.c:522-607).
THEOREM ContractHolds ==
  ASSUME Contract = ContractClauses
  PROVE  Spec => []ContractInv
<1>1. Init => ContractInv
  BY InitContract
<1>2. ContractInv /\ [Next]_vars => ContractInv'
  BY NextContract
<1> QED
  BY <1>1, <1>2, PTL DEF Spec

-----------------------------------------------------------------------------
(* What it implies. *)

LEMMA ContractImpliesEarlier == ContractInv => ImportsPointEarlier
<1> SUFFICES ASSUME ContractInv, NEW i \in DOMAIN list, NEW s \in Symbols,
                    bind[list[i]][s] \in Handles
             PROVE  \E j \in 1 .. i - 1 : /\ list[j] = bind[list[i]][s]
                                          /\ s \in Exports[file[list[j]]]
  BY DEF ImportsPointEarlier
<1>1. i \in 1 .. Len(list)
  BY ListFacts DEF ContractInv
<1> QED
  BY <1>1 DEF ContractInv, ListInv, BoundOn

\* Each is bound to the first exporter on the list, and there is only one first.
LEMMA ContractImpliesOneDefinition == ContractInv => OneDefinition
<1> SUFFICES ASSUME ContractInv, NEW x \in Loaded, NEW y \in Loaded, NEW s \in Symbols,
                    {bind[x][s], bind[y][s]} \subseteq Handles
             PROVE  bind[x][s] = bind[y][s]
  BY DEF OneDefinition
<1>0. BoundOn(list, file, bind) /\ Len(list) \in Nat
  BY ListFacts DEF ContractInv, ListInv
<1>1. PICK i \in 1 .. Len(list), j \in 1 .. Len(list) : list[i] = x /\ list[j] = y
  BY ListFacts DEF ContractInv
<1>2. PICK k \in 1 .. i - 1 :
        /\ list[k] = bind[x][s] /\ s \in Exports[file[list[k]]]
        /\ \A q \in 1 .. Len(list) : s \in Exports[file[list[q]]] => k <= q
  BY <1>0, <1>1 DEF BoundOn
<1>3. PICK m \in 1 .. j - 1 :
        /\ list[m] = bind[y][s] /\ s \in Exports[file[list[m]]]
        /\ \A q \in 1 .. Len(list) : s \in Exports[file[list[q]]] => m <= q
  BY <1>0, <1>1 DEF BoundOn
<1>4. k \in 1 .. Len(list) /\ m \in 1 .. Len(list)
  BY <1>0, <1>1
<1>5. k = m
  <2>1. k <= m /\ m <= k
    BY <1>2, <1>3, <1>4
  <2> QED
    BY <2>1, <1>4
<1> QED
  BY <1>2, <1>3, <1>5

LEMMA ContractImpliesCallbacks ==
  ContractInv => CallbackCodeLives /\ EndingStaysUnused
<1> SUFFICES ASSUME ContractInv PROVE CallbackCodeLives /\ EndingStaysUnused
  OBVIOUS
<1>1. DOMAIN stack = 1 .. Len(stack)
  BY StackIsTyped DEF ContractInv, StackFacts
<1>2. CallbackCodeLives
  BY <1>1 DEF CallbackCodeLives, ContractInv, ListInv, StackInv
<1>3. \A h \in Ending : h \in Unused
  BY <1>1 DEF Ending, ContractInv, StackInv
<1>4. EndingStaysUnused
  BY <1>3 DEF EndingStaysUnused, Unused
<1> QED
  BY <1>2, <1>4

\* Only the end of uso_close takes a handle off the list.
LEMMA UnloadingStep ==
  ASSUME Contract = ContractClauses, ContractInv, [Next]_vars, NEW h \in Loaded, h \notin Loaded'
  PROVE  h \in Unused
<1>1. TypeOK /\ ListInv /\ StackInv
  BY DEF ContractInv
<1>2. CASE DtorsReturn
  <2>1. PICK x \in Unused : Loaded' = Loaded \ {x}
    BY <1>1, <1>2, DtorsReturnFacts
  <2> QED
    BY <2>1
<1>3. CASE list' = list
  BY <1>3 DEF Loaded
<1>4. CASE UsoInit
  BY <1>1, <1>4 DEF UsoInit, ListInv, Loaded, Obliged, ContractClauses
<1>5. ASSUME NEW v \in Vars, NEW f \in Files, OpenLoads(v, f) PROVE FALSE
  <2>1. Loaded \subseteq Loaded'
    BY <1>1, <1>5, OpenLoadsFacts
  <2> QED
    BY <2>1
<1>6. \/ DtorsReturn \/ UsoInit \/ list' = list
      \/ \E v \in Vars, f \in Files : OpenLoads(v, f)
  BY DEF Next, vars, runtimeVars, Open, OpenUninitted, OpenAgain, OpenFails,
         OpenOutOfMemory, LookUp, LookUpPtr, CloseVar, CloseInvalid, CloseByName, UsoClose, CallbackReturns, CtorsReturn,
         PrologReturns, EpilogReturns, TouchFreed
<1> QED
  BY <1>2, <1>3, <1>4, <1>5, <1>6

-----------------------------------------------------------------------------
(* The guarantees of the runtime, for every program that keeps the contract. *)

\* Imports point to USOs that were loaded before their importer and are still
\* there (uso.c:191-212, 435-456).
THEOREM ImportsStayBound ==
  ASSUME Contract = ContractClauses
  PROVE  Spec => []ImportsPointEarlier
BY ContractHolds, ContractImpliesEarlier, PTL

\* All importers of a name share one definition of it (uso.c:125-143).
THEOREM DefinitionsShared ==
  ASSUME Contract = ContractClauses
  PROVE  Spec => []OneDefinition
BY ContractHolds, ContractImpliesOneDefinition, PTL

\* The reference count is the number of holders, and each holder's handle is the
\* loaded USO of the file it opened (uso.c:526-532, 568, 593-595).
THEOREM ReferencesExact ==
  ASSUME Contract = ContractClauses
  PROVE  Spec => [](RefCountExact /\ OwnedStaysLoaded)
<1>1. ContractInv => RefCountExact /\ OwnedStaysLoaded
  BY DEF ContractInv, ClientInv
<1> QED
  BY <1>1, ContractHolds, PTL

\* Constructors, hooks and destructors run in images that stay in memory with
\* their exception frames registered, and those of a USO that is ending find it
\* unused until they return (uso.c:390-418, 566-574, 596-606).
THEOREM CallbacksSafe ==
  ASSUME Contract = ContractClauses
  PROVE  Spec => [](CallbackCodeLives /\ EndingStaysUnused)
BY ContractHolds, ContractImpliesCallbacks, PTL

\* Every variable that holds a reference can use it (uso.c:577-607).
THEOREM HoldersServed ==
  ASSUME Contract = ContractClauses
  PROVE  Spec => []OwnedStaysLoaded
<1>1. ContractInv => OwnedStaysLoaded
  BY DEF ContractInv, ClientInv
<1> QED
  BY <1>1, ContractHolds, PTL

\* Code that waits for a callback to return is never unmapped (uso.c:390-418).
THEOREM CallbacksLive ==
  ASSUME Contract = ContractClauses
  PROVE  Spec => []CallbackCodeLives
<1>1. ContractInv => CallbackCodeLives
  BY ContractImpliesCallbacks
<1> QED
  BY <1>1, ContractHolds, PTL

\* A step that keeps the list keeps the allocations, apart from the two below.
LEMMA OrphansStep ==
  ASSUME Contract = ContractClauses, ContractInv, NothingOrphaned, [Next]_vars
  PROVE  NothingOrphaned'
<1>1. TypeOK /\ ListInv /\ StackInv
  BY DEF ContractInv
<1>2. CASE UNCHANGED <<list, file>>
  BY <1>2 DEF NothingOrphaned, Loaded
<1>3. CASE UsoInit
  <2>1. UNCHANGED <<list, file>>
    BY <1>1, <1>3 DEF UsoInit, ListInv, Obliged, ContractClauses
  <2> QED
    BY <1>2, <2>1
<1>4. ASSUME NEW v \in Vars, NEW f \in Files, OpenLoads(v, f) PROVE NothingOrphaned'
  <2>1. PICK h \in Handles \ Loaded :
          Loaded' = Loaded \cup {h} /\ file' = [file EXCEPT ![h] = f]
    BY <1>1, <1>4, OpenLoadsFacts
  <2>2. f # NULL /\ file \in [Handles -> Files \cup {NULL}]
    BY <1>1, ValuesAssumption DEF TypeOK
  <2> QED
    BY <2>1, <2>2 DEF NothingOrphaned
<1>5. CASE DtorsReturn
  <2>1. PICK h \in Handles : h = Top.h /\ Loaded' = Loaded \ {h}
    BY <1>1, <1>5, DtorsReturnFacts
  <2>2. file' = [file EXCEPT ![h] = NULL] /\ file \in [Handles -> Files \cup {NULL}]
    BY <1>1, <1>5, <2>1 DEF DtorsReturn, TypeOK
  <2> QED
    BY <2>1, <2>2 DEF NothingOrphaned
<1>6. ASSUME NEW v \in Vars, NEW f \in Files, Open(v, f)
      PROVE  UNCHANGED <<list, file>> \/ OpenLoads(v, f)
  BY <1>6 DEF Open, OpenUninitted, OpenAgain, OpenFails, OpenOutOfMemory, runtimeVars
<1>7. CallbackReturns => UNCHANGED <<list, file>> \/ DtorsReturn
  BY DEF CallbackReturns, CtorsReturn, PrologReturns, EpilogReturns, runtimeVars
<1>8. Next => \/ UNCHANGED <<list, file>> \/ UsoInit \/ CallbackReturns
              \/ \E v \in Vars, f \in Files : Open(v, f)
  BY DEF Next, LookUp, LookUpPtr, CloseVar, CloseInvalid, CloseByName, UsoClose,
         TouchFreed, runtimeVars
<1>9. UNCHANGED vars => UNCHANGED <<list, file>>
  BY DEF vars, runtimeVars
<1> QED
  BY <1>2, <1>3, <1>4, <1>5, <1>6, <1>7, <1>8, <1>9

\* The memory of every handle stays reachable from the list until it is freed, for
\* a program that calls uso_init once (uso.c:88-104, 473, 561-563, 598-605).
THEOREM NothingIsLost ==
  ASSUME Contract = ContractClauses
  PROVE  Spec => []NothingOrphaned
<1>1. Init => NothingOrphaned
  BY DEF Init, NothingOrphaned, Loaded
<1>2. ContractInv /\ NothingOrphaned /\ [Next]_vars => NothingOrphaned'
  BY OrphansStep
<1> QED
  BY <1>1, <1>2, ContractHolds, PTL DEF Spec

\* Whatever the callbacks of uso_close did, the USO it frees after them has no
\* reference and no importer (uso.c:596-605).
THEOREM UnloadsUnused ==
  ASSUME Contract = ContractClauses
  PROVE  Spec => UnloadsOnlyUnused
<1>1. ContractInv /\ [Next]_vars =>
        [\A h \in Loaded : h \notin Loaded' =>
           ref[h] = 0 /\ \A x \in Loaded \ {h} : \A s \in Symbols : bind[x][s] # h]_vars
  BY UnloadingStep DEF Unused
<1> QED
  BY <1>1, ContractHolds, PTL DEF Spec, UnloadsOnlyUnused

\* The library's assertions hold and it never reads null or freed memory, provided
\* that every image has an export symbol table (uso.c:390-456, 522-607).
THEOREM NoAssertionFails ==
  ASSUME Contract = ContractClauses, \A f \in Files : Exports[f] # {}
  PROVE  Spec => []NeverHalts
<1>1. Init => NeverHalts
  BY DEF Init, NeverHalts
<1>2. ASSUME ContractInv, NeverHalts, [Next]_vars PROVE NeverHalts'
  <2>1. TypeOK /\ ListInv /\ StackInv
    BY <1>2 DEF ContractInv
  <2>2. ASSUME NEW v \in Vars, NEW f \in Files, OpenUninitted(v, f) PROVE FALSE
    BY <2>2 DEF OpenUninitted, CallOpen, MayOpen, Obliged, ContractClauses
  <2>10. ASSUME NEW v \in Vars, NEW f \in Files, OpenOutOfMemory(v, f) PROVE FALSE
    BY <2>10 DEF OpenOutOfMemory, CallOpen, MayOpen, Obliged, ContractClauses
  <2>3. ASSUME NEW v \in Vars, CloseInvalid(v) PROVE FALSE
    BY <2>3 DEF CloseInvalid, MayClose, Obliged, ContractClauses
  <2>4. ~ TouchFreed
    BY <2>1, StackType, StackIsTyped DEF TouchFreed, StackInv, StackFacts, Top
  <2>5. ASSUME NEW h, UsoClose(h) PROVE UNCHANGED halted
    <3>1. h \in Loaded /\ file[h] \in Files
      BY <2>1, <2>5 DEF UsoClose, ListInv
    <3> QED
      BY <2>5, <3>1 DEF UsoClose, CloseKeeps, CloseEnds, CloseFaults, ReadsNullExports
  <2>6. ASSUME NEW v \in Vars, CloseVar(v) PROVE UNCHANGED halted
    BY <2>5, <2>6 DEF CloseVar
  <2>7. ASSUME NEW f \in Files, CloseByName(f) PROVE UNCHANGED halted
    BY <2>5, <2>7 DEF CloseByName
  <2>8. ASSUME NEW v \in Vars, NEW f \in Files, Open(v, f) \/ LookUp(v, f)
        PROVE  UNCHANGED halted
    BY <2>2, <2>8, <2>10 DEF Open, OpenAgain, OpenFails, OpenLoads, LookUp
  <2>9. UNCHANGED halted
    BY <1>2, <2>3, <2>4, <2>6, <2>7, <2>8 DEF Next, vars, UsoInit, LookUpPtr,
       CallbackReturns, CtorsReturn, PrologReturns, EpilogReturns, DtorsReturn
  <2> QED
    BY <1>2, <2>9 DEF NeverHalts
<1> QED
  BY <1>1, <1>2, ContractHolds, PTL DEF Spec

-----------------------------------------------------------------------------
(* For a program that keeps the contract the runtime implements the loader   *)
(* of uso.h: with handles, list and callbacks taken away, its steps load,    *)
(* acquire, release and unload files, or show nothing.                       *)

\* The state of the loader that a state of the runtime stands for.
LoadedFiles == {file[h] : h \in Loaded}
Refs == [f \in Files |-> RefsOf(f)]

\* The map from loaded handles to loaded files is one to one, and reference counts
\* and bindings go with it.
MapFacts ==
  /\ Loaded \subseteq Handles
  /\ \A h \in Loaded : file[h] \in Files
  /\ \A x, y \in Loaded : file[x] = file[y] => x = y
  /\ \A h \in Loaded : RefsOf(file[h]) = ref[h] /\ ref[h] \in Nat
  /\ \A f \in Files : f \notin LoadedFiles => RefsOf(f) = 0
  /\ \A x \in Loaded, s \in Symbols : bind[x][s] \in Handles => bind[x][s] \in Loaded

LEMMA ContractMaps == ContractInv => MapFacts
<1> SUFFICES ASSUME ContractInv PROVE MapFacts
  OBVIOUS
<1>1. TypeOK /\ ListInv
  BY DEF ContractInv
<1>2. Loaded \subseteq Handles /\ \A h \in Loaded : file[h] \in Files
  BY <1>1, ListFacts DEF ListInv
<1>3. ASSUME NEW x \in Loaded, NEW y \in Loaded, file[x] = file[y]
      PROVE  x = y
  <2>1. PICK i \in 1 .. Len(list), j \in 1 .. Len(list) : list[i] = x /\ list[j] = y
    BY <1>1, ListFacts
  <2>2. i \in DOMAIN list /\ j \in DOMAIN list
    BY <1>1, ListFacts
  <2>3. i = j
    BY <1>1, <1>3, <2>1, <2>2 DEF ListInv, LoadedOnce
  <2> QED
    BY <2>1, <2>3
<1>4. ASSUME NEW h \in Loaded
      PROVE  RefsOf(file[h]) = ref[h] /\ ref[h] \in Nat
  <2>1. h \in Named(file[h])
    BY DEF Named
  <2>2. GetHandle(file[h]) \in Loaded /\ file[GetHandle(file[h])] = file[h]
    BY <1>1, <2>1, GetHandleType DEF Named
  <2>3. GetHandle(file[h]) = h
    BY <1>3, <2>2
  <2>4. ref[h] \in Nat
    BY <1>1, <1>2 DEF TypeOK
  <2> QED
    BY <2>1, <2>3, <2>4 DEF RefsOf
<1>5. ASSUME NEW f \in Files, f \notin LoadedFiles
      PROVE  RefsOf(f) = 0
  <2>1. Named(f) = {}
    BY <1>5 DEF Named, LoadedFiles
  <2> QED
    BY <2>1 DEF RefsOf
<1>6. ASSUME NEW x \in Loaded, NEW s \in Symbols, bind[x][s] \in Handles
      PROVE  bind[x][s] \in Loaded
  <2>1. PICK i \in 1 .. Len(list) : list[i] = x
    BY <1>1, ListFacts
  <2>2. PICK k \in 1 .. i - 1 : list[k] = bind[x][s]
    BY <1>1, <1>6, <2>1 DEF ListInv, BoundOn
  <2>3. k \in 1 .. Len(list)
    BY <1>1, ListFacts
  <2> QED
    BY <1>1, <2>2, <2>3, ListFacts
<1> QED
  BY <1>2, <1>3, <1>4, <1>5, <1>6 DEF MapFacts

-----------------------------------------------------------------------------
(* What each step of the runtime does to it. *)

\* Callbacks that return, failures and look-ups
LEMMA QuietStep ==
  ASSUME MapFacts, MapFacts', UNCHANGED <<list, file, ref, bind>>
  PROVE  UNCHANGED <<LoadedFiles, Refs, Uses>>
<1>1. Loaded' = Loaded
  BY DEF Loaded
<1>2. LoadedFiles' = LoadedFiles /\ Uses' = Uses
  BY <1>1 DEF LoadedFiles, Uses
<1>3. ASSUME NEW f \in Files
      PROVE  RefsOf(f)' = RefsOf(f)
  <2>1. CASE f \in LoadedFiles
    BY <1>1, <2>1 DEF MapFacts, LoadedFiles
  <2>2. CASE f \notin LoadedFiles
    BY <1>2, <2>2 DEF MapFacts
  <2> QED
    BY <2>1, <2>2
<1>4. Refs' = Refs
  BY <1>3 DEF Refs
<1> QED
  BY <1>2, <1>4

\* uso_open of a file that is loaded
LEMMA AcquireStep ==
  ASSUME MapFacts, MapFacts', TypeOK, NEW v \in Vars, NEW f \in Files, OpenAgain(v, f)
  PROVE  Loader!Acquire(f)
<1>1. /\ GetHandle(f) \in Loaded /\ file[GetHandle(f)] = f
  BY GetHandleType DEF OpenAgain, Named
<1>2. PICK h \in Loaded : h = GetHandle(f) /\ file[h] = f
  BY <1>1
<1>3. UNCHANGED <<list, file, bind>> /\ ref' = [ref EXCEPT ![h] = @ + 1]
  BY <1>2 DEF OpenAgain
<1>4. Loaded' = Loaded
  BY <1>3 DEF Loaded
<1>5. LoadedFiles' = LoadedFiles /\ Uses' = Uses /\ f \in LoadedFiles
  BY <1>2, <1>3, <1>4 DEF LoadedFiles, Uses
<1>6. ref'[h] = ref[h] + 1 /\ \A x \in Loaded : x # h => ref'[x] = ref[x]
  BY <1>2, <1>3 DEF TypeOK, MapFacts
<1>7. ASSUME NEW g \in Files
      PROVE  RefsOf(g)' = IF g = f THEN RefsOf(f) + 1 ELSE RefsOf(g)
  <2>1. CASE g \in LoadedFiles
    <3>1. PICK x \in Loaded : file[x] = g
      BY <2>1 DEF LoadedFiles
    <3>2. RefsOf(g)' = ref'[x] /\ RefsOf(g) = ref[x] /\ RefsOf(f) = ref[h]
      BY <1>2, <1>3, <1>4, <3>1 DEF MapFacts
    <3>3. g = f <=> x = h
      BY <1>2, <3>1 DEF MapFacts
    <3> QED
      BY <1>6, <3>2, <3>3
  <2>2. CASE g \notin LoadedFiles
    BY <1>5, <2>2 DEF MapFacts
  <2> QED
    BY <2>1, <2>2
<1>8. Refs' = [Refs EXCEPT ![f] = @ + 1]
  BY <1>7 DEF Refs
<1> QED
  BY <1>5, <1>8 DEF Loader!Acquire, LoadedFiles, Refs

\* uso_close of a USO that has references, and the retry of one that has none
LEMMA ReleaseStep ==
  ASSUME MapFacts, MapFacts', TypeOK, NEW h, UsoClose(h)
  PROVE  Loader!Release(file[h]) \/ UNCHANGED <<LoadedFiles, Refs, Uses>>
<1>1. /\ h \in Loaded /\ Loaded' = Loaded
      /\ UNCHANGED <<list, file, bind>>
      /\ \A x \in Loaded : x # h => ref'[x] = ref[x]
      /\ ref'[h] = DropRef(h) /\ ref' = [ref EXCEPT ![h] = DropRef(h)]
  BY CloseFacts
<1>2. CASE ref[h] = 0
  <2>1. ref' = ref
    BY <1>1, <1>2 DEF DropRef, TypeOK
  <2> QED
    BY <1>1, <2>1, QuietStep
<1>3. CASE ref[h] # 0
  <2>1. ref'[h] = ref[h] - 1 /\ ref[h] > 0 /\ file[h] \in Files
    BY <1>1, <1>3 DEF DropRef, MapFacts
  <2>2. LoadedFiles' = LoadedFiles /\ Uses' = Uses /\ file[h] \in LoadedFiles
    BY <1>1 DEF LoadedFiles, Uses
  <2>3. ASSUME NEW g \in Files
        PROVE  RefsOf(g)' = IF g = file[h] THEN RefsOf(file[h]) - 1 ELSE RefsOf(g)
    <3>1. CASE g \in LoadedFiles
      <4>1. PICK x \in Loaded : file[x] = g
        BY <3>1 DEF LoadedFiles
      <4>2. RefsOf(g)' = ref'[x] /\ RefsOf(g) = ref[x] /\ RefsOf(file[h]) = ref[h]
        BY <1>1, <4>1 DEF MapFacts
      <4>3. g = file[h] <=> x = h
        BY <1>1, <4>1 DEF MapFacts
      <4> QED
        BY <1>1, <2>1, <4>2, <4>3
    <3>2. CASE g \notin LoadedFiles
      BY <2>2, <3>2 DEF MapFacts
    <3> QED
      BY <3>1, <3>2
  <2>4. Refs' = [Refs EXCEPT ![file[h]] = @ - 1]
    BY <2>3 DEF Refs
  <2>5. Refs[file[h]] > 0
    BY <1>1, <2>1 DEF Refs, MapFacts
  <2> QED
    BY <2>2, <2>4, <2>5 DEF Loader!Release, LoadedFiles, Refs
<1> QED
  BY <1>2, <1>3

\* uso_open of a file that is not loaded: it is linked against the USOs that its
\* imports are bound to.
LEMMA LoadStep ==
  ASSUME MapFacts, MapFacts', TypeOK, NEW v \in Vars, NEW f \in Files, OpenLoads(v, f)
  PROVE  \E D \in SUBSET LoadedFiles : Loader!Load(f, D)
<1>1. PICK h \in Handles \ Loaded :
        /\ Loaded' = Loaded \cup {h}
        /\ file'[h] = f /\ ref'[h] = 1 /\ bind'[h] = BindImports(f)
        /\ \A x \in Loaded : /\ file'[x] = file[x] /\ ref'[x] = ref[x]
                             /\ bind'[x] = bind[x]
  BY OpenLoadsFacts
<1> DEFINE D == {file[y] : y \in {x \in Loaded : \E s \in Symbols : BindImports(f)[s] = x}}
<1>2. f \notin LoadedFiles /\ D \subseteq LoadedFiles
  BY DEF OpenLoads, Named, LoadedFiles
<1>3. LoadedFiles' = LoadedFiles \cup {f}
  BY <1>1 DEF LoadedFiles
<1>4. ASSUME NEW g \in Files
      PROVE  RefsOf(g)' = IF g = f THEN 1 ELSE RefsOf(g)
  <2>1. CASE g = f
    BY <1>1, <2>1 DEF MapFacts
  <2>2. CASE g \in LoadedFiles
    <3>1. PICK x \in Loaded : file[x] = g
      BY <2>2 DEF LoadedFiles
    <3>2. x \in Loaded' /\ file'[x] = g
      BY <1>1, <3>1
    <3>3. RefsOf(g)' = ref'[x] /\ RefsOf(g) = ref[x]
      BY <3>1, <3>2 DEF MapFacts
    <3> QED
      BY <1>1, <1>2, <2>2, <3>1, <3>3
  <2>3. CASE g # f /\ g \notin LoadedFiles
    BY <1>3, <2>3 DEF MapFacts
  <2> QED
    BY <2>1, <2>2, <2>3
<1>5. Refs' = [Refs EXCEPT ![f] = 1]
  BY <1>4 DEF Refs
<1>6. \A s \in Symbols : BindImports(f)[s] # h
  BY SearchType, ValuesAssumption DEF BindImports
<1>7. \A x \in Loaded, s \in Symbols : bind[x][s] # h
  BY DEF MapFacts
<1> HIDE DEF D
<1>8. ASSUME NEW u \in Files \X Files
      PROVE  u \in Uses' <=> u \in Uses \/ u \in {f} \X D
  <2>1. ASSUME NEW x \in Loaded', NEW y \in Loaded', NEW s \in Symbols,
               u = <<file'[x], file'[y]>>, bind'[x][s] = y
        PROVE  u \in Uses \/ u \in {f} \X D
    <3>1. y \in Loaded /\ file'[y] = file[y]
      BY <1>1, <1>6, <1>7, <2>1
    <3>2. CASE x = h
      BY <1>1, <2>1, <3>1, <3>2 DEF D
    <3>3. CASE x \in Loaded
      BY <1>1, <2>1, <3>1, <3>3 DEF Uses
    <3> QED
      BY <1>1, <3>2, <3>3
  <2>2. ASSUME u \in Uses PROVE u \in Uses'
    <3>1. PICK x \in Loaded, y \in Loaded :
            u = <<file[x], file[y]>> /\ \E s \in Symbols : bind[x][s] = y
      BY <2>2 DEF Uses
    <3>2. /\ x \in Loaded' /\ y \in Loaded' /\ u = <<file'[x], file'[y]>>
          /\ \E s \in Symbols : bind'[x][s] = y
      BY <1>1, <3>1
    <3> QED
      BY <3>2 DEF Uses
  <2>3. ASSUME u \in {f} \X D PROVE u \in Uses'
    <3>1. PICK y \in Loaded :
            u = <<f, file[y]>> /\ \E s \in Symbols : BindImports(f)[s] = y
      BY <2>3 DEF D
    <3>2. /\ h \in Loaded' /\ y \in Loaded' /\ u = <<file'[h], file'[y]>>
          /\ \E s \in Symbols : bind'[h][s] = y
      BY <1>1, <3>1
    <3> QED
      BY <3>2 DEF Uses
  <2>4. u \in Uses' => u \in Uses \/ u \in {f} \X D
    BY <2>1 DEF Uses
  <2> QED
    BY <2>2, <2>3, <2>4
<1>9. Uses' = Uses \cup ({f} \X D)
  <2>1. D \subseteq Files
    BY <1>2 DEF LoadedFiles, MapFacts
  <2>2. Uses \subseteq Files \X Files /\ Uses' \subseteq Files \X Files
    BY DEF Uses
  <2> QED
    BY <1>8, <2>1, <2>2
<1> QED
  BY <1>2, <1>3, <1>5, <1>9 DEF Loader!Load, LoadedFiles, Refs

\* The end of uso_close: the USO is unused.
LEMMA UnloadStep ==
  ASSUME ContractInv, MapFacts, MapFacts', DtorsReturn
  PROVE  \E f \in Files : Loader!Unload(f)
<1>1. PICK h \in Unused :
        /\ h \in Loaded /\ Loaded' = Loaded \ {h}
        /\ \A x \in Loaded : x # h =>
             file'[x] = file[x] /\ ref'[x] = ref[x] /\ bind'[x] = bind[x]
  BY DtorsReturnFacts DEF ContractInv
<1>2. PICK f \in Files : f = file[h]
  BY <1>1 DEF MapFacts
<1>3. ref[h] = 0 /\ \A x \in Loaded : \A s \in Symbols : bind[x][s] # h
  BY DEF Unused
<1>4. f \in LoadedFiles /\ LoadedFiles' = LoadedFiles \ {f}
  BY <1>1, <1>2 DEF LoadedFiles, MapFacts
<1>5. ASSUME NEW g \in Files
      PROVE  RefsOf(g)' = RefsOf(g)
  <2>1. CASE g = f
    <3>1. RefsOf(g) = 0
      BY <1>1, <1>2, <1>3, <2>1 DEF MapFacts
    <3> QED
      BY <1>4, <2>1, <3>1 DEF MapFacts
  <2>2. CASE g \in LoadedFiles \ {f}
    <3>1. PICK x \in Loaded : file[x] = g
      BY <2>2 DEF LoadedFiles
    <3>2. x # h /\ x \in Loaded' /\ file'[x] = g
      BY <1>1, <1>2, <2>2, <3>1
    <3>3. RefsOf(g)' = ref'[x] /\ RefsOf(g) = ref[x]
      BY <3>1, <3>2 DEF MapFacts
    <3> QED
      BY <1>1, <3>1, <3>2, <3>3
  <2>3. CASE g \notin LoadedFiles
    BY <1>4, <2>3 DEF MapFacts
  <2> QED
    BY <2>1, <2>2, <2>3
<1>6. Refs' = Refs /\ Refs[f] = 0
  <2>1. RefsOf(f) = 0
    BY <1>1, <1>2, <1>3 DEF MapFacts
  <2> QED
    BY <1>5, <2>1 DEF Refs
<1>7. ASSUME NEW g \in LoadedFiles
      PROVE  <<g, f>> \notin Uses
  <2> SUFFICES ASSUME NEW x \in Loaded, NEW y \in Loaded, NEW s \in Symbols,
                      <<g, f>> = <<file[x], file[y]>>, bind[x][s] = y
               PROVE  FALSE
    BY DEF Uses
  <2>1. file[y] = f
    OBVIOUS
  <2>2. file[y] = file[h] /\ h \in Loaded
    BY <1>1, <1>2, <2>1
  <2>3. y = h
    BY <2>2 DEF MapFacts
  <2> QED
    BY <1>3, <2>3
<1>8. ASSUME NEW u \in Files \X Files
      PROVE  u \in Uses' <=> u \in Uses /\ u[1] # f
  <2>1. ASSUME u \in Uses' PROVE u \in Uses /\ u[1] # f
    <3>1. PICK x \in Loaded', y \in Loaded' :
            u = <<file'[x], file'[y]>> /\ \E s \in Symbols : bind'[x][s] = y
      BY <2>1 DEF Uses
    <3>2. /\ x \in Loaded /\ y \in Loaded /\ x # h /\ u = <<file[x], file[y]>>
          /\ \E s \in Symbols : bind[x][s] = y
      BY <1>1, <3>1
    <3>3. u[1] = file[x] /\ file[x] # f
      BY <1>1, <1>2, <3>2 DEF MapFacts
    <3> QED
      BY <3>2, <3>3 DEF Uses
  <2>2. ASSUME u \in Uses, u[1] # f PROVE u \in Uses'
    <3>1. PICK x \in Loaded, y \in Loaded :
            u = <<file[x], file[y]>> /\ \E s \in Symbols : bind[x][s] = y
      BY <2>2 DEF Uses
    <3>2. x # h /\ y # h
      BY <1>2, <1>3, <2>2, <3>1
    <3>3. /\ x \in Loaded' /\ y \in Loaded' /\ u = <<file'[x], file'[y]>>
          /\ \E s \in Symbols : bind'[x][s] = y
      BY <1>1, <3>1, <3>2
    <3> QED
      BY <3>3 DEF Uses
  <2> QED
    BY <2>1, <2>2
<1>9. Uses' = {u \in Uses : u[1] # f}
  <2>1. Uses \subseteq Files \X Files /\ Uses' \subseteq Files \X Files
    BY DEF Uses
  <2> QED
    BY <1>8, <2>1
<1> QED
  BY <1>4, <1>6, <1>7, <1>9 DEF Loader!Unload, LoadedFiles, Refs

-----------------------------------------------------------------------------
(* The refinement. *)

LEMMA LoaderStarts == Init => Loader!Init
<1> SUFFICES ASSUME Init PROVE Loader!Init
  OBVIOUS
<1>1. Loaded = {}
  BY DEF Init, Loaded
<1>2. LoadedFiles = {} /\ Uses = {} /\ \A f \in Files : RefsOf(f) = 0
  BY <1>1 DEF LoadedFiles, Uses, RefsOf, Named
<1> QED
  BY <1>2 DEF Loader!Init, LoadedFiles

LEMMA LoaderStep ==
  ASSUME Contract = ContractClauses, ContractInv, MapFacts, MapFacts', [Next]_vars
  PROVE  Loader!Next \/ UNCHANGED <<LoadedFiles, Refs, Uses>>
<1>1. TypeOK /\ ListInv /\ StackInv
  BY DEF ContractInv
<1>2. CASE UNCHANGED <<list, file, ref, bind>>
  BY <1>2, QuietStep
<1>3. CASE UsoInit
  <2>1. UNCHANGED <<list, file, ref, bind>>
    BY <1>1, <1>3 DEF UsoInit, ListInv, Obliged, ContractClauses
  <2> QED
    BY <1>2, <2>1
<1>4. ASSUME NEW v \in Vars, NEW f \in Files, OpenLoads(v, f) PROVE Loader!Next
  <2>1. \E D \in SUBSET LoadedFiles : Loader!Load(f, D)
    BY <1>1, <1>4, LoadStep
  <2> QED
    BY <2>1 DEF Loader!Next, LoadedFiles
<1>5. ASSUME NEW v \in Vars, NEW f \in Files, OpenAgain(v, f) PROVE Loader!Next
  <2>1. Loader!Acquire(f)
    BY <1>1, <1>5, AcquireStep
  <2> QED
    BY <2>1 DEF Loader!Next
<1>6. ASSUME NEW h, UsoClose(h)
      PROVE  Loader!Next \/ UNCHANGED <<LoadedFiles, Refs, Uses>>
  <2>1. file[h] \in Files
    BY <1>6 DEF UsoClose, MapFacts
  <2>2. Loader!Release(file[h]) \/ UNCHANGED <<LoadedFiles, Refs, Uses>>
    BY <1>1, <1>6, ReleaseStep
  <2> QED
    BY <2>1, <2>2 DEF Loader!Next
<1>7. CASE DtorsReturn
  <2>1. \E f \in Files : Loader!Unload(f)
    BY <1>7, UnloadStep
  <2> QED
    BY <2>1 DEF Loader!Next
<1>8. \/ UNCHANGED <<list, file, ref, bind>> \/ UsoInit \/ DtorsReturn
      \/ \E v \in Vars, f \in Files : OpenLoads(v, f) \/ OpenAgain(v, f)
      \/ \E h : UsoClose(h)
  <2>1. ASSUME NEW v \in Vars, NEW f \in Files, Open(v, f)
        PROVE  \/ UNCHANGED <<list, file, ref, bind>>
               \/ OpenLoads(v, f) \/ OpenAgain(v, f)
    BY <2>1 DEF Open, OpenUninitted, OpenFails, OpenOutOfMemory, runtimeVars
  <2>2. CallbackReturns => UNCHANGED <<list, file, ref, bind>> \/ DtorsReturn
    BY DEF CallbackReturns, CtorsReturn, PrologReturns, EpilogReturns, runtimeVars
  <2>3. Next => \/ UNCHANGED <<list, file, ref, bind>> \/ UsoInit \/ CallbackReturns
                \/ \E v \in Vars, f \in Files : Open(v, f)
                \/ \E h : UsoClose(h)
    BY DEF Next, LookUp, LookUpPtr, CloseVar, CloseInvalid, CloseByName, TouchFreed,
           runtimeVars
  <2>4. UNCHANGED vars => UNCHANGED <<list, file, ref, bind>>
    BY DEF vars, runtimeVars
  <2> QED
    BY <2>1, <2>2, <2>3, <2>4
<1> QED
  BY <1>2, <1>3, <1>4, <1>5, <1>6, <1>7, <1>8

\* Whatever a program that keeps the contract does, from callbacks too, it sees a
\* loader that loads each file once, counts its references, and unloads it when it
\* has none and no loaded file is linked against it (uso.h:22-32).
THEOREM LoaderImplemented ==
  ASSUME Contract = ContractClauses
  PROVE  Spec => ImplementsLoader
<1>1. Init => Loader!Init
  BY LoaderStarts
<1>2. ContractInv /\ ContractInv' /\ [Next]_vars => [Loader!Next]_(Loader!loaderVars)
  <2>1. ContractInv' => MapFacts'
    BY ContractMaps, PTL
  <2>2. UNCHANGED <<LoadedFiles, Refs, Uses>> => UNCHANGED Loader!loaderVars
    BY DEF Loader!loaderVars, LoadedFiles, Refs
  <2> QED
    BY <2>1, <2>2, ContractMaps, LoaderStep
<1> QED
  BY <1>1, <1>2, ContractHolds, PTL DEF Spec, ImplementsLoader, Loader!Spec

=============================================================================

-------------------------- MODULE PTAuthSystem_proofs --------------------------
(***************************************************************************)
(* Proofs about the instrumented program, for every set of local pointers, *)
(* heap, allocator and number of assignments, in a build that stops at a   *)
(* failed check and under the circumstances in which ids tell objects      *)
(* apart: what the pass knows of pointers and what the library knows of    *)
(* objects agree, as long as the program is disciplined.                   *)
(***************************************************************************)
EXTENDS PTAuthSystem, Promise_proofs, SequenceTheorems

Circumstances == IdsSignApart /\ ~SameSecond /\ ENABLELOG = FALSE

(* What the pass knows of main, also while the function it calls executes. *)
Kept == IF stack = <<>> THEN Known ELSE Head(stack)

(* The pass, in the function that executes and in main.                    *)
PassP == INSTANCE PTAuthPass_proofs WITH Types <- {}, listed <- FALSE

Saved == INSTANCE PTAuthPass_proofs WITH
  Types <- {}, listed <- FALSE,
  skip <- Kept.skip, pointers <- Kept.pointers, reasons <- Kept.reasons,
  FlagFreeCalled <- Kept.FlagFreeCalled, assigned <- Kept.assigned,
  handed <- Kept.handed, freed <- Kept.freed, stale <- Kept.stale,
  missed <- [how |-> "none", of |-> {}]

(* What is known in k is of variables of S.                                *)
Of(k, S) ==
  /\ \A i \in DOMAIN k.pointers : k.pointers[i].var \in S
  /\ k.assigned \cup k.handed \subseteq S

(* An access to a field of v will be checked.                              *)
Watched(k, v) ==
  /\ v \in k.handed \cap k.assigned
  /\ \A i \in DOMAIN k.pointers : k.pointers[i].var = v => ~k.pointers[i].checked

(* main calls one function, with one variable, and the function none.      *)
Nesting ==
  /\ stack = <<>> \/ stack = <<Head(stack)>>
  /\ given # {} => /\ stack = <<>> /\ status = "running"
                   /\ \E v \in Main : given = {v}
  /\ lapse \in BOOLEAN

(* What is known is of the variables in scope, and of all that are set.    *)
Scopes ==
  /\ Of(Known, InScope) /\ Of(Kept, Main)
  /\ \A v \in Main : prov[v].obj # 0 => v \in Kept.assigned
  /\ IF stack = <<>> THEN prov[arg].obj = 0
     ELSE prov[arg].obj # 0 => arg \in assigned

(* The parameter shares its object with a variable of main. *)
Shared(v) == stack # <<>> /\ prov[v].obj # 0 /\ prov[v].obj = prov[arg].obj

(* main's variables share no object; those that dangle, or may do so when  *)
(* the function returns, are watched.                                      *)
Discipline ==
  status = "running" /\ ~lapse =>
    /\ \A v, w \in Main : prov[v].obj # 0 /\ prov[v].obj = prov[w].obj => v = w
    /\ \A v \in Main : Dangling(v) \/ Shared(v) => Watched(Kept, v)
    /\ stack # <<>> /\ Dangling(arg) => Watched(Known, arg)
    /\ \A v \in given : ~Dangling(v) /\ (prov[v].obj # 0 => Watched(Known, v))

SysInv ==
  /\ PInv
  /\ PassP!IInv /\ Saved!IInv
  /\ Nesting
  /\ Scopes
  /\ Discipline
-----------------------------------------------------------------------------
(* The pass. *)

LEMMA PassAssumption == PassP!MaxEntriesAssumption /\ Saved!MaxEntriesAssumption
BY SystemAssumption
DEF PassP!MaxEntriesAssumption, Saved!MaxEntriesAssumption

(* What the pass does at an instruction of the program is one of its steps.*)
LEMMA PassSteps ==
  ASSUME NEW v \in Vars
  PROVE  /\ Pass!Store(v) => PassP!Store(v) /\ PassP!Next
         /\ Pass!GEP(v) => PassP!GEP(v) /\ PassP!Next
         /\ Pass!Deref(v) => PassP!Deref(v) /\ PassP!Next
         /\ Pass!Plain(v) => PassP!Plain(v) /\ PassP!Next
         /\ \A callee \in {"__ptauth_free", "function", "avoided", "read"} :
              Pass!Call(callee, {v}, {}, FALSE)
                => PassP!Call(callee, {v}, {}, FALSE) /\ PassP!Next
<1>1. Pass!Store(v) => PassP!Store(v)
  BY DEF Pass!Store, PassP!Store, Pass!Skipped, PassP!Skipped, Pass!Meet, PassP!Meet, Pass!NewEntry,
    PassP!NewEntry, Pass!Nothing, PassP!Nothing
<1>2. Pass!GEP(v) => PassP!GEP(v)
  BY DEF Pass!GEP, PassP!GEP, Pass!Skipped, PassP!Skipped, Pass!Meet, PassP!Meet, Pass!Through,
    PassP!Through, Pass!Passed, PassP!Passed, Pass!Entries, PassP!Entries,
    Pass!IsFirst, PassP!IsFirst, Pass!Nothing, PassP!Nothing
<1>3. Pass!Deref(v) => PassP!Deref(v)
  BY DEF Pass!Deref, PassP!Deref, Pass!Skipped, PassP!Skipped, Pass!Meet, PassP!Meet, Pass!Through,
    PassP!Through, Pass!Passed, PassP!Passed, Pass!Entries, PassP!Entries,
    Pass!Nothing, PassP!Nothing
<1>4. Pass!Plain(v) => PassP!Plain(v)
  BY DEF Pass!Plain, PassP!Plain, Pass!Meet, PassP!Meet, Pass!Through,
    PassP!Through, Pass!Nothing, PassP!Nothing
<1>5. \A callee : Pass!Call(callee, {v}, {}, FALSE)
                    => PassP!Call(callee, {v}, {}, FALSE)
  BY DEF Pass!Call, PassP!Call, Pass!Skipped, PassP!Skipped, Pass!Meet, PassP!Meet, Pass!Instrumented,
    PassP!Instrumented, Pass!isChecked, PassP!isChecked, Pass!Entries,
    PassP!Entries, Pass!IsFirst, PassP!IsFirst, Pass!ClearedGEPS,
    PassP!ClearedGEPS, Pass!Nothing, PassP!Nothing
<1>6. PassP!Store(v) \/ PassP!GEP(v) \/ PassP!Deref(v) \/ PassP!Plain(v)
        => PassP!Next
  BY DEF PassP!Next
<1>7. \A callee \in {"__ptauth_free", "function", "avoided", "read"} :
        PassP!Call(callee, {v}, {}, FALSE) => PassP!Next
  <2>1. {v} \in SUBSET Vars /\ {} \in SUBSET Vars /\ FALSE \in BOOLEAN
    OBVIOUS
  <2>2. {"__ptauth_free", "function", "avoided", "read"} \subseteq PassP!Callees
    BY DEF PassP!Callees
  <2> QED
    BY <2>1, <2>2 DEF PassP!Next
<1> QED
  BY <1>1, <1>2, <1>3, <1>4, <1>5, <1>6, <1>7

LEMMA PassKeeps == PassP!IInv /\ [PassP!Next]_(PassP!vars) => PassP!IInv'
BY PassAssumption, PassP!NextIInv

(* While main waits, nothing is learned of it.                             *)
LEMMA SavedKeeps == Saved!IInv /\ UNCHANGED <<Kept, GEPS>> => Saved!IInv'
<1>1. UNCHANGED <<Kept, GEPS>> => UNCHANGED Saved!vars
  BY DEF Saved!vars
<1> QED
  BY <1>1, PassAssumption, Saved!NextIInv

(* In main, what is known of main is what is known.                        *)
LEMMA SavedInMain == stack = <<>> /\ PassP!IInv => Saved!IInv
<1> SUFFICES ASSUME stack = <<>>, PassP!IInv PROVE Saved!IInv
  OBVIOUS
<1>1. /\ Kept.skip = skip /\ Kept.pointers = pointers /\ Kept.reasons = reasons
      /\ Kept.FlagFreeCalled = FlagFreeCalled /\ Kept.assigned = assigned
      /\ Kept.handed = handed /\ Kept.freed = freed /\ Kept.stale = stale
  BY DEF Kept, Known
<1>2. \A v : Saved!Entries(v) = PassP!Entries(v)
  BY <1>1 DEF Saved!Entries, PassP!Entries
<1>3. \A v : /\ Saved!Passed(v) = PassP!Passed(v)
             /\ Saved!isChecked(v) <=> PassP!isChecked(v)
             /\ Saved!HasFirst(v) <=> PassP!HasFirst(v)
  BY <1>1, <1>2 DEF Saved!Passed, PassP!Passed, Saved!isChecked,
    PassP!isChecked, Saved!HasFirst, PassP!HasFirst, Saved!IsFirst, PassP!IsFirst
<1>4. Saved!TypeOK
  BY <1>1 DEF PassP!IInv, PassP!TypeOK, Saved!TypeOK, Saved!FreeFlags,
    PassP!FreeFlags, Saved!Entry, PassP!Entry, Saved!Reasons, PassP!Reasons
<1>5. Saved!EntriesHaveFirst /\ Saved!AssignedHasEntry /\ Saved!HandedIsTracked
  BY <1>1, <1>2, <1>3 DEF PassP!IInv, Saved!EntriesHaveFirst,
    PassP!EntriesHaveFirst, Saved!AssignedHasEntry, PassP!AssignedHasEntry,
    Saved!HandedIsTracked, PassP!HandedIsTracked, Saved!Skipped, PassP!Skipped
<1>6. Saved!SkippedIsHarmless /\ Saved!StaleIsUnrecorded
  BY <1>1 DEF PassP!IInv, Saved!SkippedIsHarmless, PassP!SkippedIsHarmless,
    Saved!StaleIsUnrecorded, PassP!StaleIsUnrecorded
<1>7. Saved!FirstUseChecked /\ Saved!NestedAfterCall
  BY DEF Saved!FirstUseChecked, Saved!NestedAfterCall
<1> QED
  BY <1>4, <1>5, <1>6, <1>7 DEF Saved!IInv
-----------------------------------------------------------------------------
(* The library. *)

(* A variable is given the value of another, or NULL, as at a call and at  *)
(* a return.                                                               *)
Received(u) ==
  \/ \E w \in Vars : var'[u] = var[w] /\ prov'[u] = prov[w]
  \/ var'[u] = NULL /\ prov'[u] = Null

LEMMA HandOverPInv ==
  ASSUME PInv, \A u \in Vars : Received(u), touched' = "none",
         var' \in [Vars -> Pointer],
         prov' \in [Vars -> [obj : 0..MaxObjects, off : Nat]],
         UNCHANGED <<tbi, status, now, mem, chunk, born>>
  PROVE  PInv'
<1>1. DInv /\ IInv /\ Signed /\ Capacity
  BY DEF PInv, DInv
<1>2. TypeOK'
  <2>1. \A u \in Vars : var'[u].addr \in Words \/ var'[u] = NULL
    BY <1>1 DEF Received, IInv, TypeOK
  <2> QED
    BY <1>1, <2>1 DEF IInv, TypeOK, Touches
<1>3. ASSUME NEW u \in Vars, NEW b \in Bases, RefersTo(u, b)'
      PROVE  \E w \in Vars : /\ RefersTo(w, b)
                             /\ var'[u] = var[w] /\ prov'[u] = prov[w]
  <2>1. Live(b) /\ chunk[b].obj = prov'[u].obj
    BY <1>3 DEF RefersTo, Live
  <2>2. chunk[b].obj # 0
    BY <1>1, <2>1 DEF IInv, ChunksFit
  <2>3. prov'[u] # Null
    BY <2>1, <2>2 DEF Null
  <2> QED
    BY <2>1, <2>3 DEF Received, RefersTo
<1>4. ChunksFit' /\ Disjoint' /\ Counted' /\ Sealed' /\ Unique' /\ Capacity'
  BY <1>1 DEF IInv, DInv, ChunksFit, Disjoint, Counted, Sealed, Unique, Capacity, Live
<1>5. ProvBorn'
  <2>1. \A u \in Vars : prov[u].obj <= born /\ 0 <= born
    BY <1>1 DEF IInv, ProvBorn, TypeOK
  <2> QED
    BY <2>1 DEF ProvBorn, Received, Null
<1>6. Placed' /\ Signed'
  BY <1>1, <1>3 DEF IInv, Placed, Signed
<1>7. Minted'
  BY <1>1 DEF DInv, Minted, MintedAs, Received
<1> QED
  BY <1>2, <1>4, <1>5, <1>6, <1>7 DEF PInv, DInv, IInv

LEMMA EnterPInv ==
  ASSUME PInv, Nesting, Enter
  PROVE  PInv'
<1>1. PICK v \in Main : given = {v}
  BY DEF Nesting, Enter
<1>2. v \in Vars /\ arg \in Vars
  BY ScopesAssumption
<1>3. /\ var' = [var EXCEPT ![arg] = var[v]]
      /\ prov' = [prov EXCEPT ![arg] = prov[v]]
      /\ touched' = "none"
      /\ UNCHANGED <<tbi, status, now, mem, chunk, born>>
  BY <1>1 DEF Enter
<1>4. /\ var \in [Vars -> Pointer]
      /\ prov \in [Vars -> [obj : 0..MaxObjects, off : Nat]]
  BY DEF PInv, DInv, IInv, TypeOK
<1>5. \A u \in Vars : Received(u)
  BY <1>2, <1>3, <1>4 DEF Received
<1>6. /\ var' \in [Vars -> Pointer]
      /\ prov' \in [Vars -> [obj : 0..MaxObjects, off : Nat]]
  BY <1>2, <1>3, <1>4
<1> QED
  BY <1>3, <1>5, <1>6, HandOverPInv

LEMMA LeavePInv ==
  ASSUME PInv, Leave
  PROVE  PInv'
<1>1. arg \in Vars
  BY ScopesAssumption
<1>2. /\ var' = [var EXCEPT ![arg] = NULL]
      /\ prov' = [prov EXCEPT ![arg] = Null]
      /\ touched' = "none"
      /\ UNCHANGED <<tbi, status, now, mem, chunk, born>>
  BY DEF Leave
<1>3. /\ var \in [Vars -> Pointer]
      /\ prov \in [Vars -> [obj : 0..MaxObjects, off : Nat]]
  BY DEF PInv, DInv, IInv, TypeOK
<1>4. \A u \in Vars : Received(u)
  BY <1>1, <1>2, <1>3 DEF Received
<1>5. NULL \in Pointer /\ Null \in [obj : 0..MaxObjects, off : Nat]
  BY IdAssumption DEF NULL, Null, Pointer, Byte
<1>6. /\ var' \in [Vars -> Pointer]
      /\ prov' \in [Vars -> [obj : 0..MaxObjects, off : Nat]]
  BY <1>1, <1>2, <1>3, <1>5
<1> QED
  BY <1>2, <1>4, <1>6, HandOverPInv

(* Steps that change nothing that the library keeps.                       *)
LEMMA UntouchedPInv ==
  ASSUME PInv, touched' \in Touches \cup Vars,
         UNCHANGED <<tbi, status, now, mem, chunk, born, var, prov>>
  PROVE  PInv'
<1>1. IInv' /\ Signed'
  BY UnchangedIInv DEF PInv, DInv
<1>2. DInv'
  BY <1>1, UnchangedDInv DEF PInv
<1> QED
  BY <1>1, <1>2 DEF PInv, Capacity, Live

LEMMA StoppedPInv ==
  ASSUME PInv, NEW s \in Statuses, NEW at \in Touches \cup Vars, StopAt(s, at)
  PROVE  PInv'
<1>1. IInv' /\ Signed'
  BY StopAtIInv DEF PInv, DInv
<1>2. DInv'
  BY StopAtDInv DEF PInv
<1> QED
  BY <1>1, <1>2 DEF PInv, Capacity, Live, StopAt

LEMMA MallocPInv ==
  ASSUME ~SameSecond, PInv, NEW v \in Vars, NEW n \in Sizes, Malloc(v, n)
  PROVE  PInv'
BY MallocIInv, MallocDInv, MallocCapacity DEF PInv, DInv

LEMMA FreePInv ==
  ASSUME PInv, NEW v \in Vars, Free(v)
  PROVE  PInv'
BY FreeIInv, FreeDInv, FreeCapacity DEF PInv, DInv

LEMMA DerivePInv ==
  ASSUME PInv, NEW v \in Vars, NEW w \in Vars, Derive(v, w, 0)
  PROVE  PInv'
<1>1. 0 \in Offsets
  BY SystemAssumption
<1>2. IInv' /\ Signed' /\ DInv'
  BY <1>1, DeriveIInv, DeriveDInv DEF PInv, DInv
<1>3. Capacity'
  BY DEF Derive, PInv, Capacity, Live
<1> QED
  BY <1>2, <1>3 DEF PInv
-----------------------------------------------------------------------------
(* What an instruction that uses v changes of what the pass knows.         *)

LEMMA KnownEntries ==
  ASSUME PassP!IInv
  PROVE  /\ Len(pointers) \in Nat /\ DOMAIN pointers = 1..Len(pointers)
         /\ \A i \in DOMAIN pointers :
              pointers[i] \in [var : Vars, passed : BOOLEAN, checked : BOOLEAN]
<1>1. pointers \in Seq(PassP!Entry)
  BY DEF PassP!IInv, PassP!TypeOK
<1>2. \A i \in DOMAIN pointers : pointers[i] \in PassP!Entry
  BY <1>1, ElementOfSeq, LenProperties
<1> QED
  BY <1>1, <1>2, LenProperties DEF PassP!Entry

(* of entries, calls change no more than the mark                          *)
LEMMA CallMarks ==
  ASSUME PassP!IInv, NEW v \in Vars, NEW callee,
         PassP!Call(callee, {v}, {}, FALSE)
  PROVE  /\ DOMAIN pointers' = DOMAIN pointers
         /\ \A i \in DOMAIN pointers :
              /\ pointers'[i].var = pointers[i].var
              /\ pointers'[i].checked = pointers[i].checked
         /\ assigned' = assigned
         /\ handed' \subseteq handed \cup {v} /\ handed \subseteq handed'
         /\ callee \in {"__ptauth_free", "function"} => v \in handed'
<1>1. \/ pointers' = pointers
      \/ \E S : pointers' = [i \in DOMAIN pointers |->
                              IF i \in S
                              THEN [pointers[i] EXCEPT !.passed = TRUE]
                              ELSE pointers[i]]
  <2> DEFINE S == {i \in DOMAIN pointers :
                    /\ callee # "read"
                    /\ pointers[i].var = v /\ ~PassP!isChecked(v)
                    /\ PassP!IsFirst(i, PassP!Entries(v))}
  <2>1. CASE pointers' # pointers
    <3>1. pointers' = [i \in DOMAIN pointers |->
                        IF /\ callee # "read"
                           /\ \/ pointers[i].var \in {}
                              \/ /\ pointers[i].var \in {v}
                                 /\ ~PassP!isChecked(pointers[i].var)
                           /\ PassP!IsFirst(i, PassP!Entries(pointers[i].var))
                        THEN [pointers[i] EXCEPT !.passed = TRUE]
                        ELSE pointers[i]]
      BY <2>1 DEF PassP!Call
    <3>2. pointers' = [i \in DOMAIN pointers |->
                        IF i \in S THEN [pointers[i] EXCEPT !.passed = TRUE]
                        ELSE pointers[i]]
      BY <3>1
    <3> QED
      BY <3>2
  <2> QED
    BY <2>1
<1>2. /\ DOMAIN pointers' = DOMAIN pointers
      /\ \A i \in DOMAIN pointers :
           /\ pointers'[i].var = pointers[i].var
           /\ pointers'[i].checked = pointers[i].checked
  BY <1>1, KnownEntries
<1>3. /\ assigned' = assigned
      /\ handed' \subseteq handed \cup {v} /\ handed \subseteq handed'
      /\ callee \in {"__ptauth_free", "function"} => v \in handed'
  BY DEF PassP!Call
<1> QED
  BY <1>2, <1>3

LEMMA GEPMarks ==
  ASSUME PassP!IInv, NEW v \in Vars, PassP!GEP(v)
  PROVE  /\ DOMAIN pointers' = DOMAIN pointers
         /\ \A i \in DOMAIN pointers :
              /\ pointers'[i].var = pointers[i].var
              /\ pointers[i].var # v =>
                   pointers'[i].checked = pointers[i].checked
         /\ assigned' = assigned
         /\ handed' = handed \/ handed' = handed \ {v}
<1>1. assigned' = assigned /\ (handed' = handed \/ handed' = handed \ {v})
  BY DEF PassP!GEP, PassP!Through
<1>2. CASE pointers' = pointers
  BY <1>1, <1>2
<1>3. CASE pointers' # pointers
  <2>1. pointers' = [i \in DOMAIN pointers |->
                      IF PassP!IsFirst(i, PassP!Passed(v))
                      THEN [pointers[i] EXCEPT !.passed = FALSE,
                                               !.checked = TRUE]
                      ELSE pointers[i]]
    BY <1>3 DEF PassP!GEP
  <2>2. \A i : PassP!IsFirst(i, PassP!Passed(v)) => pointers[i].var = v
    BY DEF PassP!IsFirst, PassP!Passed, PassP!Entries
  <2> QED
    BY <1>1, <2>1, <2>2, KnownEntries
<1> QED
  BY <1>2, <1>3

Uses(v) ==
  \/ PassP!Store(v) \/ PassP!GEP(v) \/ PassP!Deref(v) \/ PassP!Plain(v)
  \/ \E callee : PassP!Call(callee, {v}, {}, FALSE)

LEMMA OthersKnown ==
  ASSUME PassP!IInv, NEW v \in Vars, Uses(v)
  PROVE  /\ \A i \in DOMAIN pointers' :
              \/ pointers'[i].var = v
              \/ /\ i \in DOMAIN pointers
                 /\ pointers'[i].var = pointers[i].var
                 /\ pointers'[i].checked = pointers[i].checked
         /\ assigned \subseteq assigned' /\ assigned' \subseteq assigned \cup {v}
         /\ handed' \subseteq handed \cup {v} /\ handed \subseteq handed' \cup {v}
<1>1. CASE PassP!Store(v)
  <2>1. /\ assigned' = assigned \cup {v} /\ handed' = handed \ {v}
        /\ \/ pointers' = pointers
           \/ pointers' = Append(pointers, PassP!NewEntry(v))
    BY <1>1 DEF PassP!Store
  <2>2. CASE pointers' = pointers
    BY <2>1, <2>2
  <2>3. CASE pointers' = Append(pointers, PassP!NewEntry(v))
    <3>1. pointers \in Seq(PassP!Entry) /\ PassP!NewEntry(v) \in PassP!Entry
      BY DEF PassP!IInv, PassP!TypeOK, PassP!NewEntry, PassP!Entry
    <3>2. /\ DOMAIN pointers' = 1..(Len(pointers) + 1)
          /\ \A i \in 1..Len(pointers) : pointers'[i] = pointers[i]
          /\ pointers'[Len(pointers) + 1] = PassP!NewEntry(v)
      BY <2>3, <3>1, AppendProperties, LenProperties
    <3>3. pointers'[Len(pointers) + 1].var = v
      BY <3>2 DEF PassP!NewEntry
    <3>4. \A i \in DOMAIN pointers' : i \in DOMAIN pointers \/ i = Len(pointers) + 1
      BY <3>2, KnownEntries
    <3> QED
      BY <2>1, <3>2, <3>3, <3>4, KnownEntries
  <2> QED
    BY <2>1, <2>2, <2>3
<1>2. CASE PassP!GEP(v)
  BY <1>2, GEPMarks
<1>3. CASE PassP!Deref(v) \/ PassP!Plain(v)
  BY <1>3 DEF PassP!Deref, PassP!Plain, PassP!Through
<1>4. CASE \E callee : PassP!Call(callee, {v}, {}, FALSE)
  BY <1>4, CallMarks
<1> QED
  BY <1>1, <1>2, <1>3, <1>4 DEF Uses
-----------------------------------------------------------------------------
(* The steps inside a function. *)

Local ==
  \/ SysNoTBI
  \/ \E v \in InScope, n \in Sizes : SysMalloc(v, n)
  \/ \E v, w \in InScope : SysCopy(v, w)
  \/ \E v \in InScope : SysFree(v) \/ SysPlain(v) \/ SysAvoided(v)
                        \/ SysGEP(v) \/ SysDeref(v) \/ SysCall(v)

LEMMA ScopeVars == InScope \subseteq Vars /\ Main \subseteq Vars /\ arg \in Vars
BY ScopesAssumption DEF InScope

(* The variables of the C library's call that ends the program.            *)
LEMMA StopKeeps == ASSUME NEW s, Stop(s) PROVE UNCHANGED <<chunk, born, var, prov>>
BY DEF Stop, StopAt

LEMMA UncheckedKeeps ==
  ASSUME NEW v, Unchecked(v)
  PROVE  /\ UNCHANGED <<tbi, status, now, mem, chunk, born, var, prov>>
         /\ touched' = Reached(v) /\ touched' \in {"own", "foreign"}
BY DEF Unchecked, Reached

(* an access ends in one of three ways                                     *)
LEMMA GuardedWays ==
  ASSUME NEW v, Guarded(v)
  PROVE  /\ Load(v) \/ Reject(v) \/ Unchecked(v)
         /\ UNCHANGED <<chunk, born, var, prov, stack, given>>
<1>1. Load(v) \/ Reject(v) \/ Unchecked(v)
  BY DEF Guarded
<1>2. UNCHANGED <<chunk, born, var, prov>>
  BY <1>1, UncheckedKeeps DEF Load, Reject, StopAt
<1>3. UNCHANGED <<stack, given>>
  BY DEF Guarded, Step
<1> QED
  BY <1>1, <1>2, <1>3

(* free changes no variable, and the program goes on or ends.              *)
LEMMA FreeKeeps ==
  ASSUME NEW v, Free(v)
  PROVE  UNCHANGED <<born, var, prov>>
BY DEF Free, Stop, StopAt

(* Which variable an instruction uses, and that it sets no other.          *)
SetsOnly(v) ==
  \/ UNCHANGED prov
  \/ v \in assigned' /\ \A u \in Vars : u # v => prov'[u] = prov[u]

LEMMA LocalEffects ==
  ASSUME PInv, Local
  PROVE  /\ UNCHANGED stack
         /\ \/ UNCHANGED <<passvars, prov>>
            \/ \E v \in InScope : Uses(v) /\ PassP!Next /\ SetsOnly(v)
<1>0. prov \in [Vars -> [obj : 0..MaxObjects, off : Nat]]
  BY DEF PInv, DInv, IInv, TypeOK
<1>1. CASE SysNoTBI
  <2>1. UNCHANGED <<stack, passvars>> /\ Stop("noTBI")
    BY <1>1 DEF SysNoTBI, Step, NoTBI
  <2> QED
    BY <2>1, StopKeeps DEF passvars
<1>2. ASSUME NEW v \in InScope, NEW n \in Sizes, SysMalloc(v, n)
      PROVE  Uses(v) /\ PassP!Next /\ SetsOnly(v) /\ UNCHANGED stack
  <2>1. Pass!Store(v) /\ Malloc(v, n) /\ UNCHANGED stack
    BY <1>2 DEF SysMalloc, Step
  <2>2. v \in assigned'
    BY <2>1 DEF Pass!Store
  <2>3. CASE Stop("nomem")
    BY <2>1, <2>3, PassSteps, ScopeVars, StopKeeps DEF Uses, SetsOnly
  <2>4. CASE ~Stop("nomem")
    <3>1. prov' = [prov EXCEPT ![v] = [obj |-> born + 1, off |-> 0]]
      BY <2>1, <2>4 DEF Malloc, NewObject
    <3>2. \A u \in Vars : u # v => prov'[u] = prov[u]
      BY <1>0, <3>1
    <3> QED
      BY <2>1, <2>2, <3>2, PassSteps, ScopeVars DEF Uses, SetsOnly
  <2> QED
    BY <2>3, <2>4
<1>3. ASSUME NEW v \in InScope, NEW w \in InScope, SysCopy(v, w)
      PROVE  Uses(w) /\ PassP!Next /\ SetsOnly(w) /\ UNCHANGED stack
  <2>1. Pass!Store(w) /\ Derive(v, w, 0) /\ UNCHANGED stack
    BY <1>3 DEF SysCopy, Step
  <2>2. w \in assigned'
    BY <2>1 DEF Pass!Store
  <2>3. \A u \in Vars : u # w => prov'[u] = prov[u]
    BY <1>0, <2>1 DEF Derive
  <2> QED
    BY <2>1, <2>2, <2>3, PassSteps, ScopeVars DEF Uses, SetsOnly
<1>4. ASSUME NEW v \in InScope,
             SysFree(v) \/ SysPlain(v) \/ SysAvoided(v) \/ SysGEP(v)
             \/ SysDeref(v) \/ SysCall(v)
      PROVE  Uses(v) /\ PassP!Next /\ SetsOnly(v) /\ UNCHANGED stack
  <2>1. /\ \/ Pass!Plain(v) \/ Pass!GEP(v) \/ Pass!Deref(v)
           \/ \E callee \in {"__ptauth_free", "function", "avoided", "read"} :
                Pass!Call(callee, {v}, {}, FALSE)
        /\ UNCHANGED stack
    BY <1>4, GuardedWays
    DEF SysFree, SysPlain, SysAvoided, SysGEP, SysDeref, SysCall, Step
  <2>2. UNCHANGED prov
    BY <1>4, GuardedWays, UncheckedKeeps, FreeKeeps
    DEF SysFree, SysPlain, SysAvoided, SysGEP, SysDeref, SysCall
  <2> QED
    BY <2>1, <2>2, PassSteps, ScopeVars DEF Uses, SetsOnly
<1> QED
  BY <1>1, <1>2, <1>3, <1>4 DEF Local

(* What the library keeps, a step inside a function keeps.                 *)
LEMMA LocalPInv ==
  ASSUME ~SameSecond, PInv, Local
  PROVE  PInv'
<1>1. CASE SysNoTBI
  BY <1>1, StoppedPInv DEF SysNoTBI, NoTBI, Stop, Touches, Statuses
<1>2. ASSUME NEW v \in InScope, NEW n \in Sizes, SysMalloc(v, n) PROVE PInv'
  BY <1>2, MallocPInv, ScopeVars DEF SysMalloc
<1>3. ASSUME NEW v \in InScope, NEW w \in InScope, SysCopy(v, w) PROVE PInv'
  BY <1>3, DerivePInv, ScopeVars DEF SysCopy
<1>4. ASSUME NEW v \in InScope, SysFree(v) PROVE PInv'
  BY <1>4, FreePInv, ScopeVars DEF SysFree
<1>5. ASSUME NEW v, Unchecked(v) PROVE PInv'
  BY <1>5, UncheckedKeeps, UntouchedPInv DEF Touches
<1>6. ASSUME NEW v \in InScope, Guarded(v) PROVE PInv'
  <2>1. CASE Load(v)
    <3>1. touched' \in Touches \cup Vars
      BY <2>1 DEF Load, Reached, Touches
    <3> QED
      BY <2>1, <3>1, UntouchedPInv DEF Load
  <2>2. CASE Reject(v)
    BY <2>2, StoppedPInv, ScopeVars DEF Reject, Statuses
  <2> QED
    BY <1>5, <1>6, <2>1, <2>2, GuardedWays
<1>7. ASSUME NEW v, SysCall(v) PROVE PInv'
  BY <1>7, UntouchedPInv DEF SysCall, Touches
<1> QED
  BY <1>1, <1>2, <1>3, <1>4, <1>5, <1>6, <1>7
  DEF Local, SysPlain, SysAvoided, SysGEP, SysDeref
-----------------------------------------------------------------------------
(* What the pass keeps, in both functions. *)

LEMMA LocalPass ==
  ASSUME PInv, PassP!IInv, Saved!IInv, Local
  PROVE  PassP!IInv' /\ Saved!IInv'
<1>1. PassP!IInv'
  <2>1. UNCHANGED passvars => UNCHANGED PassP!vars
    BY DEF passvars, PassP!vars
  <2> QED
    BY <2>1, LocalEffects, PassKeeps
<1>2. UNCHANGED stack
  BY LocalEffects
<1>3. CASE stack = <<>>
  <2>1. (stack = <<>> /\ PassP!IInv => Saved!IInv)'
    BY SavedInMain, PTL
  <2> QED
    BY <1>1, <1>2, <1>3, <2>1
<1>4. CASE stack # <<>>
  <2>1. UNCHANGED Kept
    BY <1>2, <1>4 DEF Kept
  <2>2. GEPS \subseteq {} /\ GEPS' \subseteq {}
    BY <1>1 DEF PassP!IInv, PassP!TypeOK
  <2>3. GEPS = {} /\ GEPS' = {}
    BY <2>2
  <2> QED
    BY <1>1, <2>1, <2>3, SavedKeeps
<1> QED
  BY <1>1, <1>3, <1>4

LEMMA EnterPass ==
  ASSUME PassP!IInv, Saved!IInv, Nesting, Enter
  PROVE  /\ PassP!IInv' /\ Saved!IInv'
         /\ Kept = Known /\ Kept' = Kept
<1>1. stack = <<>> /\ stack' = <<Known>> /\ GEPS' = GEPS
  BY DEF Nesting, Enter
<1>2. Kept = Known /\ Kept' = Known
  BY <1>1 DEF Kept
<1>3. Saved!IInv'
  BY <1>1, <1>2, SavedKeeps
<1>4. /\ skip' \in BOOLEAN /\ FlagFreeCalled' \in PassP!FreeFlags(skip')
      /\ pointers' = IF skip' THEN <<>> ELSE <<PassP!NewEntry(arg)>>
      /\ reasons' = {} /\ assigned' = {arg} /\ handed' = {} /\ freed' = {}
      /\ stale' = FALSE /\ missed' = PassP!Nothing
  BY DEF Enter, EntriesOfCallee, Pass!NewEntry, PassP!NewEntry, Pass!Nothing,
    PassP!Nothing, Pass!FreeFlags, PassP!FreeFlags
<1>5. PassP!NewEntry(arg) \in PassP!Entry /\ PassP!NewEntry(arg).var = arg
  BY ScopeVars DEF PassP!NewEntry, PassP!Entry
<1>6. pointers' \in Seq(PassP!Entry) /\ Len(pointers') <= MaxEntries
  <2>1. MaxEntries \in Nat /\ 1 <= MaxEntries /\ 0 <= MaxEntries
    BY SystemAssumption
  <2>2. <<>> \in Seq(PassP!Entry) /\ Len(<<>>) = 0
    BY EmptySeq
  <2>3. <<PassP!NewEntry(arg)>> \in Seq(PassP!Entry)
        /\ Len(<<PassP!NewEntry(arg)>>) = 1
    BY <1>5
  <2> QED
    BY <1>4, <2>1, <2>2, <2>3
<1>7. PassP!TypeOK'
  <2>1. GEPS' \subseteq {}
    BY <1>1 DEF PassP!IInv, PassP!TypeOK
  <2> QED
    BY <1>4, <1>6, <2>1, ScopeVars DEF PassP!TypeOK, PassP!Nothing
<1>8. skip' => \A v : PassP!Entries(v)' = {}
  BY <1>4 DEF PassP!Entries
<1>9. ~skip' => \A v : PassP!Entries(v)' = IF v = arg THEN {1} ELSE {}
  <2> HIDE DEF PassP!NewEntry
  <2>1. ~skip' => DOMAIN pointers' = {1} /\ pointers'[1].var = arg
    BY <1>4, <1>5
  <2> QED
    BY <2>1 DEF PassP!Entries
<1>10. PassP!EntriesHaveFirst' /\ PassP!AssignedHasEntry'
  BY <1>4, <1>8, <1>9 DEF PassP!EntriesHaveFirst, PassP!AssignedHasEntry,
    PassP!HasFirst, PassP!IsFirst, PassP!Skipped
<1>11. /\ PassP!HandedIsTracked' /\ PassP!SkippedIsHarmless'
       /\ PassP!StaleIsUnrecorded' /\ PassP!FirstUseChecked'
       /\ PassP!NestedAfterCall'
  BY <1>4 DEF PassP!HandedIsTracked, PassP!SkippedIsHarmless,
    PassP!StaleIsUnrecorded, PassP!FirstUseChecked, PassP!NestedAfterCall,
    PassP!Nothing
<1> QED
  BY <1>2, <1>3, <1>7, <1>10, <1>11 DEF PassP!IInv

LEMMA LeaveRestores ==
  ASSUME Leave
  PROVE  /\ skip' = Kept.skip /\ pointers' = Kept.pointers
         /\ reasons' = Kept.reasons /\ FlagFreeCalled' = Kept.FlagFreeCalled
         /\ assigned' = Kept.assigned /\ handed' = Kept.handed
         /\ freed' = Kept.freed /\ stale' = Kept.stale
         /\ missed' = PassP!Nothing /\ GEPS' = GEPS
         /\ stack # <<>> /\ stack' = <<>>
BY DEF Leave, Kept, Pass!Nothing, PassP!Nothing

LEMMA LeavePass ==
  ASSUME PassP!IInv, Saved!IInv, Leave
  PROVE  PassP!IInv' /\ Saved!IInv'
<1>1. \A v : PassP!Entries(v)' = Saved!Entries(v)
  BY LeaveRestores DEF Saved!Entries, PassP!Entries
<1>2. \A v : /\ PassP!Passed(v)' = Saved!Passed(v)
             /\ PassP!isChecked(v)' <=> Saved!isChecked(v)
             /\ PassP!HasFirst(v)' <=> Saved!HasFirst(v)
  BY <1>1, LeaveRestores DEF Saved!Passed, PassP!Passed, Saved!isChecked,
    PassP!isChecked, Saved!HasFirst, PassP!HasFirst, Saved!IsFirst, PassP!IsFirst
<1>3. PassP!TypeOK'
  BY LeaveRestores DEF Saved!IInv, PassP!TypeOK, Saved!TypeOK, Saved!FreeFlags,
    PassP!FreeFlags, Saved!Entry, PassP!Entry, Saved!Reasons, PassP!Reasons,
    PassP!Nothing
<1>4. /\ PassP!EntriesHaveFirst' /\ PassP!AssignedHasEntry'
      /\ PassP!HandedIsTracked'
  BY <1>1, <1>2, LeaveRestores DEF Saved!IInv, Saved!EntriesHaveFirst,
    PassP!EntriesHaveFirst, Saved!AssignedHasEntry, PassP!AssignedHasEntry,
    Saved!HandedIsTracked, PassP!HandedIsTracked, Saved!Skipped, PassP!Skipped
<1>5. PassP!SkippedIsHarmless' /\ PassP!StaleIsUnrecorded'
  BY LeaveRestores DEF Saved!IInv, Saved!SkippedIsHarmless,
    PassP!SkippedIsHarmless, Saved!StaleIsUnrecorded, PassP!StaleIsUnrecorded
<1>6. PassP!FirstUseChecked' /\ PassP!NestedAfterCall'
  BY LeaveRestores DEF PassP!FirstUseChecked, PassP!NestedAfterCall,
    PassP!Nothing
<1>7. PassP!IInv'
  BY <1>3, <1>4, <1>5, <1>6 DEF PassP!IInv
<1>8. (stack = <<>> /\ PassP!IInv => Saved!IInv)'
  BY SavedInMain, PTL
<1> QED
  BY <1>7, <1>8, LeaveRestores
-----------------------------------------------------------------------------
(* Calls nest one deep, and each function knows of its own variables.      *)

LEMMA KnownFields ==
  /\ Known.pointers = pointers
  /\ Known.assigned = assigned
  /\ Known.handed = handed
BY DEF Known

LEMMA LocalNesting ==
  ASSUME PInv, Nesting, Local
  PROVE  Nesting' /\ (given = {} \/ given' = {})
<1>1. UNCHANGED stack
  BY LocalEffects
<1>2. CASE \E v \in InScope : SysCall(v)
  <2>1. PICK v \in InScope : SysCall(v)
    BY <1>2
  <2>2. stack = <<>> /\ given = {} /\ given' = {v} /\ status' = "running"
    BY <2>1 DEF SysCall
  <2>3. v \in Main
    BY <2>2 DEF InScope
  <2>4. lapse' \in BOOLEAN
    BY <2>1 DEF SysCall
  <2> QED
    BY <1>1, <2>2, <2>3, <2>4 DEF Nesting
<1>3. CASE ~\E v \in InScope : SysCall(v)
  <2>1. \E b : Step(b)
    BY <1>3 DEF Local, SysNoTBI, SysMalloc, SysCopy, SysFree, SysPlain,
      SysAvoided, SysGEP, SysDeref, Guarded
  <2>2. given = {} /\ given' = {} /\ lapse' \in BOOLEAN
    BY <2>1 DEF Step
  <2> QED
    BY <1>1, <2>2 DEF Nesting
<1> QED
  BY <1>2, <1>3

LEMMA EnterNesting ==
  ASSUME Nesting, Enter
  PROVE  Nesting'
<1>1. stack' = <<Known>> /\ given' = {} /\ lapse' = lapse
  BY DEF Enter
<1>2. Head(stack') = Known
  BY <1>1
<1> QED
  BY <1>1, <1>2 DEF Nesting

LEMMA LeaveNesting ==
  ASSUME Nesting, Leave
  PROVE  Nesting'
<1>1. stack # <<>> /\ stack' = <<>> /\ given' = given /\ lapse' = lapse
  BY DEF Leave
<1> QED
  BY <1>1 DEF Nesting

(* What is known stays that of variables in scope. *)
LEMMA LocalOf ==
  ASSUME PassP!IInv, NEW v \in Vars, Uses(v), NEW S, v \in S, Of(Known, S)
  PROVE  Of(Known, S)' /\ assigned \subseteq assigned'
<1>1. \A i \in DOMAIN pointers' : pointers'[i].var \in S
  BY OthersKnown, KnownFields DEF Of
<1>2. assigned' \cup handed' \subseteq S
  BY OthersKnown, KnownFields DEF Of
<1>3. KnownFields'
  BY KnownFields, PTL
<1> QED
  BY <1>1, <1>2, <1>3, OthersKnown DEF Of

LEMMA LocalScopes ==
  ASSUME PInv, PassP!IInv, Scopes, Local
  PROVE  Scopes'
<1>1. UNCHANGED <<stack, InScope>>
  BY LocalEffects DEF InScope
<1>2. CASE UNCHANGED <<passvars, prov>>
  <2>1. UNCHANGED <<Known, Kept>>
    BY <1>1, <1>2 DEF passvars, Known, Kept
  <2>2. assigned' = assigned
    BY <1>2 DEF passvars
  <2> QED
    BY <1>1, <1>2, <2>1, <2>2 DEF Scopes, Of
<1>3. CASE \E v \in InScope : Uses(v) /\ PassP!Next /\ SetsOnly(v)
  <2>1. PICK v \in InScope : Uses(v) /\ SetsOnly(v)
    BY <1>3
  <2>2. v \in Vars /\ Of(Known, InScope)
    BY ScopeVars DEF Scopes
  <2>3. Of(Known, InScope)' /\ assigned \subseteq assigned'
    <3>1. PICK S : S = InScope
      OBVIOUS
    <3>2. Of(Known, S)' /\ assigned \subseteq assigned'
      BY <2>1, <2>2, <3>1, LocalOf
    <3> QED
      BY <1>1, <3>1, <3>2 DEF Of
  <2>4. CASE stack = <<>>
    <3>1. Kept = Known /\ Kept' = Known' /\ InScope = Main
      BY <1>1, <2>4 DEF Kept, InScope
    <3>2. Known'.assigned = assigned'
      BY DEF Known
    <3>3. Of(Kept, Main)'
      BY <1>1, <2>3, <3>1
    <3>4. \A w \in Main : prov'[w].obj # 0 => w \in Kept'.assigned
      BY <2>1, <2>3, <3>1, <3>2, ScopeVars, KnownFields DEF SetsOnly, Scopes
    <3>5. prov'[arg].obj = 0
      BY <2>1, <2>4, <3>1, ScopeVars, ScopesAssumption DEF SetsOnly, Scopes
    <3> QED
      BY <1>1, <2>3, <2>4, <3>3, <3>4, <3>5 DEF Scopes
  <2>5. CASE stack # <<>>
    <3>1. Kept' = Kept /\ v = arg
      BY <1>1, <2>5 DEF Kept, InScope
    <3>2. Of(Kept, Main)'
      BY <3>1 DEF Scopes, Of
    <3>3. \A w \in Main : prov'[w].obj # 0 => w \in Kept'.assigned
      BY <2>1, <3>1, ScopeVars, ScopesAssumption DEF SetsOnly, Scopes
    <3>4. prov'[arg].obj # 0 => arg \in assigned'
      BY <2>1, <2>3, <2>5, <3>1 DEF SetsOnly, Scopes
    <3> QED
      BY <1>1, <2>3, <2>5, <3>2, <3>3, <3>4 DEF Scopes
  <2> QED
    BY <2>4, <2>5
<1> QED
  BY <1>2, <1>3, LocalEffects
LEMMA EnterScopes ==
  ASSUME PInv, PassP!IInv, Saved!IInv, Nesting, Scopes, Enter
  PROVE  Scopes'
<1>1. stack = <<>> /\ stack' = <<Known>> /\ stack' # <<>>
  BY DEF Nesting, Enter
<1>2. Kept = Known /\ Kept' = Kept
  BY EnterPass
<1>3. InScope = Main /\ InScope' = {arg}
  BY <1>1 DEF InScope
<1>4. Of(Known, InScope)'
  <2>1. /\ pointers' = <<>> \/ pointers' = <<PassP!NewEntry(arg)>>
        /\ assigned' = {arg} /\ handed' = {}
    BY DEF Enter, EntriesOfCallee, Pass!NewEntry, PassP!NewEntry
  <2>2. PassP!NewEntry(arg).var = arg
    BY DEF PassP!NewEntry
  <2> HIDE DEF PassP!NewEntry
  <2>3. \A i \in DOMAIN pointers' : pointers'[i].var = arg
    BY <2>1, <2>2
  <2>4. KnownFields'
    BY KnownFields, PTL
  <2> QED
    BY <1>3, <2>1, <2>3, <2>4 DEF Of
<1>5. Of(Kept, Main)'
  BY <1>2 DEF Scopes, Of
<1>6. \A v \in Main : prov'[v] = prov[v]
  <2>1. \E p : prov' = [prov EXCEPT ![arg] = p]
    BY DEF Enter
  <2> QED
    BY <2>1, ScopeVars, ScopesAssumption DEF PInv, DInv, IInv, TypeOK
<1>7. \A v \in Main : prov'[v].obj # 0 => v \in Kept'.assigned
  BY <1>2, <1>6 DEF Scopes
<1>8. arg \in assigned'
  BY DEF Enter
<1> QED
  BY <1>1, <1>4, <1>5, <1>7, <1>8 DEF Scopes

LEMMA LeaveKnown ==
  ASSUME PInv, Leave
  PROVE  /\ Kept' = Known' /\ InScope' = Main
         /\ Known'.pointers = Kept.pointers /\ Known'.assigned = Kept.assigned
         /\ Known'.handed = Kept.handed
         /\ prov'[arg] = Null /\ \A v \in Main : prov'[v] = prov[v]
         /\ UNCHANGED <<status, chunk, given, lapse>>
<1>1. stack' = <<>>
  BY LeaveRestores
<1>2. KnownFields'
  BY KnownFields, PTL
<1>3. prov' = [prov EXCEPT ![arg] = Null]
  BY DEF Leave
<1>4. prov'[arg] = Null /\ \A v \in Main : prov'[v] = prov[v]
  BY <1>3, ScopeVars, ScopesAssumption DEF PInv, DInv, IInv, TypeOK
<1> QED
  BY <1>1, <1>2, <1>4, LeaveRestores DEF Leave, Kept, InScope

LEMMA LeaveScopes ==
  ASSUME PInv, Scopes, Leave
  PROVE  Scopes'
<1>1. Of(Known, InScope)' /\ Of(Kept, Main)'
  BY LeaveKnown DEF Scopes, Of
<1>2. \A v \in Main : prov'[v].obj # 0 => v \in Kept'.assigned
  BY LeaveKnown DEF Scopes
<1>3. prov'[arg].obj = 0
  BY LeaveKnown DEF Null
<1> QED
  BY <1>1, <1>2, <1>3, LeaveRestores DEF Scopes

-----------------------------------------------------------------------------
(* A disciplined program's dangling pointers are watched. *)

(* What is watched stays so when another variable is used.                 *)
LEMMA OthersWatched ==
  ASSUME PassP!IInv, NEW v \in Vars, Uses(v), NEW u \in Vars, u # v,
         Watched(Known, u)
  PROVE  Watched(Known, u)'
<1>1. KnownFields'
  BY KnownFields, PTL
<1>2. u \in handed' \cap assigned'
  BY OthersKnown, KnownFields DEF Watched
<1>3. \A i \in DOMAIN pointers' : pointers'[i].var = u => ~pointers'[i].checked
  BY OthersKnown, KnownFields DEF Watched
<1> QED
  BY <1>1, <1>2, <1>3 DEF Watched

(* What is handed over is watched, unless it was checked before.           *)
LEMMA HandedWatched ==
  ASSUME PassP!IInv, NEW v \in Vars,
         NEW callee \in {"__ptauth_free", "function"},
         PassP!Call(callee, {v}, {}, FALSE),
         ~PassP!isChecked(v), v \in assigned
  PROVE  Watched(Known, v)'
<1>1. KnownFields'
  BY KnownFields, PTL
<1>2. v \in handed' \cap assigned'
  BY CallMarks
<1>3. \A i \in DOMAIN pointers' : pointers'[i].var = v => ~pointers'[i].checked
  BY CallMarks DEF PassP!isChecked, PassP!Entries
<1> QED
  BY <1>1, <1>2, <1>3 DEF Watched

(* The handlers put a check in front of what is watched.                   *)
LEMMA WatchedHasCheck ==
  ASSUME PassP!IInv, NEW v, v \in handed \cap assigned, ~PassP!isChecked(v)
  PROVE  HasCheck(v)
<1>1. PassP!Passed(v) # {} /\ ~skip
  BY DEF PassP!IInv, PassP!HandedIsTracked, PassP!SkippedIsHarmless
<1>2. Pass!Passed(v) = PassP!Passed(v)
  BY DEF Pass!Passed, PassP!Passed, Pass!Entries, PassP!Entries
<1> QED
  BY <1>1, <1>2 DEF HasCheck

LEMMA KnownWatched ==
  ASSUME NEW v, Watched(Known, v)
  PROVE  v \in handed \cap assigned /\ ~PassP!isChecked(v)
BY KnownFields DEF Watched, PassP!isChecked, PassP!Entries

(* A step that sets no variable and lets no object die but the one of a    *)
(* variable that is watched then.                                          *)
LEMMA KeepsDiscipline ==
  ASSUME Discipline, status = "running", ~lapse, UNCHANGED <<stack, prov>>,
         \A u \in InScope : Dangling(u)' => Watched(Known, u)',
         stack # <<>> => \A u \in Main : Dangling(u)' => Dangling(u) \/ Shared(u),
         \A u \in given' : ~Dangling(u)' /\ (prov'[u].obj # 0 => Watched(Known, u)')
  PROVE  Discipline'
<1>1. \A u : Shared(u)' <=> Shared(u)
  BY DEF Shared
<1>2. CASE stack = <<>>
  <2>1. InScope = Main /\ Kept' = Known' /\ \A u : ~Shared(u)
    BY <1>2 DEF InScope, Kept, Shared
  <2>2. \A u \in Main : Dangling(u)' \/ Shared(u)' => Watched(Kept, u)'
    BY <1>1, <2>1 DEF Watched
  <2> QED
    BY <1>2, <2>2 DEF Discipline
<1>3. CASE stack # <<>>
  <2>1. InScope = {arg} /\ Kept' = Kept
    BY <1>3 DEF InScope, Kept
  <2>2. \A u \in Main : Dangling(u)' \/ Shared(u)' => Watched(Kept, u)
    BY <1>1, <1>3 DEF Discipline
  <2>3. \A u \in Main : Dangling(u)' \/ Shared(u)' => Watched(Kept, u)'
    BY <2>1, <2>2 DEF Watched
  <2> QED
    BY <1>3, <2>1, <2>3 DEF Discipline
<1> QED
  BY <1>2, <1>3
(* In scope, a dangling pointer of a disciplined program is watched.       *)
LEMMA ScopeWatched ==
  ASSUME Discipline, status = "running", ~lapse, NEW u \in InScope, Dangling(u)
  PROVE  Watched(Known, u)
<1>1. CASE stack = <<>>
  BY <1>1 DEF Discipline, InScope, Kept
<1>2. CASE stack # <<>>
  BY <1>2 DEF Discipline, InScope
<1> QED
  BY <1>1, <1>2

(* What no check precedes is alive. *)
LEMMA UncheckedIsLive ==
  ASSUME PassP!IInv, Discipline, status = "running", ~lapse,
         NEW v \in InScope, ~HasCheck(v)
  PROVE  ~Dangling(v)
BY ScopeWatched, KnownWatched, WatchedHasCheck

(* Steps that change neither chunks nor variables.                         *)
LEMMA UseDiscipline ==
  ASSUME PassP!IInv, Discipline, status = "running", ~lapse,
         NEW v \in InScope, Uses(v), UNCHANGED <<stack, chunk, prov>>,
         ~Dangling(v),
         \A u \in given' : u = v /\ (prov[u].obj # 0 => Watched(Known, u)')
  PROVE  Discipline'
<1>1. \A u : Dangling(u)' <=> Dangling(u)
  BY DEF Dangling, RefersTo, Live
<1>2. \A u \in InScope : Dangling(u) => Watched(Known, u)'
  BY ScopeWatched, OthersWatched, ScopeVars
<1> QED
  BY <1>1, <1>2, KeepsDiscipline

LEMMA AccessDiscipline ==
  ASSUME Circumstances, PInv, PassP!IInv, Discipline, NEW v \in InScope,
         SysPlain(v) \/ SysAvoided(v) \/ SysGEP(v) \/ SysDeref(v),
         status' = "running", ~lapse'
  PROVE  Discipline' /\ ~Dangling(v)
<1>1. v \in Vars /\ DInv /\ IdsSignApart /\ ENABLELOG = FALSE
  BY ScopeVars DEF PInv, Circumstances
<1>2. /\ UNCHANGED <<stack, chunk, prov>> /\ given' = {} /\ ~lapse
      /\ status = "running" /\ Uses(v)
  <2>1. CASE SysPlain(v) \/ SysAvoided(v)
    <3>1. Uses(v)
      BY <1>1, <2>1, PassSteps DEF SysPlain, SysAvoided, Uses
    <3>2. Unchecked(v) /\ Step(Dangling(v))
      BY <2>1 DEF SysPlain, SysAvoided
    <3>3. UNCHANGED <<stack, chunk, prov>> /\ given' = {} /\ ~lapse
      BY <3>2, UncheckedKeeps DEF Step
    <3>4. status = "running"
      BY <3>2 DEF Unchecked, MayUse
    <3> QED
      BY <3>1, <3>3, <3>4
  <2>2. CASE SysGEP(v) \/ SysDeref(v)
    <3>1. Uses(v)
      BY <1>1, <2>2, PassSteps DEF SysGEP, SysDeref, Uses
    <3>2. Guarded(v)
      BY <2>2 DEF SysGEP, SysDeref
    <3>3. given' = {} /\ ~lapse
      BY <3>2 DEF Guarded, Step
    <3>4. status = "running"
      BY <3>2, GuardedWays DEF Load, Reject, Unchecked, MayUse
    <3> QED
      BY <3>1, <3>2, <3>3, <3>4, GuardedWays
  <2> QED
    BY <2>1, <2>2
<1>3. ~Dangling(v)
  <2>1. CASE SysPlain(v) \/ SysAvoided(v)
    BY <2>1 DEF SysPlain, SysAvoided, Step
  <2>2. CASE SysGEP(v) \/ SysDeref(v)
    <3>1. Guarded(v)
      BY <2>2 DEF SysGEP, SysDeref
    <3>2. CASE HasCheck(v)
      <4>1. Load(v) \/ Reject(v)
        BY <3>1, <3>2 DEF Guarded
      <4>2. ~Reject(v)
        <5>1. ASSUME NEW s \in {"segv", "aborted"}, StopAt(s, v) PROVE FALSE
          BY <5>1 DEF StopAt
        <5> QED
          BY <5>1 DEF Reject
      <4> QED
        BY <1>1, <4>1, <4>2, UsedIsLive DEF Load
    <3>3. CASE ~HasCheck(v)
      BY <1>2, <3>3, UncheckedIsLive
    <3> QED
      BY <3>2, <3>3
  <2> QED
    BY <2>1, <2>2
<1> QED
  BY <1>2, <1>3, UseDiscipline

LEMMA CallDiscipline ==
  ASSUME PassP!IInv, Scopes, Discipline, NEW v \in InScope, SysCall(v), ~lapse'
  PROVE  Discipline'
<1>1. v \in Vars
  BY ScopeVars
<1>2. /\ status = "running" /\ stack = <<>> /\ given' = {v}
      /\ Pass!Call("function", {v}, {}, FALSE)
      /\ ~lapse /\ ~Dangling(v) /\ ~Pass!isChecked(v)
      /\ UNCHANGED <<stack, chunk, prov>>
  BY DEF SysCall
<1>3. PassP!Call("function", {v}, {}, FALSE) /\ Uses(v)
  BY <1>1, <1>2, PassSteps DEF Uses
<1>4. ~PassP!isChecked(v)
  BY <1>2 DEF Pass!isChecked, PassP!isChecked, Pass!Entries, PassP!Entries
<1>5. prov[v].obj # 0 => v \in assigned
  BY <1>2, KnownFields DEF Scopes, InScope, Kept
<1>6. prov[v].obj # 0 => Watched(Known, v)'
  BY <1>1, <1>3, <1>4, <1>5, HandedWatched
<1> QED
  BY <1>2, <1>3, <1>6, UseDiscipline
(* A new object revives and kills no other, and is no other variable's.    *)
LEMMA MallocRefers ==
  ASSUME PInv, NEW v \in Vars, NEW n \in Sizes, Malloc(v, n), status' = "running"
  PROVE  /\ ~Dangling(v)'
         /\ \A u \in Vars : u # v => /\ prov'[u] = prov[u]
                                     /\ prov'[u].obj # prov'[v].obj
                                     /\ Dangling(u)' => Dangling(u)
         /\ prov'[v].obj # 0
<1> DEFINE k == Granules(AllocSize(n))
<1>1. k \in Nat /\ k > 0
  BY MallocRoom
<1>2. ~Stop("nomem")
  BY DEF Stop, StopAt
<1>3. PICK b \in Bases : Fits(b, k, {}) /\ NewObject(v, b, k, n, mem, chunk)
  BY <1>2 DEF Malloc
<1> HIDE DEF k
<1>4. /\ chunk \in [Bases -> ChunkType]
      /\ prov \in [Vars -> [obj : 0..MaxObjects, off : Nat]]
      /\ born \in Nat /\ \A u \in Vars : prov[u].obj <= born
  BY DEF PInv, DInv, IInv, TypeOK, ChunkType, ProvBorn
<1>5. ~Live(b)
  <2>1. b \in Nat /\ chunk[b].len \in Nat
    BY <1>4, Constants DEF ChunkType
  <2>2. Live(b) => b + 16 * chunk[b].len <= b \/ b + 16 * k <= b
    BY <1>3 DEF Fits
  <2> QED
    BY <1>1, <2>1, <2>2 DEF Live
<1>6. /\ chunk'[b].len = k /\ chunk'[b].obj = born + 1
      /\ \A d \in Bases : d # b => chunk'[d] = chunk[d]
      /\ prov'[v].obj = born + 1
      /\ \A u \in Vars : u # v => prov'[u] = prov[u]
  BY <1>3, <1>4 DEF NewObject
<1>7. \A u \in Vars : u # v => prov'[u].obj # prov'[v].obj
  BY <1>4, <1>6
<1>8. ~Dangling(v)'
  BY <1>1, <1>6 DEF Dangling, RefersTo, Live
<1>9. ASSUME NEW u \in Vars, u # v, ~Dangling(u) PROVE ~Dangling(u)'
  <2>1. CASE prov[u].obj = 0
    BY <1>6, <1>9, <2>1 DEF Dangling
  <2>2. CASE prov[u].obj # 0
    <3>1. PICK d \in Bases : RefersTo(u, d)
      BY <1>9, <2>2 DEF Dangling
    <3>2. d # b
      BY <1>5, <3>1 DEF RefersTo
    <3> QED
      BY <1>6, <1>9, <3>1, <3>2 DEF Dangling, RefersTo, Live
  <2> QED
    BY <2>1, <2>2
<1> QED
  BY <1>4, <1>6, <1>7, <1>8, <1>9

LEMMA MallocDiscipline ==
  ASSUME PInv, PassP!IInv, Discipline, NEW v \in InScope, NEW n \in Sizes,
         SysMalloc(v, n), status' = "running", ~lapse'
  PROVE  Discipline'
<1>1. v \in Vars /\ Malloc(v, n) /\ UNCHANGED stack /\ given' = {} /\ ~lapse
  BY ScopeVars DEF SysMalloc, Step
<1>2. status = "running"
  BY <1>1 DEF Malloc, CallsAllocator
<1>3. Uses(v)
  BY <1>1, PassSteps DEF SysMalloc, Uses
<1>4. ~Dangling(v)' /\ \A u \in Vars : u # v =>
        /\ prov'[u] = prov[u]
        /\ prov'[u].obj # prov'[v].obj
        /\ Dangling(u)' => Dangling(u)
  BY <1>1, MallocRefers
<1>5. \A u, w \in Main : prov'[u].obj # 0 /\ prov'[u].obj = prov'[w].obj => u = w
  BY <1>1, <1>2, <1>4, ScopeVars DEF Discipline
<1>6. \A u \in InScope : Dangling(u)' => Watched(Known, u)'
  <2> SUFFICES ASSUME NEW u \in InScope, Dangling(u)' PROVE Watched(Known, u)'
    OBVIOUS
  <2>1. u \in Vars /\ u # v /\ Dangling(u)
    BY <1>4, ScopeVars
  <2>2. Watched(Known, u)
    BY <1>1, <1>2, <2>1, ScopeWatched
  <2> QED
    BY <1>1, <1>3, <2>1, <2>2, OthersWatched
<1>7. CASE stack = <<>>
  <2>1. InScope = Main /\ Kept' = Known' /\ \A u : ~Shared(u)'
    BY <1>1, <1>7 DEF InScope, Kept, Shared
  <2>2. \A u \in Main : Dangling(u)' \/ Shared(u)' => Watched(Kept, u)'
    BY <1>6, <2>1 DEF Watched
  <2> QED
    BY <1>1, <1>5, <1>7, <2>2 DEF Discipline
<1>8. CASE stack # <<>>
  <2>1. InScope = {arg} /\ v = arg /\ Kept' = Kept /\ arg \notin Main
    BY <1>1, <1>8, ScopesAssumption DEF InScope, Kept
  <2>2. \A u \in Main : ~Shared(u)' /\ (Dangling(u)' => Dangling(u))
    BY <1>4, <2>1, ScopeVars DEF Shared
  <2>3. \A u \in Main : Dangling(u)' \/ Shared(u)' => Watched(Kept, u)
    BY <1>1, <1>2, <2>2 DEF Discipline
  <2>4. \A u \in Main : Dangling(u)' \/ Shared(u)' => Watched(Kept, u)'
    BY <2>1, <2>3 DEF Watched
  <2> QED
    BY <1>1, <1>5, <1>6, <1>8, <2>1, <2>4 DEF Discipline
<1> QED
  BY <1>7, <1>8

(* free lets no object die but the one its argument refers to.             *)
LEMMA FreeRefers ==
  ASSUME IdsSignApart, PInv, NEW v \in Vars, Free(v), status' = "running"
  PROVE  \A u \in Vars : Dangling(u)' =>
           Dangling(u) \/ (prov[u].obj # 0 /\ prov[u].obj = prov[v].obj)
<1> DEFINE meta == var[v].addr - 8
<1>1. UNCHANGED prov
  BY FreeKeeps
<1>2. CASE UNCHANGED chunk
  BY <1>1, <1>2 DEF Dangling, RefersTo, Live
<1>3. CASE ~UNCHANGED chunk
  <2>1. /\ MayFree(v) /\ autia(var[v], mem[meta]) # NULL
        /\ chunk' = [chunk EXCEPT ![meta] = None]
    <3>1. ASSUME NEW s, NEW at, StopAt(s, at) PROVE FALSE
      BY <1>3, <3>1 DEF StopAt
    <3> QED
      BY <1>3, <3>1 DEF Free, Stop
  <2>2. PICK b \in Bases : b = meta /\ RefersTo(v, b)
    BY <2>1, FreesOwn DEF PInv
  <2>3. \A d \in Bases : d # b => chunk'[d] = chunk[d]
    BY <2>1, <2>2 DEF PInv, DInv, IInv, TypeOK
  <2> SUFFICES ASSUME NEW u \in Vars, Dangling(u)', ~Dangling(u)
               PROVE  prov[u].obj # 0 /\ prov[u].obj = prov[v].obj
    OBVIOUS
  <2>4. PICK d \in Bases : RefersTo(u, d)
    BY <1>1 DEF Dangling
  <2>5. d = b
    BY <1>1, <2>3, <2>4 DEF Dangling, RefersTo, Live
  <2> QED
    BY <1>1, <2>2, <2>4, <2>5 DEF Dangling, RefersTo
<1> QED
  BY <1>2, <1>3

LEMMA FreeDiscipline ==
  ASSUME Circumstances, PInv, PassP!IInv, Scopes, Discipline,
         NEW v \in InScope, SysFree(v), status' = "running", ~lapse'
  PROVE  Discipline'
<1>1. /\ v \in Vars /\ Free(v) /\ UNCHANGED <<stack, prov>> /\ given' = {}
      /\ ~lapse /\ ~Pass!isChecked(v)
      /\ Pass!Call("__ptauth_free", {v}, {}, FALSE)
  BY ScopeVars, FreeKeeps DEF SysFree, Step
<1>2. status = "running"
  BY <1>1 DEF Free
<1>3. PassP!Call("__ptauth_free", {v}, {}, FALSE) /\ Uses(v)
  BY <1>1, PassSteps DEF Uses
<1>4. ~PassP!isChecked(v)
  BY <1>1 DEF Pass!isChecked, PassP!isChecked, Pass!Entries, PassP!Entries
<1>5. prov[v].obj # 0 => v \in assigned
  BY <1>1, KnownFields DEF Scopes, InScope, Kept
<1>6. prov[v].obj # 0 => Watched(Known, v)'
  BY <1>1, <1>3, <1>4, <1>5, HandedWatched
<1>7. \A u \in Vars : Dangling(u)' =>
        Dangling(u) \/ (prov[u].obj # 0 /\ prov[u].obj = prov[v].obj)
  BY <1>1, FreeRefers DEF Circumstances
<1>8. \A u \in InScope : Dangling(u)' => Watched(Known, u)'
  <2> SUFFICES ASSUME NEW u \in InScope, Dangling(u)' PROVE Watched(Known, u)'
    OBVIOUS
  <2>1. u \in Vars /\ prov[u].obj # 0
    BY <1>1, ScopeVars DEF Dangling
  <2>2. CASE u = v
    BY <1>6, <2>1, <2>2
  <2>3. CASE u # v
    <3>1. ~(prov[u].obj = prov[v].obj)
      BY <1>1, <1>2, <2>1, <2>3 DEF Discipline, InScope
    <3>2. Watched(Known, u)
      BY <1>1, <1>2, <1>7, <2>1, <3>1, ScopeWatched
    <3> QED
      BY <1>1, <1>3, <2>1, <2>3, <3>2, OthersWatched
  <2> QED
    BY <2>2, <2>3
<1>9. stack # <<>> => \A u \in Main : Dangling(u)' => Dangling(u) \/ Shared(u)
  BY <1>1, <1>7, ScopeVars DEF InScope, Shared
<1> QED
  BY <1>1, <1>2, <1>8, <1>9, KeepsDiscipline
LEMMA LocalDiscipline ==
  ASSUME Circumstances, PInv, PassP!IInv, Scopes, Discipline, Local
  PROVE  Discipline'
<1> SUFFICES ASSUME status' = "running", ~lapse' PROVE Discipline'
  BY DEF Discipline
<1>1. ~SysNoTBI
  BY DEF SysNoTBI, NoTBI, Stop, StopAt
<1>2. ASSUME NEW v \in InScope, NEW n \in Sizes, SysMalloc(v, n)
      PROVE  Discipline'
  BY <1>2, MallocDiscipline
<1>3. ~\E v, w \in InScope : SysCopy(v, w)
  BY DEF SysCopy, Step
<1>4. ASSUME NEW v \in InScope, SysFree(v) PROVE Discipline'
  BY <1>4, FreeDiscipline
<1>5. ASSUME NEW v \in InScope,
             SysPlain(v) \/ SysAvoided(v) \/ SysGEP(v) \/ SysDeref(v)
      PROVE  Discipline'
  BY <1>5, AccessDiscipline
<1>6. ASSUME NEW v \in InScope, SysCall(v) PROVE Discipline'
  BY <1>6, CallDiscipline
<1> QED
  BY <1>1, <1>2, <1>3, <1>4, <1>5, <1>6 DEF Local

(* The parameter refers to what main's variable does, which main knows it  *)
(* has handed over.                                                        *)
LEMMA EnterDiscipline ==
  ASSUME PInv, PassP!IInv, Saved!IInv, Nesting, Discipline, Enter
  PROVE  Discipline'
<1> SUFFICES ASSUME status' = "running", ~lapse' PROVE Discipline'
  BY DEF Discipline
<1>1. PICK v \in Main : given = {v}
  BY DEF Nesting, Enter
<1>2. /\ stack = <<>> /\ stack' # <<>> /\ given' = {}
      /\ status = "running" /\ ~lapse /\ UNCHANGED chunk
      /\ prov' = [prov EXCEPT ![arg] = prov[v]]
  BY <1>1 DEF Nesting, Enter
<1>3. /\ prov'[arg] = prov[v] /\ \A u \in Main : prov'[u] = prov[u]
  BY <1>2, ScopeVars, ScopesAssumption DEF PInv, DInv, IInv, TypeOK
<1>4. Kept = Known /\ Kept' = Kept
  BY EnterPass
<1>5. \A u \in Main : Dangling(u)' <=> Dangling(u)
  BY <1>2, <1>3 DEF Dangling, RefersTo, Live
<1>6. ~Dangling(arg)'
  <2>1. ~Dangling(v)
    BY <1>1, <1>2 DEF Discipline
  <2> QED
    BY <1>2, <1>3, <2>1 DEF Dangling, RefersTo, Live
<1>7. ASSUME NEW u \in Main, Dangling(u)' \/ Shared(u)'
      PROVE  Watched(Kept, u)'
  <2>1. CASE Dangling(u)'
    BY <1>2, <1>4, <1>5, <2>1 DEF Discipline, Watched
  <2>2. CASE Shared(u)'
    <3>1. prov[u].obj # 0 /\ prov[u].obj = prov[v].obj
      BY <1>3, <2>2 DEF Shared
    <3>2. u = v
      BY <1>2, <3>1 DEF Discipline
    <3>3. Watched(Known, v)
      BY <1>1, <1>2, <3>1, <3>2 DEF Discipline
    <3> QED
      BY <1>4, <3>2, <3>3 DEF Watched
  <2> QED
    BY <1>7, <2>1, <2>2
<1>8. \A u, w \in Main : prov'[u].obj # 0 /\ prov'[u].obj = prov'[w].obj => u = w
  BY <1>2, <1>3 DEF Discipline
<1> QED
  BY <1>2, <1>6, <1>7, <1>8 DEF Discipline

LEMMA LeaveDiscipline ==
  ASSUME PInv, Nesting, Discipline, Leave
  PROVE  Discipline'
<1> SUFFICES ASSUME status' = "running", ~lapse' PROVE Discipline'
  BY DEF Discipline
<1>1. /\ stack # <<>> /\ stack' = <<>> /\ given' = {}
      /\ status = "running" /\ ~lapse /\ UNCHANGED chunk
  BY LeaveKnown, LeaveRestores DEF Nesting
<1>2. \A u \in Main : prov'[u] = prov[u]
  BY LeaveKnown
<1>3. \A u \in Main : Dangling(u)' <=> Dangling(u)
  BY <1>1, <1>2 DEF Dangling, RefersTo, Live
<1>4. \A u : ~Shared(u)'
  BY <1>1 DEF Shared
<1>5. \A u : Watched(Kept, u) => Watched(Kept, u)'
  BY LeaveKnown DEF Watched
<1>6. \A u \in Main : Dangling(u)' \/ Shared(u)' => Watched(Kept, u)'
  BY <1>1, <1>3, <1>4, <1>5 DEF Discipline
<1>7. \A u, w \in Main : prov'[u].obj # 0 /\ prov'[u].obj = prov'[w].obj => u = w
  BY <1>1, <1>2 DEF Discipline
<1> QED
  BY <1>1, <1>6, <1>7 DEF Discipline

-----------------------------------------------------------------------------
(* The invariant. *)

LEMMA SysNextIs == SysNext => Local \/ Enter \/ Leave
BY DEF SysNext, Local

LEMMA NextSysInv ==
  ASSUME Circumstances, SysInv, [SysNext]_sysvars
  PROVE  SysInv'
<1>0. PInv /\ PassP!IInv /\ Saved!IInv /\ Nesting /\ Scopes /\ Discipline
  BY DEF SysInv
<1>1. CASE Local
  <2>1. ~SameSecond
    BY DEF Circumstances
  <2> QED
    BY <1>0, <1>1, <2>1, LocalPInv, LocalPass, LocalNesting, LocalScopes,
      LocalDiscipline DEF SysInv
<1>2. CASE Enter
  BY <1>0, <1>2, EnterPInv, EnterPass, EnterNesting, EnterScopes,
    EnterDiscipline DEF SysInv
<1>3. CASE Leave
  BY <1>0, <1>3, LeavePInv, LeavePass, LeaveNesting, LeaveScopes,
    LeaveDiscipline DEF SysInv
<1>4. CASE UNCHANGED sysvars
  <2>1. /\ UNCHANGED vars /\ UNCHANGED passvars
        /\ UNCHANGED <<stack, given, lapse>>
    BY <1>4 DEF sysvars
  <2>2. PInv'
    <3>1. IInv' /\ DInv'
      <4>1. touched' \in Touches \cup Vars
        BY <1>0, <2>1 DEF PInv, DInv, IInv, TypeOK, vars, Touches
      <4> QED
        BY <1>0, <2>1, <4>1, UntouchedPInv DEF vars, PInv, DInv
    <3> QED
      BY <1>0, <2>1, <3>1 DEF vars, PInv, Signed, Capacity, RefersTo, Live
  <2>3. PassP!IInv'
    BY <1>0, <2>1, PassKeeps DEF passvars, PassP!vars
  <2>4. UNCHANGED <<Known, Kept, GEPS, InScope, assigned>>
    BY <2>1 DEF passvars, Known, Kept, InScope
  <2>5. Saved!IInv'
    BY <1>0, <2>4, SavedKeeps
  <2>6. Nesting'
    BY <1>0, <2>1 DEF vars, Nesting
  <2>7. Scopes'
    BY <1>0, <2>1, <2>4 DEF vars, Scopes, Of
  <2>8. Discipline'
    BY <1>0, <2>1, <2>4
    DEF vars, Discipline, Dangling, RefersTo, Live, Shared, Watched
  <2> QED
    BY <2>2, <2>3, <2>5, <2>6, <2>7, <2>8 DEF SysInv
<1> QED
  BY <1>1, <1>2, <1>3, <1>4, SysNextIs

LEMMA InitSysInv == SysInit => SysInv
<1> SUFFICES ASSUME SysInit PROVE SysInv
  OBVIOUS
<1>1. Init /\ Pass!Init /\ stack = <<>> /\ given = {} /\ lapse = FALSE
  BY DEF SysInit
<1>2. PInv
  BY <1>1, InitPInv
<1>3. PassP!IInv
  <2>1. PassP!Init
    BY <1>1 DEF Pass!Init, PassP!Init, Pass!FreeFlags, PassP!FreeFlags,
      Pass!Nothing, PassP!Nothing
  <2> QED
    BY <2>1, PassAssumption, PassP!InitIInv
<1>4. Saved!IInv
  BY <1>1, <1>3, SavedInMain
<1>5. Nesting
  BY <1>1 DEF Nesting
<1>6. \A v \in Vars : prov[v].obj = 0
  BY <1>1 DEF Init, Null
<1>7. Scopes
  <2>1. pointers = <<>> /\ assigned = {} /\ handed = {}
    BY <1>1 DEF Pass!Init
  <2>2. Kept = Known
    BY <1>1 DEF Kept
  <2>3. Of(Known, InScope) /\ Of(Kept, Main)
    BY <2>1, <2>2, KnownFields DEF Of
  <2> QED
    BY <1>1, <1>6, <2>3, ScopeVars DEF Scopes
<1>8. Discipline
  BY <1>1, <1>6, ScopeVars DEF Discipline, Dangling, Shared
<1> QED
  BY <1>2, <1>3, <1>4, <1>5, <1>7, <1>8 DEF SysInv

(* Where an instrumented program with its library can get: ids, objects    *)
(* and variables agree, and what dangles is watched by instrumentLoad.     *)
THEOREM SysInvariance ==
  ASSUME Circumstances
  PROVE  SysSpec => []SysInv
<1>1. SysInit => SysInv
  BY InitSysInv
<1>2. SysInv /\ [SysNext]_sysvars => SysInv'
  BY NextSysInv
<1> QED
  BY <1>1, <1>2, PTL DEF SysSpec

(***************************************************************************)
(* What the pass has recorded is of the variables of the function that     *)
(* executes, whichever function is called and returns when.                *)
(***************************************************************************)
THEOREM SysTypeCorrect ==
  ASSUME Circumstances
  PROVE  SysSpec => []SysTypeOK
<1>1. SysInv => SysTypeOK
  <2> SUFFICES ASSUME SysInv PROVE SysTypeOK
    OBVIOUS
  <2>1. TypeOK
    BY DEF SysInv, PInv, DInv, IInv
  <2>2. Pass!TypeOK
    BY DEF SysInv, PassP!IInv, PassP!TypeOK, Pass!TypeOK, PassP!FreeFlags,
      Pass!FreeFlags, PassP!Entry, Pass!Entry, PassP!Reasons, Pass!Reasons
  <2>3. Len(stack) <= 1
    <3>1. stack = <<>> \/ stack = <<Head(stack)>>
      BY DEF SysInv, Nesting
    <3>2. \A x : Len(<<x>>) = 1
      OBVIOUS
    <3>3. Len(stack) = 0 \/ Len(stack) = 1
      BY <3>1, <3>2, EmptySeq
    <3>4. \A n : n = 0 \/ n = 1 => n <= 1
      OBVIOUS
    <3> QED
      BY <3>3, <3>4
  <2>4. given \subseteq Main /\ lapse \in BOOLEAN
    BY DEF SysInv, Nesting
  <2> QED
    BY <2>1, <2>2, <2>3, <2>4, KnownFields DEF SysTypeOK, SysInv, Scopes, Of
<1> QED
  BY <1>1, SysInvariance, PTL

(***************************************************************************)
(* The first access to a field, an element or a pointer through a variable *)
(* that was handed to free or to the function, and that had no check       *)
(* before, ends the program or reaches its own object: instrumentLoad puts *)
(* a check there, and the check tells a dangling pointer.                  *)
(***************************************************************************)
LEMMA AccessProtected ==
  ASSUME Circumstances, SysInv, NEW v \in Vars, SysGEP(v) \/ SysDeref(v),
         v \in handed \cap assigned, ~Pass!isChecked(v)
  PROVE  touched' # "foreign"
<1>1. PInv /\ DInv /\ PassP!IInv /\ IdsSignApart /\ ENABLELOG = FALSE
  BY DEF SysInv, PInv, Circumstances
<1>2. ~PassP!isChecked(v)
  BY DEF Pass!isChecked, PassP!isChecked, Pass!Entries, PassP!Entries
<1>3. HasCheck(v)
  BY <1>1, <1>2, WatchedHasCheck
<1>4. Load(v) \/ Reject(v)
  BY <1>3 DEF SysGEP, SysDeref, Guarded
<1>5. CASE Load(v)
  <2>1. MayUse(v) /\ touched' = Reached(v) /\ UNCHANGED <<status, chunk, born, prov>>
    BY <1>5 DEF Load
  <2>2. ~Dangling(v)
    BY <1>1, <1>5, UsedIsLive DEF Load
  <2>3. Promise!Use(v)
    BY <1>1, <2>1, <2>2, UseMaps
  <2> QED
    BY <2>3 DEF Promise!Use
<1>6. CASE Reject(v)
  BY <1>6, NamesAssumption DEF Reject, StopAt, Touches
<1> QED
  BY <1>4, <1>5, <1>6

(***************************************************************************)
(* In no run does the first access since a variable was handed over reach  *)
(* memory that is not its object's, unless the variable was checked once   *)
(* before: those that isChecked holds of get no further check, and nothing *)
(* is claimed of them.                                                     *)
(***************************************************************************)
THEOREM ProtectedAccesses ==
  ASSUME Circumstances
  PROVE  SysSpec => ProtectedAccess
<1> DEFINE Protected ==
      \A v \in Vars : /\ SysGEP(v) \/ SysDeref(v)
                      /\ v \in handed \cap assigned
                      /\ ~Pass!isChecked(v)
                      => touched' # "foreign"
<1>1. SysInv /\ [SysNext]_sysvars => [Protected]_sysvars
  BY AccessProtected
<1> HIDE DEF Protected
<1>2. SysSpec => [][Protected]_sysvars
  BY <1>1, SysInvariance, PTL DEF SysSpec
<1> QED
  BY <1>2 DEF ProtectedAccess, Protected

-----------------------------------------------------------------------------
(* The refinement. *)

(* A call and a copy of a pointer into the parameter are no more to the    *)
(* promise than a variable that is derived from another.                   *)
LEMMA EnterMaps ==
  ASSUME PInv, Nesting, Enter
  PROVE  Promise!Next
<1>1. PICK v \in Main : given = {v}
  BY DEF Nesting, Enter
<1>2. /\ status = "running" /\ touched' = "none"
      /\ prov' = [prov EXCEPT ![arg] = prov[v]]
      /\ UNCHANGED <<status, chunk, born>>
  BY <1>1 DEF Nesting, Enter
<1>3. v \in Vars /\ arg \in Vars
  BY ScopeVars
<1>4. prov \in [Vars -> [obj : 0..MaxObjects, off : Nat]]
  BY DEF PInv, DInv, IInv, TypeOK
<1>5. prov[v] = [obj |-> prov[v].obj, off |-> prov'[arg].off]
  BY <1>2, <1>3, <1>4
<1>6. LiveObjects' = LiveObjects
  BY <1>2 DEF LiveObjects, Live
<1>7. Outcome = "running" /\ Outcome' = "running"
  BY <1>2, Goes
<1>8. Promise!Derive(v, arg)
  BY <1>2, <1>5, <1>6, <1>7 DEF Promise!Derive, LiveObjects
<1> QED
  BY <1>3, <1>8 DEF Promise!Next

LEMMA LeaveMaps ==
  ASSUME Leave
  PROVE  Promise!Next
<1>1. /\ status = "running" /\ touched' = "none"
      /\ prov' = [prov EXCEPT ![arg] = Null]
      /\ UNCHANGED <<status, chunk, born>>
  BY DEF Leave
<1>2. LiveObjects' = LiveObjects
  BY <1>1 DEF LiveObjects, Live
<1>3. Outcome = "running" /\ Outcome' = "running"
  BY <1>1, Goes
<1>4. Promise!Forget(arg)
  BY <1>1, <1>2, <1>3 DEF Promise!Forget, Promise!Null, Null, LiveObjects
<1> QED
  BY <1>4, ScopeVars DEF Promise!Next

LEMMA CallMaps ==
  ASSUME PInv, NEW v \in Vars, SysCall(v)
  PROVE  Promise!Next
<1>1. /\ status = "running" /\ touched' = "none"
      /\ UNCHANGED <<status, chunk, born, prov>>
  BY DEF SysCall
<1>2. prov \in [Vars -> [obj : 0..MaxObjects, off : Nat]]
  BY DEF PInv, DInv, IInv, TypeOK
<1>3. prov' = [prov EXCEPT ![v] = [obj |-> prov[v].obj, off |-> prov'[v].off]]
  <2>1. prov[v] = [obj |-> prov[v].obj, off |-> prov[v].off]
    BY <1>2
  <2> QED
    BY <1>1, <1>2, <2>1
<1>4. LiveObjects' = LiveObjects
  BY <1>1 DEF LiveObjects, Live
<1>5. Outcome = "running" /\ Outcome' = "running"
  BY <1>1, Goes
<1>6. Promise!Derive(v, v)
  BY <1>1, <1>3, <1>4, <1>5 DEF Promise!Derive, LiveObjects
<1> QED
  BY <1>6 DEF Promise!Next

(* An access of a disciplined program reaches its object or is trapped.    *)
LEMMA AccessMaps ==
  ASSUME Circumstances, PInv, PassP!IInv, Discipline, NEW v \in InScope,
         SysPlain(v) \/ SysAvoided(v) \/ SysGEP(v) \/ SysDeref(v), ~lapse'
  PROVE  Promise!Next
<1>1. v \in Vars
  BY ScopeVars
<1>2. Unchecked(v) \/ Load(v) \/ Reject(v)
  BY GuardedWays DEF SysPlain, SysAvoided, SysGEP, SysDeref
<1>3. CASE Reject(v)
  BY <1>1, <1>3, RejectMaps DEF Promise!Next
<1>4. CASE Unchecked(v) \/ Load(v)
  <2>1. /\ MayUse(v) /\ touched' = Reached(v)
        /\ UNCHANGED <<status, chunk, born, prov>>
    BY <1>4 DEF Unchecked, Load
  <2>2. status' = "running"
    BY <2>1 DEF MayUse
  <2>3. ~Dangling(v)
    BY <2>2, AccessDiscipline
  <2>4. Promise!Use(v)
    BY <1>1, <2>1, <2>3, UseMaps
  <2> QED
    BY <1>1, <2>4 DEF Promise!Next
<1> QED
  BY <1>2, <1>3, <1>4

LEMMA NextSysMaps ==
  ASSUME Circumstances, SysInv, [SysNext]_sysvars, ~lapse'
  PROVE  Promise!Next \/ UNCHANGED Promise!vars
<1>0. PInv /\ PassP!IInv /\ Nesting /\ Discipline /\ IdsSignApart
  BY DEF SysInv, Circumstances
<1>1. CASE Enter \/ Leave
  BY <1>0, <1>1, EnterMaps, LeaveMaps
<1>2. CASE UNCHANGED sysvars
  BY <1>2 DEF sysvars, vars, Promise!vars, Outcome, Live
<1>3. CASE SysNoTBI
  BY <1>3, RefuseMaps DEF SysNoTBI, NoTBI, CallsAllocator, Promise!Next
<1>4. CASE \E v \in InScope, n \in Sizes : SysMalloc(v, n)
  BY <1>0, <1>4, MallocMaps, ScopeVars DEF SysMalloc, Promise!Next
<1>5. CASE \E v, w \in InScope : SysCopy(v, w)
  BY <1>5 DEF SysCopy, Step
<1>6. CASE \E v \in InScope : SysFree(v)
  BY <1>0, <1>6, FreeMaps, ScopeVars DEF SysFree, Promise!Next
<1>7. CASE \E v \in InScope : SysPlain(v) \/ SysAvoided(v) \/ SysGEP(v) \/ SysDeref(v)
  BY <1>0, <1>7, AccessMaps
<1>8. CASE \E v \in InScope : SysCall(v)
  BY <1>0, <1>8, CallMaps, ScopeVars
<1> QED
  BY <1>1, <1>2, <1>3, <1>4, <1>5, <1>6, <1>7, <1>8, SysNextIs DEF Local

(***************************************************************************)
(* Disciplined programs run with temporal memory safety, however many      *)
(* pointers, objects and calls they have and whatever they free: an access *)
(* reaches the object its variable means, alive, and what ends the program *)
(* is an allocation that fails or an operation on a dead object.           *)
(***************************************************************************)
THEOREM DisciplinedPrograms ==
  ASSUME Circumstances
  PROVE  SysSpec => DisciplinedImplements
<1>1. SysInit => Promise!Init
  BY DEF SysInit, Init, Promise!Init, Promise!Null, Null, Outcome, Live, None
<1>2. SysInv /\ [SysNext]_sysvars
        => [lapse' \/ Promise!Next]_<<Promise!vars>>
  BY NextSysMaps
<1> QED
  BY <1>1, <1>2, SysInvariance, PTL DEF SysSpec, DisciplinedImplements
=============================================================================

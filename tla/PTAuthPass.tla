----------------------------- MODULE PTAuthPass -----------------------------
(***************************************************************************)
(* The LLVM pass (ptauthpass.cpp, passutils.cpp): in front of which of a   *)
(* function's pointer accesses it puts a check.  The pass walks every      *)
(* function of a module once, in the order of the instructions, and keeps  *)
(* what it learns of local pointers in globals.                            *)
(*                                                                         *)
(* The module is not given: each step is the next instruction the pass     *)
(* meets, one action per kind.  Instructions its handlers leave alone      *)
(* (allocas, constants, FILE pointers) are left out.  The code is what     *)
(* clang -O0 makes of C, as runtoyexample.sh has it: a local pointer lives *)
(* in an alloca, each use of it is a load of its own, and a function       *)
(* returns at its end.                                                     *)
(***************************************************************************)
EXTENDS Integers, Sequences

CONSTANTS
  Vars,         \* local pointer variables (allocas)
  Types,        \* structs that have fields pointing to structs
  MaxEntries    \* bound: assignments to pointer variables in a function

ASSUME MaxEntriesAssumption == MaxEntries \in Nat

(* What a call calls: free; a function of the program or a library; read;  *)
(* one on functionsAvoidList; what a function pointer points to.           *)
Callees == {"__ptauth_free", "function", "read", "avoided", "indirect"}

(* The optimizer's reasons to keep a function.                             *)
Reasons == {"InternalCall", "GlobalPointer", "NestedPointer", "FlagFreeCalled"}

VARIABLES
  skip,         \* has the optimizer put the function on optimizedList?
  listed,       \* is its name on avoidList?
  pointers,     \* what is known of the local pointers: an entry per store
  GEPS,         \* the types recorded for nested accesses
  FlagFreeCalled,
  reasons,      \* ghost: reasons met so far in this function
  assigned,     \* ghost: variables assigned in this function
  handed,       \* ghost: variables handed to free or a function that is none
                \*   of the exceptions, since they were assigned or checked
  freed,        \* ghost: those of them handed to free
  stale,        \* ghost: a pointer was handed to such a call in this function
                \*   and no nested access was checked since
  missed        \* ghost: the last instruction, if it is an access that may
                \*   be dangling by then and is not checked

vars == <<skip, listed, pointers, GEPS, FlagFreeCalled, reasons, assigned, handed,
          freed, stale, missed>>

(* pointerProperties: Operand1, isPassedToFunctionBefore, isCheckedBefore  *)
Entry == [var : Vars, passed : BOOLEAN, checked : BOOLEAN]

NewEntryUnset(v) ==                     \* mutant: isCheckedBefore not set
  [var |-> v, passed |-> FALSE]
NewEntry(v) == [var |-> v, passed |-> FALSE, checked |-> FALSE]

Nothing == [how |-> "none", of |-> {}]

(* What optimizer, looking at all of a function, may leave there: one that *)
(* calls free is not skipped.                                              *)
FreeFlags(skipped) == IF skipped THEN {0} ELSE {0, 1}

Init ==
  /\ skip \in BOOLEAN /\ listed \in BOOLEAN
  /\ FlagFreeCalled \in FreeFlags(skip)
  /\ pointers = <<>>
  /\ GEPS = {}
  /\ reasons = {}
  /\ assigned = {} /\ handed = {} /\ freed = {}
  /\ stale = FALSE
  /\ missed = Nothing

-----------------------------------------------------------------------------
(* The loops over pointers. *)

Entries(v) == {i \in DOMAIN pointers : pointers[i].var = v}

Passed(v) == {i \in Entries(v) : pointers[i].passed}

isChecked(v) == \E i \in Entries(v) : pointers[i].checked

(* the entry at which a loop over S breaks *)
IsFirst(i, S) == i \in S /\ \A j \in S : i <= j

(* runOnModule passes over the function. *)
Skipped == skip \/ listed

(***************************************************************************)
(* The next instruction gives the optimizer the reasons rs to keep the     *)
(* function: it is in none on optimizedList, and a call of free is in none *)
(* whose FlagFreeCalled the optimizer has not set.                         *)
(***************************************************************************)
Meet(rs) ==
  /\ skip => rs = {}
  /\ "FlagFreeCalled" \in rs => FlagFreeCalled = 1
  /\ reasons' = reasons \cup rs
  /\ listed' = listed
  /\ UNCHANGED <<skip, FlagFreeCalled>>

(* v = ..., a parameter or a local: instrumentStore *)
Store(v) ==
  /\ Len(pointers) < MaxEntries
  /\ Meet({})
  /\ pointers' = IF Skipped THEN pointers ELSE Append(pointers, NewEntry(v))
  /\ assigned' = assigned \cup {v}
  /\ handed' = handed \ {v}
  /\ freed' = freed \ {v}
  /\ missed' = Nothing
  /\ UNCHANGED <<GEPS, stale>>

-----------------------------------------------------------------------------
(* Calls. *)

(* instrumentCalls and optimizer look at the arguments of this callee.     *)
InstrumentedSaveFree(callee) == callee = "function"              \* mutant
Instrumented(callee) == callee \notin {"avoided", "indirect"}

KeptGEPS == GEPS                                                 \* mutant
ClearedGEPS == {}

(***************************************************************************)
(* instrumentCalls: a call that is handed the values of the variables      *)
(* loads, pointers loaded through the variables derefs, and possibly other *)
(* pointers.  The first entry of each variable of loads is marked, unless  *)
(* an entry of it is checked.  The handler also matches *v, but only when  *)
(* instrumentLoad has not wrapped the load of it already, so derefs has    *)
(* just those whose type is on typesAvoidList.  The __loadCheck inserted   *)
(* here gets the address of the alloca, which bears no signature, and      *)
(* checks nothing.  What read is handed has become a call of __xpac by the *)
(* time the handler looks for a load: it marks nothing.                    *)
(***************************************************************************)
Call(callee, loads, derefs, other) ==
  LET pointer == loads \cup derefs # {} \/ other
      marked(v) == /\ callee # "read"
                   /\ v \in derefs \/ (v \in loads /\ ~isChecked(v))
      looked == ~Skipped /\ Instrumented(callee) /\ pointer
  IN
  /\ callee = "__ptauth_free" => pointer
  /\ Meet((IF callee = "__ptauth_free" THEN {"FlagFreeCalled"} ELSE {}) \cup
          (IF Instrumented(callee) /\ pointer THEN {"InternalCall"} ELSE {}))
  /\ pointers' = IF ~looked THEN pointers
                 ELSE [i \in DOMAIN pointers |->
                        LET v == pointers[i].var IN
                        IF marked(v) /\ IsFirst(i, Entries(v))
                        THEN [pointers[i] EXCEPT !.passed = TRUE]
                        ELSE pointers[i]]
  /\ GEPS' = IF looked THEN ClearedGEPS ELSE GEPS
  /\ handed' = IF callee \in {"__ptauth_free", "function"}
               THEN handed \cup loads ELSE handed
  /\ freed' = IF callee = "__ptauth_free" THEN freed \cup loads ELSE freed
  /\ stale' = (stale \/ (callee \in {"__ptauth_free", "function"} /\ pointer))
  /\ missed' = Nothing
  /\ UNCHANGED assigned

-----------------------------------------------------------------------------
(* Accesses: instrumentLoad. *)

(* An access through the value of v, with a check in front or without.     *)
Through(v, how, check) ==
  /\ missed' = IF v \in handed /\ ~check THEN [how |-> how, of |-> {v}]
               ELSE Nothing
  /\ handed' = IF check THEN handed \ {v} ELSE handed
  /\ freed' = IF check THEN freed \ {v} ELSE freed
  /\ UNCHANGED <<assigned, stale>>

(* v->field, v[i]: __GEPCheck at the first entry that is marked            *)
GEP(v) ==
  LET check == ~Skipped /\ Passed(v) # {} IN
  /\ Meet({})
  /\ pointers' = IF ~check THEN pointers
                 ELSE [i \in DOMAIN pointers |->
                        IF IsFirst(i, Passed(v))
                        THEN [pointers[i] EXCEPT !.passed = FALSE,
                                                 !.checked = TRUE]
                        ELSE pointers[i]]
  /\ Through(v, "gep", check)
  /\ UNCHANGED GEPS

(* the pointer *v: __loadCheck for each marked entry, __noCheck for others *)
Deref(v) ==
  /\ Meet({})
  /\ Through(v, "deref", ~Skipped /\ Passed(v) # {})
  /\ UNCHANGED <<pointers, GEPS>>

(* *v = ..., or *v when it is no pointer: nothing looks at it.             *)
Plain(v) ==
  /\ Meet({})
  /\ Through(v, "plain", FALSE)
  /\ UNCHANGED <<pointers, GEPS>>

(* An access of a type on typesAvoidList, or of perm: instrumentLoad skips *)
(* it on purpose, optimizer does not.                                      *)
Listed(nested) ==
  /\ Meet(IF nested THEN {"NestedPointer"} ELSE {})
  /\ missed' = Nothing
  /\ UNCHANGED <<pointers, GEPS, assigned, handed, freed, stale>>

(***************************************************************************)
(* A field of what a field of a struct of type t points to.  Of all types, *)
(* only the first recorded gets its __nestedGEPCheck.  A chained access    *)
(* goes on where one that got it ended, as d in a->b->c->d: it gets none   *)
(* of its own, and is not recorded (oneNestedInstrument).                  *)
(***************************************************************************)
Nested(t, chained) ==
  LET looked == ~Skipped /\ ~chained
      check == looked /\ GEPS = {}
  IN
  /\ chained => ~Skipped /\ "NestedPointer" \in reasons
  /\ Meet({"NestedPointer"})
  /\ GEPS' = IF looked THEN GEPS \cup {t} ELSE GEPS
  /\ missed' = IF stale /\ ~check
               THEN [how |-> IF chained THEN "chained" ELSE "nested", of |-> {}]
               ELSE Nothing
  /\ stale' = (stale /\ ~check)
  /\ UNCHANGED <<pointers, assigned, handed, freed>>

(* An access through a global pointer: it keeps the function from being    *)
(* skipped, but instrumentLoad leaves it alone.                            *)
Global ==
  /\ Meet({"GlobalPointer"})
  /\ missed' = Nothing
  /\ UNCHANGED <<pointers, GEPS, assigned, handed, freed, stale>>

(* The function has had what the optimizer saw in it. *)
MayEnd ==
  /\ skip <=> reasons = {}
  /\ FlagFreeCalled = 1 <=> "FlagFreeCalled" \in reasons

(***************************************************************************)
(* The function ends and the next one begins.  instrumentReturn forgets    *)
(* pointers; if the function does not return (or was skipped), they stay,  *)
(* but no instruction of another function names their allocas.  GEPS stay. *)
(***************************************************************************)
Return ==
  /\ MayEnd
  /\ skip' \in BOOLEAN /\ listed' \in BOOLEAN
  /\ FlagFreeCalled' \in FreeFlags(skip')
  /\ pointers' = <<>>
  /\ reasons' = {}
  /\ assigned' = {} /\ handed' = {} /\ freed' = {}
  /\ stale' = FALSE
  /\ missed' = Nothing
  /\ UNCHANGED GEPS

Next ==
  \/ \E v \in Vars : Store(v) \/ GEP(v) \/ Deref(v) \/ Plain(v)
  \/ \E nested \in BOOLEAN : Listed(nested)
  \/ \E callee \in Callees, loads, derefs \in SUBSET Vars, other \in BOOLEAN :
       Call(callee, loads, derefs, other)
  \/ \E t \in Types, chained \in BOOLEAN : Nested(t, chained)
  \/ Global
  \/ Return

Spec == Init /\ [][Next]_vars

-----------------------------------------------------------------------------

TypeOK ==
  /\ skip \in BOOLEAN /\ listed \in BOOLEAN
  /\ FlagFreeCalled \in FreeFlags(skip)
  /\ pointers \in Seq(Entry) /\ Len(pointers) <= MaxEntries
  /\ GEPS \subseteq Types
  /\ reasons \subseteq Reasons
  /\ assigned \subseteq Vars /\ handed \subseteq Vars /\ freed \subseteq handed
  /\ stale \in BOOLEAN
  /\ missed \in [how : {"none", "gep", "deref", "plain", "nested", "chained"},
                 of : SUBSET Vars]

(***************************************************************************)
(* What the pass does promise of a local pointer: its value is checked at  *)
(* the first access to a field, an element or a pointer after it has been  *)
(* handed to free or to a function, unless it was checked once before in   *)
(* the function.  Functions that the optimizer skips have no access that   *)
(* needs it; those on avoidList are skipped whatever they do.  Handing it  *)
(* to read, to a function on functionsAvoidList or through a function      *)
(* pointer makes no difference.                                            *)
(***************************************************************************)
FirstUseChecked ==
  ~listed /\ missed.how \in {"gep", "deref"} =>
    \A v \in missed.of \cap assigned : isChecked(v)

(***************************************************************************)
(* The first nested access after a call of free or of a function that was  *)
(* handed a pointer is checked, whatever its type and whatever was checked *)
(* before the call, unless it goes on from one that was checked before it, *)
(* or is in a function on avoidList.                                       *)
(***************************************************************************)
NestedAfterCall == missed.how = "nested" => listed

(***************************************************************************)
(* Once free is called, "we assume we need to disable optimization from    *)
(* this pointer forward": an access to what was handed to free is checked, *)
(* also if the pointer was checked before that.                            *)
(***************************************************************************)
FreeDisablesOptimization ==
  ~listed /\ missed.how \in {"gep", "deref"} =>
    missed.of \cap assigned \cap freed = {}
=============================================================================

----------------------------- MODULE PTAuthSystem -----------------------------
(***************************************************************************)
(* A program that was instrumented by the pass and runs with the library:  *)
(* an access is preceded by a check where PTAuthPass puts one, and what    *)
(* the check does is up to PTAuthRuntime.  main has local pointers and     *)
(* calls a function with one of them; the function may free it, as         *)
(* print_person of toyexample.c does.                                      *)
(*                                                                         *)
(* The code has no branches: the instruction that is executed next is the  *)
(* one the pass meets next in that function.  The program only loads: a    *)
(* store through a pointer that is not interior never reaches an id, which *)
(* stands at 16-byte boundaries, 8 bytes off from the objects.             *)
(***************************************************************************)
EXTENDS PTAuthRuntime, Sequences

CONSTANTS
  Main,         \* the local pointers of main
  arg,          \* the parameter of the function it calls
  MaxEntries    \* bound: assignments to pointer variables in a function

ASSUME ScopesAssumption == Vars = Main \cup {arg} /\ arg \notin Main

(* The parameter's assignment has room, and the program copies pointers.   *)
ASSUME SystemAssumption == MaxEntries \in Nat \ {0} /\ 0 \in Offsets

VARIABLES
  skip, pointers, GEPS, FlagFreeCalled, reasons, assigned, handed, freed,
  stale, missed,    \* what the pass knows of the function that executes
  stack,        \* in the callee: the same of main
  given,        \* the variable main has just handed to the function, if any
  lapse         \* ghost: has the program done what the pass does not follow?

(* Neither main nor the function is on avoidList. *)
Pass == INSTANCE PTAuthPass WITH Types <- {}, listed <- FALSE

passvars == <<skip, pointers, GEPS, FlagFreeCalled, reasons, assigned, handed,
              freed, stale, missed>>

sysvars == <<vars, passvars, stack, given, lapse>>

SysInit ==
  /\ Init
  /\ Pass!Init
  /\ stack = <<>>
  /\ given = {}
  /\ lapse = FALSE

-----------------------------------------------------------------------------

InScope == IF stack = <<>> THEN Main ELSE {arg}

(* The next instruction is one of the function the stack says, and what    *)
(* the pass does not follow happens if b.                                  *)
Step(b) ==
  /\ given = {}
  /\ lapse' = (lapse \/ b)
  /\ UNCHANGED <<stack, given>>

SysNoTBI == Step(FALSE) /\ NoTBI /\ UNCHANGED passvars

(* v = malloc(n) *)
SysMalloc(v, n) == Step(FALSE) /\ Pass!Store(v) /\ Malloc(v, n)

(* w = v: the pass knows of no aliases. *)
SysCopy(v, w) == v # w /\ Step(TRUE) /\ Pass!Store(w) /\ Derive(v, w, 0)

(* free(v); a variable that was checked once is not marked again.          *)
SysFree(v) ==
  /\ Step(Pass!isChecked(v))
  /\ Pass!Call("__ptauth_free", {v}, {}, FALSE)
  /\ Free(v)

-----------------------------------------------------------------------------
(* Accesses. *)

(* Nothing in front of the access ends the program. *)
Unchecked(v) ==
  /\ MayUse(v)
  /\ touched' = Reached(v)
  /\ UNCHANGED <<tbi, status, now, mem, chunk, born, var, prov>>

(* *v of a plain value, or what strlen, strcpy and other functions on      *)
(* functionsAvoidList, or read, do with v: nobody checks.                  *)
SysPlain(v) == Step(Dangling(v)) /\ Pass!Plain(v) /\ Unchecked(v)

SysAvoided(v) ==
  /\ Step(Dangling(v))
  /\ \E callee \in {"avoided", "read"} : Pass!Call(callee, {v}, {}, FALSE)
  /\ Unchecked(v)

(* The handlers of an access put a check in front of it. *)
HasCheck(v) == ~skip /\ Pass!Passed(v) # {}

Guarded(v) ==
  /\ Step(FALSE)
  /\ \/ HasCheck(v) /\ (Load(v) \/ Reject(v))
     \/ ~HasCheck(v) /\ Unchecked(v)

(* v->field, v[i] *)
SysGEP(v) == Pass!GEP(v) /\ Guarded(v)

(* the pointer *v *)
SysDeref(v) == Pass!Deref(v) /\ Guarded(v)

-----------------------------------------------------------------------------
(* A call of the function. *)

SysCall(v) ==
  /\ status = "running"
  /\ stack = <<>> /\ given = {}
  /\ Pass!Call("function", {v}, {}, FALSE)
  /\ given' = {v}
  /\ lapse' = (lapse \/ Dangling(v) \/ Pass!isChecked(v))
  /\ touched' = "none"
  /\ UNCHANGED <<tbi, status, now, mem, chunk, born, var, prov, stack>>

Known == [skip |-> skip, pointers |-> pointers, reasons |-> reasons,
          FlagFreeCalled |-> FlagFreeCalled, assigned |-> assigned,
          handed |-> handed, freed |-> freed, stale |-> stale]

(* pointers when the function begins, after its parameter was stored       *)
EntriesKept ==                          \* mutant: instrumentReturn clears not
  IF skip' THEN pointers ELSE Append(pointers, Pass!NewEntry(arg))
EntriesOfCallee == IF skip' THEN <<>> ELSE <<Pass!NewEntry(arg)>>

(* The function begins: the value, signature and all, is its parameter's.  *)
Enter ==
  \E v \in given :
    /\ stack' = <<Known>>
    /\ given' = {}
    /\ var' = [var EXCEPT ![arg] = var[v]]
    /\ prov' = [prov EXCEPT ![arg] = prov[v]]
    /\ skip' \in BOOLEAN /\ FlagFreeCalled' \in Pass!FreeFlags(skip')
    /\ pointers' = EntriesOfCallee
    /\ reasons' = {}
    /\ assigned' = {arg} /\ handed' = {} /\ freed' = {}
    /\ stale' = FALSE
    /\ missed' = Pass!Nothing
    /\ touched' = "none"
    /\ UNCHANGED <<tbi, status, now, mem, chunk, born, GEPS, lapse>>

(* It returns to main. *)
Leave ==
  /\ status = "running"
  /\ stack # <<>>
  /\ Pass!MayEnd
  /\ LET main == Head(stack) IN
     /\ skip' = main.skip /\ FlagFreeCalled' = main.FlagFreeCalled
     /\ pointers' = main.pointers
     /\ reasons' = main.reasons
     /\ assigned' = main.assigned
     /\ handed' = main.handed /\ freed' = main.freed
     /\ stale' = main.stale
  /\ missed' = Pass!Nothing
  /\ stack' = <<>>
  /\ var' = [var EXCEPT ![arg] = NULL]
  /\ prov' = [prov EXCEPT ![arg] = Null]
  /\ touched' = "none"
  /\ UNCHANGED <<tbi, status, now, mem, chunk, born, GEPS, given, lapse>>

SysNext ==
  \/ SysNoTBI
  \/ \E v \in InScope, n \in Sizes : SysMalloc(v, n)
  \/ \E v, w \in InScope : SysCopy(v, w)
  \/ \E v \in InScope : SysFree(v) \/ SysPlain(v) \/ SysAvoided(v)
                        \/ SysGEP(v) \/ SysDeref(v) \/ SysCall(v)
  \/ Enter
  \/ Leave

SysSpec == SysInit /\ [][SysNext]_sysvars

-----------------------------------------------------------------------------

(* Both parts' types, and what the pass knows is of the variables in scope.*)
SysTypeOK ==
  /\ TypeOK
  /\ Pass!TypeOK
  /\ \A i \in DOMAIN pointers : pointers[i].var \in InScope
  /\ assigned \cup handed \subseteq InScope
  /\ Len(stack) <= 1
  /\ given \subseteq Main
  /\ lapse \in BOOLEAN

(***************************************************************************)
(* Which programs PTAuth protects: as long as the program does not copy a  *)
(* pointer to another variable, pass on a dangling one, hand over one that *)
(* it has had checked, or access plain values through a dangling one, it   *)
(* runs with temporal memory safety, whatever it frees, where it frees it  *)
(* and however often: no access is to memory not its own, no wrong free    *)
(* reaches the C library, and what stops it is an error of its own.        *)
(***************************************************************************)
DisciplinedImplements ==
  Promise!Init /\ [][lapse' \/ Promise!Next]_<<Promise!vars>>

(***************************************************************************)
(* In any program, disciplined or not: the first access to a field, an     *)
(* element or a pointer through a variable since it was handed to free or  *)
(* to the function reaches its own object or stops the program, if it is   *)
(* also the first that is checked: isChecked, true of a variable from the  *)
(* first check on, exempts it from all that follow, as in p->x; free(p);   *)
(* p->x with a check in front of the first access.                         *)
(***************************************************************************)
ProtectedAccess ==
  [][\A v \in Vars :
       /\ SysGEP(v) \/ SysDeref(v)
       /\ v \in handed \cap assigned
       /\ ~Pass!isChecked(v)
       => touched' # "foreign"]_sysvars
=============================================================================

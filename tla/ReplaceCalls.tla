---------------------------- MODULE ReplaceCalls ----------------------------
(***************************************************************************)
(* The first half of the pass (runOnModule, replaceFuncionWith): each call *)
(* of malloc, calloc, realloc and free in the module becomes a call of the *)
(* wrapper.  The loop runs on the use list of the function it empties:     *)
(* LLVM's intrusive list of the operands that refer to a value, changed    *)
(* under the loop's feet by every instruction it creates and erases.       *)
(***************************************************************************)
EXTENDS Integers, Sequences, FiniteSets, SequencesExt

CONSTANTS
  Functions,    \* the names of the functions the programs know
  Programs,     \* the instructions of the module, in order
  Orders        \* the functions of the module, in order

Wrapped == {"malloc", "calloc", "realloc", "free"}

(* The second argument of replaceFuncionWith, by the function's name.      *)
Wrapper(f) ==
  CASE f = "malloc"  -> "__ptauth_malloc"
    [] f = "calloc"  -> "__ptauth_calloc"
    [] f = "realloc" -> "__ptauth_realloc"
    [] f = "free"    -> "__ptauth_free"

Wrappers == {Wrapper(f) : f \in Wrapped}

(* Operands: the result of an instruction, the address of a function, data *)
Result(id) == [res |-> id, fn |-> ""]
Address(f) == [res |-> 0, fn |-> f]
Data == [res |-> 0, fn |-> ""]

(* An instruction calls a function or is none that calls.                  *)
NoCall == "no call"
Dead == [callee |-> NoCall, args |-> <<>>]

VARIABLES
  prog,         \* ghost: the instructions as they were
  inst,         \* the instructions by id; one id is spare, and Dead
  block,        \* the ids of the module's instructions in order
  uses,         \* the use list of each function, its head first
  functions,    \* the module's function list
  it,           \* the loop's place in it
  NF,           \* the wrapper that replaces functions[it], or "" before
  status        \* "running", "done", or "crashed": CallSite of no call

vars == <<prog, inst, block, uses, functions, it, NF, status>>

Ids == DOMAIN inst

(* The operands of an instruction i that refer to f; 0 is the callee.      *)
Operands(i, f) ==
  {n \in 0..Len(i.args) : IF n = 0 THEN i.callee = f ELSE i.args[n].fn = f}

Named == Wrapped \cup Wrappers

UsesIn(is, f) ==
  UNION {{[user |-> id, no |-> n] : n \in Operands(is[id], f)} :
           id \in DOMAIN is}

(* The elements of s that are in S, in their order.                        *)
Those(s, S) ==
  LET at == {k \in DOMAIN s : s[k] \in S}
  IN  [n \in 1..Cardinality(at) |->
         s[CHOOSE k \in at : Cardinality({j \in at : j < k}) = n - 1]]

(* The operands of a new instruction i enter the lists at their heads, the *)
(* callee first.                                                           *)
OperandUses(id, i) ==
  [k \in 1..(Len(i.args) + 1) |-> [user |-> id, no |-> Len(i.args) + 1 - k]]

Entering(id, i, f) ==
  Those(OperandUses(id, i), [user : {id}, no : Operands(i, f)])

(***************************************************************************)
(* The wrappers are in the run-time library: programs do not know them.    *)
(* An operand refers to one value, and the module has each of the four     *)
(* functions that one refers to.                                           *)
(***************************************************************************)
ASSUME FunctionsAssumption == Functions \cap Wrappers = {}

ASSUME ProgramsAssumption ==
  \A p \in Programs :
    /\ p \in Seq([callee : Functions \cup {NoCall},
                 args : Seq([res : 0..Len(p), fn : Functions \cup {""}])])
    /\ \A i \in DOMAIN p : \A n \in DOMAIN p[i].args :
         p[i].args[n].res = 0 \/ p[i].args[n].fn = ""

ASSUME OrdersAssumption ==
  \A order \in Orders :
    /\ order \in Seq(Functions)
    /\ \A p \in Programs, f \in Wrapped :
         UsesIn(p, f) # {} => f \in ToSet(order)

(* The operands may have been set in any order.                            *)
Init ==
  /\ prog \in Programs
  /\ inst = [id \in 1..(Len(prog) + 1) |->
               IF id <= Len(prog) THEN prog[id] ELSE Dead]
  /\ block = [i \in 1..Len(prog) |-> i]
  /\ \E latest \in SetToSeqs(UNION {UsesIn(inst, f) : f \in Named}) :
       uses = [f \in Named |-> Those(latest, UsesIn(inst, f))]
  /\ functions \in Orders
  /\ it = 1
  /\ NF = ""
  /\ status = "running"

-----------------------------------------------------------------------------
AtWrapped ==
  status = "running" /\ it <= Len(functions) /\ functions[it] \in Wrapped

(* Function::Create, setName and insert: the wrapper is declared in front  *)
(* of the function, so that the walk over the functions does not meet it.  *)
Declare ==
  /\ AtWrapped /\ NF = ""
  /\ NF' = Wrapper(functions[it])
  /\ functions' = InsertAt(functions, it, NF')
  /\ it' = it + 1
  /\ UNCHANGED <<prog, inst, block, uses, status>>

(* func.user_back(): the user of the use at the head of the list           *)
user_back(f) == Head(uses[f]).user

(* The erased call's operands leave them.                                  *)
LeavingCallee(s, id) ==                 \* mutant: arguments stay listed
  Those(s, {u \in ToSet(s) : u.user # id \/ u.no # 0})
Leaving(s, id) == Those(s, {u \in ToSet(s) : u.user # id})

(* replaceAllUsesWith(New): who used the call's result uses New's.         *)
ReplacedNowhere(args, call, New) == args \* mutant
ReplacedIn(args, call, New) ==
  [n \in DOMAIN args |-> IF args[n] = Result(call) THEN Result(New)
                         ELSE args[n]]

(* CallInst::Create(NF, args, "", call) *)
SameCallee(call) == inst[call]          \* mutant: what is replaced is called
Replacement(call) == [callee |-> NF, args |-> inst[call].args]

(* inserted in front of the call, which is then erased                     *)
Beside(call, New) ==                    \* mutant: the call is not erased
  FlattenSeq([i \in DOMAIN block |->
                IF block[i] = call THEN <<New, call>> ELSE <<block[i]>>])
InPlaceOf(call, New) == ReplaceAll(block, call, New)

(***************************************************************************)
(* One round of the loop.  If the user is a call of something else that    *)
(* only mentions the function, it is replaced all the same.                *)
(***************************************************************************)
Replace ==
  LET func == functions[it]
      call == user_back(func)
      New == CHOOSE id \in Ids : id \notin ToSet(block)
      created == [inst EXCEPT ![New] = Replacement(call), ![call] = Dead]
  IN
  /\ AtWrapped /\ NF # "" /\ uses[func] # <<>>
  /\ inst[call].callee # NoCall
  /\ inst' = [id \in Ids |->
                [created[id] EXCEPT !.args = ReplacedIn(@, call, New)]]
  /\ block' = InPlaceOf(call, New)
  /\ uses' = [f \in Named |->
                Entering(New, Replacement(call), f) \o Leaving(uses[f], call)]
  /\ UNCHANGED <<prog, functions, it, NF, status>>

(* CallSite CS(user): the user is no call, CS is null, args of null.       *)
Crash ==
  /\ AtWrapped /\ NF # "" /\ uses[functions[it]] # <<>>
  /\ inst[user_back(functions[it])].callee = NoCall
  /\ status' = "crashed"
  /\ UNCHANGED <<prog, inst, block, uses, functions, it, NF>>

(* while (!func.use_empty()) ends. *)
EmptiedOnce(f) == NF # ""               \* mutant: if, for while
Emptied(f) == NF # "" /\ uses[f] = <<>>

(* The next function: this one has no use left, or is none of the four.    *)
Advance ==
  /\ status = "running" /\ it <= Len(functions)
  /\ functions[it] \in Wrapped => Emptied(functions[it])
  /\ it' = it + 1
  /\ NF' = ""
  /\ UNCHANGED <<prog, inst, block, uses, functions, status>>

Finish ==
  /\ status = "running" /\ it > Len(functions)
  /\ status' = "done"
  /\ UNCHANGED <<prog, inst, block, uses, functions, it, NF>>

Next == Declare \/ Replace \/ Crash \/ Advance \/ Finish

Spec == Init /\ [][Next]_vars

FairSpec == Spec /\ WF_vars(Next)

-----------------------------------------------------------------------------

Operand == [res : 0..Len(inst), fn : Functions \cup {""}]

TypeOK ==
  /\ prog \in Programs
  /\ \A id \in Ids : /\ inst[id].callee \in Functions \cup Wrappers \cup {NoCall}
                     /\ inst[id].args \in Seq(Operand)
  /\ Len(block) = Len(prog) /\ ToSet(block) \subseteq Ids /\ IsInjective(block)
  /\ \A id \in Ids \ ToSet(block) : inst[id] = Dead
  /\ it \in 1..(Len(functions) + 1)
  /\ NF \in Wrappers \cup {""}
  /\ status \in {"running", "done", "crashed"}

(***************************************************************************)
(* A use list has the operands that refer to the function, each once,      *)
(* whatever was created and erased.  replaceFuncionWith depends on it: it  *)
(* ends when the list is empty, and it dereferences what is at its head.   *)
(***************************************************************************)
UseListsExact ==
  \A f \in Named : /\ IsInjective(uses[f])
                   /\ ToSet(uses[f]) = UsesIn(inst, f)

(* The program only calls the four functions: it does not take their       *)
(* addresses.                                                              *)
OnlyCalled ==
  \A i \in DOMAIN prog, f \in Wrapped : Operands(prog[i], f) \subseteq {0}

(***************************************************************************)
(* At any time during the replacement the module is the program it was,    *)
(* but for the names of the four functions: the same instructions in the   *)
(* same order, calling the same with the same arguments, and who used the  *)
(* result of an instruction still uses the result of that one.             *)
(***************************************************************************)
Unwrapped(f) ==
  IF f \in Wrappers THEN CHOOSE g \in Wrapped : Wrapper(g) = f ELSE f

SameOperand(now, was) ==
  IF was.res = 0 THEN now = was ELSE now = Result(block[was.res])

SameProgram ==
  OnlyCalled => \A i \in DOMAIN prog :
    LET now == inst[block[i]] IN
    /\ Unwrapped(now.callee) = prog[i].callee
    /\ Len(now.args) = Len(prog[i].args)
    /\ \A n \in DOMAIN now.args : SameOperand(now.args[n], prog[i].args[n])

(***************************************************************************)
(* When the replacement is done, no instruction refers to malloc, calloc,  *)
(* realloc or free, and each that the module has stands behind its wrapper.*)
(***************************************************************************)
Complete ==
  status = "done" =>
    /\ \A f \in Wrapped : UsesIn(inst, f) = {}
    /\ \A i \in DOMAIN functions :
         functions[i] \in Wrapped =>
           i > 1 /\ functions[i - 1] = Wrapper(functions[i])

(***************************************************************************)
(* The user whose arguments the loop collects is a call: LLVM's cast<> (in *)
(* CallSite::arg_begin) asserts "isa<> used on a null pointer".            *)
(***************************************************************************)
UserIsCall == status # "crashed"

(***************************************************************************)
(* The loop, which has no bound of its own, ends: it creates no uses of    *)
(* what it is replacing.                                                   *)
(***************************************************************************)
Terminates == OnlyCalled => <>(status = "done")
=============================================================================

--------------------------- MODULE TemporalSafety ---------------------------
(***************************************************************************)
(* What PTAuth promises the program it instruments (README: "provide       *)
(* temporal memory safety"), with no pointers, ids or signatures: objects  *)
(* live and die, a program variable refers to an object at an offset, an   *)
(* access reaches the object its variable refers to, and an operation on a *)
(* dead object stops the program.  PTAuth has a limit, and so has the      *)
(* promise: an access Reach bytes into an object or more may be stopped.   *)
(***************************************************************************)
EXTENDS Integers

CONSTANTS Vars,         \* the pointer variables of the program
          Reach         \* offsets from here on are too deep for a check

VARIABLES live,         \* the objects that exist
          born,         \* how many were ever allocated; object n is the n-th
          ptr,          \* what each variable refers to; object 0 is NULL
          state,        \* "running", "refused" (no allocation), or which kind
                        \*   of operation was trapped: "access", "release"
          touched       \* what the last operation accessed; if it was trapped,
                        \*   the variable it was applied to

vars == <<live, born, ptr, state, touched>>

Null == [obj |-> 0, off |-> 0]

Init ==
  /\ live = {}
  /\ born = 0
  /\ ptr = [v \in Vars |-> Null]
  /\ state = "running"
  /\ touched = "none"

Alive(v) == ptr[v].obj \in live

(* malloc, calloc: a new object. *)
Allocate(v) ==
  /\ state = "running"
  /\ born' = born + 1
  /\ live' = live \cup {born + 1}
  /\ ptr' = [ptr EXCEPT ![v] = [obj |-> born + 1, off |-> 0]]
  /\ touched' = "none"
  /\ UNCHANGED state

(* realloc: the object stays, or a new one takes its place. *)
Resize(v, w) ==
  /\ state = "running"
  /\ Alive(v) /\ ptr[v].off = 0
  /\ \/ ptr' = [ptr EXCEPT ![w] = ptr[v]] /\ UNCHANGED <<live, born>>
     \/ /\ born' = born + 1
        /\ live' = (live \ {ptr[v].obj}) \cup {born + 1}
        /\ ptr' = [ptr EXCEPT ![w] = [obj |-> born + 1, off |-> 0]]
  /\ touched' = "none"
  /\ UNCHANGED state

(* free *)
Release(v) ==
  /\ state = "running"
  /\ \/ ptr[v] = Null /\ UNCHANGED live
     \/ Alive(v) /\ ptr[v].off = 0 /\ live' = live \ {ptr[v].obj}
  /\ touched' = "none"
  /\ UNCHANGED <<born, ptr, state>>

(* w = v, w = &v[...] *)
Derive(v, w) ==
  /\ state = "running"
  /\ ptr' = [ptr EXCEPT ![w] = [obj |-> ptr[v].obj, off |-> ptr'[w].off]]
  /\ touched' = "none"
  /\ UNCHANGED <<live, born, state>>

(* v goes out of scope. *)
Forget(v) ==
  /\ state = "running"
  /\ ptr' = [ptr EXCEPT ![v] = Null]
  /\ touched' = "none"
  /\ UNCHANGED <<live, born, state>>

(* A load or a store reaches the object the variable refers to, alive. *)
Use(v) ==
  /\ state = "running"
  /\ Alive(v)
  /\ touched' = "own"
  /\ UNCHANGED <<live, born, ptr, state>>

(* The program ends at an operation on v of this kind. *)
Trap(v, kind) ==
  /\ state = "running"
  /\ ptr[v] # Null
  /\ state' = kind
  /\ touched' = v
  /\ UNCHANGED <<live, born, ptr>>

(* A load or a store is trapped if its object is dead, or is not reached.  *)
TrapUse(v) == (~Alive(v) \/ ptr[v].off >= Reach) /\ Trap(v, "access")

(* A free is trapped if the object is dead, or v is no pointer to free.    *)
TrapRelease(v) == (~Alive(v) \/ ptr[v].off # 0) /\ Trap(v, "release")

(* An allocation that cannot be served ends the program. *)
Refuse ==
  /\ state = "running"
  /\ state' = "refused"
  /\ touched' = "none"
  /\ UNCHANGED <<live, born, ptr>>

Next ==
  \/ \E v \in Vars : Allocate(v) \/ Release(v) \/ Use(v)
                   \/ Forget(v) \/ TrapUse(v) \/ TrapRelease(v)
  \/ \E v, w \in Vars : Resize(v, w) \/ Derive(v, w)
  \/ Refuse

Spec == Init /\ [][Next]_vars
=============================================================================

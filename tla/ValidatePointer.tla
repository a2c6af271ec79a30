-------------------------- MODULE ValidatePointer --------------------------
(***************************************************************************)
(* One call of __loadCheck, __GEPCheck, __nestedGEPCheck or __storeCheck   *)
(* (ptauth-rtlib.c), step by step: the signature test of the wrapper,      *)
(* validatePointer's look at the word in front of the pointer, and the     *)
(* loop of backward_search, one iteration per step.                        *)
(*                                                                         *)
(* Memory is what the loop can see of it: the lowest mapped address and    *)
(* the words that are not zero, by byte address (reads may be unaligned).  *)
(* Reading below the lowest mapped address raises SIGSEGV.                 *)
(***************************************************************************)
EXTENDS PAC

CONSTANTS Pointers,     \* the pointers checked
          Memories,     \* the memories they are checked in
          ENABLELOG,    \* config.h: log instead of abort()
          Threshold     \* of backward_search: 1024, with BKTHREASHOLDENABLED 1

ASSUME PointersAssumption == Pointers \subseteq {p \in Pointer : p.addr > 0}
ASSUME MemoriesAssumption ==
  \A m \in Memories : /\ m.bottom \in Nat
                      /\ DOMAIN m.words \subseteq Int
                      /\ \A a \in DOMAIN m.words : m.words[a] \in Nat
ASSUME ENABLELOGAssumption == ENABLELOG \in BOOLEAN

(* The window holds an aligned address at or below ptr - 8, whatever ptr.  *)
ASSUME ThresholdAssumption == Threshold \in Nat /\ Threshold >= 24

VARIABLES ptr,          \* the argument
          memory,       \* what it points into; the check only reads it
          i,            \* the loop counter of backward_search
          pc            \* where the call is, or how it ended

vars == <<ptr, memory, i, pc>>

(* Ends: "unsigned", "accepted" and "logged" return the pointer to the     *)
(* program, "aborted" and "segv" kill it.                                  *)
Ended == {"unsigned", "accepted", "logged", "aborted", "segv"}

(* unsigned long id = meta->id *)
Word(a) == IF a \in DOMAIN memory.words THEN memory.words[a] ELSE 0

Mapped(a) == a >= memory.bottom

Init ==
  /\ ptr \in Pointers
  /\ memory \in Memories
  /\ i = 0
  /\ pc = "check"

(***************************************************************************)
(* The words a check may take for the id of ptr: the one in front of it,   *)
(* and the one at an aligned address a below it, tried as the metadata of  *)
(* an object whose data starts at a + 8.                                   *)
(***************************************************************************)
InFront == Vouches(ptr.sig, ptr.addr, Word(ptr.addr - 8))

Found(a) == Vouches(ptr.sig, a + 8, Word(a))

(* if(signature) validatePointer(ptr, ...) else return ptr *)
Check ==
  /\ pc = "check"
  /\ pc' = IF ptr.sig # 0 THEN "validate" ELSE "unsigned"
  /\ UNCHANGED <<ptr, memory, i>>

(* validatePointer: the id in front of the pointer, else the search. *)
Validate ==
  /\ pc = "validate"
  /\ \/ ~Mapped(ptr.addr - 8) /\ pc' = "segv" /\ UNCHANGED i
     \/ Mapped(ptr.addr - 8) /\ InFront /\ pc' = "accepted" /\ UNCHANGED i
     \/ Mapped(ptr.addr - 8) /\ ~InFront /\ pc' = "search" /\ i' = 1
  /\ UNCHANGED <<ptr, memory>>

(***************************************************************************)
(* One iteration of backward_search that takes the "optimization": i +=    *)
(* remainder - 1; continue, which adds 1 more.                             *)
(***************************************************************************)
SkipBy(step) ==
  /\ pc = "search" /\ i < Threshold
  /\ (ptr.addr - i) % 16 # 0
  /\ i' = i + step
  /\ UNCHANGED <<ptr, memory, pc>>

SkipTooFar == SkipBy(((ptr.addr - i) % 16) + 1)                   \* mutant
SkipStuck == SkipBy(((ptr.addr - i) % 16) - 1)                    \* mutant
SkipUpwards == SkipBy(-((ptr.addr - i) % 16))                     \* mutant
Skip == SkipBy((ptr.addr - i) % 16)

(* An aligned address: is the word there the id that signed the pointer?   *)
Try ==
  LET meta == ptr.addr - i IN
  /\ pc = "search" /\ i < Threshold
  /\ meta % 16 = 0
  /\ \/ ~Mapped(meta) /\ pc' = "segv" /\ UNCHANGED i
     \/ Mapped(meta) /\ Found(meta) /\ pc' = "accepted" /\ UNCHANGED i
     \/ Mapped(meta) /\ ~Found(meta) /\ i' = i + 1 /\ UNCHANGED pc
  /\ UNCHANGED <<ptr, memory>>

(* The loop ran out: DEBUG_PRT when ENABLELOG, else abort(). *)
GiveUpAt(n) ==
  /\ pc = "search" /\ i >= n
  /\ pc' = IF ENABLELOG THEN "logged" ELSE "aborted"
  /\ UNCHANGED <<ptr, memory, i>>

GiveUpSoon == GiveUpAt(Threshold - 16)                            \* mutant
GiveUp == GiveUpAt(Threshold)

Next == Check \/ Validate \/ Skip \/ Try \/ GiveUp

Spec == Init /\ [][Next]_vars

(* The call runs on: C code makes progress. *)
FairSpec == Spec /\ WF_vars(Next)

-----------------------------------------------------------------------------

TypeOK ==
  /\ ptr \in Pointers
  /\ memory \in Memories
  /\ i \in Nat
  /\ pc \in {"check", "validate", "search"} \cup Ended

(* The aligned addresses less than Threshold bytes below the pointer. *)
Window == {a \in (ptr.addr - Threshold + 1) .. (ptr.addr - 1) : a % 16 = 0}

(***************************************************************************)
(* The skipping loop of backward_search computes what it is meant to: the  *)
(* call accepts only if some candidate word vouches for the signature,     *)
(* gives up only if none does (no aligned address is skipped, first and    *)
(* last of the window included), and faults only if nothing above the      *)
(* unmapped end of the window would have vouched first.  Which of these    *)
(* happens is settled by pointer and memory alone.                         *)
(***************************************************************************)
SearchExact ==
  /\ pc \in Ended => (pc = "unsigned" <=> ptr.sig = 0)
  /\ pc \in {"logged", "aborted"} => (pc = "logged" <=> ENABLELOG)
  /\ pc = "accepted" => InFront \/ \E a \in Window : Found(a)
  /\ pc \in {"logged", "aborted"} =>
       ~InFront /\ \A a \in Window : Mapped(a) /\ ~Found(a)
  /\ pc = "segv" =>
       /\ InFront => ~Mapped(ptr.addr - 8)
       /\ \E a \in Window : ~Mapped(a)
       /\ \A a \in Window : Mapped(a) /\ Found(a) => a > ptr.addr - 8

(* b is the metadata of an object that signed ptr, and ptr points into it  *)
(* less than Threshold bytes above the metadata.                           *)
OwnMetadata(b) ==
  /\ b \in Window
  /\ b + 8 <= ptr.addr
  /\ Mapped(b)
  /\ Found(b)

(***************************************************************************)
(* No false alarm: a pointer into an object whose metadata is intact is    *)
(* never rejected, and its check never leaves mapped memory, whatever lies *)
(* below the object (validatePointer and backward_search read upwards of   *)
(* the metadata until they find it).                                       *)
(***************************************************************************)
LivePasses ==
  pc \in {"logged", "aborted", "segv"} => ~\E b \in Window : OwnMetadata(b)

(***************************************************************************)
(* Every call of a check ends (the counter of backward_search's for loop   *)
(* always advances, also when "continue" skips).                           *)
(***************************************************************************)
Terminates == <>(pc \in Ended)
=============================================================================

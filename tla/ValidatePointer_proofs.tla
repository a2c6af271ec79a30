----------------------- MODULE ValidatePointer_proofs -----------------------
(* The checks of the runtime, proved for every pointer and every memory.   *)
EXTENDS ValidatePointer, TLAPS

(***************************************************************************)
(* The loop invariant of backward_search: every candidate above the one it *)
(* is about to look at was mapped, was tried and did not vouch.            *)
(***************************************************************************)
Searching ==
  /\ pc \in {"validate", "search"} => ptr.sig # 0
  /\ pc = "search" => /\ i >= 1
                      /\ ~InFront
                      /\ \A a \in Window :
                           a > ptr.addr - i => Mapped(a) /\ ~Found(a)

IInv == TypeOK /\ Searching /\ SearchExact /\ LivePasses

(* The address of the argument is a positive number. *)
LEMMA PtrType == TypeOK => /\ ptr \in Pointer
                           /\ ptr.addr \in Nat
                           /\ ptr.addr > 0
BY PointersAssumption DEF TypeOK, Pointer

(* What lies below the pointer in the window of the search. *)
LEMMA WindowType ==
  ASSUME TypeOK
  PROVE  /\ Window \subseteq Int
         /\ \A a \in Int : a \in Window <=> /\ a > ptr.addr - Threshold
                                            /\ a < ptr.addr
                                            /\ a % 16 = 0
BY PtrType, ThresholdAssumption DEF Window

(***************************************************************************)
(* The skip of backward_search passes over no aligned address: from r past *)
(* an aligned address, going down r reaches it.                            *)
(***************************************************************************)
LEMMA SkipIsExact ==
  ASSUME NEW x \in Int, x % 16 # 0,
         NEW a \in Int, a % 16 = 0, a <= x
  PROVE  a <= x - (x % 16)
<1>1. /\ x = 16 * (x \div 16) + (x % 16)
      /\ x % 16 \in 0..15
      /\ x \div 16 \in Int
  BY SMT
<1>2. /\ a = 16 * (a \div 16)
      /\ a \div 16 \in Int
  BY SMT
<1>3. a \div 16 <= x \div 16
  BY <1>1, <1>2, SMT
<1> QED
  BY <1>1, <1>2, <1>3, SMT

(* The invariant holds when the call begins. *)
LEMMA InitIInv == Init => IInv
BY DEF Init, IInv, TypeOK, Searching, SearchExact, LivePasses, Ended

(* What the steps leave alone, and what that keeps unchanged.              *)
LEMMA SameReads ==
  ASSUME ptr' = ptr, memory' = memory
  PROVE  /\ InFront' = InFront
         /\ Window' = Window
         /\ \A a : Found(a)' = Found(a)
         /\ \A a : Mapped(a)' = Mapped(a)
         /\ \A b : OwnMetadata(b)' = OwnMetadata(b)
BY DEF InFront, Window, Found, Mapped, OwnMetadata, Word

(* The wrapper's signature test and validatePointer's first look.          *)
LEMMA CheckIInv == IInv /\ Check => IInv'
<1> SUFFICES ASSUME IInv, Check PROVE IInv'
  OBVIOUS
<1> USE SameReads DEF Check
<1>1. TypeOK'
  BY DEF IInv, TypeOK, Ended
<1>2. Searching' /\ SearchExact' /\ LivePasses'
  BY DEF Searching, SearchExact, LivePasses, Ended
<1> QED
  BY <1>1, <1>2 DEF IInv

LEMMA ValidateIInv == IInv /\ Validate => IInv'
<1> SUFFICES ASSUME IInv, Validate PROVE IInv'
  OBVIOUS
<1>0. ptr' = ptr /\ memory' = memory /\ pc = "validate"
  BY DEF Validate
<1>1. TypeOK'
  BY DEF IInv, TypeOK, Ended, Validate
<1>2. CASE ~Mapped(ptr.addr - 8) /\ pc' = "segv"
  <2>1. ASSUME NEW b \in Window, OwnMetadata(b) PROVE FALSE
    BY <1>2, <2>1, PtrType, WindowType, MemoriesAssumption
       DEF OwnMetadata, Mapped, IInv, TypeOK
  <2>2. \E a \in Window : ~Mapped(a)
    <3> DEFINE x == ptr.addr - 8
               a == x - (x % 16)
    <3>1. x \in Int /\ x % 16 \in 0..15 /\ (x - (x % 16)) % 16 = 0
      BY PtrType DEF IInv
    <3>2. a \in Window
      <4>1. a \in Int /\ a < ptr.addr /\ a % 16 = 0
        BY <3>1, PtrType DEF IInv
      <4>2. a > ptr.addr - Threshold
        BY <3>1, PtrType, ThresholdAssumption DEF IInv
      <4> QED
        BY <4>1, <4>2, WindowType DEF IInv
    <3>3. ~Mapped(a)
      BY <1>2, <3>1, MemoriesAssumption DEF Mapped, IInv, TypeOK
    <3> QED
      BY <3>2, <3>3
  <2>3. \A a \in Window : Mapped(a) => a > ptr.addr - 8
    BY <1>2, PtrType, WindowType, MemoriesAssumption DEF Mapped, IInv, TypeOK
  <2> QED
    BY <1>0, <1>1, <1>2, <2>1, <2>2, <2>3, SameReads
       DEF IInv, Searching, SearchExact, LivePasses, Ended
<1>3. CASE InFront /\ pc' = "accepted"
  BY <1>0, <1>1, <1>3, SameReads DEF IInv, Searching, SearchExact, LivePasses, Ended
<1>4. CASE ~InFront /\ pc' = "search" /\ i' = 1
  <2>1. \A a \in Window : ~(a > ptr.addr - 1)
    BY PtrType, WindowType DEF IInv
  <2> QED
    BY <1>0, <1>1, <1>4, <2>1, SameReads
       DEF IInv, Searching, SearchExact, LivePasses, Ended
<1> QED
  BY <1>2, <1>3, <1>4 DEF Validate

(* The skip of the loop: what it passes over is not aligned.               *)
LEMMA SkipIInv == IInv /\ Skip => IInv'
<1> SUFFICES ASSUME IInv, Skip PROVE IInv'
  OBVIOUS
<1>0. /\ ptr' = ptr /\ memory' = memory
      /\ pc = "search" /\ pc' = "search"
      /\ (ptr.addr - i) % 16 # 0
      /\ i' = i + ((ptr.addr - i) % 16)
  BY DEF Skip, SkipBy
<1>1. i \in Nat /\ i >= 1 /\ ptr.addr \in Nat
  BY <1>0, PtrType DEF IInv, TypeOK, Searching
<1>2. i' \in Nat /\ i' >= 1
  BY <1>0, <1>1, SMT
<1>3. TypeOK'
  BY <1>0, <1>2 DEF IInv, TypeOK
<1>4. ASSUME NEW a \in Window, a > ptr.addr - i' PROVE Mapped(a) /\ ~Found(a)
  <2>1. a \in Int /\ a % 16 = 0
    BY WindowType DEF IInv
  <2>2. a > ptr.addr - i
    BY <1>0, <1>1, <1>4, <2>1, SkipIsExact
  <2> QED
    BY <1>0, <2>2 DEF IInv, Searching
<1> QED
  BY <1>0, <1>2, <1>3, <1>4, SameReads
     DEF IInv, Searching, SearchExact, LivePasses, Ended

(* One candidate tried.                                                    *)
LEMMA TryIInv == IInv /\ Try => IInv'
<1> SUFFICES ASSUME IInv, Try PROVE IInv'
  OBVIOUS
<1> DEFINE meta == ptr.addr - i
<1>0. /\ ptr' = ptr /\ memory' = memory
      /\ pc = "search" /\ i < Threshold /\ meta % 16 = 0
  BY DEF Try
<1>1. i \in Nat /\ i >= 1 /\ ptr.addr \in Nat /\ meta \in Int
  BY <1>0, PtrType DEF IInv, TypeOK, Searching
<1>2. meta \in Window
  BY <1>0, <1>1, WindowType, ThresholdAssumption DEF IInv
<1>3. TypeOK'
  BY <1>1 DEF IInv, TypeOK, Ended, Try
<1>4. CASE ~Mapped(meta) /\ pc' = "segv"
  <2>1. ASSUME NEW b \in Window, OwnMetadata(b) PROVE FALSE
    <3>1. b \in Int /\ b <= meta
      BY <1>0, <1>1, <2>1, WindowType DEF IInv, Searching, OwnMetadata
    <3> QED
      BY <1>1, <1>4, <2>1, <3>1, MemoriesAssumption
         DEF OwnMetadata, Mapped, IInv, TypeOK
  <2>2. \A a \in Window : Mapped(a) => ~Found(a)
    <3> SUFFICES ASSUME NEW a \in Window, Mapped(a) PROVE ~Found(a)
      OBVIOUS
    <3>1. a > meta
      BY <1>1, <1>4, WindowType, MemoriesAssumption DEF Mapped, IInv, TypeOK
    <3> QED
      BY <1>0, <3>1 DEF IInv, Searching
  <2>3. ~InFront
    BY <1>0 DEF IInv, Searching
  <2> QED
    BY <1>0, <1>2, <1>3, <1>4, <2>1, <2>2, <2>3, SameReads
       DEF IInv, Searching, SearchExact, LivePasses, Ended
<1>5. CASE Found(meta) /\ pc' = "accepted"
  BY <1>0, <1>2, <1>3, <1>5, SameReads
     DEF IInv, Searching, SearchExact, LivePasses, Ended
<1>6. CASE Mapped(meta) /\ ~Found(meta) /\ i' = i + 1 /\ pc' = pc
  <2>1. ASSUME NEW a \in Window, a > ptr.addr - (i + 1)
        PROVE  Mapped(a) /\ ~Found(a)
    <3>1. a = meta \/ a > ptr.addr - i
      BY <1>1, <2>1, WindowType DEF IInv
    <3> QED
      BY <1>0, <1>6, <3>1 DEF IInv, Searching
  <2> QED
    BY <1>0, <1>1, <1>3, <1>6, <2>1, SameReads
       DEF IInv, Searching, SearchExact, LivePasses, Ended
<1> QED
  BY <1>4, <1>5, <1>6 DEF Try

(* The loop runs out: the whole window has been tried.                     *)
LEMMA GiveUpIInv == IInv /\ GiveUp => IInv'
<1> SUFFICES ASSUME IInv, GiveUp PROVE IInv'
  OBVIOUS
<1>0. /\ ptr' = ptr /\ memory' = memory
      /\ pc = "search" /\ i >= Threshold
      /\ pc' = IF ENABLELOG THEN "logged" ELSE "aborted"
  BY DEF GiveUp, GiveUpAt
<1>1. TypeOK'
  BY DEF IInv, TypeOK, Ended, GiveUp, GiveUpAt
<1>2. ~InFront /\ \A a \in Window : Mapped(a) /\ ~Found(a)
  BY <1>0, PtrType, WindowType, ThresholdAssumption DEF IInv, TypeOK, Searching
<1>3. \A b \in Window : ~OwnMetadata(b)
  BY <1>2 DEF OwnMetadata
<1> QED
  BY <1>0, <1>1, <1>2, <1>3, SameReads
     DEF IInv, Searching, SearchExact, LivePasses, Ended

(* Every step of the call preserves the invariant.                         *)
LEMMA NextIInv == IInv /\ [Next]_vars => IInv'
<1>1. IInv /\ UNCHANGED vars => IInv'
  <2> SUFFICES ASSUME IInv, UNCHANGED vars PROVE IInv'
    OBVIOUS
  <2> QED
    BY SameReads
       DEF vars, IInv, TypeOK, Searching, SearchExact, LivePasses
<1> QED
  BY <1>1, CheckIInv, ValidateIInv, SkipIInv, TryIInv, GiveUpIInv DEF Next

(***************************************************************************)
(* TypeOK is an invariant of every call, for every pointer and memory.     *)
(***************************************************************************)
THEOREM TypeCorrect == Spec => []TypeOK
<1>1. IInv => TypeOK
  BY DEF IInv
<1> QED
  BY <1>1, InitIInv, NextIInv, PTL DEF Spec

(***************************************************************************)
(* backward_search tries exactly the words it should, whatever the pointer *)
(* and the memory: the loop computes the declarative test.                 *)
(***************************************************************************)
THEOREM SearchIsExact == Spec => []SearchExact
<1>1. IInv => SearchExact
  BY DEF IInv
<1> QED
  BY <1>1, InitIInv, NextIInv, PTL DEF Spec

(***************************************************************************)
(* A pointer whose metadata is intact is never rejected and its check does *)
(* not fault, whatever the rest of memory holds and wherever it ends.      *)
(***************************************************************************)
THEOREM LiveAlwaysPasses == Spec => []LivePasses
<1>1. IInv => LivePasses
  BY DEF IInv
<1> QED
  BY <1>1, InitIInv, NextIInv, PTL DEF Spec
=============================================================================

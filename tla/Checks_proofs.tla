---------------------------- MODULE Checks_proofs ----------------------------
(***************************************************************************)
(* PTAuthRuntime takes a check for one step: Continues and Faults say how  *)
(* it ends.  Here it is proved that the call that ValidatePointer models,  *)
(* loop and all, ends like that in the memory of PTAuthRuntime.            *)
(***************************************************************************)
EXTENDS PTAuthRuntime, TLAPS

VARIABLES ptr, i, pc    \* of the call, see ValidatePointer

Call == INSTANCE ValidatePointer_proofs WITH
  Pointers <- {p \in Pointer : p.addr \in Words},
  Memories <- {[bottom |-> MapBase, words |-> m] : m \in [Words -> Nat]},
  memory <- [bottom |-> MapBase, words |-> mem]

(* The way a call ends is the one PTAuthRuntime assumes.                   *)
EndsAsAssumed ==
  /\ pc \in {"unsigned", "accepted", "logged"} => Continues(ptr)
  /\ pc = "aborted" => ~Continues(ptr) /\ ~Faults(ptr)
  /\ pc = "segv" => ~Continues(ptr) /\ Faults(ptr)

-----------------------------------------------------------------------------

(* What ValidatePointer assumes of its constants holds of these.           *)
LEMMA CallAssumptions ==
  /\ Call!ByteXorAssumption
  /\ Call!PointersAssumption
  /\ Call!MemoriesAssumption
  /\ Call!ENABLELOGAssumption
  /\ Call!ThresholdAssumption
<1>1. Call!ByteXorAssumption
  BY ByteXorAssumption DEF Call!ByteXorAssumption, Call!Byte, Byte
<1>2. Call!PointersAssumption
  BY HeapAssumption, ThresholdAssumption
  DEF Call!PointersAssumption, Call!Pointer, Call!Byte, Pointer, Byte, Words
<1>3. Call!MemoriesAssumption
  <2> SUFFICES ASSUME NEW m \in [Words -> Nat]
               PROVE  /\ MapBase \in Nat
                      /\ DOMAIN m \subseteq Int
                      /\ \A a \in DOMAIN m : m[a] \in Nat
    BY DEF Call!MemoriesAssumption
  <2>1. Words \subseteq Int
    BY HeapAssumption DEF Words
  <2> QED
    BY <2>1, HeapAssumption
<1>4. Call!ENABLELOGAssumption
  BY ProgramAssumption DEF Call!ENABLELOGAssumption
<1>5. Call!ThresholdAssumption
  BY ThresholdAssumption DEF Call!ThresholdAssumption
<1> QED
  BY <1>1, <1>2, <1>3, <1>4, <1>5

LEMMA CallTyped == Call!Spec => []Call!TypeOK
BY CallAssumptions, Call!TypeCorrect

LEMMA CallExact == Call!Spec => []Call!SearchExact
BY CallAssumptions, Call!SearchIsExact

(* What the call reads is what the checks of PTAuthRuntime look at.        *)
LEMMA CallReads ==
  ASSUME Call!TypeOK
  PROVE  /\ ptr \in Pointer /\ ptr.addr \in Words
         /\ Call!InFront <=> Vouches(ptr.sig, ptr.addr, Word(ptr.addr - 8))
         /\ \A a : Call!Found(a) <=> Vouches(ptr.sig, a + 8, Word(a))
<1>1. ptr \in Pointer /\ ptr.addr \in Words
  BY DEF Call!TypeOK
<1>2. mem \in [Words -> Nat]
  <2>1. PICK m \in [Words -> Nat] :
          [bottom |-> MapBase, words |-> mem] = [bottom |-> MapBase, words |-> m]
    BY DEF Call!TypeOK
  <2>2. [bottom |-> MapBase, words |-> mem].words
          = [bottom |-> MapBase, words |-> m].words
    BY <2>1
  <2> QED
    BY <2>2
<1>3. \A a : Call!Word(a) = Word(a)
  BY <1>2 DEF Call!Word, Word
<1>4. \A sig, addr, id : Call!Vouches(sig, addr, id) <=> Vouches(sig, addr, id)
  BY DEF Call!Vouches, Vouches, Call!autia, autia, Call!pacia, pacia, Call!xpac,
    xpac, Call!Signature, Signature, Call!Low, Low, Call!NULL, NULL
<1> QED
  BY <1>1, <1>3, <1>4 DEF Call!InFront, Call!Found

(* A word that is not 0 lies in the heap, which is mapped.                 *)
LEMMA VouchersAreMapped ==
  ASSUME NEW a \in Int, NEW sig, NEW addr, Vouches(sig, addr, Word(a))
  PROVE  a \in Words /\ Call!Mapped(a) /\ (a % 16 = 0 => a \in Bases)
<1>1. a \in Words
  BY DEF Vouches, Word
<1>2. HeapBase <= a /\ a < HeapEnd
  BY <1>1, HeapAssumption DEF Words
<1> QED
  BY <1>1, <1>2, HeapAssumption DEF Bases, Call!Mapped

(* Both windows have the same candidates.                                  *)
LEMMA SameWindow ==
  ASSUME Call!TypeOK
  PROVE  /\ Window(ptr) \subseteq Call!Window
         /\ \A a \in Call!Window :
              Call!Found(a) => a \in Window(ptr) /\ Call!Mapped(a)
<1>1. ptr.addr \in Nat
  BY CallReads, HeapAssumption DEF Words
<1>2. \A a \in Int : a \in Call!Window <=> /\ a > ptr.addr - Threshold
                                         /\ a < ptr.addr
                                         /\ a % 16 = 0
  BY <1>1, ThresholdAssumption DEF Call!Window
<1>3. Call!Window \subseteq Int
  BY <1>1, ThresholdAssumption DEF Call!Window
<1>4. Window(ptr) \subseteq Call!Window
  BY <1>1, <1>2, HeapAssumption, ThresholdAssumption DEF Window, Bases
<1>5. ASSUME NEW a \in Call!Window, Call!Found(a)
      PROVE  a \in Window(ptr) /\ Call!Mapped(a)
  <2>1. a \in Int /\ a > ptr.addr - Threshold /\ a < ptr.addr /\ a % 16 = 0
    BY <1>2, <1>3
  <2>2. Call!Mapped(a) /\ a \in Bases
    BY <1>5, <2>1, CallReads, VouchersAreMapped
  <2> QED
    BY <2>1, <2>2 DEF Window
<1> QED
  BY <1>4, <1>5

(* At or below an aligned address of a window is one of its lowest 16.     *)
LEMMA LowestAligned ==
  ASSUME NEW low \in Int, NEW a \in Int, a % 16 = 0, a >= low
  PROVE  \E b \in low..(low + 15) : b % 16 = 0 /\ b <= a
<1>1. PICK k \in Int, r \in 0..15 : low + 15 = 16 * k + r
  <2>1. low + 15 = 16 * ((low + 15) \div 16) + ((low + 15) % 16)
    BY SMT
  <2>2. (low + 15) \div 16 \in Int /\ (low + 15) % 16 \in 0..15
    BY SMT
  <2> QED
    BY <2>1, <2>2
<1>2. PICK b \in Int : b = 16 * k
  BY <1>1
<1>3. b \in low..(low + 15)
  BY <1>1, <1>2
<1>4. b % 16 = 0
  BY <1>2
<1>5. b <= a
  <2>1. PICK l \in Int : a = 16 * l
    OBVIOUS
  <2>2. 16 * l > 16 * k - 16
    BY <1>1, <2>1
  <2>3. l >= k
    BY <2>2
  <2> QED
    BY <1>2, <2>1, <2>3
<1> QED
  BY <1>3, <1>4, <1>5

(* The search of an unsuccessful call meets unmapped memory if and only if *)
(* the last candidate of the window is unmapped.                           *)
LEMMA FaultsAtTheEnd ==
  ASSUME Call!TypeOK
  PROVE  Faults(ptr) <=> \E a \in Call!Window : ~Call!Mapped(a)
<1> DEFINE low == ptr.addr - Threshold + 1
<1>1. ptr.addr \in Nat /\ MapBase \in Nat /\ Threshold \in Nat
      /\ Threshold >= 24
  BY CallReads, HeapAssumption, ThresholdAssumption DEF Words
<1>2. low \in Int /\ low + 15 = ptr.addr - Threshold + 16
  BY <1>1
<1>3. ASSUME Faults(ptr)
      PROVE  \E a \in Call!Window : ~Call!Mapped(a)
  BY <1>1, <1>3 DEF Faults, Call!Mapped, Call!Window
<1>4. ASSUME NEW a \in Call!Window, ~Call!Mapped(a)
      PROVE  Faults(ptr)
  <2>1. a \in Int /\ a >= low /\ a % 16 = 0
    BY <1>1, ThresholdAssumption DEF Call!Window
  <2>2. ~(a >= MapBase)
    BY <1>4 DEF Call!Mapped
  <2> HIDE DEF low
  <2>3. PICK b \in low..(low + 15) : b % 16 = 0 /\ b <= a
    BY <1>2, <2>1, LowestAligned
  <2>4. b < MapBase
    BY <1>1, <1>2, <2>1, <2>2, <2>3
  <2> QED
    BY <1>2, <2>3, <2>4 DEF Faults, low
<1> QED
  BY <1>3, <1>4

LEMMA ExactEnds ==
  ASSUME Call!TypeOK, Call!SearchExact
  PROVE  EndsAsAssumed
<1>1. pc \in {"unsigned", "accepted", "logged", "aborted", "segv"}
        => (pc = "unsigned" <=> ptr.sig = 0)
  BY DEF Call!SearchExact, Call!Ended
<1>2. CASE pc = "unsigned"
  BY <1>1, <1>2 DEF EndsAsAssumed, Continues, Passes
<1>3. CASE pc = "accepted"
  <2>1. Call!InFront \/ \E a \in Call!Window : Call!Found(a)
    BY <1>3 DEF Call!SearchExact
  <2>2. Passes(ptr)
    BY <2>1, CallReads, SameWindow DEF Passes
  <2> QED
    BY <1>3, <2>2 DEF EndsAsAssumed, Continues
<1>4. CASE pc \in {"logged", "aborted"}
  <2>1. /\ ~Call!InFront
        /\ \A a \in Call!Window : Call!Mapped(a) /\ ~Call!Found(a)
        /\ pc = "logged" <=> ENABLELOG
    BY <1>4 DEF Call!SearchExact
  <2>2. ~Passes(ptr)
    BY <1>1, <1>4, <2>1, CallReads, SameWindow DEF Passes
  <2>3. ~Faults(ptr)
    BY <2>1, FaultsAtTheEnd
  <2> QED
    BY <1>4, <2>1, <2>2, <2>3 DEF EndsAsAssumed, Continues
<1>5. CASE pc = "segv"
  <2>1. /\ Call!InFront => ~Call!Mapped(ptr.addr - 8)
        /\ \E a \in Call!Window : ~Call!Mapped(a)
        /\ \A a \in Call!Window :
             Call!Mapped(a) /\ Call!Found(a) => a > ptr.addr - 8
    BY <1>5 DEF Call!SearchExact
  <2>2. ptr.addr \in Nat /\ ptr.addr % 8 = 0
    BY CallReads, HeapAssumption DEF Words
  <2>3. ~Call!InFront
    <3>1. ptr.addr - 8 \in Int
      BY <2>2
    <3> QED
      BY <2>1, <3>1, CallReads, VouchersAreMapped
  <2>4. \A a \in Window(ptr) : ~Call!Found(a)
    <3> SUFFICES ASSUME NEW a \in Window(ptr), Call!Found(a) PROVE FALSE
      OBVIOUS
    <3>1. a > ptr.addr - 8
      BY <2>1, SameWindow
    <3>2. a \in Int /\ a % 16 = 0 /\ a < ptr.addr
      BY <2>2, HeapAssumption DEF Window, Bases
    <3> QED
      BY <2>2, <3>1, <3>2
  <2>5. ~Passes(ptr)
    BY <1>1, <1>5, <2>3, <2>4, CallReads DEF Passes
  <2>6. Faults(ptr)
    BY <2>1, FaultsAtTheEnd
  <2> QED
    BY <1>5, <2>5, <2>6 DEF EndsAsAssumed, Continues
<1>6. CASE pc \notin {"unsigned", "accepted", "logged", "aborted", "segv"}
  BY <1>6 DEF EndsAsAssumed
<1> QED
  BY <1>2, <1>3, <1>4, <1>5, <1>6

(***************************************************************************)
(* __loadCheck and its siblings return, abort or fault exactly when Load,  *)
(* Store and Reject of PTAuthRuntime have them do so, for every pointer to *)
(* a word of every heap.                                                   *)
(***************************************************************************)
THEOREM ChecksEndAsAssumed == Call!Spec => []EndsAsAssumed
<1>1. Call!TypeOK /\ Call!SearchExact => EndsAsAssumed
  BY ExactEnds
<1> QED
  BY <1>1, CallTyped, CallExact, PTL
=============================================================================

--------------------------- MODULE Promise_proofs ---------------------------
(***************************************************************************)
(* The runtime library implements TemporalSafety, proved for every         *)
(* program, heap and allocator under the circumstances of Detection_proofs *)
(* and three more: a build that stops at a failed check, a realloc that    *)
(* asks only for sizes that leave room for the id, and none of NULL.       *)
(***************************************************************************)
EXTENDS Detection_proofs

Deployed ==
  /\ Orderly
  /\ RoomyReallocs
  /\ ENABLELOG = FALSE
  /\ "null realloc" \notin Errors

PInv == DInv /\ Signed /\ Capacity

LiveObjects == {chunk[b].obj : b \in {c \in Bases : Live(c)}}

-----------------------------------------------------------------------------
(* The invariant. *)

(* In this build, what is used passed its check, and so is alive. *)
LEMMA UsedIsLive ==
  ASSUME IdsSignApart, ENABLELOG = FALSE, DInv,
         NEW v \in Vars, Continues(var[v])
  PROVE  ~Dangling(v)
BY StaleFails DEF Continues

LEMMA NextKeepsSigned ==
  ASSUME Deployed, DInv, Signed, [Next]_vars
  PROVE  Signed'
<1>0. IInv
  BY DEF DInv
<1>1. CASE UNCHANGED vars
  BY <1>1 DEF vars, Signed, RefersTo, Live
<1>2. CASE NoTBI
  BY <1>0, <1>2, StopIInv DEF NoTBI, Statuses
<1>3. CASE \E v \in Vars, n \in Sizes : Malloc(v, n)
  BY <1>0, <1>3, MallocIInv
<1>4. CASE \E v \in Vars, n \in Sizes, item \in Items : Calloc(v, item, n)
  BY <1>0, <1>4, CallocIInv
<1>5. CASE \E v, w \in Vars, n \in ReallocSizes : Realloc(v, w, n)
  BY <1>0, <1>5, ReallocIInv
<1>6. CASE \E v \in Vars : Free(v) \/ Load(v) \/ Reject(v)
  BY <1>0, <1>6, FreeIInv, LoadIInv, RejectIInv
<1>7. CASE \E v \in Vars, d \in Data : Store(v, d)
  <2>1. \A v \in Vars, d \in Data : Store(v, d) => ~Dangling(v)
    BY UsedIsLive DEF Store, Deployed, Orderly
  <2> QED
    BY <1>0, <1>7, <2>1, StoreSigned
<1>8. CASE \E v, w \in Vars, off \in Offsets : Derive(v, w, off)
  BY <1>0, <1>8, DeriveIInv
<1> QED
  BY <1>1, <1>2, <1>3, <1>4, <1>5, <1>6, <1>7, <1>8 DEF Next

LEMMA NextPInv ==
  ASSUME Deployed, PInv, [Next]_vars
  PROVE  PInv'
<1>1. DInv'
  BY NextDInv DEF PInv, Deployed, Orderly
<1>2. Signed'
  BY NextKeepsSigned DEF PInv
<1>3. Capacity'
  BY NextCapacity DEF PInv, DInv, Deployed
<1> QED
  BY <1>1, <1>2, <1>3 DEF PInv

LEMMA InitPInv == Init => PInv
<1> SUFFICES ASSUME Init PROVE PInv
  OBVIOUS
<1>1. DInv /\ Signed
  BY InitDInv, InitIInv
<1>2. Capacity
  BY DEF Init, Capacity, Live, None
<1> QED
  BY <1>1, <1>2 DEF PInv

-----------------------------------------------------------------------------
(* How the library's state maps to the promise's. *)

LEMMA AliveMeans ==
  ASSUME DInv, NEW v \in Vars
  PROVE  /\ prov[v].obj \in LiveObjects <=> \E b \in Bases : RefersTo(v, b)
         /\ Dangling(v) <=> prov[v].obj # 0 /\ prov[v].obj \notin LiveObjects
<1>1. prov[v].obj \in LiveObjects <=> \E b \in Bases : RefersTo(v, b)
  BY DEF LiveObjects, RefersTo
<1> QED
  BY <1>1 DEF Dangling

(* The ways the process ends. *)
LEMMA RefuseMaps ==
  ASSUME status = "running", NEW s \in {"noTBI", "nomem"}, Stop(s)
  PROVE  Promise!Refuse
<1>1. Outcome = "running"
  BY DEF Outcome
<1>2. Outcome' = "refused" /\ touched' = "none"
  BY DEF Stop, StopAt, Outcome
<1>3. UNCHANGED <<LiveObjects, born, prov>>
  BY DEF Stop, StopAt, LiveObjects, Live
<1> QED
  BY <1>1, <1>2, <1>3 DEF Promise!Refuse, LiveObjects

(* An operation on a dead object, or on a place it is not meant for.       *)
LEMMA TrapUseMaps ==
  ASSUME status = "running", NEW s \in {"aborted", "segv"},
         NEW v \in Vars, StopAt(s, v), prov[v] # Null,
         prov[v].obj \notin LiveObjects \/ ~Reaches(v), DInv
  PROVE  Promise!TrapUse(v)
<1>1. Outcome = "running"
  BY DEF Outcome
<1>2. Outcome' = "access" /\ touched' = v
  BY DEF StopAt, Outcome
<1>3. UNCHANGED <<LiveObjects, born, prov>>
  BY DEF StopAt, LiveObjects, Live
<1>4. ~Promise!Alive(v) \/ prov[v].off >= Reach
  <2>1. prov[v].obj \notin LiveObjects => ~Promise!Alive(v)
    BY DEF Promise!Alive, LiveObjects
  <2>2. PICK o \in Nat : o = prov[v].off
    BY OneVar DEF DInv
  <2>3. Reach \in Int
    BY ThresholdAssumption DEF Reach
  <2> QED
    BY <2>1, <2>2, <2>3 DEF Reaches
<1> QED
  BY <1>1, <1>2, <1>3, <1>4
  DEF Promise!TrapUse, Promise!Trap, Promise!Null, Null, LiveObjects

LEMMA TrapReleaseMaps ==
  ASSUME status = "running", NEW s \in {"reported", "badfree"},
         NEW v \in Vars, StopAt(s, v), prov[v] # Null,
         prov[v].obj \notin LiveObjects \/ prov[v].off # 0
  PROVE  Promise!TrapRelease(v)
<1>1. Outcome = "running"
  BY DEF Outcome
<1>2. Outcome' = "release" /\ touched' = v
  BY DEF StopAt, Outcome
<1>3. UNCHANGED <<LiveObjects, born, prov>>
  BY DEF StopAt, LiveObjects, Live
<1> QED
  BY <1>1, <1>2, <1>3
  DEF Promise!TrapRelease, Promise!Trap, Promise!Alive, Promise!Null, Null,
      LiveObjects

LEMMA Goes == UNCHANGED status /\ status = "running" =>
                Outcome = "running" /\ Outcome' = "running"
BY DEF Outcome

(* A new object joins those of the chunks that stay. *)
LEMMA NewObjectLives ==
  ASSUME NEW c \in [Bases -> ChunkType],
         NEW v \in Vars, NEW b \in Bases, NEW k \in Nat, k > 0, NEW n, NEW m,
         c[b].len = 0, NewObject(v, b, k, n, m, c)
  PROVE  LiveObjects' = {c[d].obj : d \in {e \in Bases : c[e].len > 0}}
                          \cup {born + 1}
<1>1. /\ chunk'[b].len = k /\ chunk'[b].obj = born + 1
      /\ \A d \in Bases : d # b => chunk'[d] = c[d]
  BY DEF NewObject
<1>2. \A d \in Bases : Live(d)' <=> c[d].len > 0 \/ d = b
  BY <1>1 DEF Live
<1>3. ASSUME NEW x \in LiveObjects'
      PROVE  x \in {c[d].obj : d \in {e \in Bases : c[e].len > 0}} \cup {born + 1}
  <2>1. PICK d \in Bases : Live(d)' /\ x = chunk'[d].obj
    BY <1>3 DEF LiveObjects
  <2> QED
    BY <1>1, <1>2, <2>1
<1>4. ASSUME NEW d \in Bases, c[d].len > 0 PROVE c[d].obj \in LiveObjects'
  <2>1. d # b
    BY <1>4
  <2> QED
    BY <1>1, <1>2, <1>4, <2>1 DEF LiveObjects
<1>5. born + 1 \in LiveObjects'
  BY <1>1, <1>2 DEF LiveObjects
<1> QED
  BY <1>3, <1>4, <1>5

LEMMA AllocateMaps ==
  ASSUME PInv, status = "running",
         NEW v \in Vars, NEW b \in Bases, NEW k \in Nat, k > 0, NEW n, NEW m,
         Fits(b, k, {}), NewObject(v, b, k, n, m, chunk)
  PROVE  Promise!Allocate(v)
<1>1. PICK c \in [Bases -> ChunkType] : c = chunk
  BY DEF PInv, DInv, IInv, TypeOK, ChunkType
<1>2. c[b].len = 0
  <2>1. b \in Nat /\ c[b].len \in Nat
    BY Constants DEF ChunkType
  <2>2. c[b].len > 0 => b + 16 * c[b].len <= b \/ b + 16 * k <= b
    BY <1>1 DEF Fits, Live
  <2> QED
    BY <2>1, <2>2
<1>3. NewObject(v, b, k, n, m, c)
  BY <1>1 DEF NewObject
<1>4. LiveObjects' = LiveObjects \cup {born + 1}
  <2>1. LiveObjects' = {c[d].obj : d \in {e \in Bases : c[e].len > 0}}
                         \cup {born + 1}
    BY <1>2, <1>3, NewObjectLives, ZenonT(60)
  <2> QED
    BY <1>1, <2>1 DEF LiveObjects, Live
<1>5. /\ born' = born + 1 /\ touched' = "none" /\ UNCHANGED status
      /\ prov' = [prov EXCEPT ![v] = [obj |-> born + 1, off |-> 0]]
  BY DEF NewObject
<1>6. Outcome = "running" /\ Outcome' = "running"
  BY <1>5, Goes
<1> QED
  BY <1>4, <1>5, <1>6 DEF Promise!Allocate, LiveObjects

LEMMA MallocMaps ==
  ASSUME PInv, NEW v \in Vars, NEW n \in Sizes, Malloc(v, n)
  PROVE  Promise!Allocate(v) \/ Promise!Refuse
<1> DEFINE k == Granules(AllocSize(n))
<1>1. status = "running" /\ k \in Nat /\ k > 0
  BY MallocRoom DEF Malloc, CallsAllocator
<1>2. CASE Stop("nomem")
  BY <1>1, <1>2, RefuseMaps
<1>3. CASE \E b \in Bases : Fits(b, k, {}) /\ NewObject(v, b, k, n, mem, chunk)
  <2> HIDE DEF k
  <2>1. PICK b \in Bases : Fits(b, k, {}) /\ NewObject(v, b, k, n, mem, chunk)
    BY <1>3
  <2> QED
    BY <1>1, <2>1, AllocateMaps
<1> QED
  BY <1>2, <1>3 DEF Malloc

LEMMA CallocMaps ==
  ASSUME PInv, NEW v \in Vars, NEW n \in Sizes, NEW item \in Items,
         Calloc(v, item, n)
  PROVE  Promise!Allocate(v) \/ Promise!Refuse
<1> DEFINE k == Granules(item * ((n + 8) % SizeMod))
<1>1. status = "running" /\ k \in Nat /\ k > 0
  BY CallocRoom DEF Calloc, CallsAllocator
<1>2. CASE Stop("nomem")
  BY <1>1, <1>2, RefuseMaps
<1>3. CASE ~Stop("nomem")
  <2>1. PICK b \in Bases :
          Fits(b, k, {}) /\ \E m : NewObject(v, b, k, item * n, m, chunk)
    BY <1>3 DEF Calloc
  <2>2. PICK m : NewObject(v, b, k, item * n, m, chunk)
    BY <2>1
  <2> HIDE DEF k
  <2> QED
    BY <1>1, <2>1, <2>2, AllocateMaps
<1> QED
  BY <1>2, <1>3

(* Without the chunk of an object, the object is gone: it had no other. *)
LEMMA OthersLive ==
  ASSUME PInv, NEW b \in Bases, Live(b)
  PROVE  {chunk[d].obj : d \in {e \in Bases \ {b} : Live(e)}} =
           LiveObjects \ {chunk[b].obj}
<1>1. Unique
  BY DEF PInv, DInv
<1> QED
  BY <1>1 DEF Unique, LiveObjects

LEMMA InPlaceMaps ==
  ASSUME PInv, status = "running", NEW v \in Vars, NEW w \in Vars,
         NEW b \in Bases, RefersTo(v, b), prov[v].off = 0,
         NEW k \in Nat, k > 0, NEW n, ResizedInPlace(v, w, b, k, n)
  PROVE  Promise!Resize(v, w)
<1>1. /\ chunk'[b].len = k /\ chunk'[b].obj = chunk[b].obj
      /\ \A d \in Bases : d # b => chunk'[d] = chunk[d]
  BY DEF ResizedInPlace, PInv, DInv, IInv, TypeOK
<1>2. Live(b) /\ \A d \in Bases : /\ Live(d)' <=> Live(d)
                                  /\ chunk'[d].obj = chunk[d].obj
  BY <1>1 DEF Live, RefersTo
<1>3. LiveObjects' = LiveObjects
  BY <1>2 DEF LiveObjects
<1>4. /\ prov' = [prov EXCEPT ![w] = prov[v]] /\ touched' = "none"
      /\ UNCHANGED <<born, status>>
  BY DEF ResizedInPlace
<1>5. prov[v].obj \in LiveObjects
  BY AliveMeans DEF PInv
<1>6. Outcome = "running" /\ Outcome' = "running"
  BY <1>4, Goes
<1> QED
  BY <1>3, <1>4, <1>5, <1>6 DEF Promise!Resize, Promise!Alive, LiveObjects

LEMMA ElsewhereMaps ==
  ASSUME PInv, status = "running", NEW v \in Vars, NEW w \in Vars,
         NEW b \in Bases, RefersTo(v, b), prov[v].off = 0,
         NEW k \in Nat, k > chunk[b].len, NEW n, ResizedElsewhere(v, w, b, k, n)
  PROVE  Promise!Resize(v, w)
<1>1. PICK e \in [Bases -> ChunkType] : e = [chunk EXCEPT ![b] = None]
  <2>1. None \in ChunkType
    BY Constants DEF None, ChunkType
  <2>2. chunk \in [Bases -> ChunkType]
    BY DEF PInv, DInv, IInv, TypeOK, ChunkType
  <2>3. [chunk EXCEPT ![b] = None] \in [Bases -> ChunkType]
    BY <2>1, <2>2
  <2> QED
    BY <2>3, Zenon
<1>2. /\ e[b].len = 0
      /\ \A d \in Bases : d # b => e[d] = chunk[d]
  BY <1>1 DEF PInv, DInv, IInv, TypeOK, None
<1>3. PICK c \in Bases : Fits(c, k, {}) /\ \E m : NewObject(w, c, k, n, m, e)
  BY <1>1 DEF ResizedElsewhere
<1>4. PICK m : NewObject(w, c, k, n, m, e)
  BY <1>3
<1>5. k > 0 /\ chunk[b].len \in Nat /\ chunk[b].len > 0
  <2>1. PICK l \in Nat : l = chunk[b].len
    BY DEF PInv, DInv, IInv, TypeOK
  <2>2. l > 0 /\ k > l
    BY <2>1 DEF RefersTo, Live
  <2> QED
    BY <2>1, <2>2
<1>6. ~Live(c)
  <2>1. c \in Nat /\ chunk[c].len \in Nat
    BY Constants DEF PInv, DInv, IInv, TypeOK
  <2>2. Live(c) => c + 16 * chunk[c].len <= c \/ c + 16 * k <= c
    BY <1>3 DEF Fits
  <2> QED
    BY <1>5, <2>1, <2>2 DEF Live
<1>7. e[c].len = 0
  <2>1. chunk[c].len \in Nat
    BY DEF PInv, DInv, IInv, TypeOK
  <2> QED
    BY <1>2, <1>6, <2>1 DEF Live
<1>8. LiveObjects' = (LiveObjects \ {prov[v].obj}) \cup {born + 1}
  <2>1. LiveObjects' = {e[d].obj : d \in {f \in Bases : e[f].len > 0}}
                         \cup {born + 1}
    BY <1>4, <1>5, <1>7, NewObjectLives, ZenonT(60)
  <2>2. {e[d].obj : d \in {f \in Bases : e[f].len > 0}} =
          {chunk[d].obj : d \in {f \in Bases \ {b} : Live(f)}}
    BY <1>2 DEF Live
  <2>3. Live(b) /\ chunk[b].obj = prov[v].obj
    BY DEF RefersTo
  <2> QED
    BY <2>1, <2>2, <2>3, OthersLive
<1>9. /\ prov' = [prov EXCEPT ![w] = [obj |-> born + 1, off |-> 0]]
      /\ born' = born + 1 /\ touched' = "none" /\ UNCHANGED status
  BY <1>4 DEF NewObject
<1>10. prov[v].obj \in LiveObjects
  BY AliveMeans DEF PInv
<1>11. Outcome = "running" /\ Outcome' = "running"
  BY <1>9, Goes
<1> QED
  BY <1>8, <1>9, <1>10, <1>11 DEF Promise!Resize, Promise!Alive, LiveObjects

LEMMA ReallocMaps ==
  ASSUME Deployed, PInv, NEW v \in Vars, NEW w \in Vars,
         NEW n \in ReallocSizes, Realloc(v, w, n)
  PROVE  Promise!Resize(v, w) \/ Promise!Refuse
<1>1. status = "running" /\ MayRealloc(v)
  BY DEF Realloc, CallsAllocator, Deployed
<1>2. PICK b \in Bases : /\ b = var[v].addr - 8
                         /\ RefersTo(v, b) /\ prov[v].off = 0
  BY <1>1, ResizesOwn DEF Deployed, PInv, DInv
<1>3. PICK k \in Nat : k = Granules(n) /\ k > 0
  BY SizesAssumption, GranulesSuffice
<1>4. Live(b)
  BY <1>2 DEF RefersTo
<1>5. CASE ResizedInPlace(v, w, b, k, n)
  BY <1>1, <1>2, <1>3, <1>5, InPlaceMaps
<1>6. CASE k > chunk[b].len /\ ResizedElsewhere(v, w, b, k, n)
  BY <1>1, <1>2, <1>3, <1>6, ElsewhereMaps
<1>7. CASE Stop("nomem")
  BY <1>1, <1>7, RefuseMaps
<1> QED
  BY <1>2, <1>3, <1>4, <1>5, <1>6, <1>7 DEF Realloc, Deployed

LEMMA WithoutLives ==
  ASSUME PInv, NEW b \in Bases, Live(b),
         \A d \in Bases : /\ Live(d)' <=> d # b /\ Live(d)
                          /\ d # b => chunk'[d] = chunk[d]
  PROVE  LiveObjects' = LiveObjects \ {chunk[b].obj}
<1> DEFINE Others == {chunk[d].obj : d \in {e \in Bases \ {b} : Live(e)}}
<1>1. ASSUME NEW x \in LiveObjects' PROVE x \in Others
  <2>1. PICK d \in Bases : Live(d)' /\ x = chunk'[d].obj
    BY <1>1 DEF LiveObjects
  <2> QED
    BY <2>1
<1>2. ASSUME NEW d \in Bases \ {b}, Live(d) PROVE chunk[d].obj \in LiveObjects'
  BY <1>2 DEF LiveObjects
<1>3. LiveObjects' = Others
  BY <1>1, <1>2
<1> QED
  BY <1>3, OthersLive

LEMMA FreeMaps ==
  ASSUME IdsSignApart, PInv, NEW v \in Vars, Free(v)
  PROVE  Promise!Release(v) \/ Promise!TrapRelease(v)
<1> DEFINE meta == var[v].addr - 8
           ptr == autia(var[v], mem[meta])
<1>0. DInv /\ IInv /\ Signed /\ status = "running"
  BY DEF PInv, DInv, Free
<1>1. CASE var[v] = NULL /\ UNCHANGED <<status, chunk, born, prov>> /\ touched' = "none"
  <2>1. prov[v].obj = 0
    BY <1>0, <1>1, MintedVar
  <2>2. prov[v] = Null
    BY <1>0, <2>1 DEF DInv, Minted
  <2>3. LiveObjects' = LiveObjects
    BY <1>1 DEF LiveObjects, Live
  <2>4. Outcome = "running" /\ Outcome' = "running"
    BY <1>0, <1>1, Goes
  <2> QED
    BY <1>1, <2>2, <2>3, <2>4
       DEF Promise!Release, Promise!Null, Null, LiveObjects
<1>2. CASE /\ MayFree(v) /\ ptr = NULL
           /\ \E s \in {"reported", "badfree"} : StopAt(s, v)
  <2>1. Dangling(v) \/ prov[v].off # 0
    <3>1. ASSUME NEW b \in Bases, RefersTo(v, b), prov[v].off = 0 PROVE FALSE
      <4>1. var[v].addr = b + 8 /\ autia(var[v], mem[b]) # NULL
        BY <1>0, <3>1, SignedFreeable DEF LiveFreeable
      <4>2. PICK y \in Nat : y = b
        BY Constants
      <4>3. PICK x \in Nat : x = var[v].addr
        BY <4>1, <4>2
      <4>4. x - 8 = b
        BY <4>1, <4>2, <4>3
      <4> QED
        BY <1>2, <4>1, <4>3, <4>4
    <3> QED
      BY <1>2, <3>1 DEF MayFree
  <2>2. prov[v] # Null /\ (prov[v].obj \notin LiveObjects \/ prov[v].off # 0)
    BY <1>0, <2>1, AliveMeans DEF Null
  <2> QED
    BY <1>0, <1>2, <2>2, TrapReleaseMaps
<1>3. CASE MayFree(v) /\ ptr # NULL
  <2>1. PICK b \in Bases : b = meta /\ RefersTo(v, b) /\ prov[v].off = 0
    BY <1>0, <1>3, FreesOwn
  <2>2. Live(b) /\ chunk[b].obj = prov[v].obj
    BY <2>1 DEF RefersTo
  <2>3. CASE /\ chunk' = [chunk EXCEPT ![meta] = None]
             /\ touched' = IF RefersTo(v, meta) THEN "none" ELSE "foreign"
             /\ UNCHANGED <<status, born, prov>>
    <3>1. chunk' = [chunk EXCEPT ![b] = None] /\ touched' = "none"
      BY <2>1, <2>3
    <3>2. \A d \in Bases : /\ Live(d)' <=> d # b /\ Live(d)
                           /\ d # b => chunk'[d] = chunk[d]
      BY <1>0, <3>1 DEF Live, IInv, TypeOK, None
    <3>3. LiveObjects' = LiveObjects \ {prov[v].obj}
      BY <2>2, <3>2, WithoutLives
    <3>4. prov[v].obj \in LiveObjects
      BY <2>2 DEF LiveObjects
    <3>5. Outcome = "running" /\ Outcome' = "running"
      BY <1>0, <2>3, Goes
    <3> QED
      BY <2>1, <2>3, <3>1, <3>3, <3>4, <3>5
         DEF Promise!Release, Promise!Alive, LiveObjects
  <2> QED
    BY <1>1, <1>3, <2>1, <2>2, <2>3 DEF Free
<1> QED
  BY <1>1, <1>2, <1>3 DEF Free

(* What is used alive reaches its own object, whoever checked it.          *)
LEMMA UseMaps ==
  ASSUME PInv, NEW v \in Vars, MayUse(v), ~Dangling(v),
         touched' = Reached(v), UNCHANGED <<status, chunk, born, prov>>
  PROVE  Promise!Use(v)
<1>1. DInv /\ IInv /\ status = "running"
  BY DEF PInv, DInv, MayUse
<1>2. PICK b \in Bases : RefersTo(v, b) /\ prov[v].off < chunk[b].req
  BY DEF MayUse
<1>3. InChunk(b, var[v].addr)
  <2>1. PICK x \in Nat, o \in Nat, y \in Nat, l \in Nat, r \in Nat :
          /\ x = var[v].addr /\ o = prov[v].off /\ y = b
          /\ l = chunk[b].len /\ r = chunk[b].req
    <3>1. var[v] \in Pointer /\ prov[v].off \in Nat
      BY <1>1, OneVar
    <3>2. var[v].addr \in Nat
      BY <3>1 DEF Pointer
    <3>3. b \in Nat /\ chunk[b].len \in Nat /\ chunk[b].req \in Nat
      BY <1>1, OneChunk, Zenon
    <3> QED
      BY <3>1, <3>2, <3>3, Zenon
  <2>2. Live(b) /\ x = y + 8 + o
    BY <1>1, <1>2, <2>1 DEF IInv, Placed, RefersTo
  <2>3. o < r /\ 8 + r <= 16 * l - 8
    BY <1>2, <2>1, <2>2 DEF PInv, Capacity
  <2>4. y <= x /\ x < y + 16 * l - 8
    BY <2>2, <2>3
  <2> QED
    BY <2>1, <2>2, <2>4 DEF InChunk
<1>4. touched' = "own"
  BY <1>2, <1>3 DEF Reached
<1>5. prov[v].obj \in LiveObjects /\ LiveObjects' = LiveObjects
  BY <1>1, <1>2, AliveMeans DEF LiveObjects, Live
<1>6. Outcome = "running" /\ Outcome' = "running"
  BY <1>1, Goes
<1> QED
  BY <1>4, <1>5, <1>6 DEF Promise!Use, Promise!Alive, LiveObjects

LEMMA RejectMaps ==
  ASSUME PInv, NEW v \in Vars, Reject(v)
  PROVE  Promise!TrapUse(v)
<1>1. DInv /\ IInv /\ Signed /\ status = "running"
  BY DEF PInv, DInv, Reject, MayUse
<1>2. Reaches(v) => \A b \in Bases : ~RefersTo(v, b)
  BY <1>1, SignedPasses DEF LivePasses, Reject, Continues
<1>3. prov[v].obj # 0
  <2>1. ASSUME NEW b \in Bases, RefersTo(v, b) PROVE prov[v].obj # 0
    <3>1. prov[v].obj \in 1..born
      BY <1>1, <2>1 DEF IInv, ChunksFit, RefersTo
    <3> QED
      BY <3>1
  <2>2. Dangling(v) => prov[v].obj # 0
    BY DEF Dangling
  <2> QED
    BY <2>1, <2>2 DEF Reject, MayUse
<1>4. prov[v] # Null /\ (prov[v].obj \notin LiveObjects \/ ~Reaches(v))
  BY <1>1, <1>2, <1>3, AliveMeans DEF Null
<1> QED
  BY <1>1, <1>4, TrapUseMaps DEF Reject

LEMMA DeriveMaps ==
  ASSUME PInv, NEW v \in Vars, NEW w \in Vars, NEW off \in Offsets,
         Derive(v, w, off)
  PROVE  Promise!Derive(v, w)
<1>1. /\ prov' = [prov EXCEPT ![w] = [prov[v] EXCEPT !.off = off]]
      /\ UNCHANGED <<status, chunk, born>>
      /\ status = "running" /\ touched' = "none"
  BY DEF Derive
<1>2. prov \in [Vars -> [obj : 0..MaxObjects, off : Nat]]
  BY DEF PInv, DInv, IInv, TypeOK
<1>3. [prov[v] EXCEPT !.off = off] = [obj |-> prov[v].obj, off |-> off]
  BY <1>2
<1>4. prov'[w].off = off
  BY <1>1, <1>2, <1>3
<1>5. LiveObjects' = LiveObjects
  BY <1>1 DEF LiveObjects, Live
<1>6. Outcome = "running" /\ Outcome' = "running"
  BY <1>1, Goes
<1> QED
  BY <1>1, <1>3, <1>4, <1>5, <1>6 DEF Promise!Derive, LiveObjects

-----------------------------------------------------------------------------
(* The theorems. *)

LEMMA NextMaps ==
  ASSUME Deployed, PInv, [Next]_vars
  PROVE  [Promise!Next]_Promise!vars
<1> SUFFICES Promise!Next \/ UNCHANGED Promise!vars
  OBVIOUS
<1>1. CASE UNCHANGED vars
  BY <1>1 DEF vars, Promise!vars, Outcome, Live
<1>2. CASE NoTBI
  BY <1>2, RefuseMaps DEF NoTBI, CallsAllocator, Promise!Next
<1>3. CASE \E v \in Vars, n \in Sizes : Malloc(v, n)
  BY <1>3, MallocMaps DEF Promise!Next
<1>4. CASE \E v \in Vars, n \in Sizes, item \in Items : Calloc(v, item, n)
  BY <1>4, CallocMaps DEF Promise!Next
<1>5. CASE \E v, w \in Vars, n \in ReallocSizes : Realloc(v, w, n)
  BY <1>5, ReallocMaps DEF Promise!Next
<1>6. CASE \E v \in Vars : Free(v)
  BY <1>6, FreeMaps DEF Promise!Next, Deployed, Orderly
<1>7. CASE \E v \in Vars : Load(v) \/ \E d \in Data : Store(v, d)
  <2>1. PICK v \in Vars : Load(v) \/ \E d \in Data : Store(v, d)
    BY <1>7
  <2>2. Promise!Use(v)
    BY <2>1, UsedIsLive, UseMaps DEF Load, Store, Deployed, Orderly, PInv
  <2> QED
    BY <2>2 DEF Promise!Next
<1>8. CASE \E v \in Vars : Reject(v)
  BY <1>8, RejectMaps DEF Promise!Next
<1>9. CASE \E v, w \in Vars, off \in Offsets : Derive(v, w, off)
  BY <1>9, DeriveMaps DEF Promise!Next
<1> QED
  BY <1>1, <1>2, <1>3, <1>4, <1>5, <1>6, <1>7, <1>8, <1>9 DEF Next

(***************************************************************************)
(* The library keeps its promise, whatever the program does: a load or     *)
(* store reaches the object its pointer means, alive; free and realloc     *)
(* release and replace that object and no other; and a load or store stops *)
(* the program only if its object is dead or it goes Reach bytes or more   *)
(* into it, a free only if its object is dead or its pointer interior.     *)
(***************************************************************************)
THEOREM LibraryImplementsPromise ==
  ASSUME Deployed
  PROVE  Spec => ImplementsPromise
<1>1. Init => Promise!Init
  BY DEF Init, Promise!Init, Promise!Null, Null, Outcome, Live, None
<1>2. PInv /\ [Next]_vars => [Promise!Next]_Promise!vars
  BY NextMaps
<1>3. PInv /\ [Next]_vars => PInv'
  BY NextPInv
<1> QED
  BY InitPInv, <1>1, <1>2, <1>3, PTL DEF Spec, ImplementsPromise, Promise!Spec

(***************************************************************************)
(* No use after free goes unnoticed, of a build that stops at a failed     *)
(* check.                                                                  *)
(***************************************************************************)
THEOREM NoForeignAccesses ==
  ASSUME Deployed
  PROVE  Spec => []NoForeignAccess
<1>1. Promise!Init => NoForeignAccess
  BY DEF Promise!Init, NoForeignAccess
<1>2. \A v \in Vars : v # "foreign"
  BY NamesAssumption DEF Touches
<1>3. NoForeignAccess /\ [Promise!Next]_Promise!vars => NoForeignAccess'
  BY <1>2 DEF NoForeignAccess, Promise!Next, Promise!vars, Promise!Allocate,
         Promise!Resize, Promise!Release, Promise!Derive, Promise!Forget,
         Promise!Use, Promise!TrapUse, Promise!TrapRelease, Promise!Trap,
         Promise!Refuse
<1>4. ImplementsPromise => []NoForeignAccess
  BY <1>1, <1>3, PTL DEF ImplementsPromise, Promise!Spec
<1> QED
  BY <1>4, LibraryImplementsPromise, PTL
=============================================================================

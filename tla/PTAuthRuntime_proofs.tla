------------------------ MODULE PTAuthRuntime_proofs ------------------------
(***************************************************************************)
(* The runtime library, proved for every program, heap and choice of ids   *)
(* that the assumptions of PTAuthRuntime allow.                            *)
(***************************************************************************)
EXTENDS PTAuthRuntime, TLAPS

ChunkType == [len : Nat, obj : 0..MaxObjects, req : Nat]

(* A chunk lies in the heap and has room for the id and the object.        *)
ChunksFit ==
  \A b \in Bases : Live(b) => /\ chunk[b].obj \in 1..born
                              /\ 8 + chunk[b].req <= 16 * chunk[b].len
                              /\ b + 16 * chunk[b].len <= HeapEnd

Disjoint ==
  \A b, c \in Bases :
    Live(b) /\ Live(c) /\ b # c => \/ b + 16 * chunk[b].len <= c
                                   \/ c + 16 * chunk[c].len <= b

ProvBorn == \A v \in Vars : prov[v].obj <= born

(* A variable holds the address of the object it refers to.                *)
Placed ==
  \A v \in Vars, b \in Bases :
    RefersTo(v, b) => var[v].addr = b + 8 + prov[v].off

IInv == TypeOK /\ ChunksFit /\ Disjoint /\ ProvBorn /\ Placed

(* The id in front of a live object is the one its pointers are signed     *)
(* with.                                                                   *)
Signed ==
  \A v \in Vars, b \in Bases :
    RefersTo(v, b) => /\ mem[b] # 0
                      /\ var[v].sig = Signature(b + 8, mem[b])

-----------------------------------------------------------------------------
(* Arithmetic of the heap. *)

LEMMA Constants ==
  /\ HeapBase \in Nat /\ HeapEnd \in Nat /\ HeapBase > Threshold
  /\ Threshold \in Nat /\ Threshold >= 24
  /\ MaxObjects \in Nat
  /\ Words \subseteq Nat /\ Bases \subseteq Words
BY HeapAssumption, IdAssumption, ThresholdAssumption DEF Words, Bases

(* The word behind an id, and the words up to the end of its chunk. *)
LEMMA WordsAbove ==
  ASSUME NEW b \in Bases, NEW off \in Nat, off % 8 = 0, b + 8 + off < HeapEnd
  PROVE  b + 8 + off \in Words
<1>1. b \in Nat /\ b >= HeapBase /\ b % 16 = 0
  BY HeapAssumption DEF Bases
<1>2. (b + 8 + off) % 8 = 0
  BY <1>1
<1> QED
  BY <1>1, <1>2, HeapAssumption DEF Words

LEMMA FirstWord == \A b \in Bases : b + 8 \in Words
<1> SUFFICES ASSUME NEW b \in Bases PROVE b + 8 \in Words
  OBVIOUS
<1>1. b \in Nat /\ b >= HeapBase /\ b < HeapEnd /\ b % 16 = 0
  BY HeapAssumption DEF Bases
<1>2. b + 8 < HeapEnd
  BY <1>1, HeapAssumption
<1>3. (b + 8) % 8 = 0
  BY <1>1
<1> QED
  BY <1>1, <1>2, <1>3, HeapAssumption DEF Words

(* A chunk has at least 8 bytes more than were asked for. *)
LEMMA GranulesSuffice ==
  ASSUME NEW n \in Nat
  PROVE  Granules(n) \in Nat /\ Granules(n) >= 2 /\ n + 8 <= 16 * Granules(n)
<1>1. CASE n <= 24
  BY <1>1 DEF Granules
<1>2. CASE n > 24
  <2>1. /\ (n + 23) \div 16 \in Int
        /\ 16 * ((n + 23) \div 16) <= n + 23
        /\ n + 23 < 16 * ((n + 23) \div 16) + 16
    BY <1>2
  <2> QED
    BY <1>2, <2>1 DEF Granules
<1> QED
  BY <1>1, <1>2

LEMMA IdsAreWords ==
  \A t \in 0..MaxObjects : IdAt[t] \in Nat /\ IdAt[t] # 0
<1>1. FirstId \in Nat /\ FirstId > 0 /\ LastId \in Nat
  BY SMT DEF FirstId, LastId
<1>2. \A id \in Ids : id \in Nat /\ id # 0
  BY <1>1 DEF Ids
<1>3. \A t \in 0..MaxObjects : IdAt[t] \in Ids
  BY IdAssumption
<1> QED
  BY <1>2, <1>3

(* What malloc and calloc ask the C library for. *)
LEMMA MallocRoom ==
  ASSUME NEW n \in Sizes
  PROVE  LET k == Granules(AllocSize(n)) IN
         /\ n \in Nat
         /\ k \in Nat /\ k >= 2 /\ 16 + n <= 16 * k
<1>1. n \in Nat \ {0} /\ SizeMod \in Nat /\ n + 8 < SizeMod
  BY SizesAssumption
<1>2. AllocSize(n) = n + 8
  BY <1>1 DEF AllocSize
<1>3. n + 8 \in Nat /\ (n + 8) + 8 = 16 + n
  BY <1>1
<1>4. /\ Granules(n + 8) \in Nat /\ Granules(n + 8) >= 2
      /\ (n + 8) + 8 <= 16 * Granules(n + 8)
  BY <1>3, GranulesSuffice
<1> QED
  BY <1>1, <1>2, <1>3, <1>4

LEMMA CallocRoom ==
  ASSUME NEW n \in Sizes, NEW item \in Items
  PROVE  LET k == Granules(item * ((n + 8) % SizeMod)) IN
         /\ item * n \in Nat
         /\ k \in Nat /\ k >= 2 /\ 8 + item * n <= 16 * k
         /\ item > 0 => 16 + item * n <= 16 * k
<1>1. n \in Nat \ {0} /\ SizeMod \in Nat /\ n + 8 < SizeMod
  BY SizesAssumption
<1>2. item \in Nat
  BY SizesAssumption
<1>3. (n + 8) % SizeMod = n + 8
  BY <1>1
<1>4. item * n \in Nat /\ item * (n + 8) = item * n + 8 * item
  BY <1>1, <1>2
<1> DEFINE m == item * (n + 8)
<1>5. m \in Nat /\ m = item * n + 8 * item
  BY <1>2, <1>4
<1> HIDE DEF m
<1>6. Granules(m) \in Nat /\ Granules(m) >= 2 /\ m + 8 <= 16 * Granules(m)
  BY <1>5, GranulesSuffice
<1>7. item * n \in Nat /\ 8 * item \in Nat
  BY <1>2, <1>4
<1>8. 8 + item * n <= 16 * Granules(m)
  BY <1>5, <1>6, <1>7
<1>9. item > 0 => 16 + item * n <= 16 * Granules(m)
  BY <1>2, <1>5, <1>6, <1>7
<1> QED
  BY <1>3, <1>6, <1>7, <1>8, <1>9 DEF m

(* The pointer that pacia makes. *)
LEMMA SignedPointer ==
  ASSUME NEW a \in Nat, NEW id \in Nat
  PROVE  /\ Signature(a, id) \in Byte
         /\ pacia([sig |-> 0, addr |-> a], id) =
              [sig |-> Signature(a, id), addr |-> a]
<1>1. Low(a) \in Byte /\ Low(id) \in Byte
  BY DEF Low, Byte
<1>2. Signature(a, id) \in Byte
  BY <1>1, ByteXorAssumption DEF Signature
<1> QED
  BY <1>2 DEF pacia

-----------------------------------------------------------------------------
(* The invariant: initially, and across the allocation of an object. *)

LEMMA InitIInv == Init => IInv /\ Signed
<1> SUFFICES ASSUME Init PROVE IInv /\ Signed
  OBVIOUS
<1> USE DEF Init
<1>1. \A b \in Bases : ~Live(b)
  BY DEF Live, None
<1>2. TypeOK
  <2>1. mem \in [Words -> Nat]
    OBVIOUS
  <2>2. chunk \in [Bases -> [len : Nat, obj : 0..MaxObjects, req : Nat]]
    BY Constants DEF None
  <2>3. prov \in [Vars -> [obj : 0..MaxObjects, off : Nat]]
    BY Constants DEF Null
  <2>4. var \in [Vars -> Pointer] /\ \A v \in Vars : var[v] = NULL
    BY DEF Pointer, NULL, Byte
  <2> QED
    BY <2>1, <2>2, <2>3, <2>4, Constants DEF TypeOK, Statuses, Touches
<1>3. ChunksFit /\ Disjoint /\ Placed /\ Signed
  BY <1>1 DEF ChunksFit, Disjoint, Placed, Signed, RefersTo
<1>4. ProvBorn
  BY DEF ProvBorn, Null
<1> QED
  BY <1>2, <1>3, <1>4 DEF IInv

(***************************************************************************)
(* A new object in a chunk that overlaps none of c, where c is what is     *)
(* left of the chunks when one of them may have been given back.           *)
(***************************************************************************)
Replaces(c) ==
  /\ c \in [Bases -> ChunkType]
  /\ \A d \in Bases : c[d] = chunk[d] \/ c[d] = None

FreeOf(b, k, c) ==
  /\ b + 16 * k <= HeapEnd
  /\ \A d \in Bases : c[d].len > 0 => \/ d + 16 * c[d].len <= b
                                      \/ b + 16 * k <= d

(* m has the ids of the chunks that c keeps. *)
KeepsIds(b, c, m) ==
  \A d \in Bases : d # b /\ c[d].len > 0 => m[d] = mem[d]

LEMMA NewObjectIInv ==
  ASSUME IInv, born < MaxObjects,
         NEW v \in Vars, NEW b \in Bases, NEW k \in Nat, k > 0,
         NEW n \in Nat, 8 + n <= 16 * k,
         NEW m \in [Words -> Nat],
         NEW c, Replaces(c), FreeOf(b, k, c),
         NewObject(v, b, k, n, m, c)
  PROVE  IInv'
<1> USE DEF IInv
<1>1. /\ born \in Nat /\ born + 1 \in 0..MaxObjects /\ born' = born + 1
      /\ now \in 0..MaxObjects /\ now <= born
  BY Constants DEF TypeOK, NewObject
<1>2. /\ IdAt[now] \in Nat /\ IdAt[now] # 0
      /\ b \in Nat /\ b \in Words /\ b + 8 \in Words
  BY <1>1, IdsAreWords, Constants, FirstWord
<1>3. /\ chunk' = [c EXCEPT ![b] = [len |-> k, obj |-> born + 1, req |-> n]]
      /\ mem' = [m EXCEPT ![b] = IdAt[now]]
      /\ prov' = [prov EXCEPT ![v] = [obj |-> born + 1, off |-> 0]]
      /\ tbi' = tbi /\ status' = status /\ touched' = "none"
  BY DEF NewObject
<1>4. /\ Signature(b + 8, IdAt[now]) \in Byte
      /\ var' = [var EXCEPT ![v] =
                   [sig |-> Signature(b + 8, IdAt[now]), addr |-> b + 8]]
  <2>1. b + 8 \in Nat
    BY <1>2
  <2> QED
    BY <1>2, <2>1, SignedPointer DEF NewObject, DataOf
<1>5. /\ c \in [Bases -> ChunkType]
      /\ \A d \in Bases : c[d] = chunk[d] \/ c[d] = None
      /\ b + 16 * k <= HeapEnd
      /\ \A d \in Bases : c[d].len > 0 => \/ d + 16 * c[d].len <= b
                                          \/ b + 16 * k <= d
  BY DEF Replaces, FreeOf
<1>6. /\ Live(b)' /\ chunk'[b] = [len |-> k, obj |-> born + 1, req |-> n]
      /\ \A d \in Bases : d # b /\ Live(d)' =>
           Live(d) /\ chunk'[d] = chunk[d] /\ c[d] = chunk[d]
  BY <1>3, <1>5 DEF Live, None, ChunkType
<1>7. TypeOK'
  <2>1. mem' \in [Words -> Nat]
    BY <1>2, <1>3
  <2>2. chunk' \in [Bases -> [len : Nat, obj : 0..MaxObjects, req : Nat]]
    BY <1>1, <1>3, <1>5 DEF ChunkType
  <2>3. prov' \in [Vars -> [obj : 0..MaxObjects, off : Nat]]
    BY <1>1, <1>3 DEF TypeOK
  <2>4. \A w \in Vars : var'[w].addr \in Words \/ var'[w] = NULL
    BY <1>2, <1>4 DEF TypeOK
  <2>5. now' \in 0..MaxObjects /\ now' <= born'
    BY <1>1, Constants DEF NewObject, Later
  <2>6. var' \in [Vars -> Pointer]
    BY <1>2, <1>4, Constants DEF TypeOK, Pointer
  <2> QED
    BY <1>1, <1>3, <2>1, <2>2, <2>3, <2>4, <2>5, <2>6 DEF TypeOK, Touches
<1>8. ChunksFit'
  <2> SUFFICES ASSUME NEW d \in Bases, Live(d)'
               PROVE  /\ chunk'[d].obj \in 1..born'
                      /\ 8 + chunk'[d].req <= 16 * chunk'[d].len
                      /\ d + 16 * chunk'[d].len <= HeapEnd
    BY DEF ChunksFit
  <2>1. CASE d = b
    BY <1>1, <1>5, <1>6, <2>1
  <2>2. CASE d # b
    BY <1>1, <1>6, <2>2 DEF ChunksFit
  <2> QED
    BY <2>1, <2>2
<1>9. Disjoint'
  <2> SUFFICES ASSUME NEW d \in Bases, NEW e \in Bases,
                      Live(d)', Live(e)', d # e
               PROVE  \/ d + 16 * chunk'[d].len <= e
                      \/ e + 16 * chunk'[e].len <= d
    BY DEF Disjoint
  <2>1. CASE d # b /\ e # b
    BY <1>6, <2>1 DEF Disjoint
  <2>2. CASE d = b
    BY <1>5, <1>6, <2>2 DEF Live
  <2>3. CASE e = b
    BY <1>5, <1>6, <2>3 DEF Live
  <2> QED
    BY <2>1, <2>2, <2>3
<1>10. ProvBorn'
  BY <1>1, <1>3 DEF ProvBorn, TypeOK
<1>11. Placed'
  <2> SUFFICES ASSUME NEW w \in Vars, NEW d \in Bases, RefersTo(w, d)'
               PROVE  var'[w].addr = d + 8 + prov'[w].off
    BY DEF Placed
  <2>1. Live(d)' /\ chunk'[d].obj = prov'[w].obj
    BY DEF RefersTo
  <2>2. CASE w = v
    <3>1. prov'[w] = [obj |-> born + 1, off |-> 0] /\ var'[w].addr = b + 8
      BY <1>3, <1>4, <2>2 DEF TypeOK
    <3>2. d = b
      BY <1>1, <1>6, <2>1, <3>1 DEF ChunksFit
    <3> QED
      BY <1>2, <3>1, <3>2
  <2>3. CASE w # v
    <3>1. prov'[w] = prov[w] /\ var'[w] = var[w]
      BY <1>3, <1>4, <2>3 DEF TypeOK
    <3>2. d # b
      BY <1>1, <1>6, <2>1, <3>1 DEF ProvBorn, TypeOK
    <3>3. RefersTo(w, d)
      BY <1>6, <2>1, <3>1, <3>2 DEF RefersTo
    <3> QED
      BY <3>1, <3>3 DEF Placed
  <2> QED
    BY <2>2, <2>3
<1> QED
  BY <1>7, <1>8, <1>9, <1>10, <1>11

LEMMA NewObjectSigned ==
  ASSUME IInv, Signed, born < MaxObjects,
         NEW v \in Vars, NEW b \in Bases, NEW k \in Nat,
         NEW n \in Nat,
         NEW m \in [Words -> Nat],
         NEW c, Replaces(c),
         KeepsIds(b, c, m),
         NewObject(v, b, k, n, m, c)
  PROVE  Signed'
<1>1. /\ born \in Nat /\ now \in 0..MaxObjects
      /\ IdAt[now] \in Nat /\ IdAt[now] # 0
      /\ b \in Nat /\ b \in Words /\ b + 8 \in Nat /\ Bases \subseteq Words
  BY Constants, IdsAreWords DEF IInv, TypeOK
<1>2. /\ chunk' = [c EXCEPT ![b] = [len |-> k, obj |-> born + 1, req |-> n]]
      /\ mem' = [m EXCEPT ![b] = IdAt[now]]
      /\ prov' = [prov EXCEPT ![v] = [obj |-> born + 1, off |-> 0]]
      /\ var' = [var EXCEPT ![v] =
                   [sig |-> Signature(b + 8, IdAt[now]), addr |-> b + 8]]
  BY <1>1, SignedPointer DEF NewObject, DataOf
<1>3. /\ c \in [Bases -> ChunkType]
      /\ \A d \in Bases : c[d] = chunk[d] \/ c[d] = None
  BY DEF Replaces
<1>4. /\ chunk'[b].obj = born + 1
      /\ \A d \in Bases : d # b /\ Live(d)' =>
           Live(d) /\ chunk'[d] = chunk[d] /\ c[d].len > 0
  BY <1>2, <1>3 DEF Live, None, ChunkType
<1>5. SUFFICES ASSUME NEW w \in Vars, NEW d \in Bases, RefersTo(w, d)'
               PROVE  mem'[d] # 0 /\ var'[w].sig = Signature(d + 8, mem'[d])
  BY DEF Signed
<1>6. Live(d)' /\ chunk'[d].obj = prov'[w].obj
  BY <1>5 DEF RefersTo
<1>7. CASE w = v
  <2>1. /\ prov'[w].obj = born + 1
        /\ var'[w].sig = Signature(b + 8, IdAt[now])
    BY <1>2, <1>7 DEF IInv, TypeOK
  <2>2. d # b => chunk'[d].obj \in 1..born
    BY <1>4, <1>6 DEF IInv, ChunksFit
  <2>3. d = b
    BY <1>1, <1>6, <2>1, <2>2
  <2> QED
    BY <1>1, <1>2, <2>1, <2>3
<1>8. CASE w # v
  <2>1. prov'[w] = prov[w] /\ var'[w] = var[w]
    BY <1>2, <1>8 DEF IInv, TypeOK
  <2>2. d # b
    BY <1>1, <1>4, <1>6, <2>1 DEF IInv, ProvBorn, TypeOK
  <2>3. RefersTo(w, d) /\ mem'[d] = mem[d]
    BY <1>1, <1>2, <1>4, <1>6, <2>1, <2>2 DEF RefersTo, KeepsIds
  <2> QED
    BY <2>1, <2>3 DEF Signed
<1> QED
  BY <1>7, <1>8

-----------------------------------------------------------------------------
(* The invariant across every action. *)

LEMMA StopAtIInv ==
  ASSUME IInv, NEW s \in Statuses, NEW at \in Touches \cup Vars, StopAt(s, at)
  PROVE  IInv' /\ (Signed => Signed')
<1>1. /\ now' = now /\ mem' = mem /\ chunk' = chunk /\ born' = born
      /\ var' = var /\ prov' = prov /\ tbi' = tbi
      /\ status' \in Statuses /\ touched' \in Touches \cup Vars
  BY DEF StopAt
<1> QED
  BY <1>1 DEF IInv, TypeOK, ChunksFit, Disjoint, ProvBorn, Placed, Signed,
              RefersTo, Live

LEMMA StopIInv ==
  ASSUME IInv, NEW s \in Statuses, Stop(s)
  PROVE  IInv' /\ (Signed => Signed')
<1>1. "none" \in Touches \cup Vars
  BY DEF Touches
<1> QED
  BY <1>1, StopAtIInv DEF Stop

LEMMA UnchangedIInv ==
  ASSUME IInv, touched' \in Touches \cup Vars,
         UNCHANGED <<tbi, status, now, mem, chunk, born, var, prov>>
  PROVE  IInv' /\ (Signed => Signed')
BY DEF IInv, TypeOK, ChunksFit, Disjoint, ProvBorn, Placed, Signed,
       RefersTo, Live

(* Replaces and FreeOf when no chunk is given back. *)
LEMMA NothingReplaced ==
  ASSUME IInv, NEW b \in Bases, NEW k \in Nat, Fits(b, k, {})
  PROVE  Replaces(chunk) /\ FreeOf(b, k, chunk)
<1>1. chunk \in [Bases -> ChunkType]
  BY DEF IInv, TypeOK, ChunkType
<1> QED
  BY <1>1 DEF Fits, Replaces, FreeOf, Live

LEMMA MallocIInv ==
  ASSUME IInv, NEW v \in Vars, NEW n \in Sizes, Malloc(v, n)
  PROVE  IInv' /\ (Signed => Signed')
<1> DEFINE k == Granules(AllocSize(n))
<1>1. n \in Nat /\ k \in Nat /\ k > 0 /\ 8 + n <= 16 * k
  BY MallocRoom
<1>2. born < MaxObjects
  BY DEF Malloc, CallsAllocator
<1>3. CASE \E b \in Bases : Fits(b, k, {}) /\ NewObject(v, b, k, n, mem, chunk)
  <2>1. PICK b \in Bases : Fits(b, k, {}) /\ NewObject(v, b, k, n, mem, chunk)
    BY <1>3
  <2> HIDE DEF k
  <2>2. PICK m, c : m = mem /\ c = chunk
    OBVIOUS
  <2>3. NewObject(v, b, k, n, m, c)
    BY <2>1, <2>2 DEF NewObject
  <2>4. Replaces(c) /\ FreeOf(b, k, c)
    BY <1>1, <2>1, <2>2, NothingReplaced DEF Replaces, FreeOf
  <2>5. m \in [Words -> Nat]
    BY <2>2 DEF IInv, TypeOK
  <2>6. IInv'
    BY <1>1, <1>2, <2>3, <2>4, <2>5, NewObjectIInv, ZenonT(60)
  <2>7. KeepsIds(b, c, m)
    BY <2>2 DEF KeepsIds
  <2>8. Signed => Signed'
    BY <1>1, <1>2, <2>3, <2>4, <2>5, <2>7, NewObjectSigned, ZenonT(60)
  <2> QED
    BY <2>6, <2>8
<1>4. CASE Stop("nomem")
  BY <1>4, StopIInv DEF Statuses
<1> QED
  BY <1>3, <1>4 DEF Malloc

LEMMA CallocIInv ==
  ASSUME IInv, NEW v \in Vars, NEW n \in Sizes, NEW item \in Items,
         Calloc(v, item, n)
  PROVE  IInv' /\ (Signed => Signed')
<1> DEFINE k == Granules(item * ((n + 8) % SizeMod))
           s == item * n
           Zeroed(b) == [a \in Words |-> IF b <= a /\ a < b + 16 * k - 8
                                         THEN 0 ELSE mem[a]]
<1>1. s \in Nat /\ k \in Nat /\ k > 0 /\ 8 + s <= 16 * k
  BY CallocRoom
<1>2. born < MaxObjects
  BY DEF Calloc, CallsAllocator
<1>3. CASE \E b \in Bases : /\ Fits(b, k, {})
                            /\ NewObject(v, b, k, s, Zeroed(b), chunk)
  <2>1. PICK b \in Bases : /\ Fits(b, k, {})
                           /\ NewObject(v, b, k, s, Zeroed(b), chunk)
    BY <1>3
  <2> HIDE DEF k, s
  <2>2. PICK m, c : m = Zeroed(b) /\ c = chunk
    OBVIOUS
  <2>3. NewObject(v, b, k, s, m, c)
    BY <2>1, <2>2 DEF NewObject
  <2>4. Replaces(c) /\ FreeOf(b, k, c)
    BY <1>1, <2>1, <2>2, NothingReplaced DEF Replaces, FreeOf
  <2>5. m \in [Words -> Nat]
    BY <2>2 DEF IInv, TypeOK
  <2>6. KeepsIds(b, c, m)
    <3> SUFFICES ASSUME NEW d \in Bases, d # b, c[d].len > 0
                 PROVE  m[d] = mem[d]
      BY DEF KeepsIds
    <3>1. d \in Nat /\ b \in Nat /\ d \in Words /\ c[d].len \in Nat
      BY <2>2, Constants DEF IInv, TypeOK
    <3>2. d + 16 * c[d].len <= b \/ b + 16 * k <= d
      BY <2>4 DEF FreeOf
    <3> QED
      BY <1>1, <2>2, <3>1, <3>2
  <2> HIDE DEF Zeroed
  <2>7. IInv'
    BY <1>1, <1>2, <2>3, <2>4, <2>5, NewObjectIInv, ZenonT(60)
  <2>8. Signed => Signed'
    BY <1>1, <1>2, <2>3, <2>4, <2>5, <2>6, NewObjectSigned, ZenonT(60)
  <2> QED
    BY <2>7, <2>8
<1>4. CASE Stop("nomem")
  BY <1>4, StopIInv DEF Statuses
<1> QED
  BY <1>3, <1>4 DEF Calloc

(***************************************************************************)
(* realloc.  In place, the chunk changes its length and the object keeps   *)
(* its id; elsewhere, a new object replaces the old one.                   *)
(***************************************************************************)
LEMMA ResizedInPlaceIInv ==
  ASSUME IInv, NEW v \in Vars, NEW w \in Vars, NEW b \in Bases, Live(b),
         NEW k \in Nat, NEW n \in Nat \ {0}, 8 + n <= 16 * k,
         Fits(b, k, {b}), ResizedInPlace(v, w, b, k, n)
  PROVE  IInv' /\ (Signed => Signed')
<1>1. /\ chunk' = [chunk EXCEPT ![b] = [len |-> k, obj |-> @.obj, req |-> n]]
      /\ var' = [var EXCEPT ![w] = var[v]]
      /\ prov' = [prov EXCEPT ![w] = prov[v]]
      /\ touched' \in {"none", "foreign"}
      /\ tbi' = tbi /\ status' = status /\ now' = now
      /\ mem' = mem /\ born' = born
  BY DEF ResizedInPlace
<1>2. /\ chunk \in [Bases -> ChunkType]
      /\ var \in [Vars -> Pointer]
      /\ prov \in [Vars -> [obj : 0..MaxObjects, off : Nat]]
      /\ Bases \subseteq Nat /\ HeapEnd \in Nat
  BY Constants DEF IInv, TypeOK, ChunkType
<1>3. /\ chunk'[b].len = k /\ chunk'[b].req = n /\ chunk'[b].obj = chunk[b].obj
      /\ \A d \in Bases : d # b => chunk'[d] = chunk[d]
      /\ chunk' \in [Bases -> ChunkType]
  <2>1. chunk[b].obj \in 0..MaxObjects /\ n \in Nat
    BY <1>2 DEF ChunkType
  <2>2. [len |-> k, obj |-> chunk[b].obj, req |-> n] \in ChunkType
    BY <2>1 DEF ChunkType
  <2> QED
    BY <1>1, <1>2, <2>2
<1>4. /\ b + 16 * k <= HeapEnd
      /\ \A d \in Bases : d # b /\ Live(d) => \/ d + 16 * chunk[d].len <= b
                                               \/ b + 16 * k <= d
  BY DEF Fits
<1>5. /\ var' \in [Vars -> Pointer]
      /\ prov' \in [Vars -> [obj : 0..MaxObjects, off : Nat]]
      /\ \A u \in Vars : u # w => var'[u] = var[u] /\ prov'[u] = prov[u]
      /\ var'[w] = var[v] /\ prov'[w] = prov[v]
  BY <1>1, <1>2
<1>6. \A d \in Bases : Live(d)' => Live(d) /\ chunk'[d].obj = chunk[d].obj
  BY <1>3 DEF Live
<1>7. TypeOK'
  <2>1. \A u \in Vars : var'[u].addr \in Words \/ var'[u] = NULL
    <3>1. \A u \in Vars : var[u].addr \in Words \/ var[u] = NULL
      BY DEF IInv, TypeOK
    <3>2. var'[w].addr \in Words \/ var'[w] = NULL
      BY <1>5, <3>1
    <3> QED
      BY <1>5, <3>1, <3>2
  <2> QED
    BY <1>1, <1>3, <1>5, <2>1 DEF IInv, TypeOK, ChunkType, Touches
<1>8. ChunksFit'
  <2> SUFFICES ASSUME NEW d \in Bases, Live(d)'
               PROVE  /\ chunk'[d].obj \in 1..born'
                      /\ 8 + chunk'[d].req <= 16 * chunk'[d].len
                      /\ d + 16 * chunk'[d].len <= HeapEnd
    BY DEF ChunksFit
  <2>1. Live(d) /\ chunk'[d].obj \in 1..born'
    BY <1>1, <1>6 DEF IInv, ChunksFit
  <2>2. CASE d = b
    BY <1>3, <1>4, <2>1, <2>2
  <2>3. CASE d # b
    BY <1>3, <2>1, <2>3 DEF IInv, ChunksFit
  <2> QED
    BY <2>2, <2>3
<1>9. Disjoint'
  <2> SUFFICES ASSUME NEW d \in Bases, NEW e \in Bases,
                      Live(d)', Live(e)', d # e
               PROVE  \/ d + 16 * chunk'[d].len <= e
                      \/ e + 16 * chunk'[e].len <= d
    BY DEF Disjoint
  <2>1. Live(d) /\ Live(e)
    BY <1>6
  <2>2. CASE d # b /\ e # b
    BY <1>3, <2>1, <2>2 DEF IInv, Disjoint
  <2>3. CASE d = b
    BY <1>3, <1>4, <2>1, <2>3
  <2>4. CASE e = b
    BY <1>3, <1>4, <2>1, <2>4
  <2> QED
    BY <2>2, <2>3, <2>4
<1>10. ProvBorn'
  BY <1>1, <1>5 DEF IInv, ProvBorn
(* w refers to what v refers to. *)
<1>11. \A u \in Vars, d \in Bases : RefersTo(u, d)' =>
          \E x \in Vars : /\ RefersTo(x, d)
                         /\ var'[u] = var[x] /\ prov'[u] = prov[x]
  <2> SUFFICES ASSUME NEW u \in Vars, NEW d \in Bases, RefersTo(u, d)'
               PROVE  \E x \in Vars : /\ RefersTo(x, d)
                                     /\ var'[u] = var[x] /\ prov'[u] = prov[x]
    OBVIOUS
  <2>1. Live(d) /\ chunk[d].obj = prov'[u].obj
    BY <1>6 DEF RefersTo
  <2>2. CASE u = w
    BY <1>5, <2>1, <2>2 DEF RefersTo
  <2>3. CASE u # w
    BY <1>5, <2>1, <2>3 DEF RefersTo
  <2> QED
    BY <2>2, <2>3
<1>12. Placed'
  BY <1>11 DEF IInv, Placed
<1>13. Signed => Signed'
  BY <1>1, <1>11 DEF Signed
<1> QED
  BY <1>7, <1>8, <1>9, <1>10, <1>12, <1>13 DEF IInv

(* The allocator leaves a natural number in a chunk it takes back. *)
LEMMA AfterFreeWord ==
  ASSUME NEW x \in Nat, NEW first \in AfterFree(x)
  PROVE  first \in Nat
BY ProgramAssumption DEF AfterFree

(* memcpy reads in the chunk it copies. *)
LEMMA MovedFrom ==
  ASSUME IInv, NEW b \in Bases, Live(b), NEW c \in Bases,
         NEW a \in Words, c <= a, a < c + 16 * chunk[b].len - 8
  PROVE  a - c + b \in Words
<1> DEFINE l == chunk[b].len
<1>1. l \in Nat /\ b + 16 * l <= HeapEnd
  BY DEF IInv, TypeOK, ChunksFit
<1>2. /\ b \in Nat /\ b >= HeapBase /\ b % 16 = 0
      /\ c \in Nat /\ c % 16 = 0
  BY HeapAssumption DEF Bases
<1>3. a < c + 16 * l - 8
  OBVIOUS
<1> HIDE DEF l
<1>4. a \in Nat /\ a % 8 = 0
  BY HeapAssumption DEF Words
<1>5. (a - c + b) % 8 = 0
  BY <1>2, <1>4
<1>6. a - c + b \in HeapBase..(HeapEnd - 1)
  BY <1>1, <1>2, <1>3, <1>4, HeapAssumption
<1> QED
  BY <1>5, <1>6 DEF Words

LEMMA MovedWords ==
  ASSUME IInv, NEW b \in Bases, Live(b), NEW c \in Bases, NEW first \in Nat
  PROVE  Moved(b, c, chunk[b].len, first) \in [Words -> Nat]
<1>1. mem \in [Words -> Nat]
  BY DEF IInv, TypeOK
<1> QED
  BY <1>1, MovedFrom DEF Moved

LEMMA ResizedElsewhereIInv ==
  ASSUME IInv, born < MaxObjects,
         NEW v \in Vars, NEW w \in Vars, NEW b \in Bases, Live(b),
         NEW k \in Nat, NEW n \in Nat \ {0}, 8 + n <= 16 * k,
         k > chunk[b].len, ResizedElsewhere(v, w, b, k, n)
  PROVE  IInv' /\ (Signed => Signed')
<1> DEFINE l == chunk[b].len
           left == [chunk EXCEPT ![b] = None]
<1>1. PICK c \in Bases, first \in AfterFree(mem[b]) :
        /\ Fits(c, k, {})
        /\ NewObject(w, c, k, n, Moved(b, c, l, first), left)
  BY DEF ResizedElsewhere
<1>2. /\ chunk \in [Bases -> ChunkType] /\ l \in Nat /\ k > l /\ k > 0
      /\ Bases \subseteq Nat /\ Bases \subseteq Words
      /\ mem \in [Words -> Nat] /\ n \in Nat
  BY Constants DEF IInv, TypeOK, ChunkType
<1>3. first \in Nat
  BY <1>2, AfterFreeWord
<1>4. PICK m, e : m = Moved(b, c, l, first) /\ e = left
  OBVIOUS
<1>5. NewObject(w, c, k, n, m, e)
  BY <1>1, <1>4 DEF NewObject
<1>6. m \in [Words -> Nat]
  BY <1>3, <1>4, MovedWords
<1>7. /\ e \in [Bases -> ChunkType]
      /\ \A d \in Bases : e[d] = chunk[d] \/ e[d] = None
      /\ \A d \in Bases : e[d].len > 0 => d # b /\ Live(d) /\ e[d] = chunk[d]
  <2>1. None \in ChunkType
    BY Constants DEF None, ChunkType
  <2> QED
    BY <1>2, <1>4, <2>1 DEF None, Live
<1>8. /\ c + 16 * k <= HeapEnd
      /\ \A d \in Bases : e[d].len > 0 => \/ d + 16 * e[d].len <= c
                                          \/ c + 16 * k <= d
  BY <1>1, <1>7 DEF Fits
<1>9. Replaces(e) /\ FreeOf(c, k, e)
  BY <1>7, <1>8 DEF Replaces, FreeOf
<1>10. KeepsIds(c, e, m)
  <2> SUFFICES ASSUME NEW d \in Bases, d # c, e[d].len > 0
               PROVE  m[d] = mem[d]
    BY DEF KeepsIds
  <2>1. d # b /\ d \in Words /\ d \in Nat /\ e[d].len \in Nat
    BY <1>2, <1>7 DEF ChunkType
  <2>2. ~(c <= d /\ d < c + 16 * l - 8)
    BY <1>2, <1>8, <2>1
  <2> QED
    BY <1>4, <2>1, <2>2 DEF Moved
<1> HIDE DEF l, left
<1>11. IInv'
  BY <1>2, <1>5, <1>6, <1>9, NewObjectIInv, ZenonT(60)
<1>12. Signed => Signed'
  BY <1>2, <1>5, <1>6, <1>9, <1>10, NewObjectSigned, ZenonT(60)
<1> QED
  BY <1>11, <1>12

LEMMA ReallocIInv ==
  ASSUME IInv, NEW v \in Vars, NEW w \in Vars, NEW n \in ReallocSizes,
         Realloc(v, w, n)
  PROVE  IInv' /\ (Signed => Signed')
<1> DEFINE b == var[v].addr - 8
           k == Granules(n)
<1>1. n \in Nat \ {0} /\ n \in Nat
  BY SizesAssumption
<1>2. k \in Nat /\ 8 + n <= 16 * k
  BY <1>1, GranulesSuffice
<1>3. born < MaxObjects
  BY DEF Realloc, CallsAllocator
<1>4. CASE Stop("badfree") \/ Stop("corrupted") \/ Stop("nomem")
  BY <1>4, StopIInv DEF Statuses
<1>5. CASE /\ b \in Bases /\ Live(b) /\ Fits(b, k, {b})
           /\ ResizedInPlace(v, w, b, k, n)
  <2> HIDE DEF k
  <2>1. PICK c \in Bases : c = b
    BY <1>5
  <2>2. Live(c) /\ Fits(c, k, {c}) /\ ResizedInPlace(v, w, c, k, n)
    BY <1>5, <2>1
  <2> QED
    BY <1>1, <1>2, <2>2, ResizedInPlaceIInv, ZenonT(60)
<1>6. CASE /\ b \in Bases /\ Live(b) /\ k > chunk[b].len
           /\ ResizedElsewhere(v, w, b, k, n)
  <2> HIDE DEF k
  <2>1. PICK c \in Bases : c = b
    BY <1>6
  <2>2. Live(c) /\ k > chunk[c].len /\ ResizedElsewhere(v, w, c, k, n)
    BY <1>6, <2>1
  <2> QED
    BY <1>1, <1>2, <1>3, <2>2, ResizedElsewhereIInv, ZenonT(60)
<1> QED
  BY <1>4, <1>5, <1>6 DEF Realloc

(* What the invariant says of one chunk. *)
LEMMA OneChunk ==
  ASSUME IInv, NEW b \in Bases
  PROVE  /\ b \in Nat /\ b \in Words
         /\ chunk[b].len \in Nat /\ chunk[b].req \in Nat
         /\ Live(b) => /\ 8 + chunk[b].req <= 16 * chunk[b].len
                       /\ b + 16 * chunk[b].len <= HeapEnd
<1>1. b \in Nat /\ b \in Words
  BY Constants
<1>2. chunk[b] \in [len : Nat, obj : 0..MaxObjects, req : Nat]
  BY DEF IInv, TypeOK
<1>3. chunk[b].len \in Nat /\ chunk[b].req \in Nat
  BY <1>2
<1> QED
  BY <1>1, <1>3 DEF IInv, ChunksFit

LEMMA FreeIInv ==
  ASSUME IInv, NEW v \in Vars, Free(v)
  PROVE  IInv' /\ (Signed => Signed')
<1> DEFINE meta == var[v].addr - 8
           ptr == autia(var[v], mem[meta])
<1>1. CASE touched' = "none" /\
           UNCHANGED <<tbi, status, now, mem, chunk, born, var, prov>>
  BY <1>1, UnchangedIInv DEF Touches
<1>2. CASE StopAt(IF ptr.sig # 0 THEN "reported" ELSE "badfree", v)
  BY <1>2, StopAtIInv DEF Statuses
<1>3. CASE Stop("corrupted")
  BY <1>3, StopIInv DEF Statuses
<1>4. CASE /\ meta \in Bases /\ Live(meta)
           /\ \E first \in AfterFree(Tombstone(mem[meta])) :
                mem' = [mem EXCEPT ![meta] = first]
           /\ chunk' = [chunk EXCEPT ![meta] = None]
           /\ touched' = IF RefersTo(v, meta) THEN "none" ELSE "foreign"
           /\ UNCHANGED <<tbi, status, now, born, var, prov>>
  <2>1. PICK first \in AfterFree(Tombstone(mem[meta])) :
          mem' = [mem EXCEPT ![meta] = first]
    BY <1>4
  <2>2. PICK b \in Bases : b = meta
    BY <1>4
  <2>3. first \in Nat
    <3>1. Tombstone(mem[meta]) \in Nat
      BY DEF Tombstone
    <3> QED
      BY <2>1, <3>1, AfterFreeWord
  <2>4. /\ mem' = [mem EXCEPT ![b] = first]
        /\ chunk' = [chunk EXCEPT ![b] = None]
        /\ touched' \in {"none", "foreign"}
    BY <1>4, <2>1, <2>2
  <2> HIDE DEF meta, ptr
  <2>5. None \in [len : Nat, obj : 0..MaxObjects, req : Nat]
    BY Constants DEF None
  <2>6. TypeOK'
    <3>1. mem' \in [Words -> Nat]
      BY <2>3, <2>4, Constants DEF IInv, TypeOK
    <3>2. chunk' \in [Bases -> [len : Nat, obj : 0..MaxObjects, req : Nat]]
      BY <2>4, <2>5 DEF IInv, TypeOK
    <3>3. touched' \in Touches
      BY <2>4 DEF Touches
    <3>4. UNCHANGED <<tbi, status, now, born, var, prov>>
      BY <1>4
    <3> QED
      BY <3>1, <3>2, <3>3, <3>4 DEF IInv, TypeOK
  <2>7. \A d \in Bases : Live(d)' =>
          d # b /\ Live(d) /\ chunk'[d] = chunk[d] /\ mem'[d] = mem[d]
    <3>1. /\ chunk'[b].len = 0
          /\ \A d \in Bases : d # b => chunk'[d] = chunk[d] /\ mem'[d] = mem[d]
      BY <2>4, Constants DEF IInv, TypeOK, None
    <3> QED
      BY <3>1 DEF Live
  <2>8. ChunksFit' /\ Disjoint'
    BY <1>4, <2>7 DEF IInv, ChunksFit, Disjoint
  <2>9. ProvBorn' /\ Placed' /\ (Signed => Signed')
    BY <1>4, <2>7 DEF IInv, ProvBorn, Placed, Signed, RefersTo
  <2> QED
    BY <2>6, <2>8, <2>9 DEF IInv
<1> QED
  BY <1>1, <1>2, <1>3, <1>4 DEF Free

LEMMA LoadIInv ==
  ASSUME IInv, NEW v \in Vars, Load(v)
  PROVE  IInv' /\ (Signed => Signed')
BY UnchangedIInv DEF Load, Reached, Touches

LEMMA RejectIInv ==
  ASSUME IInv, NEW v \in Vars, Reject(v)
  PROVE  IInv' /\ (Signed => Signed')
BY StopAtIInv DEF Reject, Statuses

LEMMA StoreIInv ==
  ASSUME IInv, NEW v \in Vars, NEW d \in Data, Store(v, d)
  PROVE  IInv'
<1>1. /\ mem' = [mem EXCEPT ![var[v].addr] = d] /\ d \in Nat
      /\ touched' \in Touches
      /\ UNCHANGED <<tbi, status, now, chunk, born, var, prov>>
  BY ProgramAssumption DEF Store, Reached, Touches
<1>2. mem' \in [Words -> Nat]
  BY <1>1 DEF IInv, TypeOK
<1>3. TypeOK'
  BY <1>1, <1>2 DEF IInv, TypeOK
<1>4. ChunksFit' /\ Disjoint' /\ ProvBorn' /\ Placed'
  BY <1>1 DEF IInv, ChunksFit, Disjoint, ProvBorn, Placed, RefersTo, Live
<1> QED
  BY <1>3, <1>4 DEF IInv

(* What the invariant says of one variable. *)
LEMMA OneVar ==
  ASSUME IInv, NEW v \in Vars
  PROVE  /\ var[v] \in Pointer
         /\ prov[v].obj \in Nat
         /\ prov[v].off \in Nat
<1>1. prov[v] \in [obj : 0..MaxObjects, off : Nat] /\ var[v] \in Pointer
  BY DEF IInv, TypeOK
<1>2. prov[v].obj \in 0..MaxObjects /\ prov[v].off \in Nat
  BY <1>1
<1>3. PICK x \in 0..MaxObjects : x = prov[v].obj
  BY <1>2
<1>4. x \in Nat
  BY Constants
<1> QED
  BY <1>1, <1>2, <1>3, <1>4

(* Inside an object there is no id, its own or another's. *)
LEMMA InsideIsNoId ==
  ASSUME IInv, NEW v \in Vars, NEW b \in Bases, RefersTo(v, b),
         prov[v].off < chunk[b].req, NEW c \in Bases, Live(c)
  PROVE  c # var[v].addr
<1> DEFINE off == prov[v].off
           l == chunk[b].len
           req == chunk[b].req
<1>1. var[v].addr = b + 8 + off
  BY DEF IInv, Placed
<1>2. /\ Live(b) /\ 8 + req <= 16 * l
      /\ b \in Nat /\ req \in Nat /\ l \in Nat
      /\ c \in Nat /\ chunk[c].len \in Nat
  BY OneChunk DEF RefersTo
<1>3. off \in Nat
  BY OneVar
<1>4. off < req
  OBVIOUS
<1> HIDE DEF off, l, req
<1>5. CASE c = b
  BY <1>1, <1>2, <1>3, <1>5
<1>6. CASE c # b
  <2>1. b + 16 * l <= c \/ c + 16 * chunk[c].len <= b
    BY <1>2, <1>6 DEF IInv, Disjoint, l
  <2> QED
    BY <1>1, <1>2, <1>3, <1>4, <2>1
<1> QED
  BY <1>5, <1>6

(* A store through a pointer to a live object overwrites no id. *)
LEMMA StoreSigned ==
  ASSUME IInv, Signed, NEW v \in Vars, ~Dangling(v), NEW d \in Data, Store(v, d)
  PROVE  Signed'
<1>1. PICK b \in Bases : RefersTo(v, b) /\ prov[v].off < chunk[b].req
  BY DEF Store, MayUse
<1>2. /\ mem' = [mem EXCEPT ![var[v].addr] = d]
      /\ chunk' = chunk /\ var' = var /\ prov' = prov
  BY DEF Store
<1>3. \A c \in Bases : Live(c) => mem'[c] = mem[c]
  <2> SUFFICES ASSUME NEW c \in Bases, Live(c) PROVE mem'[c] = mem[c]
    OBVIOUS
  <2>1. c # var[v].addr
    BY <1>1, InsideIsNoId
  <2>2. c \in Words /\ mem \in [Words -> Nat]
    BY Constants DEF IInv, TypeOK
  <2> QED
    BY <1>2, <2>1, <2>2
<1> SUFFICES ASSUME NEW w \in Vars, NEW c \in Bases, RefersTo(w, c)'
             PROVE  mem'[c] # 0 /\ var'[w].sig = Signature(c + 8, mem'[c])
  BY DEF Signed
<1>4. RefersTo(w, c) /\ Live(c)
  BY <1>2 DEF RefersTo, Live
<1>5. mem[c] # 0 /\ var[w].sig = Signature(c + 8, mem[c])
  BY <1>4 DEF Signed
<1> QED
  BY <1>2, <1>3, <1>4, <1>5

LEMMA DeriveIInv ==
  ASSUME IInv, NEW v \in Vars, NEW w \in Vars, NEW off \in Offsets,
         Derive(v, w, off)
  PROVE  IInv' /\ (Signed => Signed')
<1>1. PICK b \in Bases : RefersTo(v, b) /\ off < chunk[b].req
  BY DEF Derive
<1>2. off \in Nat /\ off % 8 = 0
  BY ProgramAssumption
<1>3. /\ prov[v].off = 0
      /\ var' = [var EXCEPT ![w] = [var[v] EXCEPT !.addr = @ + off]]
      /\ prov' = [prov EXCEPT ![w] = [prov[v] EXCEPT !.off = off]]
      /\ touched' = "none"
      /\ UNCHANGED <<tbi, status, now, mem, chunk, born>>
  BY DEF Derive
<1>4. /\ var \in [Vars -> Pointer]
      /\ prov \in [Vars -> [obj : 0..MaxObjects, off : Nat]]
      /\ Words \subseteq Nat /\ Bases \subseteq Nat
  BY Constants DEF IInv, TypeOK
<1>5. \A d \in Bases : RefersTo(v, d) => var[v].addr = d + 8
  BY <1>3, <1>4 DEF IInv, Placed
<1>6. var[v].addr = b + 8 /\ b + 8 + off \in Words
  <2>1. /\ b + 16 * chunk[b].len <= HeapEnd
        /\ 8 + chunk[b].req <= 16 * chunk[b].len
        /\ chunk[b].req \in Nat /\ chunk[b].len \in Nat /\ b \in Nat
    BY <1>1, OneChunk DEF RefersTo
  <2>2. b + 8 + off < HeapEnd
    BY <1>1, <1>2, <2>1, Constants
  <2> QED
    BY <1>1, <1>2, <1>5, <2>2, WordsAbove
<1>7. /\ var'[w] = [sig |-> var[v].sig, addr |-> var[v].addr + off]
      /\ prov'[w] = [obj |-> prov[v].obj, off |-> off]
      /\ \A u \in Vars : u # w => var'[u] = var[u] /\ prov'[u] = prov[u]
      /\ var' \in [Vars -> Pointer]
      /\ prov' \in [Vars -> [obj : 0..MaxObjects, off : Nat]]
  <2>1. var[v] \in Pointer /\ prov[v] \in [obj : 0..MaxObjects, off : Nat]
    BY <1>4
  <2>2. var[v].addr + off \in Nat
    BY <1>2, <2>1 DEF Pointer
  <2>3. /\ [var[v] EXCEPT !.addr = @ + off] =
             [sig |-> var[v].sig, addr |-> var[v].addr + off]
        /\ [var[v] EXCEPT !.addr = @ + off] \in Pointer
    BY <2>1, <2>2 DEF Pointer
  <2>4. /\ [prov[v] EXCEPT !.off = off] = [obj |-> prov[v].obj, off |-> off]
        /\ [prov[v] EXCEPT !.off = off] \in [obj : 0..MaxObjects, off : Nat]
    BY <1>2, <2>1
  <2> QED
    BY <1>3, <1>4, <2>3, <2>4
<1>8. TypeOK'
  <2>1. \A u \in Vars : var'[u].addr \in Words \/ var'[u] = NULL
    <3>1. \A u \in Vars : var[u].addr \in Words \/ var[u] = NULL
      BY DEF IInv, TypeOK
    <3>2. var'[w].addr \in Words
      BY <1>6, <1>7
    <3> QED
      BY <1>7, <3>1, <3>2
  <2> QED
    BY <1>3, <1>7, <2>1 DEF IInv, TypeOK, Touches
<1>9. ChunksFit' /\ Disjoint'
  BY <1>3 DEF IInv, ChunksFit, Disjoint, Live
<1>10. ProvBorn'
  BY <1>3, <1>7 DEF IInv, ProvBorn
<1>11. ASSUME NEW u \in Vars, NEW d \in Bases, RefersTo(u, d)'
       PROVE  /\ var'[u].addr = d + 8 + prov'[u].off
              /\ Signed => mem'[d] # 0 /\ var'[u].sig = Signature(d + 8, mem'[d])
  <2>1. CASE u = w
    <3>1. RefersTo(v, d)
      BY <1>3, <1>7, <1>11, <2>1 DEF RefersTo, Live
    <3>2. var[v].addr = d + 8 /\ d \in Nat
      BY <1>4, <1>5, <3>1
    <3>3. var'[u].addr = d + 8 + prov'[u].off
      BY <1>2, <1>7, <2>1, <3>2
    <3>4. Signed => mem'[d] # 0 /\ var'[u].sig = Signature(d + 8, mem'[d])
      BY <1>3, <1>7, <2>1, <3>1 DEF Signed
    <3> QED
      BY <3>3, <3>4
  <2>2. CASE u # w
    <3>1. RefersTo(u, d)
      BY <1>3, <1>7, <1>11, <2>2 DEF RefersTo, Live
    <3> QED
      BY <1>3, <1>7, <2>2, <3>1 DEF IInv, Placed, Signed
  <2> QED
    BY <2>1, <2>2
<1>12. Placed' /\ (Signed => Signed')
  BY <1>11 DEF Placed, Signed
<1> QED
  BY <1>8, <1>9, <1>10, <1>12 DEF IInv

-----------------------------------------------------------------------------
(* Every step of the library and the program. *)

LEMMA NextIInv == IInv /\ [Next]_vars => IInv'
<1> SUFFICES ASSUME IInv, [Next]_vars PROVE IInv'
  OBVIOUS
<1>1. CASE UNCHANGED vars
  BY <1>1 DEF vars, IInv, TypeOK, ChunksFit, Disjoint, ProvBorn, Placed,
              RefersTo, Live
<1>2. CASE NoTBI
  BY <1>2, StopIInv DEF NoTBI, Statuses
<1>3. CASE \E v \in Vars, n \in Sizes : Malloc(v, n)
  BY <1>3, MallocIInv
<1>4. CASE \E v \in Vars, n \in Sizes, item \in Items : Calloc(v, item, n)
  BY <1>4, CallocIInv
<1>5. CASE \E v, w \in Vars, n \in ReallocSizes : Realloc(v, w, n)
  BY <1>5, ReallocIInv
<1>6. CASE \E v \in Vars : Free(v) \/ Load(v) \/ Reject(v)
  BY <1>6, FreeIInv, LoadIInv, RejectIInv
<1>7. CASE \E v \in Vars, d \in Data : Store(v, d)
  BY <1>7, StoreIInv
<1>8. CASE \E v, w \in Vars, off \in Offsets : Derive(v, w, off)
  BY <1>8, DeriveIInv
<1> QED
  BY <1>1, <1>2, <1>3, <1>4, <1>5, <1>6, <1>7, <1>8 DEF Next

LEMMA NextSigned ==
  ASSUME "use after free" \notin Errors, IInv, Signed, [Next]_vars
  PROVE  Signed'
<1>1. CASE UNCHANGED vars
  BY <1>1 DEF vars, Signed, RefersTo, Live
<1>2. CASE NoTBI
  BY <1>2, StopIInv DEF NoTBI, Statuses
<1>3. CASE \E v \in Vars, n \in Sizes : Malloc(v, n)
  BY <1>3, MallocIInv
<1>4. CASE \E v \in Vars, n \in Sizes, item \in Items : Calloc(v, item, n)
  BY <1>4, CallocIInv
<1>5. CASE \E v, w \in Vars, n \in ReallocSizes : Realloc(v, w, n)
  BY <1>5, ReallocIInv
<1>6. CASE \E v \in Vars : Free(v) \/ Load(v) \/ Reject(v)
  BY <1>6, FreeIInv, LoadIInv, RejectIInv
<1>7. CASE \E v \in Vars, d \in Data : Store(v, d)
  <2>1. \A v \in Vars, d \in Data : Store(v, d) => ~Dangling(v)
    BY DEF Store, MayUse, Dangling
  <2> QED
    BY <1>7, <2>1, StoreSigned
<1>8. CASE \E v, w \in Vars, off \in Offsets : Derive(v, w, off)
  BY <1>8, DeriveIInv
<1> QED
  BY <1>1, <1>2, <1>3, <1>4, <1>5, <1>6, <1>7, <1>8 DEF Next

-----------------------------------------------------------------------------
(* What the invariant says of the checks. *)

(* A signature made of a word and an address verifies against them. *)
LEMMA OwnIdVouches ==
  ASSUME NEW a \in Nat, a > 0, NEW id \in Nat, NEW p \in Pointer,
         p.addr = a, p.sig = Signature(a, id)
  PROVE  autia(p, id) # NULL
<1>1. xpac(p) = [sig |-> 0, addr |-> a]
  BY DEF xpac, Pointer
<1>2. pacia(xpac(p), id).sig = Signature(a, id)
  BY <1>1 DEF pacia
<1>3. autia(p, id) = [sig |-> 0, addr |-> a]
  BY <1>1, <1>2 DEF autia
<1> QED
  BY <1>3 DEF NULL

LEMMA SignedPasses == IInv /\ Signed => LivePasses
<1> SUFFICES ASSUME IInv, Signed,
                    NEW v \in Vars, Reaches(v),
                    NEW b \in Bases, RefersTo(v, b)
             PROVE  Passes(var[v])
  BY DEF LivePasses
<1> DEFINE p == var[v]
<1>1. /\ p.addr = b + 8 + prov[v].off
      /\ mem[b] # 0 /\ p.sig = Signature(b + 8, mem[b])
  BY DEF IInv, Placed, Signed
<1>2. prov[v].off \in Nat /\ prov[v].off < Threshold - 8 /\ p \in Pointer
  BY OneVar DEF Reaches, Reach
<1>3. b \in Nat /\ b \in Words /\ mem \in [Words -> Nat]
  BY OneChunk DEF IInv, TypeOK
<1>4. p.addr - Threshold < b /\ b < p.addr
  BY <1>1, <1>2, <1>3, Constants
<1>5. b \in Window(p)
  BY <1>4 DEF Window
<1> DEFINE q == [sig |-> p.sig, addr |-> b + 8]
<1>6. q \in Pointer /\ q.addr = b + 8 /\ q.sig = Signature(b + 8, mem[b])
  BY <1>1, <1>2, <1>3 DEF Pointer
<1>7. b + 8 \in Nat /\ b + 8 > 0 /\ mem[b] \in Nat
  BY <1>3
<1>8. autia(q, mem[b]) # NULL
  <2> HIDE DEF q, p
  <2> QED
    BY <1>6, <1>7, OwnIdVouches
<1>9. Vouches(p.sig, b + 8, mem[b])
  BY <1>1, <1>8 DEF Vouches
<1>10. Word(b) = mem[b]
  BY <1>3 DEF Word
<1> QED
  BY <1>5, <1>9, <1>10 DEF Passes

LEMMA SignedFreeable == IInv /\ Signed => LiveFreeable
<1> SUFFICES ASSUME IInv, Signed, NEW v \in Vars, NEW b \in Bases,
                    RefersTo(v, b), prov[v].off = 0
             PROVE  var[v].addr = b + 8 /\ autia(var[v], mem[b]) # NULL
  BY DEF LiveFreeable
<1>1. b \in Nat /\ b \in Words /\ mem \in [Words -> Nat]
  BY OneChunk DEF IInv, TypeOK
<1>2. var[v].addr = b + 8 /\ var[v].sig = Signature(b + 8, mem[b])
  BY <1>1 DEF IInv, Placed, Signed
<1>3. b + 8 \in Nat /\ b + 8 > 0 /\ mem[b] \in Nat /\ var[v] \in Pointer
  BY <1>1, OneVar
<1> QED
  BY <1>2, <1>3, OwnIdVouches

(* A check rejects no pointer to a live object whose id it reaches. *)
LEMMA RejectsForCause ==
  ASSUME IInv, Signed, NEW v \in Vars, Reject(v)
  PROVE  ~Reaches(v) \/ "use after free" \in Errors
<1> SUFFICES ASSUME Reaches(v), "use after free" \notin Errors PROVE FALSE
  OBVIOUS
<1>1. \E b \in Bases : RefersTo(v, b)
  BY DEF Reject, MayUse
<1>2. Passes(var[v])
  BY <1>1, SignedPasses DEF LivePasses
<1> QED
  BY <1>2 DEF Reject, Continues

-----------------------------------------------------------------------------
(* The theorems. *)

(***************************************************************************)
(* Whatever the program does wrong, pointers, heap and allocator stay in   *)
(* their ranges: the wrappers hand out addresses inside the heap, and a    *)
(* store goes to a word of the heap or nowhere.                            *)
(***************************************************************************)
THEOREM TypeCorrect == Spec => []TypeOK
<1>1. Init => IInv
  BY InitIInv
<1>2. IInv => TypeOK
  BY DEF IInv
<1> QED
  BY <1>1, <1>2, NextIInv, PTL DEF Spec

(* The program never uses what it freed (it may free and resize it). *)
Tame == IInv /\ Signed

LEMMA SpecTame ==
  ASSUME "use after free" \notin Errors
  PROVE  Spec => []Tame
<1>1. Init => Tame
  BY InitIInv DEF Tame
<1>2. Tame /\ [Next]_vars => Tame'
  BY NextIInv, NextSigned DEF Tame
<1> QED
  BY <1>1, <1>2, PTL DEF Spec

(***************************************************************************)
(* The checks of the library accept every pointer less than Reach bytes    *)
(* into a live object of any size, for every program that does not write   *)
(* through a dangling pointer: also after resizing, moving and freeing     *)
(* other objects, double frees and stale reallocs included.                *)
(***************************************************************************)
THEOREM LiveAlwaysPasses ==
  ASSUME "use after free" \notin Errors
  PROVE  Spec => []LivePasses
<1>1. Tame => LivePasses
  BY SignedPasses DEF Tame
<1> QED
  BY <1>1, SpecTame, PTL

(* __ptauth_free accepts every pointer the wrappers returned for a live    *)
(* object.                                                                 *)
THEOREM LiveAlwaysFreeable ==
  ASSUME "use after free" \notin Errors
  PROVE  Spec => []LiveFreeable
<1>1. Tame => LiveFreeable
  BY SignedFreeable DEF Tame
<1> QED
  BY <1>1, SpecTame, PTL

(***************************************************************************)
(* In a program that uses nothing it freed, a check rejects a pointer only *)
(* if it points Reach bytes or more into its object, where the search does *)
(* not get down to the id: whatever else the program does wrong, and for   *)
(* objects of any size.                                                    *)
(***************************************************************************)
THEOREM NoFalseAlarms == Spec => NoFalseAlarm
<1> DEFINE A == \A v \in Vars :
                  Reject(v) => ~Reaches(v) \/ "use after free" \in Errors
<1>1. CASE "use after free" \notin Errors
  <2>1. Tame /\ [Next]_vars => [A]_vars
    BY RejectsForCause DEF Tame
  <2>2. Spec => []Tame
    BY <1>1, SpecTame
  <2>3. Spec => [][A]_vars
    BY <2>1, <2>2, PTL DEF Spec
  <2> QED
    BY <2>3 DEF NoFalseAlarm
<1>2. CASE "use after free" \in Errors
  <2>1. [Next]_vars => [A]_vars
    BY <1>2
  <2>2. Spec => [][A]_vars
    BY <2>1, PTL DEF Spec
  <2> QED
    BY <2>2 DEF NoFalseAlarm
<1> QED
  BY <1>1, <1>2

-----------------------------------------------------------------------------
(* Room. *)

LEMMA NewObjectCapacity ==
  ASSUME IInv, Capacity, NEW v \in Vars, NEW b \in Bases, NEW k \in Nat,
         NEW n \in Nat, NEW m, 16 + n <= 16 * k, NEW c, Replaces(c),
         NewObject(v, b, k, n, m, c)
  PROVE  Capacity'
<1>1. /\ chunk'[b] = [len |-> k, obj |-> born + 1, req |-> n]
      /\ \A d \in Bases : d # b => chunk'[d] = c[d]
      /\ \A d \in Bases : c[d] = chunk[d] \/ c[d].len = 0
  BY DEF NewObject, Replaces, None
<1> SUFFICES ASSUME NEW d \in Bases, Live(d)'
             PROVE  8 + chunk'[d].req <= 16 * chunk'[d].len - 8
  BY DEF Capacity
<1>2. CASE d = b
  BY <1>1, <1>2
<1>3. CASE d # b
  BY <1>1, <1>3 DEF Capacity, Live
<1> QED
  BY <1>2, <1>3

LEMMA ReallocCapacity ==
  ASSUME RoomyReallocs, IInv, Capacity,
         NEW v \in Vars, NEW w \in Vars, NEW n \in ReallocSizes,
         Realloc(v, w, n)
  PROVE  Capacity'
<1> DEFINE x == var[v].addr - 8
           k == Granules(n)
<1>1. n \in Nat /\ k \in Nat /\ 16 + n <= 16 * k
  <2>1. n \in Nat
    BY SizesAssumption
  <2>2. k \in Nat
    BY <2>1, GranulesSuffice
  <2> QED
    BY <2>1, <2>2 DEF RoomyReallocs
<1> HIDE DEF k
<1>2. CASE Stop("badfree") \/ Stop("corrupted") \/ Stop("nomem")
  BY <1>2 DEF Stop, StopAt, Capacity, Live
<1>3. CASE x \in Bases /\ ResizedInPlace(v, w, x, k, n)
  <2>1. PICK b \in Bases : b = x /\ ResizedInPlace(v, w, b, k, n)
    BY <1>3
  <2>2. /\ chunk'[b].len = k /\ chunk'[b].req = n
        /\ \A d \in Bases : d # b => chunk'[d] = chunk[d]
    BY <2>1 DEF ResizedInPlace, IInv, TypeOK
  <2> QED
    BY <1>1, <2>2 DEF Capacity, Live
<1>4. CASE x \in Bases /\ ResizedElsewhere(v, w, x, k, n)
  <2>1. PICK b \in Bases : b = x /\ ResizedElsewhere(v, w, b, k, n)
    BY <1>4
  <2>2. PICK e : e = [chunk EXCEPT ![b] = None]
    OBVIOUS
  <2>3. PICK c \in Bases : \E m : NewObject(w, c, k, n, m, e)
    BY <2>1, <2>2 DEF ResizedElsewhere
  <2>4. PICK m : NewObject(w, c, k, n, m, e)
    BY <2>3
  <2>5. Replaces(e)
    <3>1. None \in ChunkType
      BY Constants DEF None, ChunkType
    <3> QED
      BY <2>2, <3>1 DEF Replaces, IInv, TypeOK, ChunkType
  <2> QED
    BY <1>1, <2>4, <2>5, NewObjectCapacity, ZenonT(60)
<1> QED
  BY <1>2, <1>3, <1>4 DEF Realloc, k

LEMMA MallocCapacity ==
  ASSUME IInv, Capacity, NEW v \in Vars, NEW n \in Sizes, Malloc(v, n)
  PROVE  Capacity'
<1> DEFINE k == Granules(AllocSize(n))
<1>1. n \in Nat /\ k \in Nat /\ 16 + n <= 16 * k
  BY MallocRoom
<1>2. CASE Stop("nomem")
  BY <1>2 DEF Stop, StopAt, Capacity, Live
<1>3. CASE \E b \in Bases : Fits(b, k, {}) /\ NewObject(v, b, k, n, mem, chunk)
  <2>1. PICK m, c : m = mem /\ c = chunk
    OBVIOUS
  <2>2. PICK b \in Bases : NewObject(v, b, k, n, m, c) /\ Fits(b, k, {})
    BY <1>3, <2>1
  <2> HIDE DEF k
  <2>3. Replaces(c)
    BY <1>1, <2>1, <2>2, NothingReplaced DEF Replaces
  <2> QED
    BY <1>1, <2>2, <2>3, NewObjectCapacity, ZenonT(60)
<1> QED
  BY <1>2, <1>3 DEF Malloc

LEMMA FreeCapacity ==
  ASSUME IInv, Capacity, NEW v \in Vars, Free(v)
  PROVE  Capacity'
<1> DEFINE meta == var[v].addr - 8
<1>1. \/ UNCHANGED chunk
      \/ meta \in Bases /\ chunk' = [chunk EXCEPT ![meta] = None]
  BY DEF Free, Stop, StopAt
<1>2. CASE UNCHANGED chunk
  BY <1>2 DEF Capacity, Live
<1>3. CASE meta \in Bases /\ chunk' = [chunk EXCEPT ![meta] = None]
  <2>1. \A c \in Bases : Live(c)' => chunk'[c] = chunk[c] /\ Live(c)
    BY <1>3 DEF IInv, TypeOK, Live, None
  <2> QED
    BY <2>1 DEF Capacity
<1> QED
  BY <1>1, <1>2, <1>3

LEMMA NextCapacity ==
  ASSUME RoomyReallocs, IInv, Capacity, [Next]_vars
  PROVE  Capacity'
<1>1. CASE UNCHANGED chunk
  BY <1>1 DEF Capacity, Live
<1>2. CASE \E s \in Statuses : Stop(s)
  BY <1>1, <1>2 DEF Stop, StopAt
<1>3. ASSUME NEW v \in Vars, NEW n \in Sizes, Malloc(v, n) PROVE Capacity'
  BY <1>3, MallocCapacity
<1>4. ASSUME NEW v \in Vars, NEW n \in Sizes, NEW item \in Items,
             Calloc(v, item, n)
      PROVE  Capacity'
  <2> DEFINE k == Granules(item * ((n + 8) % SizeMod))
             size == item * n
  <2>1. /\ size \in Nat /\ k \in Nat /\ k >= 2
        /\ item > 0 => 16 + size <= 16 * k
    BY CallocRoom
  <2>2. size \in Nat /\ 16 + size <= 16 * k
    <3>1. n \in Nat /\ item \in Nat
      BY SizesAssumption
    <3>2. CASE item = 0
      BY <2>1, <3>1, <3>2
    <3>3. CASE item > 0
      BY <2>1, <3>3
    <3> QED
      BY <3>1, <3>2, <3>3
  <2>3. CASE Stop("nomem")
    BY <1>2, <2>3 DEF Statuses
  <2>4. CASE ~Stop("nomem")
    <3>1. PICK b \in Bases :
            Fits(b, k, {}) /\ \E m : NewObject(v, b, k, size, m, chunk)
      BY <1>4, <2>4 DEF Calloc
    <3>2. PICK m : NewObject(v, b, k, size, m, chunk)
      BY <3>1
    <3>3. PICK g \in Nat, s \in Nat, c \in {chunk} : g = k /\ s = size
      BY <2>1, <2>2
    <3>4. NewObject(v, b, g, s, m, c) /\ 16 + s <= 16 * g
      BY <2>2, <3>2, <3>3
    <3>5. Replaces(c)
      BY <2>1, <3>1, <3>3, NothingReplaced DEF Replaces
    <3> QED
      BY <3>4, <3>5, NewObjectCapacity, ZenonT(60)
  <2> QED
    BY <2>3, <2>4
<1>5. ASSUME NEW v \in Vars, Free(v) PROVE Capacity'
  BY <1>5, FreeCapacity
<1>6. CASE \E v \in Vars : Load(v) \/ Reject(v)
  BY <1>1, <1>6 DEF Load, Reject, Stop, StopAt
<1>7. CASE \/ \E v \in Vars, d \in Data : Store(v, d)
           \/ \E v, w \in Vars, off \in Offsets : Derive(v, w, off)
  BY <1>1, <1>7 DEF Store, Derive
<1>8. CASE NoTBI \/ UNCHANGED vars
  BY <1>1, <1>8 DEF NoTBI, Stop, StopAt, vars
<1>9. CASE \E v, w \in Vars, n \in ReallocSizes : Realloc(v, w, n)
  BY <1>9, ReallocCapacity
<1> QED
  BY <1>3, <1>4, <1>5, <1>6, <1>7, <1>8, <1>9 DEF Next

(***************************************************************************)
(* What malloc and calloc return has the bytes that were asked for: the    *)
(* wrappers' + 8 pays for the id.  It takes a realloc to break this, and   *)
(* of a size that the allocator's rounding does not save.                  *)
(***************************************************************************)
THEOREM RoomUnlessRealloc ==
  ASSUME RoomyReallocs
  PROVE  Spec => []Capacity
<1>1. Init => IInv /\ Capacity
  BY InitIInv DEF Init, Capacity, Live, None
<1>2. IInv /\ Capacity /\ [Next]_vars => (IInv /\ Capacity)'
  BY NextIInv, NextCapacity
<1> QED
  BY <1>1, <1>2, PTL DEF Spec
=============================================================================

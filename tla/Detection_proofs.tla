--------------------------- MODULE Detection_proofs ---------------------------
(***************************************************************************)
(* What the runtime library detects, proved for every program, heap and    *)
(* allocator, under the circumstances it takes: ids whose signatures       *)
(* differ from those of other words, one id a second and no two            *)
(* allocations in one, and an allocator that overwrites what a moving      *)
(* realloc gives back.                                                     *)
(***************************************************************************)
EXTENDS PTAuthRuntime_proofs

(* The circumstances. *)
Orderly ==
  /\ IdsSignApart
  /\ ~SameSecond
  /\ ReallocSizes # {} => ~Intact
  /\ "stale realloc" \notin Errors

(* The id of the n-th object. *)
IdOf(n) == IdAt[n - 1]

Counted == now = born

(* A word of the heap is junk, or the id of the object that lives behind.  *)
Sealed ==
  \A a \in Words : \/ mem[a] \in Junk
                   \/ a \in Bases /\ Live(a) /\ mem[a] = IdOf(chunk[a].obj)

(* A pointer keeps the signature it was given, whatever became of its      *)
(* object.                                                                 *)
MintedAs(ptr, ref) ==
  \E b \in Bases : /\ ptr.addr = b + 8 + ref.off
                   /\ ptr.sig = Signature(b + 8, IdOf(ref.obj))

Minted ==
  \A v \in Vars : \/ var[v] = NULL /\ prov[v] = Null
                  \/ prov[v].obj \in 1..born /\ MintedAs(var[v], prov[v])

Unique ==
  \A b, c \in Bases :
    Live(b) /\ Live(c) /\ chunk[b].obj = chunk[c].obj => b = c

DInv == IInv /\ Counted /\ Sealed /\ Minted /\ Unique

-----------------------------------------------------------------------------
(* What a signature is worth. *)

LEMMA AuthenticMeans ==
  ASSUME NEW p \in Pointer, NEW w, autia(p, w) # NULL
  PROVE  p.sig = Signature(p.addr, w)
BY DEF autia, pacia, xpac, Pointer

LEMMA MintedVar ==
  ASSUME DInv, NEW v \in Vars, prov[v].obj # 0
  PROVE  /\ prov[v].obj \in 1..born /\ prov[v].obj - 1 \in Drawn
         /\ MintedAs(var[v], prov[v])
         /\ var[v] # NULL /\ var[v].addr \in Words
<1>1. prov[v].obj \in 1..born /\ MintedAs(var[v], prov[v])
  BY DEF DInv, Minted, Null
<1>2. born \in 0..MaxObjects /\ MaxObjects \in Nat
  BY Constants DEF DInv, IInv, TypeOK
<1>3. prov[v].obj - 1 \in Drawn
  BY <1>1, <1>2 DEF Drawn
<1>4. var[v].addr > 0
  BY <1>1, OneVar, Constants DEF MintedAs, DInv
<1>5. var[v] # NULL
  BY <1>4 DEF NULL
<1> QED
  BY <1>1, <1>3, <1>5 DEF DInv, IInv, TypeOK

(* A word of the heap that vouches for a pointer is the id of its object,  *)
(* which lives.                                                            *)
LEMMA WhatVouches ==
  ASSUME IdsSignApart, DInv, NEW v \in Vars, prov[v].obj # 0,
         NEW a \in Words, NEW x \in Words,
         var[v].sig = Signature(x, mem[a])
  PROVE  a \in Bases /\ RefersTo(v, a)
<1> DEFINE n == prov[v].obj
<1>1. n - 1 \in Drawn /\ n \in 1..born
  BY MintedVar
<1>2. PICK b \in Bases : var[v].sig = Signature(b + 8, IdAt[n - 1])
  BY MintedVar DEF MintedAs, IdOf
<1>3. mem[a] \notin Junk
  BY <1>1, <1>2 DEF IdsSignApart
<1>4. a \in Bases /\ Live(a) /\ mem[a] = IdAt[chunk[a].obj - 1]
  BY <1>3 DEF DInv, Sealed, IdOf
<1>5. chunk[a].obj \in 1..born /\ born \in 0..MaxObjects /\ MaxObjects \in Nat
  BY <1>4, Constants DEF DInv, IInv, TypeOK, ChunksFit
<1>6. CASE chunk[a].obj # n
  <2>1. chunk[a].obj - 1 \in Drawn \ {n - 1}
    BY <1>1, <1>5, <1>6 DEF Drawn
  <2> QED
    BY <1>1, <1>2, <1>4, <2>1 DEF IdsSignApart
<1> QED
  BY <1>4, <1>6 DEF RefersTo

LEMMA StaleFails ==
  ASSUME IdsSignApart, DInv, NEW v \in Vars, Dangling(v)
  PROVE  ~Passes(var[v])
<1> DEFINE p == var[v]
<1>1. prov[v].obj # 0 /\ \A a \in Bases : ~RefersTo(v, a)
  BY DEF Dangling
<1>2. p \in Pointer /\ p.addr \in Words
  BY <1>1, MintedVar, OneVar DEF DInv
<1>3. p.sig # 0
  BY <1>1, MintedVar DEF MintedAs, IdOf, IdsSignApart
<1>4. ASSUME NEW x \in Words, NEW a \in Int, Vouches(p.sig, x, Word(a))
      PROVE  FALSE
  <2>1. a \in Words /\ Word(a) = mem[a]
    BY <1>4 DEF Vouches, Word
  <2>2. [sig |-> p.sig, addr |-> x] \in Pointer
    BY <1>2, Constants DEF Pointer
  <2>3. p.sig = Signature(x, mem[a])
    BY <1>4, <2>1, <2>2, AuthenticMeans DEF Vouches
  <2> QED
    BY <1>1, <2>1, <2>3, WhatVouches
<1> HIDE DEF p
<1>5. ~Vouches(p.sig, p.addr, Word(p.addr - 8))
  <2>1. PICK x \in Words : x = p.addr
    BY <1>2
  <2>2. PICK a \in Int : a = x - 8
    BY Constants
  <2> QED
    BY <1>4, <2>1, <2>2
<1>6. \A a \in Window(p) : ~Vouches(p.sig, a + 8, Word(a))
  BY <1>4, FirstWord, Constants DEF Window
<1>7. ~Passes(p)
  BY <1>3, <1>5, <1>6 DEF Passes
<1> QED
  BY <1>7 DEF p
-----------------------------------------------------------------------------
(* The invariant: initially, and across the allocation of an object. *)

LEMMA InitDInv == Init => DInv
<1> SUFFICES ASSUME Init PROVE DInv
  OBVIOUS
<1>1. IInv
  BY InitIInv
<1>2. Counted /\ Sealed /\ Minted /\ Unique
  BY DEF Init, Counted, Sealed, Junk, Minted, Unique, Live, None
<1> QED
  BY <1>1, <1>2 DEF DInv

(* Words m that are sealed by the chunks c but for the word at b. *)
SealedBut(b, c, m) ==
  \A a \in Words : a # b =>
    \/ m[a] \in Junk
    \/ a \in Bases /\ c[a].len > 0 /\ m[a] = IdOf(c[a].obj)

LEMMA NewObjectDInv ==
  ASSUME ~SameSecond, DInv, born < MaxObjects,
         NEW v \in Vars, NEW b \in Bases, NEW k \in Nat, k > 0,
         NEW n \in Nat, 8 + n <= 16 * k,
         NEW m \in [Words -> Nat],
         NEW c, Replaces(c), FreeOf(b, k, c), SealedBut(b, c, m),
         NewObject(v, b, k, n, m, c)
  PROVE  DInv'
<1> USE DEF DInv
<1>1. IInv'
  BY NewObjectIInv, ZenonT(60)
<1>2. /\ born \in Nat /\ born' = born + 1 /\ now = born
      /\ b \in Nat /\ b \in Words /\ b + 8 \in Nat /\ Bases \subseteq Words
      /\ IdAt[now] \in Nat
  BY Constants, IdsAreWords DEF NewObject, IInv, TypeOK, Counted
<1>3. /\ chunk' = [c EXCEPT ![b] = [len |-> k, obj |-> born + 1, req |-> n]]
      /\ mem' = [m EXCEPT ![b] = IdOf(born + 1)]
      /\ prov' = [prov EXCEPT ![v] = [obj |-> born + 1, off |-> 0]]
      /\ var' = [var EXCEPT ![v] =
                   [sig |-> Signature(b + 8, IdOf(born + 1)), addr |-> b + 8]]
  <2>1. IdOf(born + 1) = IdAt[now]
    BY <1>2 DEF IdOf
  <2> QED
    BY <1>2, <2>1, SignedPointer DEF NewObject, DataOf
<1>4. Counted'
  BY <1>2 DEF NewObject, Later, Counted
<1>5. /\ c \in [Bases -> ChunkType]
      /\ \A d \in Bases : c[d] = chunk[d] \/ c[d] = None
  BY DEF Replaces
<1>6. /\ Live(b)' /\ chunk'[b].obj = born + 1
      /\ \A d \in Bases : d # b => /\ chunk'[d] = c[d]
                                   /\ Live(d)' <=> c[d].len > 0
                                   /\ Live(d)' => Live(d) /\ c[d] = chunk[d]
  BY <1>3, <1>5 DEF Live, None, ChunkType
<1>7. Sealed'
  <2> SUFFICES ASSUME NEW a \in Words
               PROVE  \/ mem'[a] \in Junk
                      \/ /\ a \in Bases /\ Live(a)'
                         /\ mem'[a] = IdOf(chunk'[a].obj)
    BY DEF Sealed
  <2>1. CASE a = b
    BY <1>2, <1>3, <1>6, <2>1
  <2>2. CASE a # b
    BY <1>3, <1>6, <2>2 DEF SealedBut
  <2> QED
    BY <2>1, <2>2
<1>8. Minted'
  <2> SUFFICES ASSUME NEW w \in Vars
               PROVE  \/ var'[w] = NULL /\ prov'[w] = Null
                      \/ /\ prov'[w].obj \in 1..born'
                         /\ MintedAs(var'[w], prov'[w])
    BY DEF Minted, MintedAs
  <2>1. CASE w = v
    <3>1. /\ prov'[w] = [obj |-> born + 1, off |-> 0]
          /\ var'[w] = [sig |-> Signature(b + 8, IdOf(born + 1)), addr |-> b + 8]
      BY <1>3, <2>1 DEF IInv, TypeOK
    <3> QED
      BY <1>2, <3>1 DEF MintedAs
  <2>2. CASE w # v
    <3>1. prov'[w] = prov[w] /\ var'[w] = var[w]
      BY <1>3, <2>2 DEF IInv, TypeOK
    <3> QED
      BY <1>2, <3>1 DEF Minted
  <2> QED
    BY <2>1, <2>2
<1>9. Unique'
  <2>1. \A d \in Bases : d # b /\ Live(d)' => chunk'[d].obj # born + 1
    BY <1>2, <1>6 DEF IInv, ChunksFit
  <2> QED
    BY <1>6, <2>1 DEF Unique
<1> QED
  BY <1>1, <1>4, <1>7, <1>8, <1>9
-----------------------------------------------------------------------------
(* The invariant across every action. *)

LEMMA UnchangedDInv ==
  ASSUME DInv, IInv', UNCHANGED <<now, mem, chunk, born, var, prov>>
  PROVE  DInv'
BY DEF DInv, Counted, Sealed, Minted, MintedAs, Unique, Live

LEMMA StopAtDInv ==
  ASSUME DInv, NEW s \in Statuses, NEW at \in Touches \cup Vars, StopAt(s, at)
  PROVE  DInv'
<1>1. IInv'
  BY StopAtIInv DEF DInv
<1>2. UNCHANGED <<now, mem, chunk, born, var, prov>>
  BY DEF StopAt
<1> QED
  BY <1>1, <1>2, UnchangedDInv

LEMMA StopDInv ==
  ASSUME DInv, NEW s \in Statuses, Stop(s)
  PROVE  DInv'
<1>1. "none" \in Touches \cup Vars
  BY DEF Touches
<1> QED
  BY <1>1, StopAtDInv DEF Stop

LEMMA MallocDInv ==
  ASSUME ~SameSecond, DInv, NEW v \in Vars, NEW n \in Sizes, Malloc(v, n)
  PROVE  DInv'
<1> DEFINE k == Granules(AllocSize(n))
<1>1. n \in Nat /\ k \in Nat /\ k > 0 /\ 8 + n <= 16 * k
  BY MallocRoom
<1>2. born < MaxObjects
  BY DEF Malloc, CallsAllocator
<1>3. CASE \E b \in Bases : Fits(b, k, {}) /\ NewObject(v, b, k, n, mem, chunk)
  <2>1. PICK b \in Bases : Fits(b, k, {}) /\ NewObject(v, b, k, n, mem, chunk)
    BY <1>3
  <2> HIDE DEF k
  <2>2. PICK m, c : m = mem /\ c = chunk
    OBVIOUS
  <2>3. NewObject(v, b, k, n, m, c)
    BY <2>1, <2>2 DEF NewObject
  <2>4. Replaces(c) /\ FreeOf(b, k, c)
    BY <1>1, <2>1, <2>2, NothingReplaced DEF Replaces, FreeOf, DInv
  <2>5. m \in [Words -> Nat]
    BY <2>2 DEF DInv, IInv, TypeOK
  <2>6. SealedBut(b, c, m)
    BY <2>2 DEF DInv, Sealed, SealedBut, Live
  <2> QED
    BY <1>1, <1>2, <2>3, <2>4, <2>5, <2>6, NewObjectDInv, ZenonT(60)
<1>4. CASE Stop("nomem")
  BY <1>4, StopDInv DEF Statuses
<1> QED
  BY <1>3, <1>4 DEF Malloc

LEMMA CallocDInv ==
  ASSUME ~SameSecond, DInv,
         NEW v \in Vars, NEW n \in Sizes, NEW item \in Items,
         Calloc(v, item, n)
  PROVE  DInv'
<1> DEFINE k == Granules(item * ((n + 8) % SizeMod))
           s == item * n
           Zeroed(b) == [a \in Words |-> IF b <= a /\ a < b + 16 * k - 8
                                         THEN 0 ELSE mem[a]]
<1>1. s \in Nat /\ k \in Nat /\ k > 0 /\ 8 + s <= 16 * k
  BY CallocRoom
<1>2. born < MaxObjects
  BY DEF Calloc, CallsAllocator
<1>3. CASE \E b \in Bases : /\ Fits(b, k, {})
                            /\ NewObject(v, b, k, s, Zeroed(b), chunk)
  <2>1. PICK b \in Bases : /\ Fits(b, k, {})
                           /\ NewObject(v, b, k, s, Zeroed(b), chunk)
    BY <1>3
  <2> HIDE DEF k, s
  <2>2. PICK m, c : m = Zeroed(b) /\ c = chunk
    OBVIOUS
  <2>3. NewObject(v, b, k, s, m, c)
    BY <2>1, <2>2 DEF NewObject
  <2>4. Replaces(c) /\ FreeOf(b, k, c)
    BY <1>1, <2>1, <2>2, NothingReplaced DEF Replaces, FreeOf, DInv
  <2>5. m \in [Words -> Nat]
    BY <2>2 DEF DInv, IInv, TypeOK
  <2>6. SealedBut(b, c, m)
    BY <2>2 DEF DInv, Sealed, SealedBut, Live, Junk
  <2> HIDE DEF Zeroed
  <2> QED
    BY <1>1, <1>2, <2>3, <2>4, <2>5, <2>6, NewObjectDInv, ZenonT(60)
<1>4. CASE Stop("nomem")
  BY <1>4, StopDInv DEF Statuses
<1> QED
  BY <1>3, <1>4 DEF Calloc

(* In place, the object keeps its chunk and its id. *)
LEMMA ResizedInPlaceDInv ==
  ASSUME DInv, NEW v \in Vars, NEW w \in Vars, NEW b \in Bases, Live(b),
         NEW k \in Nat, k > 0, NEW n \in Nat \ {0}, 8 + n <= 16 * k,
         Fits(b, k, {b}), ResizedInPlace(v, w, b, k, n)
  PROVE  DInv'
<1>1. IInv'
  BY ResizedInPlaceIInv, ZenonT(60) DEF DInv
<1>2. /\ chunk' = [chunk EXCEPT ![b] = [len |-> k, obj |-> @.obj, req |-> n]]
      /\ var' = [var EXCEPT ![w] = var[v]]
      /\ prov' = [prov EXCEPT ![w] = prov[v]]
      /\ UNCHANGED <<now, mem, born>>
  BY DEF ResizedInPlace
<1>3. \A d \in Bases : /\ chunk'[d].obj = chunk[d].obj
                       /\ Live(d)' <=> Live(d)
  BY <1>2 DEF DInv, IInv, TypeOK, Live
<1>4. Counted' /\ Sealed' /\ Unique'
  BY <1>2, <1>3 DEF DInv, Counted, Sealed, Unique
<1>5. \A u \in Vars : \E x \in Vars : var'[u] = var[x] /\ prov'[u] = prov[x]
  BY <1>2 DEF DInv, IInv, TypeOK
<1>6. Minted'
  BY <1>2, <1>5 DEF DInv, Minted, MintedAs
<1> QED
  BY <1>1, <1>4, <1>6 DEF DInv
(* Elsewhere, a new object: the old one's id is copied under the new one,  *)
(* and overwritten where it was by the allocator.                          *)
LEMMA ResizedElsewhereDInv ==
  ASSUME ~SameSecond, ~Intact, DInv, born < MaxObjects,
         NEW v \in Vars, NEW w \in Vars, NEW b \in Bases, Live(b),
         NEW k \in Nat, NEW n \in Nat \ {0}, 8 + n <= 16 * k,
         k > chunk[b].len, ResizedElsewhere(v, w, b, k, n)
  PROVE  DInv'
<1> DEFINE l == chunk[b].len
           left == [chunk EXCEPT ![b] = None]
<1>1. PICK c \in Bases, first \in AfterFree(mem[b]) :
        /\ Fits(c, k, {})
        /\ NewObject(w, c, k, n, Moved(b, c, l, first), left)
  BY DEF ResizedElsewhere
<1>2. /\ chunk \in [Bases -> ChunkType] /\ l \in Nat /\ k > l /\ k > 0
      /\ Bases \subseteq Nat /\ Bases \subseteq Words /\ Words \subseteq Nat
      /\ n \in Nat
  BY Constants DEF DInv, IInv, TypeOK, ChunkType
<1>3. first \in Scribbles /\ first \in Nat /\ first \in Junk
  BY <1>1, ProgramAssumption DEF AfterFree, Junk
<1>4. PICK m, e : m = Moved(b, c, l, first) /\ e = left
  OBVIOUS
<1>5. NewObject(w, c, k, n, m, e)
  BY <1>1, <1>4 DEF NewObject
<1>6. m \in [Words -> Nat]
  BY <1>3, <1>4, MovedWords DEF DInv
<1>7. /\ e \in [Bases -> ChunkType]
      /\ \A d \in Bases : e[d] = chunk[d] \/ e[d] = None
      /\ \A d \in Bases : e[d].len > 0 => d # b /\ Live(d) /\ e[d] = chunk[d]
      /\ \A d \in Bases : d # b => e[d] = chunk[d]
  <2>1. None \in ChunkType
    BY Constants DEF None, ChunkType
  <2> QED
    BY <1>2, <1>4, <2>1 DEF None, Live
<1>8. /\ c + 16 * k <= HeapEnd
      /\ \A d \in Bases : e[d].len > 0 => \/ d + 16 * e[d].len <= c
                                          \/ c + 16 * k <= d
  BY <1>1, <1>7 DEF Fits
<1>9. Replaces(e) /\ FreeOf(c, k, e)
  BY <1>7, <1>8 DEF Replaces, FreeOf
<1>10. SealedBut(c, e, m)
  <2> SUFFICES ASSUME NEW a \in Words, a # c
               PROVE  \/ m[a] \in Junk
                      \/ a \in Bases /\ e[a].len > 0 /\ m[a] = IdOf(e[a].obj)
    BY DEF SealedBut
  <2>1. CASE a = b
    BY <1>3, <1>4, <2>1 DEF Moved
  <2>2. CASE a # b /\ c <= a /\ a < c + 16 * l - 8
    <3>1. PICK x \in Words : x = a - c + b
      BY <2>2, MovedFrom DEF DInv
    <3>2. m[a] = mem[x]
      BY <1>4, <2>2, <3>1 DEF Moved
    <3>3. b < x /\ x < b + 16 * l
      BY <1>2, <2>2, <3>1
    <3>4. ~(x \in Bases /\ Live(x))
      <4> SUFFICES ASSUME x \in Bases, Live(x) PROVE FALSE
        OBVIOUS
      <4>1. chunk[x].len \in Nat
        BY <1>2 DEF ChunkType
      <4>2. b + 16 * l <= x \/ x + 16 * chunk[x].len <= b
        BY <1>2, <3>3 DEF DInv, IInv, Disjoint
      <4> QED
        BY <1>2, <3>3, <4>1, <4>2
    <3> QED
      BY <3>2, <3>4 DEF DInv, Sealed
  <2>3. CASE a # b /\ ~(c <= a /\ a < c + 16 * l - 8)
    <3>1. m[a] = mem[a]
      BY <1>4, <2>3 DEF Moved
    <3> QED
      BY <1>7, <2>3, <3>1 DEF DInv, Sealed, Live
  <2> QED
    BY <2>1, <2>2, <2>3
<1> HIDE DEF l, left
<1> QED
  BY <1>2, <1>5, <1>6, <1>9, <1>10, NewObjectDInv, ZenonT(60)

LEMMA ReallocDInv ==
  ASSUME ~SameSecond, ~Intact, DInv,
         NEW v \in Vars, NEW w \in Vars, NEW n \in ReallocSizes,
         Realloc(v, w, n)
  PROVE  DInv'
<1> DEFINE b == var[v].addr - 8
           k == Granules(n)
<1>1. n \in Nat \ {0} /\ n \in Nat
  BY SizesAssumption
<1>2. k \in Nat /\ k > 0 /\ 8 + n <= 16 * k
  BY <1>1, GranulesSuffice
<1>3. born < MaxObjects
  BY DEF Realloc, CallsAllocator
<1>4. CASE Stop("badfree") \/ Stop("corrupted") \/ Stop("nomem")
  BY <1>4, StopDInv DEF Statuses
<1>5. CASE /\ b \in Bases /\ Live(b) /\ Fits(b, k, {b})
           /\ ResizedInPlace(v, w, b, k, n)
  <2> HIDE DEF k
  <2>1. PICK c \in Bases : c = b
    BY <1>5
  <2>2. Live(c) /\ Fits(c, k, {c}) /\ ResizedInPlace(v, w, c, k, n)
    BY <1>5, <2>1
  <2> QED
    BY <1>1, <1>2, <2>2, ResizedInPlaceDInv, ZenonT(60)
<1>6. CASE /\ b \in Bases /\ Live(b) /\ k > chunk[b].len
           /\ ResizedElsewhere(v, w, b, k, n)
  <2> HIDE DEF k
  <2>1. PICK c \in Bases : c = b
    BY <1>6
  <2>2. Live(c) /\ k > chunk[c].len /\ ResizedElsewhere(v, w, c, k, n)
    BY <1>6, <2>1
  <2> QED
    BY <1>1, <1>2, <1>3, <2>2, ResizedElsewhereDInv, ZenonT(60)
<1> QED
  BY <1>4, <1>5, <1>6 DEF Realloc

LEMMA FreeDInv ==
  ASSUME DInv, NEW v \in Vars, Free(v)
  PROVE  DInv'
<1> DEFINE meta == var[v].addr - 8
<1>1. IInv'
  BY FreeIInv DEF DInv
<1>2. CASE UNCHANGED <<now, mem, chunk, born, var, prov>>
  BY <1>1, <1>2, UnchangedDInv
<1>3. CASE \E s \in Statuses : Stop(s) \/ StopAt(s, v)
  BY <1>3, StopDInv, StopAtDInv
<1>4. CASE /\ meta \in Bases /\ Live(meta)
           /\ \E first \in AfterFree(Tombstone(mem[meta])) :
                mem' = [mem EXCEPT ![meta] = first]
           /\ chunk' = [chunk EXCEPT ![meta] = None]
           /\ UNCHANGED <<tbi, status, now, born, var, prov>>
  <2>1. PICK first \in AfterFree(Tombstone(mem[meta])), b \in Bases :
          b = meta /\ mem' = [mem EXCEPT ![b] = first]
    BY <1>4
  <2>2. first \in Junk /\ b \in Words
    BY <2>1, Constants DEF AfterFree, Tombstone, Junk
  <2>3. chunk' = [chunk EXCEPT ![b] = None]
    BY <1>4, <2>1
  <2>4. \A d \in Bases : /\ d # b => chunk'[d] = chunk[d] /\ (Live(d)' <=> Live(d))
                         /\ Live(d)' => d # b
    BY <2>3 DEF DInv, IInv, TypeOK, Live, None
  <2>5. mem'[b] \in Junk /\ \A a \in Words : a # b => mem'[a] = mem[a]
    BY <2>1, <2>2 DEF DInv, IInv, TypeOK
  <2>6. Sealed'
    <3> SUFFICES ASSUME NEW a \in Words
                 PROVE  \/ mem'[a] \in Junk
                        \/ /\ a \in Bases /\ Live(a)'
                           /\ mem'[a] = IdOf(chunk'[a].obj)
      BY DEF Sealed
    <3>1. CASE a # b
      BY <2>4, <2>5, <3>1 DEF DInv, Sealed
    <3> QED
      BY <2>5, <3>1
  <2>7. Unique'
    <3> SUFFICES ASSUME NEW d \in Bases, NEW e \in Bases, Live(d)', Live(e)',
                        chunk'[d].obj = chunk'[e].obj
                 PROVE  d = e
      BY DEF Unique
    <3> QED
      BY <2>4 DEF DInv, Unique
  <2>8. Counted' /\ Minted'
    BY <1>4 DEF DInv, Counted, Minted, MintedAs
  <2> QED
    BY <1>1, <2>6, <2>7, <2>8 DEF DInv
<1> QED
  BY <1>2, <1>3, <1>4 DEF Free, Statuses

LEMMA StoreDInv ==
  ASSUME DInv, NEW v \in Vars, NEW d \in Data, Store(v, d)
  PROVE  DInv'
<1>1. IInv'
  BY StoreIInv DEF DInv
<1>2. /\ mem' = [mem EXCEPT ![var[v].addr] = d] /\ d \in Junk
      /\ UNCHANGED <<now, chunk, born, var, prov>>
  BY DEF Store, Junk
<1>3. \A a \in Words : mem'[a] = mem[a] \/ mem'[a] \in Junk
  BY <1>2 DEF DInv, IInv, TypeOK
<1>4. Sealed'
  BY <1>2, <1>3 DEF DInv, Sealed, Live
<1>5. Counted' /\ Minted' /\ Unique'
  BY <1>2 DEF DInv, Counted, Minted, MintedAs, Unique, Live
<1> QED
  BY <1>1, <1>4, <1>5 DEF DInv

LEMMA DeriveDInv ==
  ASSUME DInv, NEW v \in Vars, NEW w \in Vars, NEW off \in Offsets,
         Derive(v, w, off)
  PROVE  DInv'
<1>1. IInv'
  BY DeriveIInv DEF DInv
<1>2. PICK b \in Bases : RefersTo(v, b)
  BY DEF Derive
<1>3. /\ prov[v].off = 0
      /\ var' = [var EXCEPT ![w] = [var[v] EXCEPT !.addr = @ + off]]
      /\ prov' = [prov EXCEPT ![w] = [prov[v] EXCEPT !.off = off]]
      /\ UNCHANGED <<now, mem, chunk, born>>
  BY DEF Derive
<1>4. /\ var \in [Vars -> Pointer] /\ off \in Nat /\ Bases \subseteq Nat
      /\ prov \in [Vars -> [obj : 0..MaxObjects, off : Nat]]
  BY Constants, ProgramAssumption DEF DInv, IInv, TypeOK
<1>5. prov[v].obj # 0
  BY <1>2 DEF DInv, IInv, ChunksFit, RefersTo
<1>6. PICK c \in Bases : /\ var[v].addr = c + 8 /\ prov[v].obj \in 1..born
                        /\ var[v].sig = Signature(c + 8, IdOf(prov[v].obj))
  BY <1>3, <1>4, <1>5, MintedVar DEF MintedAs
<1>7. /\ var'[w].addr = c + 8 + off /\ var'[w].sig = var[v].sig
      /\ prov'[w].obj = prov[v].obj /\ prov'[w].off = off
      /\ \A u \in Vars : u # w => var'[u] = var[u] /\ prov'[u] = prov[u]
  BY <1>3, <1>4, <1>6 DEF Pointer
<1>8. prov'[w].obj \in 1..born /\ MintedAs(var'[w], prov'[w])
  BY <1>6, <1>7 DEF MintedAs
<1>9. Minted'
  BY <1>3, <1>7, <1>8 DEF DInv, Minted, MintedAs
<1>10. Counted' /\ Sealed' /\ Unique'
  BY <1>3 DEF DInv, Counted, Sealed, Unique, Live
<1> QED
  BY <1>1, <1>9, <1>10 DEF DInv

LEMMA NextDInv ==
  ASSUME ~SameSecond, ReallocSizes # {} => ~Intact, DInv, [Next]_vars
  PROVE  DInv'
<1>1. IInv'
  BY NextIInv DEF DInv
<1>2. CASE UNCHANGED vars
  BY <1>1, <1>2, UnchangedDInv DEF vars
<1>3. CASE NoTBI
  BY <1>3, StopDInv DEF NoTBI, Statuses
<1>4. CASE \E v \in Vars, n \in Sizes : Malloc(v, n)
  BY <1>4, MallocDInv
<1>5. CASE \E v \in Vars, n \in Sizes, item \in Items : Calloc(v, item, n)
  BY <1>5, CallocDInv
<1>6. CASE \E v, w \in Vars, n \in ReallocSizes : Realloc(v, w, n)
  BY <1>6, ReallocDInv
<1>7. CASE \E v \in Vars : Free(v)
  BY <1>7, FreeDInv
<1>8. CASE \E v \in Vars : Load(v) \/ Reject(v)
  BY <1>1, <1>8, UnchangedDInv DEF Load, Reject, StopAt
<1>9. CASE \E v \in Vars, d \in Data : Store(v, d)
  BY <1>9, StoreDInv
<1>10. CASE \E v, w \in Vars, off \in Offsets : Derive(v, w, off)
  BY <1>10, DeriveDInv
<1> QED
  BY <1>2, <1>3, <1>4, <1>5, <1>6, <1>7, <1>8, <1>9, <1>10 DEF Next
-----------------------------------------------------------------------------
(* The allocator gets to see no wrong pointer. *)

(* What __ptauth_free authenticates is the object the program means. *)
LEMMA FreesOwn ==
  ASSUME IdsSignApart, DInv, NEW v \in Vars, MayFree(v),
         autia(var[v], mem[var[v].addr - 8]) # NULL
  PROVE  /\ var[v].addr - 8 \in Bases /\ RefersTo(v, var[v].addr - 8)
         /\ prov[v].off = 0
<1>1. prov[v].obj # 0
  <2>1. \A b \in Bases : RefersTo(v, b) => prov[v].obj # 0
    BY DEF DInv, IInv, ChunksFit, RefersTo
  <2>2. prov[v].obj = 0 => prov[v].off = 0
    BY DEF DInv, Minted, Null
  <2> QED
    BY <2>1, <2>2 DEF MayFree, Dangling
<1>2. var[v].addr \in Words /\ MintedAs(var[v], prov[v])
  BY <1>1, MintedVar
<1>3. PICK x \in Words : x = var[v].addr
  BY <1>2
<1>4. PICK a \in Words : a = x - 8
  <2>1. PICK b \in Bases : x = b + 8 + prov[v].off
    BY <1>2, <1>3 DEF MintedAs
  <2>2. PICK o \in Nat : o = prov[v].off
    BY OneVar DEF DInv
  <2>3. b \in Nat /\ b >= HeapBase
    BY Constants DEF Bases
  <2>4. x \in Nat /\ x >= HeapBase + 8 /\ x < HeapEnd /\ x % 8 = 0
    BY <2>1, <2>2, <2>3, Constants DEF Words
  <2>5. x - 8 \in HeapBase..(HeapEnd - 1)
    BY <2>4, Constants
  <2>6. (x - 8) % 8 = 0
    BY <2>4
  <2>7. x - 8 \in Words
    BY <2>5, <2>6 DEF Words
  <2> QED
    BY <2>7
<1>5. var[v] \in Pointer
  BY OneVar DEF DInv
<1>6. var[v].sig = Signature(x, mem[a])
  BY <1>3, <1>4, <1>5, AuthenticMeans
<1>7. a \in Bases /\ RefersTo(v, a)
  BY <1>1, <1>6, WhatVouches
<1>8. var[v].addr = a + 8 + prov[v].off
  BY <1>7 DEF DInv, IInv, Placed
<1>9. prov[v].off = 0
  BY <1>3, <1>4, <1>8, OneVar, Constants DEF DInv
<1> QED
  BY <1>3, <1>4, <1>7, <1>9

(* Nor does the program resize anything but an object of its own. *)
LEMMA ResizesOwn ==
  ASSUME Orderly, IInv, NEW v \in Vars, MayRealloc(v)
  PROVE  /\ var[v].addr - 8 \in Bases /\ RefersTo(v, var[v].addr - 8)
         /\ prov[v].off = 0
<1>1. PICK b \in Bases : RefersTo(v, b) /\ prov[v].off = 0
  BY DEF MayRealloc, Orderly
<1>2. var[v].addr = b + 8 + prov[v].off
  BY <1>1 DEF IInv, Placed
<1>3. PICK y \in Nat : y = b
  BY Constants DEF Bases
<1>4. PICK x \in Nat : x = var[v].addr
  BY OneVar DEF Pointer
<1>5. x = y + 8
  BY <1>1, <1>2, <1>3, <1>4
<1>6. x - 8 = b
  BY <1>3, <1>5
<1> QED
  BY <1>1, <1>4, <1>6

(* What a free hands to the C library is the object that was meant. *)
LEMMA FreeIsSafe ==
  ASSUME IdsSignApart, DInv, NEW v \in Vars, Free(v)
  PROVE  status' # "corrupted" /\ touched' # "foreign"
<1> DEFINE meta == var[v].addr - 8
           ptr == autia(var[v], mem[meta])
<1>1. MayFree(v) /\ ptr # NULL =>
        meta \in Bases /\ Live(meta) /\ RefersTo(v, meta)
  BY FreesOwn DEF RefersTo
<1>2. status = "running"
  BY DEF Free
<1>3. CASE touched' = "none" /\ UNCHANGED status
  BY <1>2, <1>3
<1>4. CASE \E s \in {"reported", "badfree"} : StopAt(s, v)
  <2>1. v # "foreign"
    BY NamesAssumption DEF Touches
  <2> QED
    BY <1>4, <2>1 DEF StopAt
<1> QED
  BY <1>1, <1>3, <1>4 DEF Free

(***************************************************************************)
(* Under the circumstances, __ptauth_free keeps every double and invalid   *)
(* free from the C library, also if another object lives where the freed   *)
(* one was, and also in the configuration as committed, where uses after   *)
(* free go on and overwrite whatever they reach.                           *)
(***************************************************************************)
THEOREM AllocatorIsSafe ==
  ASSUME Orderly
  PROVE  Spec => AllocatorSafe
<1> DEFINE A == \A v \in Vars :
                  Free(v) => status' # "corrupted" /\ touched' # "foreign"
<1>1. DInv /\ [Next]_vars => DInv'
  BY NextDInv DEF Orderly
<1>2. DInv /\ [Next]_vars => [A]_vars
  BY FreeIsSafe DEF Orderly
<1>3. Spec => [][A]_vars
  BY InitDInv, <1>1, <1>2, PTL DEF Spec
<1> QED
  BY <1>3 DEF AllocatorSafe
=============================================================================

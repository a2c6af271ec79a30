--------------------------- MODULE PTAuthRuntime ---------------------------
(***************************************************************************)
(* The runtime library (ptauth-rtlib.c) under an instrumented program: the *)
(* wrappers of malloc, calloc, realloc and free, the checks in front of    *)
(* loads and stores, the memory they share and the C library's allocator,  *)
(* which is external and modelled as the wrappers use it.                  *)
(*                                                                         *)
(* A program has pointer variables and may err.  What it may do wrong, and *)
(* how the allocator and the clock behave, are constants, so that a run or *)
(* a theorem says under which circumstances a property holds.              *)
(***************************************************************************)
EXTENDS PAC

CONSTANTS
  Vars,         \* pointer variables of the program
  Sizes,        \* sizes it asks malloc and calloc for, in bytes
  Items,        \* how many items of a size it asks calloc for
  ReallocSizes, \* sizes it asks realloc for
  Offsets,      \* offsets of its interior pointers (0: a copy)
  Data,         \* words it stores
  Errors,       \* temporal errors it commits, see ErrorKinds
  HeapBase,     \* the heap: [HeapBase, HeapEnd), 16-byte aligned
  HeapEnd,
  MapBase,      \* the lowest mapped address; from there to HeapBase words are 0
  IdAt,         \* the id initMD draws in each second
  SameSecond,   \* may two allocations fall into one second?
  Scribbles,    \* words the allocator writes into a chunk it takes back
  Intact,       \* may it leave the first word of such a chunk alone?
  ENABLELOG,    \* config.h
  Threshold,    \* of backward_search: 1024, with BKTHREASHOLDENABLED 1
  MaxObjects,   \* bound: allocations in a behaviour
  SizeMod       \* size_t wraps here

ErrorKinds ==
  {"use after free", "double free", "invalid free", "stale realloc",
   "null realloc"}      \* the last is legal C, but fatal here

None == [len |-> 0, obj |-> 0, req |-> 0]

Null == [obj |-> 0, off |-> 0]

Words == {a \in HeapBase..(HeapEnd - 1) : a % 8 = 0}

(* malloc returns 16-byte aligned addresses *)
Bases == {a \in HeapBase..(HeapEnd - 1) : a % 16 = 0}

ASSUME HeapAssumption ==
  /\ HeapBase \in Nat /\ HeapBase % 16 = 0 /\ HeapBase > Threshold
  /\ HeapEnd \in Nat /\ HeapEnd % 16 = 0 /\ HeapBase < HeapEnd
  /\ MapBase \in Nat /\ MapBase <= HeapBase

ASSUME ThresholdAssumption == Threshold \in Nat /\ Threshold >= 24

(* Objects may be larger than a search reaches.  No program asks for a     *)
(* size to which 8 cannot be added: size + 8 wraps for the last few only.  *)
ASSUME SizesAssumption ==
  /\ SizeMod \in Nat
  /\ Sizes \subseteq {n \in Nat \ {0} : n + 8 < SizeMod}
  /\ Items \subseteq Nat
  /\ ReallocSizes \subseteq Nat \ {0}

(* initMD: (num % (999999999 - 100000000)) + 100000000 *)
FirstId == 100000000
LastId == 999999998
Ids == FirstId..LastId

ASSUME IdAssumption ==
  /\ MaxObjects \in Nat
  /\ IdAt \in [0..MaxObjects -> Ids]

ASSUME ProgramAssumption ==
  /\ Offsets \subseteq {off \in Nat : off % 8 = 0}
  /\ Data \subseteq Nat
  /\ Scribbles \subseteq Nat
  /\ Errors \subseteq ErrorKinds
  /\ {SameSecond, Intact, ENABLELOG} \subseteq BOOLEAN
  /\ Scribbles # {} \/ Intact

VARIABLES
  tbi,          \* does the kernel accept tagged addresses (checkTBI)?
  status,       \* "running", or how the process ended
  now,          \* the second of the next allocation: time(0)
  mem,          \* the words of the heap
  chunk,        \* the allocator's chunks: length in 16-byte granules; ghosts:
                \*   the object in it and the size the program asked for
  born,         \* ghost: number of objects allocated so far
  var,          \* the value of each pointer variable
  prov,         \* ghost: the object and offset the program means by it
  touched       \* ghost: the last access reached its "own" object, a
                \*   "foreign" address, or there was "none"; or the variable
                \*   at whose access or free the process was stopped

vars == <<tbi, status, now, mem, chunk, born, var, prov, touched>>

Touches == {"none", "own", "foreign"}

ASSUME NamesAssumption == Vars \cap Touches = {}

Statuses ==
  { "running",
    "noTBI",      \* exit(1), "Your OS does not support Top-Byte Ignore."
    "nomem",      \* initMD writes through the NULL that malloc returned
    "aborted",    \* abort() in backward_search
    "segv",       \* backward_search reads below the mapped memory
    "reported",   \* exit(0) in __ptauth_free, "Pointer is not Valid!"
    "badfree",    \* free(NULL - 8): SIGSEGV in the C library
    "corrupted" } \* the C library is handed a pointer to no live chunk

Init ==
  /\ tbi \in BOOLEAN
  /\ status = "running"
  /\ now = 0
  /\ mem = [a \in Words |-> 0]
  /\ chunk = [b \in Bases |-> None]
  /\ born = 0
  /\ var = [v \in Vars |-> NULL]
  /\ prov = [v \in Vars |-> Null]
  /\ touched = "none"

-----------------------------------------------------------------------------
(* The program's view. *)

Live(b) == chunk[b].len > 0

(* v refers to the object in chunk b *)
RefersTo(v, b) == Live(b) /\ chunk[b].obj = prov[v].obj

Dangling(v) == prov[v].obj # 0 /\ \A b \in Bases : ~RefersTo(v, b)

(* The chunk a word belongs to. *)
InChunk(b, a) == Live(b) /\ b <= a /\ a < b + 16 * chunk[b].len - 8

-----------------------------------------------------------------------------
(* The allocator (external). *)

(***************************************************************************)
(* Granules of the chunk that serves a request: 8 bytes of bookkeeping,    *)
(* rounded up to 16, at least 32.  16 * Granules(n) - 8 bytes are usable.  *)
(***************************************************************************)
Granules(n) == IF n <= 24 THEN 2 ELSE (n + 23) \div 16

(* A chunk of k granules at b overlaps no chunk but those of S. *)
Fits(b, k, S) ==
  /\ b + 16 * k <= HeapEnd
  /\ \A c \in Bases \ S :
       Live(c) => c + 16 * chunk[c].len <= b \/ b + 16 * k <= c

Room(k) == \E b \in Bases : Fits(b, k, {})

(* What the first word of a chunk may be once the allocator has taken it   *)
(* back: a list pointer of its own, or, if the chunk joins a free          *)
(* neighbour, the word m that was there.                                   *)
AfterFree(m) == Scribbles \cup (IF Intact THEN {m} ELSE {})

-----------------------------------------------------------------------------
(* The allocation wrappers. *)

(* The next allocation happens in the same second or a later one. *)
Later == IF SameSecond THEN {now, now + 1} ELSE {now + 1}

(* retPtr = meta plus two ints: the object starts behind its id. *)
DataOfScaled(meta) == meta + 64         \* mutant: meta + 8, without the cast
DataOf(meta) == meta + 8

(* initMD and pacia: object of size n in a chunk of k granules at b, its   *)
(* words being m and the chunks otherwise c; the pointer goes to v.        *)
NewObject(v, b, k, n, m, c) ==
  /\ born' = born + 1
  /\ chunk' = [c EXCEPT ![b] = [len |-> k, obj |-> born + 1, req |-> n]]
  /\ mem' = [m EXCEPT ![b] = IdAt[now]]
  /\ var' = [var EXCEPT ![v] =
               pacia([sig |-> 0, addr |-> DataOf(b)], IdAt[now])]
  /\ prov' = [prov EXCEPT ![v] = [obj |-> born + 1, off |-> 0]]
  /\ now' \in Later
  /\ touched' = "none"
  /\ UNCHANGED <<tbi, status>>

(* The process ends, at an operation on the variable at or at none.        *)
StopAt(s, at) ==
  /\ status' = s
  /\ touched' = at
  /\ UNCHANGED <<tbi, now, mem, chunk, born, var, prov>>

Stop(s) == StopAt(s, "none")

CallsAllocator == status = "running" /\ born < MaxObjects

NoTBI ==
  /\ CallsAllocator
  /\ ~tbi
  /\ Stop("noTBI")

(* uint64_t alloc_size = size + 8 *)
AllocSizeBare(size) == size             \* mutant: no room for the id
AllocSize(size) == (size + 8) % SizeMod

Malloc(v, size) ==
  LET k == Granules(AllocSize(size)) IN
  /\ CallsAllocator /\ tbi
  /\ \/ \E b \in Bases : Fits(b, k, {}) /\ NewObject(v, b, k, size, mem, chunk)
     \/ ~Room(k) /\ Stop("nomem")

(* calloc(item, sizeBlock + sizeof(long)): the chunk is zeroed *)
Calloc(v, item, sizeBlock) ==
  LET k == Granules(item * ((sizeBlock + 8) % SizeMod))
      Zeroed(b) == [a \in Words |-> IF b <= a /\ a < b + 16 * k - 8
                                    THEN 0 ELSE mem[a]]
  IN
  /\ CallsAllocator /\ tbi
  /\ \/ \E b \in Bases :
          /\ Fits(b, k, {})
          /\ NewObject(v, b, k, item * sizeBlock, Zeroed(b), chunk)
     \/ ~Room(k) /\ Stop("nomem")

(***************************************************************************)
(* The program resizes what v points to: an object of its own, or, when it *)
(* errs, what a dangling or interior pointer points to.                    *)
(***************************************************************************)
MayRealloc(v) ==
  /\ var[v] # NULL
  /\ \/ (\E b \in Bases : RefersTo(v, b)) /\ prov[v].off = 0
     \/ "stale realloc" \in Errors

(* The words after memcpy of the l granules at b to c, b being free again. *)
Moved(b, c, l, first) ==
  [a \in Words |-> IF a = b THEN first
                   ELSE IF c <= a /\ a < c + 16 * l - 8 THEN mem[a - c + b]
                   ELSE mem[a]]

(* ptr-8 == tmpptr: the placeholder, signature and all, is returned.       *)
ResizedInPlaceAnew(v, w, b, k, size) == \* mutant: the id is drawn anew
  /\ chunk' = [chunk EXCEPT ![b] = [len |-> k, obj |-> @.obj, req |-> size]]
  /\ mem' = [mem EXCEPT ![b] = IdAt[now]]
  /\ var' = [var EXCEPT ![w] = pacia(xpac(var[v]), IdAt[now])]
  /\ prov' = [prov EXCEPT ![w] = prov[v]]
  /\ touched' = "none"
  /\ UNCHANGED <<tbi, status, now, born>>

ResizedInPlace(v, w, b, k, size) ==
  /\ chunk' = [chunk EXCEPT ![b] = [len |-> k, obj |-> @.obj, req |-> size]]
  /\ var' = [var EXCEPT ![w] = var[v]]
  /\ prov' = [prov EXCEPT ![w] = prov[v]]
  /\ touched' = IF RefersTo(v, b) THEN "none" ELSE "foreign"
  /\ UNCHANGED <<tbi, status, now, mem, born>>

(* ptr-8 != tmpptr: a new id, and a new signature for the new place.       *)
ResizedElsewhereAsIs(v, w, b, k, size) == \* mutant: signed for the old place
  \E c \in Bases, first \in AfterFree(mem[b]) :
    /\ Fits(c, k, {})
    /\ born' = born + 1
    /\ chunk' = [chunk EXCEPT ![b] = None,
                   ![c] = [len |-> k, obj |-> born + 1, req |-> size]]
    /\ mem' = Moved(b, c, chunk[b].len, first)
    /\ var' = [var EXCEPT ![w] = [var[v] EXCEPT !.addr = DataOf(c)]]
    /\ prov' = [prov EXCEPT ![w] = [obj |-> born + 1, off |-> 0]]
    /\ now' \in Later
    /\ touched' = "none"
    /\ UNCHANGED <<tbi, status>>

ResizedElsewhere(v, w, b, k, size) ==
  \E c \in Bases, first \in AfterFree(mem[b]) :
    /\ Fits(c, k, {})
    /\ NewObject(w, c, k, size, Moved(b, c, chunk[b].len, first),
                 [chunk EXCEPT ![b] = None])

(***************************************************************************)
(* __ptauth_realloc, called by w = realloc(v, size).  It authenticates     *)
(* nothing, asks for size bytes in all, and re-signs only what moved.  The *)
(* C library resizes in place when it can, and otherwise allocates, copies *)
(* and frees.                                                              *)
(***************************************************************************)
Realloc(v, w, size) ==
  LET b == var[v].addr - 8
      k == Granules(size)
      known == b \in Bases /\ Live(b)
  IN
  /\ CallsAllocator /\ tbi
  /\ \/ /\ var[v] = NULL /\ "null realloc" \in Errors
        /\ Stop("badfree")
     \/ /\ MayRealloc(v) /\ ~known
        /\ Stop("corrupted")
     \/ /\ MayRealloc(v) /\ known /\ Fits(b, k, {b})
        /\ ResizedInPlace(v, w, b, k, size)
     \/ /\ MayRealloc(v) /\ known /\ k > chunk[b].len
        /\ ResizedElsewhere(v, w, b, k, size)
     \/ /\ MayRealloc(v) /\ known /\ ~Fits(b, k, {b}) /\ ~Room(k)
        /\ Stop("nomem")

(* free of an object, of a dangling pointer, of an interior pointer        *)
MayFree(v) ==
  \/ (\E b \in Bases : RefersTo(v, b)) /\ prov[v].off = 0
  \/ Dangling(v) /\ "double free" \in Errors
  \/ ~Dangling(v) /\ prov[v].off # 0 /\ "invalid free" \in Errors

(* meta->id = 2, for an object whose id was id *)
NoTombstone(id) == id                   \* mutant
Tombstone(id) == 2

(***************************************************************************)
(* __ptauth_free.  autia returns NULL when the id in front of the pointer  *)
(* does not verify; ptrViolation looks for bits above the address, which   *)
(* NULL has not, so the call goes on: it overwrites the id and frees       *)
(* NULL - 8, and that is what kills the process.                           *)
(***************************************************************************)
Free(v) ==
  LET meta == var[v].addr - 8
      ptr == autia(var[v], mem[meta])
      ptrViolation == ptr.sig
      known == meta \in Bases /\ Live(meta)
  IN
  /\ status = "running"
  /\ \/ /\ var[v] = NULL
        /\ touched' = "none"
        /\ UNCHANGED <<tbi, status, now, mem, chunk, born, var, prov>>
     \/ /\ MayFree(v) /\ ptr = NULL
        /\ StopAt(IF ptrViolation # 0 THEN "reported" ELSE "badfree", v)
     \/ /\ MayFree(v) /\ ptr # NULL /\ known
        /\ \E first \in AfterFree(Tombstone(mem[meta])) : mem' = [mem EXCEPT ![meta] = first]
        /\ chunk' = [chunk EXCEPT ![meta] = None]
        /\ touched' = IF RefersTo(v, meta) THEN "none" ELSE "foreign"
        /\ UNCHANGED <<tbi, status, now, born, var, prov>>
     \/ /\ MayFree(v) /\ ptr # NULL /\ ~known
        /\ Stop("corrupted")

-----------------------------------------------------------------------------
(* The checks in front of loads and stores. *)

Word(a) == IF a \in Words THEN mem[a] ELSE 0

(* The candidates of backward_search that lie in the heap. *)
Window(p) == {a \in Bases : p.addr - Threshold < a /\ a < p.addr}

(***************************************************************************)
(* __loadCheck, __GEPCheck, __nestedGEPCheck, __storeCheck: no signature,  *)
(* or one that the word in front or a candidate below vouches for.  Module *)
(* ValidatePointer has the loop, and the proof that this is what it tests. *)
(***************************************************************************)
Passes(p) ==
  \/ p.sig = 0
  \/ Vouches(p.sig, p.addr, Word(p.addr - 8))
  \/ \E a \in Window(p) : Vouches(p.sig, a + 8, Word(a))

(* The search of a pointer that does not pass ends in unmapped memory.     *)
Faults(p) ==
  \E a \in (p.addr - Threshold + 1)..(p.addr - Threshold + 16) :
    a % 16 = 0 /\ a < MapBase

ContinuesUnsearched(p) ==               \* mutant: no backward_search
  p.sig = 0 \/ Vouches(p.sig, p.addr, Word(p.addr - 8)) \/ ENABLELOG
Continues(p) == Passes(p) \/ (ENABLELOG /\ ~Faults(p))

MayUse(v) ==
  /\ status = "running"
  /\ \/ \E b \in Bases : RefersTo(v, b) /\ prov[v].off < chunk[b].req
     \/ Dangling(v) /\ "use after free" \in Errors

Reached(v) ==
  IF \E b \in Bases : RefersTo(v, b) /\ InChunk(b, var[v].addr)
  THEN "own" ELSE "foreign"

Load(v) ==
  /\ MayUse(v) /\ Continues(var[v])
  /\ touched' = Reached(v)
  /\ UNCHANGED <<tbi, status, now, mem, chunk, born, var, prov>>

Store(v, d) ==
  /\ MayUse(v) /\ Continues(var[v])
  /\ mem' = [mem EXCEPT ![var[v].addr] = d]
  /\ touched' = Reached(v)
  /\ UNCHANGED <<tbi, status, now, chunk, born, var, prov>>

Reject(v) ==
  /\ MayUse(v) /\ ~Continues(var[v])
  /\ StopAt(IF Faults(var[v]) THEN "segv" ELSE "aborted", v)

(* w = v + off, inside the object; with off = 0 a copy of the pointer *)
Derive(v, w, off) ==
  /\ status = "running"
  /\ prov[v].off = 0
  /\ \E b \in Bases : RefersTo(v, b) /\ off < chunk[b].req
  /\ var' = [var EXCEPT ![w] = [var[v] EXCEPT !.addr = @ + off]]
  /\ prov' = [prov EXCEPT ![w] = [prov[v] EXCEPT !.off = off]]
  /\ touched' = "none"
  /\ UNCHANGED <<tbi, status, now, mem, chunk, born>>

Next ==
  \/ NoTBI
  \/ \E v \in Vars, n \in Sizes : Malloc(v, n)
  \/ \E v \in Vars, n \in Sizes, item \in Items : Calloc(v, item, n)
  \/ \E v, w \in Vars, n \in ReallocSizes : Realloc(v, w, n)
  \/ \E v \in Vars : Free(v) \/ Load(v) \/ Reject(v)
  \/ \E v \in Vars, d \in Data : Store(v, d)
  \/ \E v, w \in Vars, off \in Offsets : Derive(v, w, off)

Spec == Init /\ [][Next]_vars

-----------------------------------------------------------------------------
(* Circumstances under which the library detects every error. *)

(* The words of the heap that are no ids: free's tombstone, what the       *)
(* program stores and the allocator leaves.                                *)
Junk == {0, 2} \cup Data \cup Scribbles

Drawn == 0..(MaxObjects - 1)

(* The signature of an object's pointers is not 0, and neither junk nor    *)
(* the id of another object vouches for it, at any address.                *)
IdsSignApart ==
  \A t \in Drawn, b \in Bases :
    /\ Signature(b + 8, IdAt[t]) # 0
    /\ \A a \in Words : \A w \in Junk \cup {IdAt[u] : u \in Drawn \ {t}} :
         Signature(a, w) # Signature(b + 8, IdAt[t])

(* The sizes of which realloc, asking for no more, returns all: those that *)
(* leave 16 bytes of their granules.                                       *)
RoomyReallocs == \A n \in ReallocSizes : 16 + n <= 16 * Granules(n)

-----------------------------------------------------------------------------

TypeOK ==
  /\ tbi \in BOOLEAN
  /\ status \in Statuses
  /\ now \in 0..MaxObjects
  /\ mem \in [Words -> Nat]
  /\ chunk \in [Bases -> [len : Nat, obj : 0..MaxObjects, req : Nat]]
  /\ born \in 0..MaxObjects
  /\ now <= born
  /\ var \in [Vars -> Pointer]
  /\ \A v \in Vars : var[v].addr \in Words \/ var[v] = NULL
  /\ prov \in [Vars -> [obj : 0..MaxObjects, off : Nat]]
  /\ touched \in Touches \cup Vars

(* Does a search from the place v points to in its object get down to the  *)
(* id?  With a threshold of 1024: from less than 1016 bytes into it.       *)
Reach == Threshold - 8

Reaches(v) == prov[v].off < Reach

(***************************************************************************)
(* Every pointer into a live object passes the checks, at any offset from  *)
(* which backward_search reaches the id, however often objects were        *)
(* resized and moved and whatever was written into the heap.               *)
(***************************************************************************)
LivePasses ==
  \A v \in Vars :
    Reaches(v) /\ (\E b \in Bases : RefersTo(v, b)) => Passes(var[v])

(* __ptauth_free accepts every object the allocation wrappers returned.    *)
LiveFreeable ==
  \A v \in Vars, b \in Bases :
    RefersTo(v, b) /\ prov[v].off = 0 =>
      var[v].addr = b + 8 /\ autia(var[v], mem[b]) # NULL

(***************************************************************************)
(* No false alarm but one: if the program does not use what it freed, a    *)
(* check ends it only at an access so deep in an object that the search    *)
(* gives up before it gets down to the id.                                 *)
(***************************************************************************)
NoFalseAlarm ==
  [][\A v \in Vars :
       Reject(v) => ~Reaches(v) \/ "use after free" \in Errors]_vars

(***************************************************************************)
(* A load or store never reaches memory that is not its object's: the use  *)
(* after free that toyexample.c says "is discovered by PTAuth".            *)
(***************************************************************************)
NoForeignAccess == touched # "foreign"

(***************************************************************************)
(* The C library never gets to release what is not the object that was to  *)
(* be freed: double and invalid frees end before they reach it, also when  *)
(* another object lives where the freed one was.                           *)
(***************************************************************************)
AllocatorSafe ==
  [][\A v \in Vars :
       Free(v) => status' # "corrupted" /\ touched' # "foreign"]_vars

(***************************************************************************)
(* Every byte the program asked for, it can use: alloc_size = size + 8     *)
(* makes room for the id in front of the object.                           *)
(***************************************************************************)
Capacity ==
  \A b \in Bases : Live(b) => 8 + chunk[b].req <= 16 * chunk[b].len - 8

(* A free that __ptauth_free rejects is reported, as its error path says.  *)
RejectedFreeReported == status # "badfree"

(***************************************************************************)
(* The library implements what it promises.  An access ends in abort() or  *)
(* a fault of the search, a free in the branch for rejected pointers or a  *)
(* fault behind it.                                                        *)
(***************************************************************************)
Outcome ==
  CASE status = "running" -> "running"
    [] status \in {"noTBI", "nomem"} -> "refused"
    [] status = "corrupted" -> "corrupted"
    [] status \in {"aborted", "segv"} -> "access"
    [] OTHER -> "release"

Promise == INSTANCE TemporalSafety WITH
  live <- {chunk[b].obj : b \in {c \in Bases : Live(c)}},
  ptr <- prov,
  state <- Outcome

ImplementsPromise == Promise!Spec
=============================================================================

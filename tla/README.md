# PTAuth in TLA+

PTAuth makes C programs detect use after free, double free and invalid free.
An LLVM pass replaces the allocation functions by wrappers and puts checks in
front of pointer accesses; a runtime library draws an id for every allocation,
stores it in the 8 bytes in front of the object, signs the pointer with it (top
byte = low byte of the address xor low byte of the id), and a check looks for an
id that verifies the signature of the pointer it is given, searching backwards
for interior pointers.

These modules model the pass and the library as configured in `config.h`
(`PACENABLED 0`: software signatures, `TOPBYTEIGNORE 1`: signature in bits
56..63, `RETURN 0`, `DEBUG 0`), state what they promise, check it with TLC, and
prove the most important parts with TLAPS.

## The system

| component | state | operations |
|---|---|---|
| software pointer authentication (`pacinst.c`) | none | `__xpac`, `__pacia`, `__autia` |
| checks and backward search (`ptauth-rtlib.c`) | loop counter; reads memory | `__loadCheck`, `__GEPCheck`, `__nestedGEPCheck`, `__storeCheck`, `validatePointer`, `backward_search` |
| allocation wrappers and metadata (`ptauth-rtlib.c`, `metadata.h`) | the id in front of each object | `__ptauth_malloc/calloc/realloc/free`, `initMD`, `checkTBI` |
| instrumentation (`ptauthpass.cpp`, `passutils.cpp`) | `pointers`, `GEPS`, `optimizedList`, flags | `runOnModule`, `optimizer`, `instrumentStore/Calls/Load/Return` |
| replacement of the allocation functions (`ptauthpass.cpp`, `passutils.cpp`) | the module's use lists | `replaceFuncionWith` |
| debugging (`utils.c`, `backtrace.c`), scripts, toy example, LLVM headers | – | – |

Components meet in three places: the pass decides which accesses of the program
are preceded by a call of a check; wrappers and checks share the ids in memory,
with the C library's allocator, which writes into freed chunks, and with the
program, which writes wherever it can; and a pointer carries the signature from
wrapper to check through the program.

Nothing is concurrent and nothing persists. What is hard is data in memory over
long sequences of calls: a word that was an id and is now something else, a
chunk that was freed, joined, reused or moved while aliases of it remain, a
search that walks over other objects' ids, an allocator that may or may not
overwrite what it takes back, ids that collide; in the pass, per-variable flags
that are set, cleared and consulted in the order of the code. The boundaries of
the search window and of the rounding of sizes are numeric. `PROJECT.json`
lists the hazards at their lines.

What makes each component correct:

* authentication: what was signed verifies, under the same id and address;
* checks: the search tries exactly the aligned addresses of its window, ends,
  and finds the metadata of an object that is intact;
* library: no false alarms but at accesses deeper in an object than a search
  reaches; temporal errors stop the program; the allocator gets to see no wrong
  pointer; objects have the size that was asked for;
* pass: the first access after a variable was handed over is checked, in
  functions the optimizer skips too, with the exceptions the code makes (below);
* replacement: every call of an allocation function becomes one of its wrapper,
  and nothing else of the program changes;
* pass and library together: an instrumented program that stays within what the
  pass can follow is temporally memory safe.

## Modules

| module | models |
|---|---|
| `PAC` | `pacinst.c`: pointers as records `[sig, addr]`, `xpac`, `pacia`, `autia` |
| `ValidatePointer` | one call of a check, one step per test and per iteration of the loop of `backward_search` |
| `TemporalSafety` | the promise: objects, references, no ids and no signatures |
| `PTAuthRuntime` | library, heap, allocator and an erring program; implements `TemporalSafety` under the mapping at its end |
| `PTAuthPass` | the pass, one action per kind of instruction |
| `ReplaceCalls` | `runOnModule`'s walk over the functions and `replaceFuncionWith`, on LLVM's use lists |
| `PTAuthSystem` | an instrumented program with a caller and a callee, running: composes `PTAuthPass` with `PTAuthRuntime` |
| `MC_*`, `MCBytes` | values for TLC; exclusive or by bits |
| `ValidatePointer_proofs`, `PTAuthRuntime_proofs`, `PTAuthPass_proofs`, `ReplaceCalls_proofs` | proofs about one module each |
| `Checks_proofs` | that `PTAuthRuntime`'s one-step checks end as `ValidatePointer`'s do |
| `Detection_proofs`, `Promise_proofs` | what the library detects, and that it implements `TemporalSafety` |
| `PTAuthSystem_proofs` | that the instrumented program does, if it is disciplined |

**Pointers.** A pointer's top byte and its address are apart; bits 48..55 are
zero in user addresses and no operation sets them. `ByteXor` is a constant
operator of which the proofs assume that it stays in a byte, commutes and is its
own inverse; the runs give it bits.

**ValidatePointer.** `Check` is the `if(signature)` of the four wrappers,
`Validate` is `validatePointer`, and `Skip`, `Try` and `GiveUp` are the loop.
Memory is a lowest mapped address and the words that are not 0; a read below is
SIGSEGV, an outcome of its own (`segv`). `Threshold` is the 1024 of
`backward_search`; the proofs take any value of at least 24, so that the window
has an aligned address at or below the word in front of the pointer.

**PTAuthRuntime.** The heap is an array of 8-byte words; a chunk has a length
in granules of 16 bytes, at least 32, of which 8 are glibc's bookkeeping. The
allocator is external and nondeterministic: any place where the chunk fits, any
of `Scribbles` (or, with `Intact`, nothing) in the first word of a freed chunk,
realloc in place when it fits and elsewhere when the chunk must grow. `var` is
what the program's variables hold, `prov` (ghost) the object and offset it means
by them, `touched` (ghost) whether the last access reached its own object.
Which errors the program commits is the constant `Errors`. A check is one step
here: `Passes` is the declarative test that `ValidatePointer` is shown to
compute (`Checks_proofs`). An access is `Load`, `Store` or, when the check does not return,
`Reject`. `time(0)` is a second per allocation, or possibly the same
(`SameSecond`); the id drawn in each is `IdAt`. A failing allocation ends in
`initMD(NULL)`; a free that does not authenticate goes on with NULL, because
`__autia` returns NULL and `ptrViolation` is 0 for it, and faults in
`free(NULL - 8)`.

The search has a limit, `Reach` = `Threshold` - 8: a live pointer 1016 bytes or
more into its object is rejected by lines 85-88. Objects may be larger than
that, and the properties say what the limit costs and that it costs no more:
`LivePasses` and `NoFalseAlarm` except pointers that deep (`Reaches`), and
nothing else. The one restriction on sizes is `SizesAssumption`: no program asks
for one of the eight sizes for which `size + 8` wraps. For those the wrapper
returns a chunk that is too small; they are a hazard in `PROJECT.json`, and no
property covers them.

**TemporalSafety.** `Use` reaches the object of its variable, which lives;
`Release` and `Resize` need the object. `TrapUse(v)` ends the program at an
access through `v`, and needs that the object of `v` itself is dead or that `v`
is `Reach` bytes or more into it; `TrapRelease(v)` ends it at a free of `v`, and
needs that the object of `v` is dead or that `v` is interior. The variable is
recorded (`touched`), and the kind of operation, so that an error of one
variable excuses no stop at another. Process ends map to `access` (abort, or a
fault of the search), `release` (the report, or the fault behind it), `refused`
(no memory, no TBI) and `corrupted`, which the promise never reaches.

**PTAuthPass.** The module that is instrumented is not given; each step meets
an instruction. `pointers` is the code's vector, `Call` the handler of calls
with all its arguments (those that are loads of locals, loads through locals,
others), `GEP`, `Deref`, `Nested`, `Global`, `Plain` and `Listed` the cases of
`instrumentLoad`. The optimizer looks at the whole function before the walk;
since the function is not given, `skip` is guessed when it begins, and an
instruction that would have kept the function from being skipped occurs in no
skipped function (`Meet`), while a function that is kept may end only when it
has had one (`Return`). So every prefix TLC explores is a prefix of a function
the pass can be given. `handed`, `freed` and `stale` (ghosts) say which values
may be dangling, `missed` that such an access went unchecked. The call handler
inserts a `__loadCheck` of the *address* of the variable; it checks nothing and
the model gives it no effect.

The code makes exceptions, which are in the model and in its properties:

* a function on `avoidList` (`listed`) gets no check, whatever it contains;
  `FirstUseChecked` and `NestedAfterCall` are about all others;
* the operand of `read` has become a call of `__xpac` before the handler looks
  for a load (line 279), so `read` marks nothing. What is handed to `read`, to a
  function on `functionsAvoidList` or through a function pointer is not
  `handed`;
* a variable that was checked once in a function (`isChecked`) is not marked
  again, by `free` neither: in `p->x; free(p); p->x`, with a check in front of
  the first access, the second has none. `FirstUseChecked` excepts such
  variables, and so does `ProtectedAccess`; that the code means to check them
  too is what `free_after_check` refutes;
* an access that goes on from one that got its `__nestedGEPCheck`, as `c` in
  `a->b[f(q)]->c`, gets none of its own, also if `f` is called in between
  (`Nested` with `chained`).

**ReplaceCalls.** An operand that refers to a function stands in that function's
use list, which LLVM links through the operands: a new instruction puts its
operands at the head, an erased one takes its own out. `Declare` inserts the
wrapper in front of the function, `Replace` is one iteration of the `while` loop
(`user_back`, create, `replaceAllUsesWith`, erase), `Crash` the iteration that
finds a user that is no call, where `CallSite` holds a null pointer, `Advance`
and `Finish` the walk over the functions. The operands of a module may have been
set in any order, so every order of the initial lists is an initial state.
`ProgramsAssumption` and `OrdersAssumption` say what an LLVM module is: an
operand refers to one value, and a function that one refers to is in the
module's list. The wrappers are in the library, so no program knows their names
(`FunctionsAssumption`). `OnlyCalled` names the programs that take no address of the four
functions; only for them is the module claimed to stay the same program and the
loop to end.

**PTAuthSystem.** What executes next is what the pass meets next in that
function: the code has no branches, and a step is a step of `PTAuthPass` (what
is inserted) and of `PTAuthRuntime` (what then happens) at once. `HasCheck` is
what the pass decided for this access; `Guarded` runs the check if there is one
and lets the access happen if not. `SysCall`, `Enter` and `Leave` are a call of
a function with a pointer, whose signature the parameter keeps; `stack` holds
what the pass knew of `main`, since the two functions are instrumented one by
one. `lapse` (ghost) is set when the program does what the pass does not follow:
it copies a pointer, accesses plain values through a dangling one or passes it
on, or hands over a variable that has had its check. `DisciplinedImplements`
says that without a lapse the program keeps the steps of `TemporalSafety`.
Neither `main` nor the function is on `avoidList`; `read` and the functions of
`functionsAvoidList` are `SysAvoided`, a lapse if the pointer dangles.
Stores, `realloc` and `calloc` are left out here: a store through an object's
own pointer goes where no id can be, 8 bytes off the 16-byte boundaries, and the
library's runs have all three.

## Runs

| run | question | result |
|---|---|---|
| `search` | is the skipping loop the test it is meant to be, and does it end? | holds |
| `detects` | with `abort()` compiled in: does the library, realloc included, implement temporal safety, and stop only at operations on dead or interior pointers, or too deep in an object? | holds |
| `tolerates` | pointers into live objects that are not too deep pass and can be freed, with colliding ids, same-second ids, wrong frees and reallocs | holds |
| `committed` | `ENABLELOG 1`: does still no wrong free reach the allocator, or release the object that lives where the freed one was, and have objects their size? | holds |
| `instruments` | is the first access after a hand-over checked, unless there was a check before, and is skipping by the optimizer sound? | holds |
| `replaces` | is every call replaced, and the program otherwise the same, while the loop changes the list it walks? | holds |
| `composed` | which instrumented programs are temporally safe, and which accesses are protected in the others? | holds |
| `use_after_free_logged` | does a use after free stop the program as committed? | no: `ENABLELOG 1` logs only |
| `rejected_free` | is a rejected free reported? | no: it faults in `free(NULL - 8)` |
| `realloc_capacity` | has a resized object its size? | no: the id's 8 bytes are forgotten |
| `free_after_check` | are accesses checked once free was called? | no, if the pointer had been checked before |
| `replaced_is_call` | is every user of `malloc` a call? | no: a stored address is dereferenced as one |

Every violated property quotes the comment, message or test it comes from in
`PROJECT.json`, and every property that holds has a mutant of the code that
breaks it.

**Bounds.** Two pointer variables (an object and an alias of it) suffice for
every error of `ErrorKinds`; they are symmetric, as no action distinguishes
them. `MaxObjects = 3` allocations let a chunk be freed, reused and reused
again. The heap has two minimal chunks, or one large one (64 or 80 bytes), so
that chunks are reused at once, at the same or an overlapping address, and
allocation fails. Sizes 16 and 24 are the exact fit and the last size before the
next granule. In `detects` and `tolerates` the threshold is 32 and 40 bytes, so
that objects of 32 and 40 bytes are larger than a search reaches: `detects` has
pointers 0, 8 and 24 bytes into an object, `tolerates` 0, 8 and 32, the last of
which is out of reach. The other runs have the code's 1024, `search` with
pointers on both sides of it. `MapBase` is the beginning of the heap in `detects`
and `tolerates`, so that a search fails by a fault near it and by `abort`
further up. `Data` holds a word the program may write where it is not supposed
to. In `detects` and `committed` ids, data and scribbles are such that no two
sign alike (`IdsSignApart`, an ASSUME that TLC evaluates on these runs): with
8-bit signatures detection is a matter of 255 in 256, and the model says nothing
about probabilities. `detects` has realloc, and an allocator that overwrites
what it takes back (`Intact = FALSE`): a moving realloc leaves the id in the
chunk it gives up, and where the allocator leaves it too a stale pointer passes.
An allocator that overwrites nothing, so that only the tombstone of
`__ptauth_free` stands against a stale pointer, is in `committed` and
`composed`. Nor do two allocations fall into one second there, or they share an
id. Both are listed as hazards.
`tolerates` takes the opposite: ids that collide with everything, and reallocs
of stale pointers. In `search`, pointers are 1 to 1040 bytes above the metadata,
both sides of each boundary of the window, aligned and not. In `instruments`,
four assignments allow two entries for each of two variables; functions follow
each other without bound, so what one leaves in `GEPS` meets the next. In
`replaces` three instructions allow a call nested in another whose result a
third uses, and two users of one function in either order of its list; `malloc`
may be passed to a function or stored. `composed` has two variables in `main`
and the parameter, two allocations and two entries per function: enough to free
in the callee, reuse the memory, and come back with a dangling pointer.

**Deadlock** is not checked where the process, or the call, may end. It is
checked for the pass, which can always go on.

**Fairness.** `Terminates` assumes `WF_vars(Next)` for one call of a check: it
is sequential code, run by one thread, and takes its next step; the same holds of
the pass in `ReplaceCalls`. Nothing else is
claimed to happen eventually; a program need not use its pointers.

## Proofs

`ValidatePointer_proofs` proves, for every pointer and memory, `TypeOK`,
`SearchExact` and `LivePasses`. The inductive invariant adds `Searching`: all
candidates above the loop counter were tried and failed. The arithmetic is
`SkipIsExact`: going down by the remainder passes over no multiple of 16.

`PTAuthRuntime_proofs` proves, for every set of variables, sizes, heap, ids and
allocator that the ASSUMEs admit:

* `TypeCorrect`, whatever the program does;
* `LiveAlwaysPasses`, `LiveAlwaysFreeable` and `NoFalseAlarms`, when the program
  does not write through dangling pointers (it may free twice, free interior
  pointers and resize stale ones), for objects of any size. Pointers
  `Threshold` - 8 bytes or more into an object are excepted from the first and
  the third, because the code rejects them;
* `RoomUnlessRealloc`: objects have room for what was asked, when the program
  asks realloc only for sizes whose rounding leaves 8 bytes more
  (`RoomyReallocs`). For others they do not (`realloc_capacity`).

None of these is inductive. `IInv` adds that a live chunk lies in the heap and
holds id and object (`ChunksFit`), that live chunks do not overlap (`Disjoint`),
that no variable refers to an object not yet born (`ProvBorn`, or a new object
could be born with a reference to it), and that a variable holds the address of
the object it refers to (`Placed`). `Signed` adds that the word in front of a
live object is the id its pointers are signed with; only a store through a
dangling pointer can break it, because a store inside an object is at no id,
its own or another's (`InsideIsNoId`). `ChunksFit` asks for 8 bytes less than
`Capacity`, so that it holds for resized objects too. The proofs have one lemma
for each action; the two ways to allocate and the moving realloc share
`NewObjectIInv`, about a new object in a chunk that overlaps none that are left.

`Checks_proofs` closes the gap between the two: the library's model takes a
check for one step, and `ChecksEndAsAssumed` shows, for every pointer to a word
of every heap, that the call with its loop ends in the way that step does. It
instantiates `ValidatePointer_proofs` on the library's memory and uses its
theorems.

`Detection_proofs` and `Promise_proofs` prove detection. What a check is worth
depends on 8 bits, so the theorems take it as the circumstance `IdsSignApart`:
the signature of an object's pointers is not 0, and no junk word (tombstone,
data, scribbles) and no other object's id makes the same signature, at any
address. `Orderly` adds one allocation a second, an allocator that overwrites
what a realloc may give up, and a program that resizes nothing stale. The
invariant `DInv` says where signatures and ids come from:

* `Counted`: the second is the number of objects, so each has its id;
* `Sealed`: a word of the heap is junk, or the id of the object that *lives*
  behind it;
* `Minted`: a variable is NULL, or holds the address in, and the signature of,
  the object it refers to, whatever became of that;
* `Unique`: no object is in two chunks.

So a word that vouches for a pointer is the id of its object, which lives
(`WhatVouches`): stale pointers fail every check (`StaleFails`), and what
`__ptauth_free` authenticates is the beginning of the program's own object
(`FreesOwn`), which is `AllocatorIsSafe`: no free, of a chunk that was reused
neither, reaches the C library with another object's chunk. It holds of the committed
configuration too, where `Sealed` survives writes through dangling pointers
because what they write is junk.

With checks that stop the program (`Deployed`: `ENABLELOG 0`, roomy reallocs,
no `realloc(NULL, n)`) `Signed` is inductive as well: what is written through
passed, so it lives. With `Capacity` an access within the requested size is
within the chunk, and each action maps to one of `TemporalSafety`:
`LibraryImplementsPromise`, with one lemma per action (`MallocMaps`, ...,
`DeriveMaps`). `NoForeignAccesses` follows from the promise alone.

`PTAuthPass_proofs` proves `FirstUseChecked` and `NestedAfterCall`, with the
exceptions above, for every number of variables, types and assignments. The
invariant: the entries of a variable have a first, the one a call marks
(`EntriesHaveFirst`), an assigned variable of a function that is walked has an
entry (`AssignedHasEntry`), one that was handed over is checked or marked
(`HandedIsTracked`), a function the optimizer skips hands nothing over and
leaves nothing stale (`SkippedIsHarmless`), and while nested accesses may be
stale no type is recorded (`StaleIsUnrecorded`). The second, third and last
except functions on `avoidList`.

`PTAuthSystem_proofs` proves the composition, for every set of variables,
number of objects and entries, heap and allocator, under `Circumstances`: ids
sign apart, one allocation a second, and a build that stops at a failed check.
`SystemAssumption` says that the list of entries has room for the parameter and
that a copy may be of the pointer itself. The composition has neither `realloc`
nor `Store`, so `PInv` (`DInv`, `Signed` and `Capacity`) is inductive
here without a further circumstance. `SysInv` adds

* the pass's own invariant, twice: for the function that executes and, while the
  callee runs, for what is known of `main` (`PassP` and `Saved`, two instances of
  `PTAuthPass_proofs`), because `Leave` makes that the current knowledge again;
* `Nesting` and `Scopes`: at most one call deep, the knowledge of a function is
  of its own variables, and a variable that means an object was assigned;
* `Discipline`: as long as there was no lapse, no two variables of `main` mean
  one object, the parameter means one only of a variable that `main` has handed
  over, and a variable that dangles was handed over and has had no check since.

`Discipline` is what carries `DisciplinedPrograms` (each action without a lapse
is a step of `TemporalSafety`). If an access is through a dangling pointer, its
variable was handed over, was assigned and is unchecked; then the pass has
marked it (`HandedIsTracked`) and does not skip the function
(`SkippedIsHarmless`), so `HasCheck`; and the check fails (`StaleFails`). An
access without a check is through a live pointer, and maps to `Use`.
`AccessDiscipline` is that argument, `EnterMaps`, `LeaveMaps`, `CallMaps` and
`AccessMaps` are the steps the library alone does not have.
`ProtectedAccesses` needs the first half of it only and holds of programs with
lapses too, for variables that had no check before (`~isChecked`). The run `composed` checked `SysInv` before it was proved.

`ReplaceCalls_proofs` proves all four invariants of the run `replaces` for every
module: any instructions, operands and functions, with any order of the use
lists. `Lists` is `UseListsExact` with types; `Replace` keeps it because what it
enters is the new call's operands (`EnteringExact`), what leaves is the erased
call's (`ThoseExact`), and the lists share nothing (`ConcatExact`). That a call
is at the head of a list and that an id is free for the next (`CallIsInBlock`,
`FreshId`, by pigeonhole) make the step well defined. `SameProgram` is inductive
with these. `Complete` needs `Walk`: functions behind the walk have no uses
left, which a later replacement cannot bring back because it copies the
operands of a call that had none. `CallsAreSafe` bounds the defect that
`replaced_is_call` finds: a module that only calls the four functions never
meets it. Sequences are picked by `Those`, which counts positions instead of
recurring over the sequence (`Counted` shows by cardinality that it enumerates),
so no induction over data is needed.

Only model-checked: liveness (`Terminates`, of the search and of the loop of
`replaceFuncionWith`), which is out of TLAPS' reach here.

## Not modelled

* `__noCheck`, which returns its argument in this build, `__pacga`, which has no
  caller, `checkAlloc` and the code behind the first `return` of
  `instrumentStore`, which is dead, and `instrumentAlloc`, whose flags nobody
  reads.
* The build with ARMv8.3 instructions (`PACENABLED 1`).
* In `ReplaceCalls`: `InvokeInst` (no C program has one) and users of a function
  that are constant expressions or initializers; they are no calls, and end as a
  store of the address does.
* In `PTAuthSystem`: stores, `realloc`, `calloc`, nested and global accesses,
  functions on `avoidList`, and more than one level of calls.
* Allocations whose size plus 8 exceeds `size_t`.
* The vendored headers of LLVM 6, more than 99% of the lines below `src/`. They
  are unchanged and declare what libLLVM implements; `ReplaceCalls` models the
  few definitions the pass leans on (`Use::addToList`, `removeFromList`,
  `user_back`, `use_empty`, `CallSite`). What is PTAuth's own, two C files and
  two C++ files with their headers, is mapped.
* `utils.c`, `backtrace.c`: debugging output.
* C library functions `aligned_alloc`, `memalign`, ..., a TODO of the code.
* Loops in an instrumented function: the pass sees instructions in the order of
  the code and so does the model.

## Plan

Done: the library and the pass, the replacement of calls, their composition,
the proofs above. What could come next:

1. Stores and `realloc` in `PTAuthSystem`, with a larger heap; in the proofs,
   `UseMaps` and `ReallocMaps` of `Promise_proofs` cover what the library does.
2. In `ReplaceCalls`, one walk of the pass behind the other: that every call
   `PTAuthPass` takes for one of a wrapper is one that `Replace` created.
3. The build with ARMv8.3 instructions, whose signatures have more bits and in
   which `autia` of a wrong pointer yields a corrupted pointer, not NULL.

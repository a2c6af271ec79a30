------------------------- MODULE ReplaceCalls_proofs -------------------------
(***************************************************************************)
(* Proofs about the replacement of the allocation functions: for every     *)
(* program, in whatever order its use lists and functions stand, the use   *)
(* lists stay exact under the loop, the module stays the program it was,   *)
(* and in the end nothing refers to the four functions.                    *)
(***************************************************************************)
EXTENDS ReplaceCalls, FiniteSetTheorems, SequenceTheorems, TLAPS

-----------------------------------------------------------------------------
(* The inductive invariant. *)

Values == [res : 0..(Len(prog) + 1), fn : Functions \cup {""}]
Instruction ==
  [callee : Functions \cup Wrappers \cup {NoCall}, args : Seq(Values)]
Use == [user : 1..(Len(prog) + 1), no : Nat]

Shape ==
  /\ prog \in Programs
  /\ inst \in [1..(Len(prog) + 1) -> Instruction]
  /\ block \in [1..Len(prog) -> 1..(Len(prog) + 1)] /\ IsInjective(block)
  /\ \A id \in Ids \ ToSet(block) : inst[id] = Dead
  /\ functions \in Seq(Functions \cup Wrappers)
  /\ it \in 1..(Len(functions) + 1)
  /\ NF \in Wrappers \cup {""}
  /\ status \in {"running", "done", "crashed"}

Lists == uses \in [Named -> Seq(Use)] /\ UseListsExact

(* What the walk over the functions has left behind.                       *)
Behind(i) ==
  functions[i] \in Wrapped =>
    /\ UsesIn(inst, functions[i]) = {}
    /\ i > 1 /\ functions[i - 1] = Wrapper(functions[i])

Walk ==
  /\ NF # "" => /\ it > 1 /\ it <= Len(functions) /\ functions[it] \in Wrapped
                /\ NF = Wrapper(functions[it]) /\ functions[it - 1] = NF
  /\ \A i \in 1..(it - 1) : Behind(i)
  /\ \A f \in Wrapped : UsesIn(inst, f) # {} => f \in ToSet(functions)
  /\ status = "done" => it > Len(functions)

IInv == Shape /\ Lists /\ SameProgram /\ Walk

-----------------------------------------------------------------------------
(* The names of the functions. *)

LEMMA Names ==
  /\ NoCall \notin Named /\ "" \notin Named
  /\ Wrapped \cap Wrappers = {}
  /\ \A f \in Wrapped : Wrapper(f) \in Wrappers /\ Unwrapped(Wrapper(f)) = f
  /\ \A f : f \notin Wrappers => Unwrapped(f) = f
  /\ Wrapped \subseteq Named /\ Wrappers \subseteq Named
  /\ \A f \in Wrappers : f # ""
<1>1. Wrappers = {"__ptauth_malloc", "__ptauth_calloc", "__ptauth_realloc",
                  "__ptauth_free"}
  <2>1. /\ Wrapper("malloc") = "__ptauth_malloc"
        /\ Wrapper("calloc") = "__ptauth_calloc"
        /\ Wrapper("realloc") = "__ptauth_realloc"
        /\ Wrapper("free") = "__ptauth_free"
    BY DEF Wrapper
  <2>2. Wrappers = {Wrapper("malloc"), Wrapper("calloc"), Wrapper("realloc"),
                    Wrapper("free")}
    BY DEF Wrappers, Wrapped
  <2> QED
    BY <2>1, <2>2
<1>2. \A f, g \in Wrapped : Wrapper(f) = Wrapper(g) => f = g
  BY DEF Wrapped, Wrapper
<1>3. \A f \in Wrapped : Wrapper(f) \in Wrappers
  BY DEF Wrappers
<1>4. \A f \in Wrapped : Unwrapped(Wrapper(f)) = f
  BY <1>2, <1>3 DEF Unwrapped
<1>5. \A f : f \notin Wrappers => Unwrapped(f) = f
  BY DEF Unwrapped
<1>7. NoCall \notin Named /\ "" \notin Named /\ Wrapped \cap Wrappers = {}
  BY <1>1 DEF Named, Wrapped, NoCall
<1>8. Wrapped \subseteq Named /\ Wrappers \subseteq Named
  BY DEF Named
<1> QED
  BY <1>1, <1>3, <1>4, <1>5, <1>7, <1>8

-----------------------------------------------------------------------------
(* Sequences without repetition. *)

(* The numbers of a finite set, counted from the least.                    *)
LEMMA Counted ==
  ASSUME NEW S \in SUBSET Int, IsFiniteSet(S)
  PROVE  [n \in 1..Cardinality(S) |->
            CHOOSE k \in S : Cardinality({j \in S : j < k}) = n - 1]
           \in Bijection(1..Cardinality(S), S)
<1> DEFINE N == Cardinality(S)
           Below(k) == {j \in S : j < k}
           rank == [k \in S |-> Cardinality(Below(k)) + 1]
           kth == [n \in 1..N |-> CHOOSE k \in S : Cardinality(Below(k)) = n - 1]
<1>1. N \in Nat
  BY FS_CardinalityType
<1>2. \A k \in S : /\ IsFiniteSet(Below(k))
                   /\ Cardinality(Below(k)) \in Nat /\ Cardinality(Below(k)) < N
  <2> TAKE k \in S
  <2>1. IsFiniteSet(S \ {k}) /\ Cardinality(S \ {k}) = N - 1
    BY FS_RemoveElement
  <2>2. Below(k) \in SUBSET (S \ {k})
    OBVIOUS
  <2>3. IsFiniteSet(Below(k)) /\ Cardinality(Below(k)) <= N - 1
    BY <2>1, <2>2, FS_Subset
  <2> QED
    BY <1>1, <2>3, FS_CardinalityType
<1>3. \A j, k \in S : j < k => Cardinality(Below(j)) < Cardinality(Below(k))
  <2> SUFFICES ASSUME NEW j \in S, NEW k \in S, j < k
               PROVE  Cardinality(Below(j)) < Cardinality(Below(k))
    OBVIOUS
  <2>0. \A i \in S : i < j => i < k
    OBVIOUS
  <2>1. j \in Below(k) /\ j \notin Below(j)
    OBVIOUS
  <2>4. Below(j) \in SUBSET Below(k)
    BY <2>0
  <2>2. Below(j) # Below(k)
    BY <2>1
  <2> HIDE DEF Below
  <2>3. /\ Cardinality(Below(j)) <= Cardinality(Below(k))
        /\ Cardinality(Below(k)) # Cardinality(Below(j))
    BY <1>2, <2>2, <2>4, FS_Subset
  <2> QED
    BY <1>2, <2>3
<1> HIDE DEF Below
<1>4. rank \in Injection(S, 1..N)
  <2>1. rank \in [S -> 1..N]
    BY <1>1, <1>2
  <2>2. \A j, k \in S : rank[j] = rank[k] => j = k
    <3> SUFFICES ASSUME NEW j \in S, NEW k \in S, j # k
                 PROVE  rank[j] # rank[k]
      OBVIOUS
    <3>1. j < k \/ k < j
      OBVIOUS
    <3>2. Cardinality(Below(j)) # Cardinality(Below(k))
      BY <1>2, <1>3, <3>1
    <3> QED
      BY <1>2, <3>2
  <2> QED
    BY <2>1, <2>2 DEF Injection, IsInjective
<1>5. rank \in Surjection(S, 1..N)
  <2>1. IsFiniteSet(1..N) /\ Cardinality(1..N) = N
    BY <1>1, FS_Interval
  <2> QED
    BY <1>4, <2>1, FS_Injection
<1>6. \A n \in 1..N : kth[n] \in S /\ rank[kth[n]] = n
  <2> TAKE n \in 1..N
  <2>1. PICK k \in S : rank[k] = n
    BY <1>5 DEF Surjection
  <2>2. Cardinality(Below(k)) = n - 1
    BY <1>2, <2>1
  <2>3. kth[n] \in S /\ Cardinality(Below(kth[n])) = n - 1
    BY <2>2
  <2> QED
    BY <1>2, <2>3
<1> HIDE DEF rank, kth
<1>7. kth \in [1..N -> S]
  BY <1>6 DEF kth
<1>8. IsInjective(kth)
  BY <1>6, <1>7 DEF IsInjective
<1>9. \A k \in S : rank[k] \in 1..N /\ kth[rank[k]] = k
  <2> TAKE k \in S
  <2>1. rank[k] \in 1..N
    BY <1>4 DEF Injection
  <2>2. kth[rank[k]] \in S /\ rank[kth[rank[k]]] = rank[k]
    BY <1>6, <2>1
  <2> QED
    BY <1>4, <2>1, <2>2 DEF Injection, IsInjective
<1>10. kth \in Bijection(1..N, S)
  BY <1>7, <1>8, <1>9 DEF Bijection, Injection, Surjection
<1> QED
  BY <1>10 DEF kth, Below

LEMMA SameInterval == \A a, b \in Nat : 1..a = 1..b => a = b
<1> SUFFICES ASSUME NEW a \in Nat, NEW b \in Nat, 1..a = 1..b, a # b
             PROVE  FALSE
  OBVIOUS
<1>1. \A k \in Int : k \in 1..a <=> k \in 1..b
  OBVIOUS
<1> QED
  BY <1>1

(* Those(s, S) has the elements of s that are in S, and each once.         *)
LEMMA ThoseExact ==
  ASSUME NEW T, NEW s \in Seq(T), IsInjective(s), NEW S
  PROVE  /\ Those(s, S) \in Seq(T) /\ IsInjective(Those(s, S))
         /\ ToSet(Those(s, S)) = ToSet(s) \cap S
<1> DEFINE at == {k \in DOMAIN s : s[k] \in S}
           kth == [n \in 1..Cardinality(at) |->
                     CHOOSE k \in at : Cardinality({j \in at : j < k}) = n - 1]
<1>1. Len(s) \in Nat /\ DOMAIN s = 1..Len(s) /\ s \in [1..Len(s) -> T]
  BY LenProperties
<1>2. at \in SUBSET Int /\ IsFiniteSet(at)
  <2>1. at \in SUBSET (1..Len(s))
    BY <1>1
  <2>2. IsFiniteSet(1..Len(s))
    BY <1>1, FS_Interval
  <2> HIDE DEF at
  <2>3. IsFiniteSet(at)
    BY <2>1, <2>2, FS_Subset
  <2>4. at \in SUBSET Int
    BY <2>1
  <2> QED
    BY <2>3, <2>4
<1>3. Cardinality(at) \in Nat
  BY <1>2, FS_CardinalityType
<1> HIDE DEF at
<1>4. kth \in Bijection(1..Cardinality(at), at)
  BY <1>2, Counted
<1>5. Those(s, S) = [n \in 1..Cardinality(at) |-> s[kth[n]]]
  BY DEF Those, at
<1> HIDE DEF kth
<1>6. /\ \A n \in 1..Cardinality(at) : kth[n] \in at
      /\ \A m, n \in 1..Cardinality(at) : kth[m] = kth[n] => m = n
      /\ \A k \in at : \E n \in 1..Cardinality(at) : kth[n] = k
  BY <1>4 DEF Bijection, Injection, Surjection, IsInjective
<1>7. \A k \in at : k \in 1..Len(s) /\ s[k] \in S /\ s[k] \in T
  BY <1>1 DEF at
<1>8. Those(s, S) \in [1..Cardinality(at) -> T]
  BY <1>5, <1>6, <1>7
<1>9. Those(s, S) \in Seq(T)
  BY <1>3, <1>8, SeqDef
<1>10. IsInjective(Those(s, S))
  BY <1>1, <1>5, <1>6, <1>7 DEF IsInjective
<1>11. ToSet(Those(s, S)) \subseteq ToSet(s) \cap S
  BY <1>1, <1>5, <1>6, <1>7 DEF ToSet
<1>12. ToSet(s) \cap S \subseteq ToSet(Those(s, S))
  <2> SUFFICES ASSUME NEW k \in 1..Len(s), s[k] \in S
               PROVE  s[k] \in ToSet(Those(s, S))
    BY <1>1 DEF ToSet
  <2>1. k \in at
    BY <1>1 DEF at
  <2>2. PICK n \in 1..Cardinality(at) : kth[n] = k
    BY <1>6, <2>1
  <2>3. Those(s, S)[n] = s[k]
    BY <1>5, <2>2
  <2> QED
    BY <1>5, <2>3 DEF ToSet
<1> QED
  BY <1>9, <1>10, <1>11, <1>12

LEMMA ConcatExact ==
  ASSUME NEW T, NEW s \in Seq(T), NEW t \in Seq(T),
         IsInjective(s), IsInjective(t), ToSet(s) \cap ToSet(t) = {}
  PROVE  /\ s \o t \in Seq(T) /\ IsInjective(s \o t)
         /\ ToSet(s \o t) = ToSet(s) \cup ToSet(t)
<1> DEFINE st == s \o t
<1>1. /\ Len(s) \in Nat /\ DOMAIN s = 1..Len(s)
      /\ Len(t) \in Nat /\ DOMAIN t = 1..Len(t)
  BY LenProperties
<1>2. /\ st \in Seq(T) /\ Len(st) = Len(s) + Len(t)
      /\ \A i \in 1..(Len(s) + Len(t)) :
           st[i] = IF i <= Len(s) THEN s[i] ELSE t[i - Len(s)]
  BY ConcatProperties
<1>3. DOMAIN st = 1..(Len(s) + Len(t))
  BY <1>2, LenProperties
<1> HIDE DEF st
<1>4. \A i \in 1..(Len(s) + Len(t)) :
        \/ i \in DOMAIN s /\ st[i] = s[i]
        \/ i - Len(s) \in DOMAIN t /\ st[i] = t[i - Len(s)]
  BY <1>1, <1>2
<1>5. \A i \in DOMAIN s : i \in DOMAIN st /\ st[i] = s[i]
  BY <1>1, <1>2, <1>3
<1>6. \A i \in DOMAIN t : i + Len(s) \in DOMAIN st /\ st[i + Len(s)] = t[i]
  BY <1>1, <1>2, <1>3
<1>7. ToSet(st) = ToSet(s) \cup ToSet(t)
  <2>1. ToSet(st) \subseteq ToSet(s) \cup ToSet(t)
    BY <1>3, <1>4 DEF ToSet
  <2>2. ToSet(s) \subseteq ToSet(st)
    BY <1>5 DEF ToSet
  <2>3. ToSet(t) \subseteq ToSet(st)
    BY <1>6 DEF ToSet
  <2> QED
    BY <2>1, <2>2, <2>3
<1>8. IsInjective(st)
  <2> SUFFICES ASSUME NEW i \in 1..(Len(s) + Len(t)), NEW j \in 1..(Len(s) + Len(t)),
                      st[i] = st[j]
               PROVE  i = j
    BY <1>3 DEF IsInjective
  <2>1. CASE i \in DOMAIN s /\ st[i] = s[i]
    <3>1. j \in DOMAIN s /\ st[j] = s[j]
      BY <1>4, <2>1 DEF ToSet
    <3> QED
      BY <2>1, <3>1 DEF IsInjective
  <2>2. CASE i - Len(s) \in DOMAIN t /\ st[i] = t[i - Len(s)]
    <3>1. j - Len(s) \in DOMAIN t /\ st[j] = t[j - Len(s)]
      BY <1>4, <2>2 DEF ToSet
    <3>2. i - Len(s) = j - Len(s)
      BY <2>2, <3>1 DEF IsInjective
    <3> QED
      BY <1>1, <3>2
  <2> QED
    BY <1>4, <2>1, <2>2
<1> QED
  BY <1>2, <1>7, <1>8 DEF st
-----------------------------------------------------------------------------
(* The operands of instructions. *)

LEMMA DeadUnused ==
  \A f \in Named : Operands(Dead, f) = {}
<1> SUFFICES ASSUME NEW f \in Named PROVE Operands(Dead, f) = {}
  OBVIOUS
<1>1. Dead.callee # f
  BY Names DEF Dead
<1>2. Len(Dead.args) = 0
  BY EmptySeq DEF Dead
<1>3. \A n \in 0..Len(Dead.args) : n = 0
  BY <1>2
<1> QED
  BY <1>1, <1>3 DEF Operands

LEMMA OperandsType ==
  ASSUME NEW T, NEW i, i.args \in Seq(T), NEW f
  PROVE  /\ Operands(i, f) \in SUBSET Nat /\ IsFiniteSet(Operands(i, f))
         /\ \A n \in Operands(i, f) : n \in 0..Len(i.args)
<1>1. Len(i.args) \in Nat
  BY LenProperties
<1>2. Operands(i, f) \in SUBSET (0..Len(i.args))
  BY DEF Operands
<1>3. IsFiniteSet(0..Len(i.args))
  BY <1>1, FS_Interval
<1>4. IsFiniteSet(Operands(i, f))
  BY <1>2, <1>3, FS_Subset
<1>5. 0..Len(i.args) \subseteq Nat
  BY <1>1
<1> QED
  BY <1>2, <1>4, <1>5

LEMMA FiniteImage ==
  ASSUME NEW S, IsFiniteSet(S), NEW T, NEW g \in [S -> T]
  PROVE  IsFiniteSet({g[x] : x \in S})
<1>1. g \in Surjection(S, {g[x] : x \in S})
  BY DEF Surjection
<1> QED
  BY <1>1, FS_Surjection

LEMMA FiniteUses ==
  ASSUME NEW N \in Nat, NEW is \in [1..N -> Instruction], NEW f
  PROVE  IsFiniteSet(UsesIn(is, f))
<1> DEFINE Of(id) == {[user |-> id, no |-> n] : n \in Operands(is[id], f)}
           all == [id \in 1..N |-> Of(id)]
<1>1. \A id \in 1..N : IsFiniteSet(Of(id))
  <2> TAKE id \in 1..N
  <2> DEFINE g == [n \in Operands(is[id], f) |-> [user |-> id, no |-> n]]
  <2>1. IsFiniteSet(Operands(is[id], f))
    <3>1. is[id].args \in Seq(Values)
      BY DEF Instruction
    <3> QED
      BY <3>1, OperandsType
  <2>2. g \in [Operands(is[id], f) -> Of(id)]
    OBVIOUS
  <2>3. {g[n] : n \in Operands(is[id], f)} = Of(id)
    OBVIOUS
  <2> HIDE DEF g, Of
  <2>4. IsFiniteSet({g[n] : n \in Operands(is[id], f)})
    BY <2>1, <2>2, FiniteImage
  <2> QED
    BY <2>3, <2>4
<1> HIDE DEF Of
<1>2. IsFiniteSet({all[id] : id \in 1..N})
  <2>1. all \in [1..N -> {Of(id) : id \in 1..N}]
    OBVIOUS
  <2>2. IsFiniteSet(1..N)
    BY FS_Interval
  <2> HIDE DEF all
  <2> QED
    BY <2>1, <2>2, FiniteImage
<1>3. {all[id] : id \in 1..N} = {Of(id) : id \in 1..N}
  OBVIOUS
<1>4. IsFiniteSet(UNION {Of(id) : id \in 1..N})
  BY <1>1, <1>2, <1>3, FS_UNION
<1> QED
  BY <1>4 DEF UsesIn, Of

(* The operands of an instruction enter a list each once.                  *)
LEMMA EnteringExact ==
  ASSUME Len(prog) \in Nat, NEW id \in 1..(Len(prog) + 1), NEW f,
         NEW T, NEW i, i.args \in Seq(T)
  PROVE  /\ Entering(id, i, f) \in Seq(Use) /\ IsInjective(Entering(id, i, f))
         /\ ToSet(Entering(id, i, f)) =
              {[user |-> id, no |-> n] : n \in Operands(i, f)}
<1> DEFINE N == Len(i.args)
           s == OperandUses(id, i)
           S == [user : {id}, no : Operands(i, f)]
<1>1. N \in Nat
  BY LenProperties
<1>2. s = [k \in 1..(N + 1) |-> [user |-> id, no |-> N + 1 - k]]
  BY DEF OperandUses
<1> HIDE DEF N, s
<1>3. \A k \in 1..(N + 1) : N + 1 - k \in Nat
  BY <1>1
<1>4. s \in [1..(N + 1) -> Use]
  BY <1>2, <1>3 DEF Use
<1>5. s \in Seq(Use)
  BY <1>1, <1>4, SeqDef
<1>6. IsInjective(s)
  <2>1. \A k \in 1..(N + 1) : s[k].no = N + 1 - k
    BY <1>2
  <2> QED
    BY <1>1, <1>4, <2>1 DEF IsInjective
<1>7. ToSet(s) \cap S = {[user |-> id, no |-> n] : n \in Operands(i, f)}
  <2>1. ToSet(s) \cap S \subseteq {[user |-> id, no |-> n] : n \in Operands(i, f)}
    OBVIOUS
  <2>2. \A n \in Operands(i, f) : [user |-> id, no |-> n] \in ToSet(s) \cap S
    <3> TAKE n \in Operands(i, f)
    <3>1. n \in 0..N
      BY OperandsType DEF N
    <3>2. N + 1 - n \in 1..(N + 1) /\ N + 1 - (N + 1 - n) = n
      BY <1>1, <3>1
    <3>3. s[N + 1 - n] = [user |-> id, no |-> n]
      BY <1>2, <3>2
    <3> QED
      BY <1>2, <3>2, <3>3 DEF ToSet
  <2> QED
    BY <2>1, <2>2
<1>8. Entering(id, i, f) = Those(s, S)
  BY DEF Entering, s
<1> HIDE DEF S
<1> QED
  BY <1>5, <1>6, <1>7, <1>8, ThoseExact

-----------------------------------------------------------------------------
(* The module before the replacement. *)

LEMMA InitShape ==
  ASSUME Init
  PROVE  /\ Shape /\ Len(prog) \in Nat /\ DOMAIN prog = 1..Len(prog)
         /\ \A i \in 1..Len(prog) : block[i] = i /\ inst[i] = prog[i]
         /\ inst[Len(prog) + 1] = Dead
<1> DEFINE N == Len(prog)
           Given == [callee : Functions \cup {NoCall},
                     args : Seq([res : 0..N, fn : Functions \cup {""}])]
<1>1. /\ prog \in Programs /\ functions \in Orders
      /\ inst = [id \in 1..(N + 1) |-> IF id <= N THEN prog[id] ELSE Dead]
      /\ block = [i \in 1..N |-> i]
      /\ it = 1
  BY DEF Init
<1>2. NF \in Wrappers \cup {""} /\ status \in {"running", "done", "crashed"}
  BY DEF Init
<1>3. prog \in Seq(Given)
  BY <1>1, ProgramsAssumption
<1>4. Dead \in Instruction
  BY EmptySeq DEF Dead, Instruction
<1> HIDE DEF Given
<1>5. /\ N \in Nat /\ DOMAIN prog = 1..N
      /\ \A i \in 1..N : prog[i] \in Given
  BY <1>3, LenProperties, ElementOfSeq
<1>6. 0..N \subseteq 0..(N + 1)
  BY <1>5
<1>7. \A i \in 1..N : prog[i] \in Instruction
  <2> TAKE i \in 1..N
  <2>1. [res : 0..N, fn : Functions \cup {""}] \subseteq Values
    BY <1>6 DEF Values
  <2>2. prog[i].args \in Seq(Values)
    BY <1>5, <2>1, SeqMonotonic DEF Given
  <2>3. prog[i] \in [callee : Functions \cup {NoCall}, args : Seq(Values)]
    BY <1>5, <2>2 DEF Given
  <2> QED
    BY <2>3 DEF Instruction
<1> HIDE DEF N
<1>8. \A id \in 1..(N + 1) : id <= N => id \in 1..N
  BY <1>5
<1>9. inst \in [1..(N + 1) -> Instruction]
  BY <1>1, <1>4, <1>7, <1>8
<1>10. \A i \in 1..N : i \in 1..(N + 1) /\ i <= N
  BY <1>5
<1>11. \A i \in 1..N : block[i] = i /\ inst[i] = prog[i]
  BY <1>1, <1>10
<1>12. N + 1 \in 1..(N + 1) /\ ~(N + 1 <= N)
  BY <1>5
<1>13. inst[N + 1] = Dead
  BY <1>1, <1>12
<1>14. block \in [1..N -> 1..(N + 1)] /\ IsInjective(block)
  BY <1>1, <1>10 DEF IsInjective
<1>15. \A id \in Ids \ ToSet(block) : inst[id] = Dead
  <2> SUFFICES ASSUME NEW id \in 1..(N + 1), id \notin ToSet(block)
               PROVE  inst[id] = Dead
    BY <1>9 DEF Ids
  <2>1. id \notin 1..N
    BY <1>1 DEF ToSet
  <2>2. ~(id <= N)
    BY <1>8, <2>1
  <2> QED
    BY <1>1, <2>2
<1>16. functions \in Seq(Functions \cup Wrappers)
  BY <1>1, OrdersAssumption, SeqMonotonic
<1>17. Len(functions) \in Nat
  BY <1>16, LenProperties
<1>18. 1 \in 1..(Len(functions) + 1)
  BY <1>17
<1> QED
  BY <1>1, <1>2, <1>5, <1>9, <1>11, <1>13, <1>14, <1>15, <1>16, <1>18 DEF Shape, N
LEMMA InitLists ==
  ASSUME Init
  PROVE  Lists
<1>1. Len(prog) \in Nat /\ inst \in [1..(Len(prog) + 1) -> Instruction]
  BY InitShape DEF Shape
<1> DEFINE U == UNION {UsesIn(inst, f) : f \in Named}
<1>2. IsFiniteSet(U)
  <2>1. IsFiniteSet({UsesIn(inst, f) : f \in Named})
    <3> DEFINE g == [f \in Named |-> UsesIn(inst, f)]
    <3>1. IsFiniteSet(Named)
      <4>1. IsFiniteSet(Wrapped)
        <5>1. Wrapped = {"malloc"} \cup {"calloc"} \cup {"realloc"} \cup {"free"}
          BY DEF Wrapped
        <5>2. IsFiniteSet({"malloc"} \cup {"calloc"})
          BY FS_Singleton, FS_Union
        <5>3. IsFiniteSet({"malloc"} \cup {"calloc"} \cup {"realloc"})
          BY <5>2, FS_Singleton, FS_Union
        <5> QED
          BY <5>1, <5>3, FS_Singleton, FS_Union
      <4>2. IsFiniteSet(Wrappers)
        <5> DEFINE w == [f \in Wrapped |-> Wrapper(f)]
        <5>1. Wrappers = {w[f] : f \in Wrapped}
          BY DEF Wrappers
        <5>2. w \in [Wrapped -> Wrappers]
          BY Names
        <5> HIDE DEF w
        <5> QED
          BY <4>1, <5>1, <5>2, FiniteImage
      <4> QED
        BY <4>1, <4>2, FS_Union DEF Named
    <3>2. g \in [Named -> {UsesIn(inst, f) : f \in Named}]
      OBVIOUS
    <3>3. {UsesIn(inst, f) : f \in Named} = {g[f] : f \in Named}
      OBVIOUS
    <3> HIDE DEF g
    <3>4. IsFiniteSet({g[f] : f \in Named})
      BY <3>1, <3>2, FiniteImage
    <3> QED
      BY <3>3, <3>4
  <2>2. \A f \in Named : IsFiniteSet(UsesIn(inst, f))
    BY <1>1, FiniteUses
  <2>3. \A S \in {UsesIn(inst, f) : f \in Named} : IsFiniteSet(S)
    BY <2>2
  <2> HIDE DEF U
  <2>4. IsFiniteSet(UNION {UsesIn(inst, f) : f \in Named})
    BY <2>1, <2>3, FS_UNION
  <2> QED
    BY <2>4 DEF U
<1>3. \A f : UsesIn(inst, f) \subseteq Use
  <2> SUFFICES ASSUME NEW f, NEW id \in 1..(Len(prog) + 1),
                      NEW n \in Operands(inst[id], f)
               PROVE  [user |-> id, no |-> n] \in Use
    BY <1>1 DEF UsesIn
  <2>1. inst[id].args \in Seq(Values)
    BY <1>1 DEF Instruction
  <2>2. n \in Nat
    BY <2>1, OperandsType
  <2> QED
    BY <2>2 DEF Use
<1>4. U \subseteq Use
  BY <1>3
<1>5. \A f \in Named : UsesIn(inst, f) \subseteq U
  OBVIOUS
<1>6. PICK latest \in SetToSeqs(U) :
        uses = [f \in Named |-> Those(latest, UsesIn(inst, f))]
  BY DEF Init
<1> HIDE DEF U
<1>7. Cardinality(U) \in Nat
  BY <1>2, FS_CardinalityType
<1>8. latest \in Injection(1..Cardinality(U), U)
  BY <1>6 DEF SetToSeqs, Injection, IsInjective
<1>9. latest \in Seq(Use) /\ IsInjective(latest)
  <2>1. latest \in [1..Cardinality(U) -> Use]
    BY <1>4, <1>8 DEF Injection
  <2> QED
    BY <1>7, <1>8, <2>1, SeqDef DEF Injection
<1>10. ToSet(latest) = U
  <2>1. IsFiniteSet(1..Cardinality(U)) /\ Cardinality(1..Cardinality(U)) = Cardinality(U)
    BY <1>7, FS_Interval
  <2>2. latest \in Surjection(1..Cardinality(U), U)
    BY <1>2, <1>8, <2>1, FS_Injection
  <2> QED
    BY <2>2 DEF Surjection, ToSet
<1>11. ASSUME NEW f \in Named
       PROVE  /\ uses[f] \in Seq(Use) /\ IsInjective(uses[f])
              /\ ToSet(uses[f]) = UsesIn(inst, f)
  <2>1. uses[f] = Those(latest, UsesIn(inst, f))
    BY <1>6
  <2>2. ToSet(latest) \cap UsesIn(inst, f) = UsesIn(inst, f)
    BY <1>5, <1>10
  <2> HIDE DEF U
  <2>3. /\ Those(latest, UsesIn(inst, f)) \in Seq(Use)
        /\ IsInjective(Those(latest, UsesIn(inst, f)))
        /\ ToSet(Those(latest, UsesIn(inst, f))) = ToSet(latest) \cap UsesIn(inst, f)
    BY <1>9, ThoseExact, ZenonT(30)
  <2> QED
    BY <2>1, <2>2, <2>3
<1>12. uses \in [Named -> Seq(Use)]
  BY <1>6, <1>11
<1> QED
  BY <1>11, <1>12 DEF Lists, UseListsExact

LEMMA InitSame ==
  ASSUME Init
  PROVE  SameProgram
<1> SUFFICES ASSUME NEW i \in 1..Len(prog)
             PROVE  /\ Unwrapped(prog[i].callee) = prog[i].callee
                    /\ \A n \in DOMAIN prog[i].args :
                         SameOperand(prog[i].args[n], prog[i].args[n])
  BY InitShape DEF SameProgram
<1>1. prog \in Programs
  BY DEF Init
<1>2. prog \in Seq([callee : Functions \cup {NoCall},
                    args : Seq([res : 0..Len(prog), fn : Functions \cup {""}])])
  BY <1>1, ProgramsAssumption
<1>3. prog[i] \in [callee : Functions \cup {NoCall},
                    args : Seq([res : 0..Len(prog), fn : Functions \cup {""}])]
  BY <1>2, ElementOfSeq
<1>4. Unwrapped(prog[i].callee) = prog[i].callee
  <2>1. prog[i].callee \notin Wrappers
    BY <1>3, Names, FunctionsAssumption DEF Named
  <2> QED
    BY <2>1, Names
<1>5. ASSUME NEW n \in DOMAIN prog[i].args
      PROVE  SameOperand(prog[i].args[n], prog[i].args[n])
  <2> DEFINE was == prog[i].args[n]
  <2> DEFINE Given == [res : 0..Len(prog), fn : Functions \cup {""}]
  <2>1. was \in Given
    <3>1. prog[i].args \in Seq(Given)
      BY <1>3
    <3> HIDE DEF Given
    <3> QED
      BY <3>1, LenProperties, ElementOfSeq
  <2>2. was.res = 0 \/ was.fn = ""
    <3>1. i \in DOMAIN prog
      BY InitShape
    <3> QED
      BY <1>1, <3>1, ProgramsAssumption
  <2>3. CASE was.res # 0
    <3>1. was = Result(was.res)
      BY <2>1, <2>2, <2>3 DEF Result
    <3>2. was.res \in 0..Len(prog)
      BY <2>1
    <3>3. was.res \in 1..Len(prog)
      BY <3>2, <2>3, InitShape
    <3>4. block[was.res] = was.res
      BY <3>3, InitShape
    <3> QED
      BY <2>3, <3>1, <3>4 DEF SameOperand
  <2>4. CASE was.res = 0
    BY <2>4 DEF SameOperand
  <2> QED
    BY <2>3, <2>4
<1> QED
  BY <1>4, <1>5

LEMMA InitWalk ==
  ASSUME Init
  PROVE  Walk
<1>1. NF = "" /\ status = "running" /\ prog \in Programs /\ functions \in Orders
  BY DEF Init
<1>2. 1..(it - 1) = {}
  <2>1. it = 1
    BY DEF Init
  <2> QED
    BY <2>1
<1>3. ASSUME NEW f \in Wrapped, UsesIn(inst, f) # {}
      PROVE  f \in ToSet(functions)
  <2>1. PICK id \in DOMAIN inst : Operands(inst[id], f) # {}
    BY <1>3 DEF UsesIn
  <2>2. inst[id] # Dead
    BY <2>1, DeadUnused, Names
  <2>3. id \in 1..Len(prog) /\ inst[id] = prog[id]
    <3>1. id \in 1..(Len(prog) + 1) /\ Len(prog) \in Nat
      BY InitShape DEF Shape
    <3>2. id # Len(prog) + 1
      BY <2>2, InitShape
    <3>3. id \in 1..Len(prog)
      BY <3>1, <3>2
    <3> QED
      BY <3>3, InitShape
  <2>4. id \in DOMAIN prog /\ Operands(prog[id], f) # {}
    BY <2>1, <2>3, InitShape
  <2>5. PICK n \in Operands(prog[id], f) : TRUE
    BY <2>4
  <2>6. [user |-> id, no |-> n] \in UsesIn(prog, f)
    BY <2>4, <2>5 DEF UsesIn
  <2> QED
    BY <1>1, <2>6, OrdersAssumption
<1> QED
  BY <1>1, <1>2, <1>3 DEF Walk

LEMMA InitInv == Init => IInv
BY InitShape, InitLists, InitSame, InitWalk DEF IInv
-----------------------------------------------------------------------------
(* What the loop does to instructions. *)

(* A result that is replaced by another leaves the references to functions *)
(* where they are.                                                         *)
LEMMA ReplacedArgs ==
  ASSUME NEW args \in Seq(Values), NEW call, NEW New \in 1..(Len(prog) + 1)
  PROVE  /\ ReplacedIn(args, call, New) \in Seq(Values)
         /\ Len(ReplacedIn(args, call, New)) = Len(args)
         /\ \A n \in 1..Len(args) :
              /\ ReplacedIn(args, call, New)[n] =
                   IF args[n] = Result(call) THEN Result(New) ELSE args[n]
              /\ ReplacedIn(args, call, New)[n].fn = args[n].fn
<1> DEFINE new == ReplacedIn(args, call, New)
<1>1. /\ Len(args) \in Nat /\ DOMAIN args = 1..Len(args)
      /\ \A n \in 1..Len(args) : args[n] \in Values
  BY LenProperties
<1>2. new = [n \in 1..Len(args) |->
               IF args[n] = Result(call) THEN Result(New) ELSE args[n]]
  BY <1>1 DEF ReplacedIn
<1> HIDE DEF new
<1>3. Result(New) \in Values
  <2>1. New \in 0..(Len(prog) + 1)
    OBVIOUS
  <2> QED
    BY <2>1 DEF Result, Values
<1>4. new \in [1..Len(args) -> Values]
  BY <1>1, <1>2, <1>3
<1>5. new \in Seq(Values)
  BY <1>1, <1>4, SeqDef
<1>6. Len(new) = Len(args)
  <2>1. DOMAIN new = 1..Len(new) /\ Len(new) \in Nat
    BY <1>5, LenProperties
  <2>2. DOMAIN new = 1..Len(args)
    BY <1>4
  <2> QED
    BY <1>1, <2>1, <2>2, SameInterval
<1>7. \A n \in 1..Len(args) : new[n].fn = args[n].fn
  <2>1. Result(call).fn = Result(New).fn
    BY DEF Result
  <2> QED
    BY <1>2, <2>1
<1> QED
  BY <1>2, <1>5, <1>6, <1>7 DEF new

(* j is i with the result replaced. *)
Differs(i, j, call, New) ==
  j.callee = i.callee /\ j.args = ReplacedIn(i.args, call, New)

LEMMA ReplacedUses ==
  ASSUME NEW call, NEW New \in 1..(Len(prog) + 1), NEW f,
         NEW i, NEW j, i.args \in Seq(Values), Differs(i, j, call, New)
  PROVE  Operands(j, f) = Operands(i, f)
<1>0. j.callee = i.callee /\ j.args = ReplacedIn(i.args, call, New)
  BY DEF Differs
<1>1. Len(i.args) \in Nat
  BY LenProperties
<1>2. Len(j.args) = Len(i.args)
  BY <1>0, ReplacedArgs
<1>3. \A n \in 1..Len(i.args) : j.args[n].fn = i.args[n].fn
  BY <1>0, ReplacedArgs
<1>4. \A n \in 0..Len(i.args) : n # 0 => n \in 1..Len(i.args)
  BY <1>1
<1> QED
  BY <1>0, <1>2, <1>3, <1>4 DEF Operands

-----------------------------------------------------------------------------
(* One round of the loop. *)

Call == user_back(functions[it])
Fresh == CHOOSE id \in Ids : id \notin ToSet(block)

LEMMA ProgType == Shape => Len(prog) \in Nat /\ DOMAIN prog = 1..Len(prog)
<1> DEFINE Given == [callee : Functions \cup {NoCall},
                     args : Seq([res : 0..Len(prog), fn : Functions \cup {""}])]
<1>1. Shape => prog \in Seq(Given)
  BY ProgramsAssumption DEF Shape
<1> HIDE DEF Given
<1> QED
  BY <1>1, LenProperties

(* There is a spare id.                                                    *)
LEMMA FreshId ==
  ASSUME Shape
  PROVE  Fresh \in 1..(Len(prog) + 1) /\ Fresh \notin ToSet(block)
<1> DEFINE N == Len(prog)
<1>1. /\ N \in Nat /\ block \in [1..N -> 1..(N + 1)]
      /\ Ids = 1..(N + 1)
  BY ProgType DEF Shape, Ids
<1> HIDE DEF N
<1>2. \E id \in Ids : id \notin ToSet(block)
  <2> SUFFICES ASSUME \A id \in 1..(N + 1) : id \in ToSet(block)
               PROVE  FALSE
    BY <1>1
  <2>1. block \in Surjection(1..N, 1..(N + 1))
    BY <1>1 DEF Surjection, ToSet
  <2>2. IsFiniteSet(1..N) /\ Cardinality(1..N) = N /\ Cardinality(1..(N + 1)) = N + 1
    BY <1>1, FS_Interval
  <2>3. Cardinality(1..(N + 1)) <= Cardinality(1..N)
    BY <2>1, <2>2, FS_Surjection
  <2> QED
    BY <1>1, <2>2, <2>3
<1> QED
  BY <1>1, <1>2 DEF Fresh, N

(* The user at the head of a use list is an instruction of the module.     *)
LEMMA CallIsInBlock ==
  ASSUME Shape, Lists, NEW f \in Named, uses[f] # <<>>
  PROVE  /\ user_back(f) \in 1..(Len(prog) + 1) /\ user_back(f) \in ToSet(block)
         /\ Operands(inst[user_back(f)], f) # {}
<1>1. uses[f] \in Seq(Use) /\ ToSet(uses[f]) = UsesIn(inst, f)
  BY DEF Lists, UseListsExact
<1>2. Head(uses[f]) = uses[f][1] /\ 1 \in DOMAIN uses[f]
  <2>1. Len(uses[f]) \in Nat \ {0} /\ DOMAIN uses[f] = 1..Len(uses[f])
    BY <1>1, EmptySeq, LenProperties
  <2> QED
    BY <2>1
<1>3. Head(uses[f]) \in UsesIn(inst, f)
  BY <1>1, <1>2 DEF ToSet
<1>4. DOMAIN inst = 1..(Len(prog) + 1)
  BY DEF Shape
<1>5. \E id \in 1..(Len(prog) + 1) : \E n \in Operands(inst[id], f) :
        Head(uses[f]) = [user |-> id, no |-> n]
  BY <1>3, <1>4 DEF UsesIn
<1>6. /\ user_back(f) \in 1..(Len(prog) + 1)
      /\ Operands(inst[user_back(f)], f) # {}
  BY <1>5 DEF user_back
<1>7. inst[user_back(f)] # Dead
  BY <1>6, DeadUnused
<1>8. user_back(f) \in ToSet(block)
  BY <1>4, <1>6, <1>7 DEF Shape, Ids
<1> QED
  BY <1>6, <1>8
(* What a round of the loop changes.                                       *)
LEMMA ReplaceStep ==
  ASSUME Shape, Lists, Walk, Replace
  PROVE  /\ functions[it] \in Wrapped /\ NF = Wrapper(functions[it])
         /\ Call \in 1..(Len(prog) + 1) /\ Call \in ToSet(block)
         /\ Operands(inst[Call], functions[it]) # {}
         /\ Fresh \in 1..(Len(prog) + 1) /\ Fresh \notin ToSet(block)
         /\ Fresh # Call
         /\ inst' \in [1..(Len(prog) + 1) -> Instruction]
         /\ inst'[Fresh] = [callee |-> NF,
                            args |-> ReplacedIn(inst[Call].args, Call, Fresh)]
         /\ inst'[Call] = Dead
         /\ \A id \in 1..(Len(prog) + 1) :
              id # Call /\ id # Fresh =>
                inst'[id] = [callee |-> inst[id].callee,
                             args |-> ReplacedIn(inst[id].args, Call, Fresh)]
         /\ block' = [i \in 1..Len(prog) |->
                        IF block[i] = Call THEN Fresh ELSE block[i]]
         /\ UNCHANGED <<prog, functions, it, NF, status>>
<1> DEFINE N == Len(prog)
           created == [inst EXCEPT ![Fresh] = Replacement(Call), ![Call] = Dead]
<1>1. functions[it] \in Wrapped /\ functions[it] \in Named
  BY Names DEF Replace, AtWrapped
<1>2. NF = Wrapper(functions[it]) /\ NF \in Wrappers
  BY <1>1, Names DEF Replace, Walk
<1>3. uses[functions[it]] # <<>>
  BY DEF Replace
<1>4. /\ Call \in 1..(N + 1) /\ Call \in ToSet(block)
      /\ Operands(inst[Call], functions[it]) # {}
  BY <1>1, <1>3, CallIsInBlock DEF Call
<1>5. Fresh \in 1..(N + 1) /\ Fresh \notin ToSet(block) /\ Fresh # Call
  BY <1>4, FreshId
<1>6. /\ N \in Nat /\ inst \in [1..(N + 1) -> Instruction]
      /\ Ids = 1..(N + 1) /\ block \in [1..N -> 1..(N + 1)]
  BY ProgType DEF Shape, Ids
<1>7. /\ inst' = [id \in Ids |->
                    [created[id] EXCEPT !.args = ReplacedIn(@, Call, Fresh)]]
      /\ block' = InPlaceOf(Call, Fresh)
      /\ UNCHANGED <<prog, functions, it, NF, status>>
  BY DEF Replace, Call, Fresh
<1> HIDE DEF N
<1>8. \A i \in Instruction :
        /\ i = [callee |-> i.callee, args |-> i.args]
        /\ i.args \in Seq(Values)
        /\ [i EXCEPT !.args = ReplacedIn(@, Call, Fresh)] =
             [callee |-> i.callee, args |-> ReplacedIn(i.args, Call, Fresh)]
        /\ [i EXCEPT !.args = ReplacedIn(@, Call, Fresh)] \in Instruction
  <2> SUFFICES ASSUME NEW i \in Instruction
               PROVE  /\ i = [callee |-> i.callee, args |-> i.args]
                      /\ i.args \in Seq(Values)
                      /\ [i EXCEPT !.args = ReplacedIn(@, Call, Fresh)] =
                           [callee |-> i.callee,
                            args |-> ReplacedIn(i.args, Call, Fresh)]
                      /\ [i EXCEPT !.args = ReplacedIn(@, Call, Fresh)] \in Instruction
    OBVIOUS
  <2>1. i.args \in Seq(Values)
    BY DEF Instruction
  <2>2. ReplacedIn(i.args, Call, Fresh) \in Seq(Values)
    BY <1>5, <2>1, ReplacedArgs DEF N
  <2> QED
    BY <2>1, <2>2 DEF Instruction
<1>9. /\ Replacement(Call) \in Instruction
      /\ Replacement(Call) = [callee |-> NF, args |-> inst[Call].args]
  <2>1. inst[Call].args \in Seq(Values)
    BY <1>4, <1>6, <1>8
  <2> QED
    BY <1>2, <2>1 DEF Replacement, Instruction
<1>10. Dead \in Instruction /\ [Dead EXCEPT !.args = ReplacedIn(@, Call, Fresh)] = Dead
  <2>1. Dead \in Instruction
    BY EmptySeq DEF Dead, Instruction
  <2>2. ReplacedIn(<<>>, Call, Fresh) = <<>>
    BY DEF ReplacedIn
  <2> QED
    BY <2>1, <2>2 DEF Dead
<1>11. /\ created \in [1..(N + 1) -> Instruction]
       /\ created[Fresh] = Replacement(Call) /\ created[Call] = Dead
       /\ \A id \in 1..(N + 1) : id # Call /\ id # Fresh => created[id] = inst[id]
  BY <1>4, <1>5, <1>6, <1>9, <1>10
<1> HIDE DEF created
<1>12. \A id \in 1..(N + 1) :
         /\ inst'[id] = [created[id] EXCEPT !.args = ReplacedIn(@, Call, Fresh)]
         /\ inst'[id] \in Instruction
  BY <1>6, <1>7, <1>8, <1>11
<1>13. inst' \in [1..(N + 1) -> Instruction]
  BY <1>6, <1>7, <1>12
<1>14. inst'[Call] = Dead
  BY <1>4, <1>10, <1>11, <1>12
<1>15. inst'[Fresh] = [callee |-> NF,
                       args |-> ReplacedIn(inst[Call].args, Call, Fresh)]
  BY <1>5, <1>8, <1>9, <1>11, <1>12
<1>16. \A id \in 1..(N + 1) :
         id # Call /\ id # Fresh =>
           inst'[id] = [callee |-> inst[id].callee,
                        args |-> ReplacedIn(inst[id].args, Call, Fresh)]
  BY <1>6, <1>8, <1>11, <1>12
<1>17. block' = [i \in 1..N |-> IF block[i] = Call THEN Fresh ELSE block[i]]
  <2>1. block \in Seq(1..(N + 1)) /\ DOMAIN block = 1..N
    BY <1>6, SeqDef
  <2>2. DOMAIN block = 1..Len(block)
    BY <2>1, LenProperties
  <2> QED
    BY <1>7, <2>1, <2>2 DEF InPlaceOf, ReplaceAll
<1> QED
  BY <1>1, <1>2, <1>4, <1>5, <1>7, <1>13, <1>14, <1>15, <1>16, <1>17 DEF N
LEMMA ReplaceShape ==
  ASSUME Shape, Lists, Walk, Replace
  PROVE  Shape'
<1> DEFINE N == Len(prog)
<1>1. UNCHANGED <<prog, functions, it, NF, status>>
  BY ReplaceStep
<1>2. /\ Call \in 1..(N + 1) /\ Call \in ToSet(block)
      /\ Fresh \in 1..(N + 1) /\ Fresh \notin ToSet(block) /\ Fresh # Call
  BY ReplaceStep
<1>3. inst' \in [1..(N + 1) -> Instruction] /\ Instruction' = Instruction
  BY <1>1, ReplaceStep DEF Instruction, Values
<1>4. block' = [i \in 1..N |-> IF block[i] = Call THEN Fresh ELSE block[i]]
  BY ReplaceStep
<1>5. /\ block \in [1..N -> 1..(N + 1)] /\ IsInjective(block) /\ N \in Nat
      /\ Ids = 1..(N + 1)
  BY ProgType DEF Shape, Ids
<1>6. inst'[Call] = Dead
  BY ReplaceStep
<1>7. \A id \in 1..(N + 1) :
        id # Call /\ id # Fresh /\ inst[id] = Dead => inst'[id] = Dead
  <2>1. ReplacedIn(<<>>, Call, Fresh) = <<>>
    BY DEF ReplacedIn
  <2>2. Dead = [callee |-> Dead.callee, args |-> <<>>] /\ Dead.args = <<>>
    BY DEF Dead
  <2> QED
    BY <2>1, <2>2, ReplaceStep
<1> HIDE DEF N
<1>8. block' \in [1..N -> 1..(N + 1)]
  BY <1>2, <1>4, <1>5
<1>9. \A i \in 1..N : block[i] \in ToSet(block)
  BY <1>5 DEF ToSet
<1>10. IsInjective(block')
  <2> SUFFICES ASSUME NEW i \in 1..N, NEW j \in 1..N, block'[i] = block'[j]
               PROVE  i = j
    BY <1>8 DEF IsInjective
  <2>1. block[i] = block[j]
    BY <1>2, <1>4, <1>9
  <2> QED
    BY <1>5, <2>1 DEF IsInjective
<1>11. \A id \in 1..(N + 1) : id \notin ToSet(block') => inst'[id] = Dead
  <2> SUFFICES ASSUME NEW id \in 1..(N + 1), id \notin ToSet(block'), id # Call
               PROVE  inst'[id] = Dead
    BY <1>6
  <2>1. \A i \in 1..N : block'[i] # id
    BY <1>8 DEF ToSet
  <2>2. id # Fresh
    <3>1. PICK i \in 1..N : block[i] = Call
      BY <1>2, <1>5 DEF ToSet
    <3>2. block'[i] = Fresh
      BY <1>4, <3>1
    <3> QED
      BY <2>1, <3>2
  <2>3. \A i \in 1..N : block[i] # id
    BY <1>4, <2>1
  <2>4. id \notin ToSet(block)
    BY <1>5, <2>3 DEF ToSet
  <2>5. inst[id] = Dead
    BY <1>5, <2>4 DEF Shape
  <2> QED
    BY <1>7, <2>2, <2>5
<1>12. \A id \in Ids' \ ToSet(block)' : inst'[id] = Dead
  BY <1>3, <1>11 DEF Ids, ToSet
<1> QED
  BY <1>1, <1>3, <1>8, <1>10, <1>12 DEF Shape, N

(* What refers to f afterwards: what did, but for the call that is erased, *)
(* and the new one.                                                        *)
LEMMA ReplaceUses ==
  ASSUME Shape, Lists, Walk, Replace, NEW f \in Named
  PROVE  UsesIn(inst, f)' =
           {u \in UsesIn(inst, f) : u.user # Call} \cup
             {[user |-> Fresh, no |-> n] : n \in Operands(Replacement(Call), f)}
<1> DEFINE N == Len(prog)
           R == Replacement(Call)
<1>1. /\ Call \in 1..(N + 1) /\ Call \in ToSet(block)
      /\ Fresh \in 1..(N + 1) /\ Fresh \notin ToSet(block) /\ Fresh # Call
  BY ReplaceStep
<1>2. /\ inst \in [1..(N + 1) -> Instruction] /\ Ids = 1..(N + 1)
      /\ \A id \in 1..(N + 1) : inst[id].args \in Seq(Values)
  BY DEF Shape, Ids, Instruction
<1>3. inst' \in [1..(N + 1) -> Instruction]
  BY ReplaceStep
<1>4. R.callee = NF /\ R.args = inst[Call].args
  BY DEF Replacement
<1>5. Operands(inst'[Fresh], f) = Operands(R, f)
  <2>1. inst'[Fresh].callee = NF
    BY ReplaceStep
  <2>2. inst'[Fresh].args = ReplacedIn(inst[Call].args, Call, Fresh)
    BY ReplaceStep
  <2>3. R.args \in Seq(Values) /\ Differs(R, inst'[Fresh], Call, Fresh)
    BY <1>1, <1>2, <1>4, <2>1, <2>2 DEF Differs
  <2> HIDE DEF R
  <2> QED
    BY <1>1, <2>3, ReplacedUses
<1>6. Operands(inst'[Call], f) = {}
  BY ReplaceStep, DeadUnused
<1>7. Operands(inst[Fresh], f) = {}
  BY <1>1, <1>2, DeadUnused DEF Shape
<1>8. \A id \in 1..(N + 1) : id # Call /\ id # Fresh =>
        Operands(inst'[id], f) = Operands(inst[id], f)
  <2> SUFFICES ASSUME NEW id \in 1..(N + 1), id # Call, id # Fresh
               PROVE  Operands(inst'[id], f) = Operands(inst[id], f)
    OBVIOUS
  <2>1. inst'[id] = [callee |-> inst[id].callee,
                     args |-> ReplacedIn(inst[id].args, Call, Fresh)]
    BY ReplaceStep
  <2>2. Differs(inst[id], inst'[id], Call, Fresh)
    BY <2>1 DEF Differs
  <2>3. inst[id].args \in Seq(Values)
    BY <1>2
  <2> QED
    BY <1>1, <2>2, <2>3, ReplacedUses
<1>9. \A u : u \in UsesIn(inst, f)' <=>
               \E id \in 1..(N + 1) : \E n \in Operands(inst'[id], f) :
                 u = [user |-> id, no |-> n]
  BY <1>3 DEF UsesIn, Operands
<1>10. \A u : u \in UsesIn(inst, f) <=>
                \E id \in 1..(N + 1) : \E n \in Operands(inst[id], f) :
                  u = [user |-> id, no |-> n]
  BY <1>2 DEF UsesIn
<1> HIDE DEF R, N
<1>11. ASSUME NEW u \in UsesIn(inst, f)'
       PROVE  \/ u \in UsesIn(inst, f) /\ u.user # Call
              \/ \E n \in Operands(R, f) : u = [user |-> Fresh, no |-> n]
  <2>1. PICK id \in 1..(N + 1) : \E n \in Operands(inst'[id], f) :
               u = [user |-> id, no |-> n]
    BY <1>9
  <2>2. CASE id = Fresh
    BY <1>5, <2>1, <2>2
  <2>3. CASE id # Fresh
    <3>1. id # Call
      BY <1>6, <2>1
    <3>2. \E n \in Operands(inst[id], f) : u = [user |-> id, no |-> n]
      BY <1>8, <2>1, <2>3, <3>1
    <3>3. u \in UsesIn(inst, f) /\ u.user = id
      BY <1>10, <3>2
    <3> QED
      BY <3>1, <3>3
  <2> QED
    BY <2>2, <2>3
<1>12. ASSUME NEW u \in UsesIn(inst, f), u.user # Call
       PROVE  u \in UsesIn(inst, f)'
  <2>1. PICK id \in 1..(N + 1) : \E n \in Operands(inst[id], f) :
               u = [user |-> id, no |-> n]
    BY <1>10
  <2>2. id # Call
    BY <1>12, <2>1
  <2>3. id # Fresh
    BY <1>7, <2>1
  <2>4. \E n \in Operands(inst'[id], f) : u = [user |-> id, no |-> n]
    BY <1>8, <2>1, <2>2, <2>3
  <2> QED
    BY <1>9, <2>4
<1>13. ASSUME NEW n \in Operands(R, f)
       PROVE  [user |-> Fresh, no |-> n] \in UsesIn(inst, f)'
  BY <1>1, <1>5, <1>9
<1> QED
  BY <1>11, <1>12, <1>13 DEF R
(* The new call's operands are entered, the erased call's have left.       *)
LEMMA ReplaceLists ==
  ASSUME Shape, Lists, Walk, Replace
  PROVE  Lists'
<1> DEFINE R == Replacement(Call)
<1>1. /\ Call \in 1..(Len(prog) + 1) /\ Fresh \in 1..(Len(prog) + 1)
      /\ Fresh \notin ToSet(block) /\ Len(prog) \in Nat
      /\ inst \in [1..(Len(prog) + 1) -> Instruction]
  BY ReplaceStep, ProgType DEF Shape
<1>2. Use' = Use
  BY ReplaceStep DEF Use
<1>3. uses' = [f \in Named |-> Entering(Fresh, R, f) \o Leaving(uses[f], Call)]
  BY DEF Replace, Call, Fresh
<1>4. R.args \in Seq(Values)
  BY <1>1 DEF Replacement, Instruction
<1>5. ASSUME NEW f \in Named
      PROVE  /\ uses'[f] \in Seq(Use) /\ IsInjective(uses'[f])
             /\ ToSet(uses'[f]) = UsesIn(inst, f)'
  <2> DEFINE entering == Entering(Fresh, R, f)
             leaving == Leaving(uses[f], Call)
             New == {[user |-> Fresh, no |-> n] : n \in Operands(R, f)}
             Kept == {u \in UsesIn(inst, f) : u.user # Call}
  <2>1. /\ entering \in Seq(Use) /\ IsInjective(entering)
        /\ ToSet(entering) = New
    <3> HIDE DEF R
    <3> QED
      BY <1>1, <1>4, EnteringExact
  <2>2. /\ uses[f] \in Seq(Use) /\ IsInjective(uses[f])
        /\ ToSet(uses[f]) = UsesIn(inst, f)
    BY DEF Lists, UseListsExact
  <2>3. leaving \in Seq(Use) /\ IsInjective(leaving) /\ ToSet(leaving) = Kept
    <3>1. /\ leaving \in Seq(Use) /\ IsInjective(leaving)
          /\ ToSet(leaving) = ToSet(uses[f]) \cap {u \in ToSet(uses[f]) : u.user # Call}
      BY <2>2, ThoseExact, ZenonT(30) DEF Leaving
    <3>2. ToSet(uses[f]) \cap {u \in ToSet(uses[f]) : u.user # Call} = Kept
      BY <2>2
    <3> QED
      BY <3>1, <3>2
  <2>4. New \cap Kept = {}
    <3>1. inst[Fresh] = Dead
      BY <1>1 DEF Shape, Ids
    <3>2. Operands(inst[Fresh], f) = {}
      BY <3>1, DeadUnused
    <3>3. \A u \in UsesIn(inst, f) : u.user # Fresh
      BY <3>2 DEF UsesIn
    <3> QED
      BY <3>3
  <2>5. UsesIn(inst, f)' = Kept \cup New
    BY ReplaceUses
  <2>6. uses'[f] = entering \o leaving
    BY <1>3
  <2> HIDE DEF entering, leaving, New, Kept
  <2>7. /\ entering \o leaving \in Seq(Use) /\ IsInjective(entering \o leaving)
        /\ ToSet(entering \o leaving) = New \cup Kept
    BY <2>1, <2>3, <2>4, ConcatExact
  <2> QED
    BY <2>5, <2>6, <2>7
<1>6. uses' \in [Named -> Seq(Use)]
  BY <1>3, <1>5
<1> QED
  BY <1>2, <1>5, <1>6 DEF Lists, UseListsExact, ToSet, IsInjective

(* In a program that only calls the functions, the user of one calls it.   *)
LEMMA UserCalls ==
  ASSUME Shape, Lists, SameProgram, OnlyCalled,
         NEW f \in Wrapped, uses[f] # <<>>
  PROVE  inst[user_back(f)].callee = f
<1> DEFINE N == Len(prog)
           is == inst[user_back(f)]
<1>1. /\ f \in Named /\ f # "" /\ DOMAIN prog = 1..N
      /\ inst \in [1..(N + 1) -> Instruction] /\ block \in [1..N -> 1..(N + 1)]
  BY Names, ProgType DEF Shape
<1>2. user_back(f) \in ToSet(block) /\ Operands(is, f) # {}
  BY <1>1, CallIsInBlock
<1>3. PICK i \in 1..N : block[i] = user_back(f)
  BY <1>1, <1>2 DEF ToSet
<1>4. is.args \in Seq(Values)
  BY <1>1, <1>3 DEF Instruction
<1>5. /\ Len(is.args) = Len(prog[i].args)
      /\ \A n \in DOMAIN is.args : SameOperand(is.args[n], prog[i].args[n])
  BY <1>1, <1>3 DEF SameProgram
<1>6. PICK n \in Operands(is, f) : TRUE
  BY <1>2
<1>7. n \in 0..Len(is.args) /\ Len(is.args) \in Nat /\ DOMAIN is.args = 1..Len(is.args)
  BY <1>4, <1>6, OperandsType, LenProperties
<1> HIDE DEF is
<1>8. n = 0
  <2> SUFFICES ASSUME n # 0 PROVE FALSE
    OBVIOUS
  <2> DEFINE old == prog[i].args[n]
  <2>1. n \in 1..Len(is.args)
    BY <1>7
  <2>2. is.args[n].fn = f
    BY <1>6 DEF Operands
  <2>3. SameOperand(is.args[n], old)
    BY <1>5, <1>7, <2>1
  <2>4. old.fn = f
    <3>1. CASE old.res = 0
      BY <2>2, <2>3, <3>1 DEF SameOperand
    <3>2. CASE old.res # 0
      <4>1. is.args[n] = Result(block[old.res])
        BY <2>3, <3>2 DEF SameOperand
      <4>2. \A id : Result(id).fn = ""
        BY DEF Result
      <4> QED
        BY <1>1, <2>2, <4>1, <4>2
    <3> QED
      BY <3>1, <3>2
  <2>5. n \in Operands(prog[i], f)
    BY <1>5, <1>7, <2>4 DEF Operands
  <2> QED
    BY <1>1, <2>5 DEF OnlyCalled
<1> QED
  BY <1>6, <1>8 DEF Operands, is

(* What the loop replaces is a                                             *)

(* call of the function, and its wrapper's stands in its place.            *)
LEMMA ReplaceSame ==
  ASSUME Shape, Lists, SameProgram, Walk, Replace
  PROVE  SameProgram'
<1> DEFINE Same(new, old) ==
             IF old.res = 0 THEN new = old ELSE new = Result(block'[old.res])
<1> SUFFICES ASSUME OnlyCalled, NEW i \in 1..Len(prog)
             PROVE  LET now == inst'[block'[i]] IN
                    /\ Unwrapped(now.callee) = prog[i].callee
                    /\ Len(now.args) = Len(prog[i].args)
                    /\ \A n \in DOMAIN now.args : Same(now.args[n], prog[i].args[n])
  <2>1. prog' = prog /\ DOMAIN prog = 1..Len(prog)
    BY ReplaceStep, ProgType
  <2>2. OnlyCalled' = OnlyCalled
    BY <2>1 DEF OnlyCalled, Operands
  <2> QED
    BY <2>1, <2>2 DEF SameProgram, SameOperand, Unwrapped
<1> DEFINE func == functions[it]
           was == inst[block[i]]
           now == inst'[block'[i]]
<1>1. /\ func \in Wrapped /\ NF = Wrapper(func) /\ UNCHANGED prog
      /\ Call \in 1..(Len(prog) + 1) /\ Call \in ToSet(block)
      /\ Operands(inst[Call], func) # {}
      /\ Fresh \in 1..(Len(prog) + 1) /\ Fresh \notin ToSet(block)
  BY ReplaceStep
<1>2. /\ block \in [1..Len(prog) -> 1..(Len(prog) + 1)] /\ IsInjective(block)
      /\ inst \in [1..(Len(prog) + 1) -> Instruction]
      /\ DOMAIN prog = 1..Len(prog) /\ Len(prog) \in Nat
  BY ProgType DEF Shape
<1>3. /\ block' = [k \in 1..Len(prog) |->
                     IF block[k] = Call THEN Fresh ELSE block[k]]
      /\ \A k \in 1..Len(prog) : block[k] \in ToSet(block)
  BY <1>2, ReplaceStep DEF ToSet
<1>4. \A k \in 1..Len(prog) :
        LET is == inst[block[k]] IN
        /\ is.args \in Seq(Values)
        /\ Unwrapped(is.callee) = prog[k].callee
        /\ Len(is.args) = Len(prog[k].args)
        /\ \A n \in DOMAIN is.args : SameOperand(is.args[n], prog[k].args[n])
  BY <1>2 DEF SameProgram, Instruction
<1>5. /\ now.args = ReplacedIn(was.args, Call, Fresh)
      /\ now.callee = IF block[i] = Call THEN NF ELSE was.callee
  <2>1. block[i] \in 1..(Len(prog) + 1) /\ block[i] # Fresh
    BY <1>1, <1>2, <1>3
  <2>2. CASE block[i] = Call
    BY <1>3, <2>2, ReplaceStep
  <2>3. CASE block[i] # Call
    BY <1>3, <2>1, <2>3, ReplaceStep
  <2> QED
    BY <2>2, <2>3
<1>6. was.args \in Seq(Values) /\ Len(was.args) = Len(prog[i].args)
  BY <1>4
<1>7. /\ Len(now.args) = Len(was.args) /\ now.args \in Seq(Values)
      /\ \A n \in 1..Len(was.args) :
           now.args[n] = IF was.args[n] = Result(Call) THEN Result(Fresh)
                         ELSE was.args[n]
  BY <1>1, <1>5, <1>6, ReplacedArgs
<1>8. DOMAIN now.args = 1..Len(was.args) /\ DOMAIN was.args = 1..Len(was.args)
  BY <1>6, <1>7, LenProperties
<1>9. Unwrapped(now.callee) = prog[i].callee
  <2>1. CASE block[i] # Call
    BY <1>4, <1>5, <2>1
  <2>2. CASE block[i] = Call
    <3>4. was.callee = func
      <4>1. uses[func] # <<>>
        BY DEF Replace
      <4> QED
        BY <1>1, <2>2, <4>1, UserCalls DEF Call
    <3>5. prog[i].callee = func
      BY <1>1, <1>4, <3>4, Names
    <3>6. Unwrapped(NF) = func
      BY <1>1, Names
    <3> QED
      BY <1>5, <2>2, <3>5, <3>6
  <2> QED
    BY <2>1, <2>2
<1>10. ASSUME NEW n \in 1..Len(was.args)
       PROVE  Same(now.args[n], prog[i].args[n])
  <2> DEFINE old == prog[i].args[n]
  <2>1. SameOperand(was.args[n], old)
    BY <1>4, <1>8
  <2>2. CASE old.res = 0
    <3>1. was.args[n] = old
      BY <2>1, <2>2 DEF SameOperand
    <3>2. was.args[n].res # Result(Call).res
      BY <1>1, <2>2, <3>1 DEF Result
    <3>3. now.args[n] = old
      BY <1>7, <3>1, <3>2
    <3> QED
      BY <2>2, <3>3
  <2>3. CASE old.res # 0
    <3>1. was.args[n] = Result(block[old.res])
      BY <2>1, <2>3 DEF SameOperand
    <3>2. old.res \in 1..Len(prog)
      <4> DEFINE Given == [res : 0..Len(prog), fn : Functions \cup {""}]
                 Instr == [callee : Functions \cup {NoCall}, args : Seq(Given)]
      <4>1. prog \in Seq(Instr)
        BY ProgramsAssumption DEF Shape
      <4>2. prog[i] \in Instr
        <5> HIDE DEF Instr
        <5> QED
          BY <4>1, ElementOfSeq
      <4>3. prog[i].args \in Seq(Given) /\ n \in 1..Len(prog[i].args)
        BY <1>6, <4>2
      <4>4. old \in Given
        <5> HIDE DEF Given
        <5> QED
          BY <4>3, ElementOfSeq
      <4>5. old.res \in 0..Len(prog)
        BY <4>4
      <4> HIDE DEF old
      <4> QED
        BY <1>2, <2>3, <4>5
    <3>3. block'[old.res] = IF block[old.res] = Call THEN Fresh ELSE block[old.res]
      BY <1>3, <3>2
    <3>4. block[old.res] # Call => Result(block[old.res]) # Result(Call)
      <4>1. \A a, b : Result(a) = Result(b) => a = b
        BY DEF Result
      <4> QED
        BY <4>1
    <3>5. now.args[n] = Result(block'[old.res])
      BY <1>7, <3>1, <3>3, <3>4
    <3> QED
      BY <2>3, <3>5
  <2> QED
    BY <2>2, <2>3
<1> QED
  BY <1>6, <1>7, <1>8, <1>9, <1>10
LEMMA ReplaceWalk ==
  ASSUME Shape, Lists, Walk, Replace
  PROVE  Walk'
<1>1. UNCHANGED <<prog, functions, it, NF, status>>
  BY ReplaceStep
<1>2. functions[it] \in Wrapped /\ NF = Wrapper(functions[it])
  BY ReplaceStep
<1>3. ASSUME NEW f \in Wrapped, UsesIn(inst, f)' # {}
      PROVE  UsesIn(inst, f) # {}
  <2> SUFFICES ASSUME UsesIn(inst, f) = {} PROVE FALSE
    OBVIOUS
  <2> DEFINE R == Replacement(Call)
  <2>1. f \in Named /\ f # NF
    BY <1>2, Names
  <2>2. R.callee = NF /\ R.args = inst[Call].args
    BY DEF Replacement
  <2>3. PICK n \in Operands(R, f) : TRUE
    BY <1>3, <2>1, ReplaceUses
  <2>4. n \in Operands(inst[Call], f)
    <3>1. n \in 0..Len(inst[Call].args) /\ n # 0 /\ inst[Call].args[n].fn = f
      BY <2>1, <2>2, <2>3 DEF Operands
    <3> QED
      BY <3>1 DEF Operands
  <2>5. Call \in DOMAIN inst
    BY ReplaceStep DEF Shape
  <2>6. [user |-> Call, no |-> n] \in UsesIn(inst, f)
    BY <2>4, <2>5 DEF UsesIn
  <2> QED
    BY <2>6
<1>4. \A i \in 1..(it - 1) : Behind(i)'
  BY <1>1, <1>3 DEF Walk, Behind
<1> QED
  BY <1>1, <1>3, <1>4 DEF Walk

LEMMA ReplaceInv == IInv /\ Replace => IInv'
BY ReplaceShape, ReplaceLists, ReplaceSame, ReplaceWalk DEF IInv

-----------------------------------------------------------------------------
(* The other steps leave the instructions alone. *)

LEMMA SameModule ==
  ASSUME UNCHANGED <<prog, inst, block, uses>>, Lists, SameProgram
  PROVE  Lists' /\ SameProgram'
<1>1. Lists'
  BY DEF Lists, Use, UseListsExact
<1>2. SameProgram'
  BY DEF SameProgram, OnlyCalled, SameOperand
<1> QED
  BY <1>1, <1>2

LEMMA Inserted ==
  ASSUME NEW T, NEW s \in Seq(T), NEW i \in 1..(Len(s) + 1), NEW e \in T
  PROVE  /\ InsertAt(s, i, e) \in Seq(T) /\ Len(InsertAt(s, i, e)) = Len(s) + 1
         /\ \A k \in 1..(Len(s) + 1) :
              InsertAt(s, i, e)[k] =
                IF k < i THEN s[k] ELSE IF k = i THEN e ELSE s[k - 1]
<1> DEFINE N == Len(s)
           front == SubSeq(s, 1, i - 1)
           back == SubSeq(s, i, N)
<1>1. N \in Nat /\ i \in Int /\ i - 1 \in Int /\ \A k \in 1..N : s[k] \in T
  BY LenProperties, ElementOfSeq
<1> HIDE DEF N
<1>2. /\ front \in Seq(T) /\ Len(front) = i - 1
      /\ \A k \in 1..(i - 1) : front[k] = s[k]
  <2>1. \A k \in 1..(i - 1) : s[k] \in T
    BY <1>1 DEF N
  <2>2. /\ front \in Seq(T) /\ Len(front) = IF 1 <= i - 1 THEN (i - 1) - 1 + 1 ELSE 0
        /\ \A k \in 1..((i - 1) - 1 + 1) : front[k] = s[1 + k - 1]
    BY <1>1, <2>1, SubSeqProperties
  <2> HIDE DEF front
  <2>3. \A k \in 1..(i - 1) : k \in 1..((i - 1) - 1 + 1) /\ 1 + k - 1 = k
    BY <1>1
  <2> QED
    BY <1>1, <2>2, <2>3 DEF N
<1>3. /\ back \in Seq(T) /\ Len(back) = N - i + 1
      /\ \A k \in 1..(N - i + 1) : back[k] = s[i + k - 1]
  <2>1. \A k \in i..N : s[k] \in T
    BY <1>1
  <2>2. /\ back \in Seq(T) /\ Len(back) = IF i <= N THEN N - i + 1 ELSE 0
        /\ \A k \in 1..(N - i + 1) : back[k] = s[i + k - 1]
    BY <1>1, <2>1, SubSeqProperties
  <2> HIDE DEF back
  <2> QED
    BY <1>1, <2>2 DEF N
<1>4. InsertAt(s, i, e) = front \o <<e>> \o back
  BY DEF InsertAt, N
<1> HIDE DEF front, back
<1> DEFINE middle == front \o <<e>>
<1>5. /\ middle \in Seq(T) /\ Len(middle) = i
      /\ \A k \in 1..i : middle[k] = IF k < i THEN s[k] ELSE e
  <2>1. <<e>> \in Seq(T) /\ Len(<<e>>) = 1 /\ <<e>>[1] = e
    OBVIOUS
  <2>2. /\ middle \in Seq(T) /\ Len(middle) = Len(front) + 1
        /\ \A k \in 1..(Len(front) + 1) :
             middle[k] = IF k <= Len(front) THEN front[k] ELSE <<e>>[k - Len(front)]
    BY <1>2, <2>1, ConcatProperties
  <2> HIDE DEF middle
  <2> QED
    BY <1>1, <1>2, <2>1, <2>2
<1>6. InsertAt(s, i, e) = middle \o back
  BY <1>4
<1> HIDE DEF middle
<1>7. /\ middle \o back \in Seq(T) /\ Len(middle \o back) = i + (N - i + 1)
      /\ \A k \in 1..(i + (N - i + 1)) :
           (middle \o back)[k] = IF k <= i THEN middle[k] ELSE back[k - i]
  <2>1. /\ middle \o back \in Seq(T)
        /\ Len(middle \o back) = Len(middle) + Len(back)
        /\ \A k \in 1..(Len(middle) + Len(back)) :
             (middle \o back)[k] = IF k <= Len(middle) THEN middle[k]
                                  ELSE back[k - Len(middle)]
    BY <1>3, <1>5, ConcatProperties
  <2>2. Len(middle) = i /\ Len(back) = N - i + 1
    BY <1>3, <1>5
  <2> QED
    BY <2>1, <2>2
<1>8. \A k \in 1..(N + 1) : k > i => k - i \in 1..(N - i + 1) /\ i + (k - i) - 1 = k - 1
  BY <1>1
<1> QED
  <2>1. i + (N - i + 1) = N + 1
    BY <1>1
  <2>2. ASSUME NEW k \in 1..(N + 1)
        PROVE  InsertAt(s, i, e)[k] =
                 IF k < i THEN s[k] ELSE IF k = i THEN e ELSE s[k - 1]
    <3>1. CASE k <= i
      <4>1. k \in 1..i /\ InsertAt(s, i, e)[k] = middle[k]
        BY <1>1, <1>6, <1>7, <2>1, <3>1
      <4> QED
        BY <1>1, <1>5, <3>1, <4>1
    <3>2. CASE k > i
      <4>1. InsertAt(s, i, e)[k] = back[k - i]
        BY <1>1, <1>6, <1>7, <2>1, <3>2
      <4> QED
        BY <1>1, <1>3, <1>8, <3>2, <4>1
    <3> QED
      BY <1>1, <3>1, <3>2
  <2> QED
    BY <1>6, <1>7, <2>1, <2>2 DEF N
LEMMA DeclareInv == IInv /\ Declare => IInv'
<1> SUFFICES ASSUME Shape, Lists, SameProgram, Walk, Declare PROVE IInv'
  BY DEF IInv
<1>1. /\ UNCHANGED <<prog, inst, block, uses, status>>
      /\ functions[it] \in Wrapped /\ NF' = Wrapper(functions[it])
      /\ functions' = InsertAt(functions, it, NF') /\ it' = it + 1
      /\ status = "running"
  BY DEF Declare, AtWrapped
<1>2. it \in 1..Len(functions)
  <2>1. it \in 1..(Len(functions) + 1)
    BY DEF Shape
  <2>2. it <= Len(functions)
    BY DEF Declare, AtWrapped
  <2> QED
    BY <2>1, <2>2
<1>3. NF' \in Wrappers /\ NF' \notin Wrapped
  BY <1>1, Names
<1>4. functions \in Seq(Functions \cup Wrappers) /\ Len(functions) \in Nat
  BY LenProperties DEF Shape
<1>5. it \in 1..(Len(functions) + 1) /\ it \in Nat /\ it - 1 \in Int
  BY <1>2, <1>4
<1>6. /\ functions' \in Seq(Functions \cup Wrappers)
      /\ Len(functions') = Len(functions) + 1
      /\ \A k \in 1..(Len(functions) + 1) :
           functions'[k] = IF k < it THEN functions[k]
                           ELSE IF k = it THEN NF' ELSE functions[k - 1]
  BY <1>1, <1>3, <1>4, <1>5, Inserted
<1>7. /\ functions'[it] = NF' /\ functions'[it + 1] = functions[it]
      /\ \A k \in 1..(it - 1) : functions'[k] = functions[k]
  <2>1. it + 1 \in 1..(Len(functions) + 1) /\ it + 1 - 1 = it
    BY <1>2, <1>4
  <2>2. \A k \in 1..(it - 1) : k \in 1..(Len(functions) + 1) /\ k < it
    BY <1>2, <1>4
  <2>3. ~(it < it) /\ ~(it + 1 < it) /\ it + 1 # it
    BY <1>5
  <2> QED
    BY <1>5, <1>6, <2>1, <2>2, <2>3
<1>8. it' \in 1..(Len(functions') + 1) /\ it' > 1 /\ it' <= Len(functions')
  BY <1>1, <1>2, <1>4, <1>6
<1>9. Shape'
  BY <1>1, <1>3, <1>6, <1>8 DEF Shape, Instruction, Values, Ids, ToSet, IsInjective
<1>10. \A i \in 1..(it' - 1) : Behind(i)'
  <2> SUFFICES ASSUME NEW i \in 1..it, functions'[i] \in Wrapped
               PROVE  /\ UsesIn(inst, functions'[i]) = {}
                      /\ i > 1 /\ functions'[i - 1] = Wrapper(functions'[i])
    <3>1. it' - 1 = it
      BY <1>1, <1>5
    <3> QED
      BY <1>1, <3>1 DEF Behind
  <2>1. i # it
    BY <1>3, <1>7
  <2>2. i \in 1..(it - 1)
    BY <1>5, <2>1
  <2>3. functions'[i] = functions[i]
    BY <1>7, <2>2
  <2>4. /\ UsesIn(inst, functions[i]) = {}
        /\ i > 1 /\ functions[i - 1] = Wrapper(functions[i])
    BY <2>2, <2>3 DEF Walk, Behind
  <2>5. i - 1 \in 1..(it - 1)
    BY <1>5, <2>2, <2>4
  <2>6. functions'[i - 1] = functions[i - 1]
    BY <1>7, <2>5
  <2> QED
    BY <2>3, <2>4, <2>6
<1>11. ToSet(functions) \subseteq ToSet(functions')
  <2> SUFFICES ASSUME NEW k \in 1..Len(functions)
               PROVE  \E j \in 1..(Len(functions) + 1) : functions'[j] = functions[k]
    <3>1. /\ DOMAIN functions = 1..Len(functions)
          /\ DOMAIN functions' = 1..(Len(functions) + 1)
      BY <1>4, <1>6, LenProperties
    <3> QED
      BY <3>1 DEF ToSet
  <2>1. CASE k < it
    <3>1. k \in 1..(Len(functions) + 1)
      BY <1>4
    <3>2. functions'[k] = functions[k]
      BY <1>6, <2>1, <3>1
    <3> QED
      BY <3>1, <3>2
  <2>2. CASE ~(k < it)
    <3>1. k + 1 \in 1..(Len(functions) + 1) /\ k + 1 - 1 = k
      BY <1>4
    <3>2. ~(k + 1 < it) /\ k + 1 # it
      BY <1>5, <2>2
    <3>3. functions'[k + 1] = functions[k]
      BY <1>6, <3>1, <3>2
    <3> QED
      BY <3>1, <3>3
  <2> QED
    BY <2>1, <2>2
<1>12. /\ it' - 1 = it /\ it' = it + 1
  BY <1>1, <1>5
<1>13. Walk'
  <2>1. /\ functions'[it'] \in Wrapped /\ NF' = Wrapper(functions'[it'])
        /\ functions'[it' - 1] = NF'
    BY <1>1, <1>7, <1>12
  <2>2. \A f \in Wrapped : UsesIn(inst, f)' # {} => f \in ToSet(functions')
    BY <1>1, <1>11 DEF Walk
  <2>3. status' # "done"
    BY <1>1
  <2> QED
    BY <1>8, <1>10, <2>1, <2>2, <2>3 DEF Walk
<1> QED
  BY <1>1, <1>9, <1>13, SameModule DEF IInv

LEMMA AdvanceInv == IInv /\ Advance => IInv'
<1> SUFFICES ASSUME Shape, Lists, SameProgram, Walk, Advance PROVE IInv'
  BY DEF IInv
<1>1. /\ UNCHANGED <<prog, inst, block, uses, functions, status>>
      /\ it' = it + 1
      /\ functions[it] \in Wrapped => Emptied(functions[it])
  BY DEF Advance
<1>8. NF' = "" /\ status = "running"
  BY DEF Advance
<1>2. it \in 1..Len(functions) /\ Len(functions) \in Nat
  <2>1. it \in 1..(Len(functions) + 1) /\ Len(functions) \in Nat
    BY LenProperties DEF Shape
  <2>2. it <= Len(functions)
    BY DEF Advance
  <2> QED
    BY <2>1, <2>2
<1>3. it' \in 1..(Len(functions) + 1) /\ it' - 1 = it
  BY <1>1, <1>2
<1>4. Shape'
  BY <1>1, <1>3, <1>8 DEF Shape, Instruction, Values, Ids, ToSet, IsInjective
<1>5. Behind(it)
  <2> SUFFICES ASSUME functions[it] \in Wrapped
               PROVE  /\ UsesIn(inst, functions[it]) = {}
                      /\ it > 1 /\ functions[it - 1] = Wrapper(functions[it])
    BY DEF Behind
  <2>1. NF # "" /\ uses[functions[it]] = <<>>
    BY <1>1 DEF Emptied
  <2>2. UsesIn(inst, functions[it]) = {}
    <3>1. functions[it] \in Named
      BY Names
    <3>2. UsesIn(inst, functions[it]) = ToSet(<<>>)
      BY <2>1, <3>1 DEF Lists, UseListsExact
    <3>3. ToSet(<<>>) = {}
      BY DEF ToSet
    <3> QED
      BY <3>2, <3>3
  <2> QED
    BY <2>1, <2>2 DEF Walk
<1>6. \A i \in 1..(it' - 1) : Behind(i)
  <2>1. \A i \in 1..it : i = it \/ i \in 1..(it - 1)
    BY <1>2
  <2> QED
    BY <1>3, <1>5, <2>1 DEF Walk
<1>7. Walk'
  BY <1>1, <1>6, <1>8 DEF Walk, Behind
<1> QED
  BY <1>1, <1>4, <1>7, SameModule DEF IInv

LEMMA StopInv == IInv /\ (Crash \/ Finish) => IInv'
<1> SUFFICES ASSUME Shape, Lists, SameProgram, Walk, Crash \/ Finish PROVE IInv'
  BY DEF IInv
<1>1. /\ UNCHANGED <<prog, inst, block, uses, functions, it, NF>>
      /\ \/ status' = "crashed"
         \/ status' = "done" /\ it > Len(functions)
  BY DEF Crash, Finish
<1>2. Shape'
  BY <1>1 DEF Shape, Instruction, Values, Ids, ToSet, IsInjective
<1>3. Walk'
  BY <1>1 DEF Walk, Behind
<1> QED
  BY <1>1, <1>2, <1>3, SameModule DEF IInv

LEMMA NextInv == IInv /\ [Next]_vars => IInv'
<1>1. ASSUME IInv, UNCHANGED vars PROVE IInv'
  <2>1. UNCHANGED <<prog, inst, block, uses, functions, it, NF, status>>
    BY <1>1 DEF vars
  <2>2. Shape'
    BY <1>1, <2>1 DEF IInv, Shape, Instruction, Values, Ids, ToSet, IsInjective
  <2>3. Walk'
    BY <1>1, <2>1 DEF IInv, Walk, Behind
  <2> QED
    BY <1>1, <2>1, <2>2, <2>3, SameModule DEF IInv
<1> QED
  BY <1>1, DeclareInv, ReplaceInv, AdvanceInv, StopInv DEF Next

-----------------------------------------------------------------------------
(* The properties. *)

(* The invariant of replaceFuncionWith's loops, which the theorems below   *)
(* take what they need from.                                               *)
THEOREM Invariance == Spec => []IInv
BY InitInv, NextInv, PTL DEF Spec

(* In a program that only calls the four functions, what replaceFuncionWith    *)
(* takes for a call (CallSite of user_back()) is one; in a program that    *)
(* stores or passes the address of one of them it may not be.              *)
THEOREM CallsAreSafe == Spec => [](OnlyCalled => UserIsCall)
<1>1. Init => UserIsCall
  BY DEF Init, UserIsCall
<1>2. IInv /\ (OnlyCalled => UserIsCall) /\ [Next]_vars => (OnlyCalled => UserIsCall)'
  <2> SUFFICES ASSUME IInv, OnlyCalled => UserIsCall, [Next]_vars, OnlyCalled'
               PROVE  UserIsCall'
    OBVIOUS
  <2>1. prog' = prog
    BY DEF Next, vars, Declare, Replace, Crash, Advance, Finish
  <2>2. OnlyCalled /\ UserIsCall
    BY <2>1 DEF OnlyCalled
  <2>3. ~Crash
    <3> SUFFICES ASSUME Crash PROVE FALSE
      OBVIOUS
    <3>1. /\ functions[it] \in Wrapped /\ uses[functions[it]] # <<>>
          /\ inst[user_back(functions[it])].callee = NoCall
      BY DEF Crash, AtWrapped
    <3>2. inst[user_back(functions[it])].callee = functions[it]
      BY <2>2, <3>1, UserCalls DEF IInv
    <3>3. functions[it] # NoCall
      BY <3>1, Names
    <3> QED
      BY <3>1, <3>2, <3>3
  <2> QED
    BY <2>2, <2>3 DEF Next, vars, Declare, Replace, Advance, Finish, UserIsCall
<1> QED
  BY <1>1, <1>2, Invariance, PTL DEF Spec

(* replaceFuncionWith leaves well-formed instructions, and an id is spare  *)
(* for each call it still has to create.                                   *)
THEOREM TypeCorrect == Spec => []TypeOK
<1>1. IInv => TypeOK
  <2> SUFFICES ASSUME IInv PROVE TypeOK
    OBVIOUS
  <2> DEFINE N == Len(prog)
  <2>1. /\ N \in Nat /\ inst \in [1..(N + 1) -> Instruction] /\ Ids = 1..(N + 1)
        /\ block \in [1..N -> 1..(N + 1)]
    BY ProgType DEF IInv, Shape, Ids
  <2>2. Len(inst) = N + 1
    <3>1. inst \in Seq(Instruction) /\ DOMAIN inst = 1..(N + 1)
      BY <2>1, SeqDef
    <3>2. DOMAIN inst = 1..Len(inst) /\ Len(inst) \in Nat
      BY <3>1, LenProperties
    <3> QED
      BY <2>1, <3>1, <3>2, SameInterval
  <2>3. Len(block) = N
    <3>1. block \in Seq(1..(N + 1)) /\ DOMAIN block = 1..N
      BY <2>1, SeqDef
    <3>2. DOMAIN block = 1..Len(block) /\ Len(block) \in Nat
      BY <3>1, LenProperties
    <3> QED
      BY <2>1, <3>1, <3>2, SameInterval
  <2>4. Operand = Values
    BY <2>2 DEF Operand, Values
  <2>5. \A id \in Ids :
          /\ inst[id].callee \in Functions \cup Wrappers \cup {NoCall}
          /\ inst[id].args \in Seq(Operand)
    BY <2>1, <2>4 DEF Instruction
  <2>6. ToSet(block) \subseteq Ids
    BY <2>1 DEF ToSet
  <2> QED
    BY <2>3, <2>5, <2>6 DEF TypeOK, IInv, Shape
<1> QED
  BY <1>1, Invariance, PTL

(* After each replacement (CallInst::Create, then eraseFromParent) a use   *)
(* list has what refers to its function, each once, whatever program is    *)
(* instrumented and in whatever order its lists stood.                     *)
THEOREM ExactLists == Spec => []UseListsExact
<1>1. IInv => UseListsExact
  BY DEF IInv, Lists
<1> QED
  BY <1>1, Invariance, PTL

(* Apart from the names of the four functions, the program behind          *)
(* replaceFuncionWith is the one the compiler was given.                   *)
THEOREM Faithful == Spec => []SameProgram
<1>1. IInv => SameProgram
  BY DEF IInv
<1> QED
  BY <1>1, Invariance, PTL

(* When the while loops over use_empty() are done, no reference to the four *)
(* functions is left, though each replacement enters uses in the lists.    *)
THEOREM AllReplaced == Spec => []Complete
<1>1. IInv /\ it > Len(functions) => \A i \in DOMAIN functions : Behind(i)
  <2> SUFFICES ASSUME IInv, it > Len(functions), NEW i \in DOMAIN functions
               PROVE  Behind(i)
    OBVIOUS
  <2>1. functions \in Seq(Functions \cup Wrappers) /\ it \in 1..(Len(functions) + 1)
    BY DEF IInv, Shape
  <2>2. i \in 1..Len(functions) /\ Len(functions) \in Nat
    BY <2>1, LenProperties
  <2>3. i \in 1..(it - 1)
    BY <2>1, <2>2
  <2> QED
    BY <2>3 DEF IInv, Walk
<1>2. IInv => Complete
  <2> SUFFICES ASSUME IInv, status = "done" PROVE
        /\ \A f \in Wrapped : UsesIn(inst, f) = {}
        /\ \A i \in DOMAIN functions :
             functions[i] \in Wrapped =>
               i > 1 /\ functions[i - 1] = Wrapper(functions[i])
    BY DEF Complete
  <2>1. \A i \in DOMAIN functions : Behind(i)
    BY <1>1 DEF IInv, Walk
  <2>2. \A f \in Wrapped : UsesIn(inst, f) = {}
    <3> SUFFICES ASSUME NEW f \in Wrapped, UsesIn(inst, f) # {} PROVE FALSE
      OBVIOUS
    <3>1. PICK i \in DOMAIN functions : functions[i] = f
      BY DEF IInv, Walk, ToSet
    <3> QED
      BY <2>1, <3>1 DEF Behind
  <2> QED
    BY <2>1, <2>2 DEF Behind
<1> QED
  BY <1>2, Invariance, PTL
=============================================================================

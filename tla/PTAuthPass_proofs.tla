-------------------------- MODULE PTAuthPass_proofs --------------------------
(***************************************************************************)
(* Proofs about the pass, for every set of local variables and of struct   *)
(* types and every number of assignments: the checks it promises are put,  *)
(* and the optimizer skips no function that needs one.                     *)
(***************************************************************************)
EXTENDS PTAuthPass, SequenceTheorems, TLAPS

(* Among the entries of a variable is a first, the one a call marks.       *)
HasFirst(v) == \E i \in Entries(v) : IsFirst(i, Entries(v))

EntriesHaveFirst == \A v \in Vars : Entries(v) # {} => HasFirst(v)

(* A variable that is assigned has an entry.                               *)
AssignedHasEntry == ~Skipped => \A v \in assigned : Entries(v) # {}

(* A variable that was handed over will be checked, or has been.           *)
HandedIsTracked ==
  ~listed => \A v \in handed \cap assigned : isChecked(v) \/ Passed(v) # {}

(* Nothing in a function that optimizer skips makes a pointer dangle.      *)
SkippedIsHarmless == skip => handed = {} /\ ~stale

(* The types recorded before a call are forgotten at it.                   *)
StaleIsUnrecorded == ~listed /\ stale => GEPS = {}

IInv ==
  /\ TypeOK
  /\ EntriesHaveFirst
  /\ AssignedHasEntry
  /\ HandedIsTracked
  /\ SkippedIsHarmless
  /\ StaleIsUnrecorded
  /\ FirstUseChecked
  /\ NestedAfterCall

-----------------------------------------------------------------------------

(* A sequence of the same length.                                          *)
LEMMA SameLength ==
  ASSUME NEW S, NEW s \in Seq(S), NEW f, f \in [DOMAIN s -> S]
  PROVE  f \in Seq(S) /\ Len(f) = Len(s) /\ DOMAIN f = DOMAIN s
<1>1. Len(s) \in Nat /\ DOMAIN s = 1..Len(s)
  BY LenProperties
<1>2. f \in Seq(S)
  BY <1>1, SeqDef
<1>3. Len(f) \in Nat /\ DOMAIN f = 1..Len(f)
  BY <1>2, LenProperties
<1> QED
  BY <1>1, <1>2, <1>3

LEMMA InitIInv == Init => IInv
<1> SUFFICES ASSUME Init PROVE IInv
  OBVIOUS
<1>1. <<>> \in Seq(Entry) /\ Len(<<>>) = 0
  BY EmptySeq
<1>2. pointers \in Seq(Entry) /\ Len(pointers) <= MaxEntries
  BY <1>1, MaxEntriesAssumption DEF Init
<1>3. TypeOK
  BY <1>2, Zenon DEF Init, TypeOK, Nothing
<1> QED
  BY <1>3 DEF Init, IInv, EntriesHaveFirst, AssignedHasEntry, HandedIsTracked, SkippedIsHarmless,
    StaleIsUnrecorded, FirstUseChecked, NestedAfterCall, Nothing, Entries

(* Steps that change no entry, hand nothing over and assign nothing.       *)
LEMMA QuietIInv ==
  ASSUME IInv,
         UNCHANGED <<skip, listed, pointers, assigned>>,
         FlagFreeCalled' = FlagFreeCalled,
         reasons' \subseteq Reasons,
         handed' \subseteq handed, freed' \subseteq freed, freed' \subseteq handed',
         GEPS' \subseteq Types, stale' \in BOOLEAN,
         stale' => stale /\ (~listed => GEPS' = {}),
         \/ missed' = Nothing
         \/ \E v \in Vars :
              /\ missed' \in [how : {"gep", "deref", "plain"}, of : {{v}}]
              /\ ~listed /\ missed'.how \in {"gep", "deref"} =>
                   isChecked(v) \/ v \notin assigned
         \/ /\ missed' \in [how : {"nested", "chained"}, of : {{}}]
            /\ missed'.how = "nested" => listed
  PROVE  IInv'
<1>1. TypeOK'
  BY DEF IInv, TypeOK, Nothing
<1>2. EntriesHaveFirst' /\ AssignedHasEntry'
  BY DEF IInv, EntriesHaveFirst, AssignedHasEntry, HasFirst, Entries, IsFirst, Skipped
<1>3. HandedIsTracked'
  BY DEF IInv, HandedIsTracked, isChecked, Passed, Entries
<1>4. SkippedIsHarmless' /\ StaleIsUnrecorded'
  BY DEF IInv, SkippedIsHarmless, StaleIsUnrecorded
<1>5. FirstUseChecked' /\ NestedAfterCall'
  BY DEF FirstUseChecked, NestedAfterCall, isChecked, Entries, Nothing
<1> QED
  BY <1>1, <1>2, <1>3, <1>4, <1>5 DEF IInv

LEMMA StoreIInv ==
  ASSUME IInv, NEW v \in Vars, Store(v)
  PROVE  IInv'
<1>1. NewEntry(v) \in Entry
  BY DEF NewEntry, Entry
<1>2. pointers \in Seq(Entry) /\ Len(pointers) \in Nat
      /\ DOMAIN pointers = 1..Len(pointers)
  BY LenProperties DEF IInv, TypeOK
<1>3. /\ Append(pointers, NewEntry(v)) \in Seq(Entry)
      /\ Len(Append(pointers, NewEntry(v))) = Len(pointers) + 1
      /\ DOMAIN Append(pointers, NewEntry(v)) = 1..(Len(pointers) + 1)
      /\ \A i \in 1..Len(pointers) : Append(pointers, NewEntry(v))[i] = pointers[i]
      /\ Append(pointers, NewEntry(v))[Len(pointers) + 1] = NewEntry(v)
  BY <1>1, <1>2, AppendProperties
<1>4. TypeOK'
  BY <1>2, <1>3, MaxEntriesAssumption
  DEF IInv, TypeOK, Store, Meet, Nothing, Reasons
<1>5. CASE Skipped
  <2>1. UNCHANGED <<pointers, skip, listed>> /\ missed' = Nothing
        /\ handed' \subseteq handed /\ UNCHANGED <<GEPS, stale>>
    BY <1>5 DEF Store, Meet
  <2>2. EntriesHaveFirst'
    BY <2>1 DEF IInv, EntriesHaveFirst, HasFirst, Entries, IsFirst
  <2>3. AssignedHasEntry' /\ HandedIsTracked'
    BY <2>1, <1>5
    DEF IInv, AssignedHasEntry, HandedIsTracked, SkippedIsHarmless, Skipped
  <2> QED
    BY <1>4, <2>1, <2>2, <2>3
    DEF IInv, SkippedIsHarmless, StaleIsUnrecorded, FirstUseChecked,
      NestedAfterCall, Nothing
<1>6. CASE ~Skipped
  <2>1. /\ pointers' = Append(pointers, NewEntry(v))
        /\ missed' = Nothing
        /\ UNCHANGED <<skip, listed, GEPS, stale>>
        /\ handed' = handed \ {v} /\ assigned' = assigned \cup {v}
    BY <1>6 DEF Store, Meet
  <2>2. \A w \in Vars \ {v} : Entries(w)' = Entries(w)
    BY <1>2, <1>3, <2>1 DEF Entries, NewEntry
  <2>3. \A w \in {v} : Entries(w)' = Entries(w) \cup {Len(pointers) + 1}
    BY <1>2, <1>3, <2>1 DEF Entries, NewEntry
  <2>4. EntriesHaveFirst'
    <3> SUFFICES ASSUME NEW w \in Vars, Entries(w)' # {} PROVE HasFirst(w)'
      BY DEF EntriesHaveFirst
    <3>1. Entries(w) = {} \/ HasFirst(w)
      BY DEF IInv, EntriesHaveFirst
    <3>2. CASE w # v
      BY <2>2, <3>1, <3>2 DEF HasFirst, IsFirst
    <3>3. CASE w = v /\ HasFirst(w)
      <4>1. PICK i \in Entries(w) : IsFirst(i, Entries(w))
        BY <3>3 DEF HasFirst
      <4>2. i \in 1..Len(pointers)
        BY <1>2 DEF Entries
      <4>3. i <= Len(pointers) + 1
        BY <1>2, <4>2
      <4>4. Entries(w)' = Entries(w) \cup {Len(pointers) + 1}
        BY <2>3, <3>3
      <4> QED
        BY <4>1, <4>3, <4>4 DEF HasFirst, IsFirst
    <3>4. CASE w = v /\ Entries(w) = {}
      BY <1>2, <2>3, <3>4 DEF HasFirst, IsFirst
    <3> QED
      BY <3>1, <3>2, <3>3, <3>4
  <2>5. AssignedHasEntry'
    <3> SUFFICES ASSUME NEW w \in assigned' PROVE Entries(w)' # {}
      BY DEF AssignedHasEntry
    <3>1. w = v \/ w \in assigned \cap (Vars \ {v})
      BY <2>1 DEF IInv, TypeOK
    <3> QED
      BY <1>6, <2>2, <2>3, <3>1 DEF IInv, AssignedHasEntry
  <2>6. HandedIsTracked'
    <3> SUFFICES ASSUME ~listed, NEW w \in handed' \cap assigned'
                 PROVE  isChecked(w)' \/ Passed(w)' # {}
      BY <2>1 DEF HandedIsTracked
    <3>1. w \in handed \cap assigned /\ w \in Vars \ {v}
      BY <2>1 DEF IInv, TypeOK
    <3>2. isChecked(w) \/ Passed(w) # {}
      BY <3>1 DEF IInv, HandedIsTracked
    <3>3. \A i \in Entries(w) : pointers'[i] = pointers[i]
      BY <1>2, <1>3, <2>1 DEF Entries
    <3> QED
      BY <2>2, <3>1, <3>2, <3>3 DEF isChecked, Passed
  <2> QED
    BY <1>4, <1>6, <2>1, <2>4, <2>5, <2>6
    DEF IInv, SkippedIsHarmless, StaleIsUnrecorded, FirstUseChecked,
      NestedAfterCall, Nothing
<1> QED
  BY <1>5, <1>6 DEF IInv, TypeOK
(* The entries after a call of something that is looked at.                *)
LEMMA CallIInv ==
  ASSUME IInv, NEW callee \in Callees, NEW loads \in SUBSET Vars,
         NEW derefs \in SUBSET Vars, NEW other \in BOOLEAN,
         Call(callee, loads, derefs, other)
  PROVE  IInv'
<1> DEFINE pointer == loads \cup derefs # {} \/ other
           looked == ~Skipped /\ Instrumented(callee) /\ pointer
           marked(v) == /\ callee # "read"
                        /\ v \in derefs \/ (v \in loads /\ ~isChecked(v))
<1>1. /\ UNCHANGED <<skip, listed, FlagFreeCalled, assigned>>
      /\ missed' = Nothing
      /\ reasons' \subseteq Reasons
  BY DEF Call, Meet, IInv, TypeOK, Reasons
<1>2. pointers \in Seq(Entry) /\ Len(pointers) \in Nat
      /\ DOMAIN pointers = 1..Len(pointers)
  BY LenProperties DEF IInv, TypeOK
<1>3. \A i \in DOMAIN pointers :
        pointers[i] \in [var : Vars, passed : BOOLEAN, checked : BOOLEAN]
  BY <1>2, ElementOfSeq DEF Entry
<1>4. /\ pointers' \in Seq(Entry) /\ Len(pointers') = Len(pointers)
      /\ DOMAIN pointers' = DOMAIN pointers
      /\ \A i \in DOMAIN pointers :
           /\ pointers'[i].var = pointers[i].var
           /\ pointers'[i].checked = pointers[i].checked
           /\ pointers[i].passed => pointers'[i].passed
           /\ looked /\ marked(pointers[i].var)
                     /\ IsFirst(i, Entries(pointers[i].var))
              => pointers'[i].passed
  <2>1. CASE ~looked
    BY <1>2, <2>1 DEF Call
  <2>2. CASE looked
    <3>1. pointers' = [i \in DOMAIN pointers |->
                        IF marked(pointers[i].var)
                             /\ IsFirst(i, Entries(pointers[i].var))
                        THEN [pointers[i] EXCEPT !.passed = TRUE]
                        ELSE pointers[i]]
      BY <2>2 DEF Call
    <3>2. \A i \in DOMAIN pointers :
            /\ pointers'[i] \in Entry
            /\ pointers'[i].var = pointers[i].var
            /\ pointers'[i].checked = pointers[i].checked
            /\ pointers[i].passed => pointers'[i].passed
            /\ marked(pointers[i].var) /\ IsFirst(i, Entries(pointers[i].var))
               => pointers'[i].passed
      BY <1>3, <3>1 DEF Entry
    <3>3. pointers' \in [DOMAIN pointers -> Entry]
      BY <3>1, <3>2
    <3> QED
      BY <1>2, <3>2, <3>3, SameLength
  <2> QED
    BY <2>1, <2>2
<1>5. \A v \in Vars : Entries(v)' = Entries(v)
  BY <1>4 DEF Entries
<1>6. EntriesHaveFirst' /\ AssignedHasEntry'
  BY <1>1, <1>5
  DEF IInv, EntriesHaveFirst, AssignedHasEntry, HasFirst, IsFirst, TypeOK,
    Skipped
<1>7. callee \in {"__ptauth_free", "function"} /\ pointer
        => ~skip /\ (listed \/ looked)
  BY DEF Call, Meet, Instrumented, Skipped
<1>8. TypeOK'
  <2>1. GEPS' \subseteq Types
    BY DEF Call, ClearedGEPS, IInv, TypeOK
  <2>2. handed' \subseteq Vars /\ freed' \subseteq handed' /\ stale' \in BOOLEAN
    BY DEF Call, IInv, TypeOK
  <2>3. FlagFreeCalled' \in FreeFlags(skip') /\ skip' \in BOOLEAN /\ listed' \in BOOLEAN
        /\ assigned' \subseteq Vars
    BY <1>1 DEF IInv, TypeOK
  <2>4. Len(pointers') <= MaxEntries
    BY <1>4 DEF IInv, TypeOK
  <2> QED
    BY <1>1, <1>4, <2>1, <2>2, <2>3, <2>4, Zenon DEF TypeOK, Nothing
<1>9. HandedIsTracked'
  <2> SUFFICES ASSUME ~listed, NEW v \in handed' \cap assigned'
               PROVE  isChecked(v)' \/ Passed(v)' # {}
    BY <1>1 DEF HandedIsTracked
  <2>1. v \in assigned /\ v \in Vars
    BY <1>1 DEF IInv, TypeOK
  <2>2. CASE v \in handed
    <3>1. isChecked(v) \/ Passed(v) # {}
      BY <2>1, <2>2 DEF IInv, HandedIsTracked
    <3> QED
      BY <1>4, <1>5, <2>1, <3>1 DEF isChecked, Passed, Entries
  <2>3. CASE v \notin handed
    <3>1. looked /\ v \in loads /\ callee # "read"
      BY <1>7, <2>3 DEF Call
    <3>2. HasFirst(v)
      BY <2>1, <3>1 DEF Skipped, IInv, AssignedHasEntry, EntriesHaveFirst
    <3>3. PICK i \in Entries(v) : IsFirst(i, Entries(v))
      BY <3>2 DEF HasFirst
    <3>4. CASE isChecked(v)
      BY <1>4, <1>5, <2>1, <3>4 DEF isChecked, Entries
    <3>5. CASE ~isChecked(v)
      <4>1. i \in DOMAIN pointers /\ pointers[i].var = v
        BY DEF Entries
      <4>2. pointers'[i].passed
        BY <1>4, <3>1, <3>3, <3>5, <4>1
      <4> QED
        BY <1>5, <2>1, <4>2 DEF Passed
    <3> QED
      BY <3>4, <3>5
  <2> QED
    BY <2>2, <2>3
<1>10. SkippedIsHarmless'
  <2> SUFFICES ASSUME skip PROVE handed' = {} /\ ~stale'
    BY <1>1 DEF SkippedIsHarmless
  <2>1. handed = {} /\ ~stale
    BY DEF IInv, SkippedIsHarmless
  <2>2. callee \in {"__ptauth_free", "function"} => loads = {} /\ ~pointer
    BY <1>7
  <2> QED
    BY <2>1, <2>2 DEF Call
<1>11. StaleIsUnrecorded'
  <2>1. CASE looked
    BY <2>1 DEF Call, ClearedGEPS, StaleIsUnrecorded
  <2>2. CASE ~looked
    <3>1. GEPS' = GEPS /\ (~listed => (stale' => stale)) /\ listed' = listed
      BY <1>1, <1>7, <2>2 DEF Call
    <3> QED
      BY <3>1 DEF IInv, StaleIsUnrecorded
  <2> QED
    BY <2>1, <2>2
<1> QED
  BY <1>1, <1>6, <1>8, <1>9, <1>10, <1>11
  DEF IInv, FirstUseChecked, NestedAfterCall, Nothing
LEMMA GEPIInv ==
  ASSUME IInv, NEW v \in Vars, GEP(v)
  PROVE  IInv'
<1> DEFINE check == ~Skipped /\ Passed(v) # {}
<1>1. /\ UNCHANGED <<skip, listed, FlagFreeCalled, assigned, GEPS, stale>>
      /\ reasons' \subseteq Reasons
  BY DEF GEP, Meet, Through, IInv, TypeOK
<1>2. CASE ~check
  <2>1. pointers' = pointers /\ handed' = handed /\ freed' = freed
    BY <1>2 DEF GEP, Through
  <2>2. \/ missed' = Nothing
        \/ v \in handed /\ missed' = [how |-> "gep", of |-> {v}]
    BY <1>2 DEF GEP, Through
  <2>3. ~listed /\ v \in handed => isChecked(v) \/ v \notin assigned
    BY <1>2 DEF IInv, HandedIsTracked, SkippedIsHarmless, Skipped
  <2>4. freed' \subseteq handed' /\ GEPS' \subseteq Types /\ stale' \in BOOLEAN
        /\ (stale' => stale /\ (~listed => GEPS' = {}))
    BY <1>1, <2>1 DEF IInv, TypeOK, StaleIsUnrecorded
  <2> QED
    BY <1>1, <2>1, <2>2, <2>3, <2>4, QuietIInv
<1>3. CASE check
  <2>1. pointers \in Seq(Entry) /\ Len(pointers) \in Nat
        /\ DOMAIN pointers = 1..Len(pointers)
    BY LenProperties DEF IInv, TypeOK
  <2>2. \A i \in DOMAIN pointers :
          pointers[i] \in [var : Vars, passed : BOOLEAN, checked : BOOLEAN]
    BY <2>1, ElementOfSeq DEF Entry
  <2>3. pointers' = [i \in DOMAIN pointers |->
                      IF IsFirst(i, Passed(v))
                      THEN [pointers[i] EXCEPT !.passed = FALSE,
                                               !.checked = TRUE]
                      ELSE pointers[i]]
    BY <1>3 DEF GEP
  <2>4. \A i \in DOMAIN pointers :
          /\ pointers'[i] \in Entry
          /\ pointers'[i].var = pointers[i].var
          /\ pointers[i].var # v => pointers'[i] = pointers[i]
    <3> SUFFICES ASSUME NEW i \in DOMAIN pointers
                 PROVE  /\ pointers'[i] \in Entry
                        /\ pointers'[i].var = pointers[i].var
                        /\ pointers[i].var # v => pointers'[i] = pointers[i]
      OBVIOUS
    <3>1. IsFirst(i, Passed(v)) => pointers[i].var = v
      BY DEF IsFirst, Passed, Entries
    <3> QED
      BY <2>2, <2>3, <3>1 DEF Entry
  <2>5. pointers' \in Seq(Entry) /\ Len(pointers') = Len(pointers)
        /\ DOMAIN pointers' = DOMAIN pointers
    <3>1. pointers' \in [DOMAIN pointers -> Entry]
      BY <2>3, <2>4
    <3> QED
      BY <2>1, <3>1, SameLength
  <2>6. handed' = handed \ {v} /\ freed' = freed \ {v} /\ missed' = Nothing
    BY <1>3 DEF GEP, Through
  <2>7. \A w \in Vars : Entries(w)' = Entries(w)
    BY <2>4, <2>5 DEF Entries
  <2>8. TypeOK'
    <3>1. Len(pointers') <= MaxEntries
      BY <2>5 DEF IInv, TypeOK
    <3>2. FlagFreeCalled' \in FreeFlags(skip') /\ skip' \in BOOLEAN /\ listed' \in BOOLEAN
          /\ assigned' \subseteq Vars /\ GEPS' \subseteq Types /\ stale' \in BOOLEAN
      BY <1>1 DEF IInv, TypeOK
    <3>3. handed' \subseteq Vars /\ freed' \subseteq handed'
      BY <2>6 DEF IInv, TypeOK
    <3> QED
      BY <1>1, <2>5, <2>6, <3>1, <3>2, <3>3, Zenon DEF TypeOK, Nothing
  <2>9. EntriesHaveFirst' /\ AssignedHasEntry'
    BY <1>1, <2>7
    DEF IInv, EntriesHaveFirst, AssignedHasEntry, HasFirst, IsFirst, TypeOK,
      Skipped
  <2>10. HandedIsTracked'
    <3> SUFFICES ASSUME ~listed, NEW w \in handed' \cap assigned'
                 PROVE  isChecked(w)' \/ Passed(w)' # {}
      BY <1>1 DEF HandedIsTracked
    <3>1. w \in handed \cap assigned /\ w \in Vars /\ w # v
      BY <1>1, <2>6 DEF IInv, TypeOK
    <3>2. isChecked(w) \/ Passed(w) # {}
      BY <3>1 DEF IInv, HandedIsTracked
    <3>3. \A i \in Entries(w) : pointers'[i] = pointers[i]
      BY <2>4, <3>1 DEF Entries
    <3> QED
      BY <2>7, <3>1, <3>2, <3>3 DEF isChecked, Passed
  <2> QED
    BY <1>1, <2>6, <2>8, <2>9, <2>10
    DEF IInv, SkippedIsHarmless, StaleIsUnrecorded, FirstUseChecked,
      NestedAfterCall, Nothing
<1> QED
  BY <1>2, <1>3

LEMMA DerefIInv ==
  ASSUME IInv, NEW v \in Vars, Deref(v)
  PROVE  IInv'
<1> DEFINE check == ~Skipped /\ Passed(v) # {}
<1>1. /\ UNCHANGED <<skip, listed, pointers, FlagFreeCalled, assigned, GEPS, stale>>
      /\ reasons' \subseteq Reasons
  BY DEF Deref, Meet, Through, IInv, TypeOK
<1>2. handed' \subseteq handed /\ freed' \subseteq freed /\ freed' \subseteq handed'
  BY DEF Deref, Through, IInv, TypeOK
<1>3. \/ missed' = Nothing
      \/ v \in handed /\ ~check /\ missed' = [how |-> "deref", of |-> {v}]
  BY DEF Deref, Through
<1>4. ~listed /\ v \in handed /\ ~check => isChecked(v) \/ v \notin assigned
  BY DEF IInv, HandedIsTracked, SkippedIsHarmless, Skipped
<1>5. GEPS' \subseteq Types /\ stale' \in BOOLEAN /\ (stale' => stale /\ (~listed => GEPS' = {}))
  BY <1>1 DEF IInv, TypeOK, StaleIsUnrecorded
<1> QED
  BY <1>1, <1>2, <1>3, <1>4, <1>5, QuietIInv

LEMMA PlainIInv ==
  ASSUME IInv, NEW v \in Vars, Plain(v)
  PROVE  IInv'
<1>1. /\ UNCHANGED <<skip, listed, pointers, FlagFreeCalled, assigned, GEPS, stale>>
      /\ reasons' \subseteq Reasons
      /\ handed' = handed /\ freed' = freed
  BY DEF Plain, Meet, Through, IInv, TypeOK
<1>2. missed' = Nothing \/ missed' = [how |-> "plain", of |-> {v}]
  BY DEF Plain, Through
<1>3. freed' \subseteq handed' /\ GEPS' \subseteq Types /\ stale' \in BOOLEAN
      /\ (stale' => stale /\ (~listed => GEPS' = {}))
  BY <1>1 DEF IInv, TypeOK, StaleIsUnrecorded
<1> QED
  BY <1>1, <1>2, <1>3, QuietIInv

(* Accesses that leave the ghosts alone, and nested ones.                  *)
LEMMA OtherAccessIInv ==
  ASSUME IInv,
         \/ \E nested \in BOOLEAN : Listed(nested)
         \/ \E t \in Types, chained \in BOOLEAN : Nested(t, chained)
         \/ Global
  PROVE  IInv'
<1>1. /\ UNCHANGED <<skip, listed, pointers, FlagFreeCalled, assigned>>
      /\ handed' = handed /\ freed' = freed
      /\ reasons' \subseteq Reasons
  BY DEF Listed, Nested, Global, Meet, IInv, TypeOK, Reasons
<1>2. GEPS' \subseteq Types /\ stale' \in BOOLEAN /\ (stale' => stale /\ (~listed => GEPS' = {}))
  BY DEF Listed, Nested, Global, IInv, TypeOK, StaleIsUnrecorded,
    SkippedIsHarmless, Skipped
<1>3. \/ missed' = Nothing
      \/ /\ missed' \in [how : {"nested", "chained"}, of : {{}}]
         /\ missed'.how = "nested" => listed
  BY DEF Listed, Nested, Global, IInv, StaleIsUnrecorded, SkippedIsHarmless,
    Skipped
<1>4. freed' \subseteq handed'
  BY <1>1 DEF IInv, TypeOK
<1> QED
  BY <1>1, <1>2, <1>3, <1>4, QuietIInv

LEMMA ReturnIInv ==
  ASSUME IInv, Return
  PROVE  IInv'
<1>1. <<>> \in Seq(Entry) /\ Len(<<>>) = 0
  BY EmptySeq
<1>2. pointers' \in Seq(Entry) /\ Len(pointers') <= MaxEntries
  BY <1>1, MaxEntriesAssumption DEF Return
<1>3. TypeOK'
  <2>1. GEPS' \subseteq Types
    BY DEF Return, IInv, TypeOK
  <2> QED
    BY <1>2, <2>1, Zenon DEF Return, TypeOK, Nothing
<1> QED
  BY <1>3 DEF Return, IInv, EntriesHaveFirst, AssignedHasEntry, HandedIsTracked,
    SkippedIsHarmless, StaleIsUnrecorded, FirstUseChecked, NestedAfterCall,
    Nothing, Entries

LEMMA NextIInv == IInv /\ [Next]_vars => IInv'
<1> SUFFICES ASSUME IInv, [Next]_vars PROVE IInv'
  OBVIOUS
<1>1. CASE \E v \in Vars : Store(v) \/ GEP(v) \/ Deref(v) \/ Plain(v)
  BY <1>1, StoreIInv, GEPIInv, DerefIInv, PlainIInv
<1>2. CASE \E callee \in Callees, loads, derefs \in SUBSET Vars,
              other \in BOOLEAN : Call(callee, loads, derefs, other)
  BY <1>2, CallIInv
<1>3. CASE \/ \E nested \in BOOLEAN : Listed(nested)
           \/ \E t \in Types, chained \in BOOLEAN : Nested(t, chained)
           \/ Global
  BY <1>3, OtherAccessIInv
<1>4. CASE Return
  BY <1>4, ReturnIInv
<1>5. CASE UNCHANGED vars
  BY <1>5 DEF vars, IInv, TypeOK, EntriesHaveFirst, HasFirst, IsFirst,
    AssignedHasEntry, HandedIsTracked, SkippedIsHarmless, StaleIsUnrecorded,
    FirstUseChecked, NestedAfterCall, isChecked, Passed, Entries, Skipped
<1> QED
  BY <1>1, <1>2, <1>3, <1>4, <1>5 DEF Next

(* What the handlers know of a function's pointers covers what it stored,   *)
(* loaded and passed on.                                                   *)
THEOREM Invariance == Spec => []IInv
<1>1. Init => IInv
  BY InitIInv
<1>2. IInv /\ [Next]_vars => IInv'
  BY NextIInv
<1> QED
  BY <1>1, <1>2, PTL DEF Spec

-----------------------------------------------------------------------------

(* What the pass records stays in its types, in any module it walks.       *)
THEOREM TypeCorrect == Spec => []TypeOK
<1>1. IInv => TypeOK
  BY DEF IInv
<1> QED
  BY <1>1, Invariance, PTL

(***************************************************************************)
(* instrumentLoad checks the value of a local pointer at the first access  *)
(* to a field, an element or a pointer after instrumentCalls saw it handed *)
(* over, unless the variable had a check before, however many variables,   *)
(* entries and calls a function has, if it is not on avoidList.            *)
(***************************************************************************)
THEOREM FirstUseIsChecked == Spec => []FirstUseChecked
<1>1. IInv => FirstUseChecked
  BY DEF IInv
<1> QED
  BY <1>1, Invariance, PTL

(***************************************************************************)
(* The first nested access after a call of free or a function that was     *)
(* handed a pointer gets its __nestedGEPCheck: GEPS is empty then, and the *)
(* optimizer does not skip the function.  Functions on avoidList, and      *)
(* accesses that go on from a checked one, are excepted.                   *)
(***************************************************************************)
THEOREM NestedIsChecked == Spec => []NestedAfterCall
<1>1. IInv => NestedAfterCall
  BY DEF IInv
<1> QED
  BY <1>1, Invariance, PTL
=============================================================================

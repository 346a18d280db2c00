-------------------------- MODULE RevisionsProofs --------------------------
(***************************************************************************)
(* Proofs of the revision cache's safety properties, for every set of      *)
(* keys, callers and fills, and every limit of the cache.                  *)
(***************************************************************************)
EXTENDS Revisions, FiniteSetTheorems, TLAPS

(* The strengthening ties the goroutines to the map of fills: a registered *)
(* fill is resolving that very key, a resolving fill is the registered one *)
(* of its key, and nothing is asked whose answer is known.                 *)
FillInv ==
    /\ \A k \in Keys : fills[k] # NoFill => fill[fills[k]] = [key |-> k, at |-> "resolving"]
    /\ \A f \in Fills : fill[f].at = "resolving" =>
        /\ fill[f].key \in Keys
        /\ fills[fill[f].key] = f
        /\ entries[fill[f].key] # Known

WaitInv ==
    \A c \in Callers : lookup[c] # Idle => fill[lookup[c].on].key = lookup[c].key

CacheInv == TypeOK /\ FillInv /\ WaitInv

LEMMA CacheInit == Init => CacheInv
<1> SUFFICES ASSUME Init PROVE CacheInv
  OBVIOUS
<1>1. TypeOK
  BY RevisionsAssumption DEF Init, TypeOK, Entry, Absent, Idle
<1>2. FillInv /\ WaitInv BY DEF Init, FillInv, WaitInv
<1> QED BY <1>1, <1>2 DEF CacheInv

(* The three ways through cachedOrFilling: an answer, a wait, a new fill.  *)
Answers(c) == Answered(c) /\ UNCHANGED <<entries, fills, fill, now>>

LEMMA AnswerKeeps ==
  ASSUME CacheInv, NEW c \in Callers, Answers(c)
  PROVE  CacheInv'
<1>1. TypeOK' BY DEF CacheInv, TypeOK, Answers, Answered
<1>2. FillInv' BY DEF CacheInv, FillInv, Answers, Answered
<1>3. WaitInv' BY DEF CacheInv, TypeOK, WaitInv, Answers, Answered
<1> QED BY <1>1, <1>2, <1>3 DEF CacheInv

LEMMA AskKeeps ==
  ASSUME CacheInv, NEW c \in Callers, NEW k \in Keys, Ask(c, k)
  PROVE  CacheInv'
<1>1. CASE Answers(c) BY <1>1, AnswerKeeps
<1>2. CASE /\ ~Unfilled(k)
           /\ lookup' = [lookup EXCEPT ![c] = [key |-> k, on |-> fills[k]]]
           /\ UNCHANGED <<entries, fills, fill, now>>
  <2>1. fills[k] \in Fills /\ fill[fills[k]].key = k
    <3>1. fills[k] \in Fills BY <1>2 DEF CacheInv, TypeOK, Unfilled
    <3>2. fill[fills[k]] = [key |-> k, at |-> "resolving"]
      BY <1>2 DEF CacheInv, FillInv, Unfilled
    <3> QED BY <3>1, <3>2
  <2>2. TypeOK' BY <1>2, <2>1 DEF CacheInv, TypeOK
  <2>3. FillInv' BY <1>2 DEF CacheInv, FillInv
  <2>4. WaitInv' BY <1>2, <2>1 DEF CacheInv, TypeOK, WaitInv
  <2> QED BY <2>2, <2>3, <2>4 DEF CacheInv
<1>3. ASSUME NEW f \in Fills, ~Decided(k), Unfilled(k), Free(f), Register(k, f),
             fill' = [fill EXCEPT ![f] = [key |-> k, at |-> "resolving"]],
             lookup' = [lookup EXCEPT ![c] = [key |-> k, on |-> f]],
             UNCHANGED <<entries, now>>
      PROVE  CacheInv'
  <2>1. TypeOK' BY <1>3 DEF CacheInv, TypeOK, Register
  <2>2. \A q \in Keys : fills[q] # f
    <3>1. fill[f].at = "closed" BY <1>3 DEF Free, Closed
    <3>2. f # NoFill BY RevisionsAssumption
    <3>3. ASSUME NEW q \in Keys, fills[q] = f PROVE FALSE
      <4>1. fill[f] = [key |-> q, at |-> "resolving"]
        BY <3>2, <3>3 DEF CacheInv, FillInv
      <4>2. fill[f].at = "resolving" BY <4>1
      <4> QED BY <3>1, <4>2
    <3> QED BY <3>3
  <2>3. FillInv'
    <3>1. ASSUME NEW q \in Keys, fills'[q] # NoFill
          PROVE  fill'[fills'[q]] = [key |-> q, at |-> "resolving"]
      <4>1. CASE q = k BY <1>3, <4>1 DEF CacheInv, TypeOK, Register
      <4>2. CASE q # k
        BY <1>3, <2>2, <3>1, <4>2 DEF CacheInv, TypeOK, FillInv, Register
      <4> QED BY <4>1, <4>2
    <3>2. ASSUME NEW g \in Fills, fill'[g].at = "resolving"
          PROVE  /\ fill'[g].key \in Keys
                 /\ fills'[fill'[g].key] = g
                 /\ entries'[fill'[g].key] # Known
      <4>1. CASE g = f BY <1>3, <4>1 DEF CacheInv, TypeOK, Register, Decided
      <4>2. CASE g # f
        <5>1. fill'[g] = fill[g] BY <1>3, <4>2 DEF CacheInv, TypeOK
        <5>2. /\ fill[g].key \in Keys /\ fills[fill[g].key] = g
              /\ entries[fill[g].key] # Known
          BY <3>2, <5>1 DEF CacheInv, FillInv
        <5>3. fill[g].key # k
          BY <1>3, <5>2, RevisionsAssumption DEF Unfilled
        <5> QED BY <1>3, <5>1, <5>2, <5>3 DEF CacheInv, TypeOK, Register
      <4> QED BY <4>1, <4>2
    <3> QED BY <3>1, <3>2 DEF FillInv
  <2>4. WaitInv'
    BY <1>3 DEF CacheInv, TypeOK, WaitInv, Free
  <2> QED BY <2>1, <2>3, <2>4 DEF CacheInv
<1> QED BY <1>1, <1>2, <1>3 DEF Ask, Answers

LEMMA StoreTyped ==
  ASSUME TypeOK, NEW k \in Keys, NEW e \in Entry, store(k, e)
  PROVE  entries' \in [Keys -> Entry]
<1>1. Absent \in Entry BY RevisionsAssumption DEF Absent, Entry
<1> QED BY <1>1 DEF TypeOK, store

LEMMA ResolvedKeeps ==
  ASSUME CacheInv, NEW f \in Fills, Resolved(f)
  PROVE  CacheInv'
<1> DEFINE k == fill[f].key
<1>1. k \in Keys /\ fills[k] = f BY DEF CacheInv, FillInv, Resolved
<1>2. PICK e \in Entry : store(k, e)
  BY RevisionsAssumption
  DEF Resolved, CacheInv, TypeOK, Known, Failed, Entry
<1>3. /\ fills' = [fills EXCEPT ![k] = NoFill]
      /\ fill' = [fill EXCEPT ![f].at = "closing"]
      /\ UNCHANGED <<lookup, now>>
  BY DEF Resolved, Deregister
<1>4. TypeOK'
  <2>1. entries' \in [Keys -> Entry] BY <1>1, <1>2, StoreTyped DEF CacheInv
  <2>2. fill' \in [Fills -> [key : Keys \cup {NoKey}, at : {"resolving", "closing", "closed"}]]
    BY <1>3 DEF CacheInv, TypeOK
  <2> QED BY <1>1, <1>3, <2>1, <2>2 DEF CacheInv, TypeOK
<1>5. FillInv'
  <2>1. ASSUME NEW q \in Keys, fills'[q] # NoFill
        PROVE  fill'[fills'[q]] = [key |-> q, at |-> "resolving"]
    <3>1. q # k BY <1>1, <1>3, <2>1 DEF CacheInv, TypeOK
    <3>2. fills'[q] = fills[q] /\ fills[q] # NoFill
      BY <1>3, <2>1, <3>1 DEF CacheInv, TypeOK
    <3>3. fill[fills[q]] = [key |-> q, at |-> "resolving"]
      BY <3>2 DEF CacheInv, FillInv
    <3>4. fills[q] # f BY <3>1, <3>3
    <3> QED BY <1>3, <3>2, <3>3, <3>4 DEF CacheInv, TypeOK
  <2>2. ASSUME NEW g \in Fills, fill'[g].at = "resolving"
        PROVE  /\ fill'[g].key \in Keys
               /\ fills'[fill'[g].key] = g
               /\ entries'[fill'[g].key] # Known
    <3>1. g # f BY <1>3, <2>2 DEF CacheInv, TypeOK
    <3>2. fill'[g] = fill[g] BY <1>3, <3>1 DEF CacheInv, TypeOK
    <3>3. /\ fill[g].key \in Keys /\ fills[fill[g].key] = g
          /\ entries[fill[g].key] # Known
      BY <2>2, <3>2 DEF CacheInv, FillInv
    <3>4. fill[g].key # k BY <1>1, <3>1, <3>3
    <3>5. entries'[fill[g].key] \in {entries[fill[g].key], Absent}
      BY <1>1, <1>2, <3>3, <3>4 DEF store
    <3>6. entries'[fill[g].key] # Known BY <3>3, <3>5 DEF Absent, Known
    <3> QED BY <1>3, <3>2, <3>3, <3>4, <3>6 DEF CacheInv, TypeOK
  <2> QED BY <2>1, <2>2 DEF FillInv
<1>6. WaitInv' BY <1>3 DEF CacheInv, TypeOK, WaitInv
<1> QED BY <1>4, <1>5, <1>6 DEF CacheInv

LEMMA CloseDoneKeeps ==
  ASSUME CacheInv, NEW f \in Fills, CloseDone(f)
  PROVE  CacheInv'
<1>1. /\ fill[f].at = "closing"
      /\ fill' = [fill EXCEPT ![f].at = "closed"]
      /\ UNCHANGED <<entries, fills, lookup, now>>
  BY DEF CloseDone
<1>2. TypeOK' BY <1>1 DEF CacheInv, TypeOK
<1>3. FillInv'
  <2>1. ASSUME NEW q \in Keys, fills[q] # NoFill
        PROVE  fill'[fills[q]] = [key |-> q, at |-> "resolving"]
    BY <1>1, <2>1 DEF CacheInv, TypeOK, FillInv
  <2>2. ASSUME NEW g \in Fills, fill'[g].at = "resolving"
        PROVE  g # f /\ fill'[g] = fill[g]
    BY <1>1, <2>2 DEF CacheInv, TypeOK
  <2> QED BY <1>1, <2>1, <2>2 DEF CacheInv, FillInv
<1>4. WaitInv' BY <1>1 DEF CacheInv, TypeOK, WaitInv
<1> QED BY <1>2, <1>3, <1>4 DEF CacheInv

LEMMA CacheNext == CacheInv /\ [Next]_vars => CacheInv'
<1> SUFFICES ASSUME CacheInv, [Next]_vars PROVE CacheInv'
  OBVIOUS
<1>1. ASSUME NEW c \in Callers, Lookup(c) PROVE CacheInv'
  BY <1>1, AskKeeps DEF Lookup
<1>2. ASSUME NEW c \in Callers, Again(c) PROVE CacheInv'
  <2>1. lookup[c].key \in Keys BY <1>2 DEF Again, CacheInv, TypeOK
  <2> QED BY <1>2, <2>1, AskKeeps DEF Again
<1>3. ASSUME NEW c \in Callers, GiveUp(c) PROVE CacheInv'
  BY <1>3, AnswerKeeps DEF GiveUp, Answers
<1>4. ASSUME NEW f \in Fills, Resolved(f) \/ CloseDone(f) PROVE CacheInv'
  BY <1>4, ResolvedKeeps, CloseDoneKeeps
<1>5. CASE Tick
  <2>1. TypeOK' BY <1>5, RevisionsAssumption DEF Tick, CacheInv, TypeOK
  <2>2. FillInv' /\ WaitInv' BY <1>5 DEF Tick, CacheInv, FillInv, WaitInv
  <2> QED BY <2>1, <2>2 DEF CacheInv
<1>6. CASE UNCHANGED vars
  BY <1>6 DEF CacheInv, TypeOK, FillInv, WaitInv, vars
<1> QED BY <1>1, <1>2, <1>3, <1>4, <1>5, <1>6 DEF Next

LEMMA CacheAlways == Spec => []CacheInv
  BY CacheInit, CacheNext, PTL DEF Spec

(* At any time one goroutine at most asks the registry about a key, and    *)
(* whoever waits for a key waits on that goroutine (revision.go:107-113,   *)
(* 156-182).                                                               *)
THEOREM OneFillAtATime == Spec => []OneFillPerKey
<1>1. CacheInv => OneFillPerKey
  <2> SUFFICES ASSUME CacheInv PROVE OneFillPerKey OBVIOUS
  <2>1. ASSUME NEW f \in Fills, NEW g \in Fills, fill[f].at = "resolving",
               fill[g].at = "resolving", fill[f].key = fill[g].key
        PROVE  f = g
    BY <2>1 DEF CacheInv, FillInv
  <2>2. ASSUME NEW c \in Callers, lookup[c] # Idle
        PROVE  LET f == lookup[c].on IN
               /\ fill[f].key = lookup[c].key
               /\ fill[f].at = "resolving" => fills[lookup[c].key] = f
    <3>1. lookup[c].on \in Fills BY <2>2 DEF CacheInv, TypeOK
    <3>2. fill[lookup[c].on].key = lookup[c].key BY <2>2 DEF CacheInv, WaitInv
    <3> QED BY <3>1, <3>2 DEF CacheInv, FillInv
  <2> QED BY <2>1, <2>2 DEF OneFillPerKey
<1> QED BY <1>1, CacheAlways, PTL

(* An answer is forgotten only when the cache is dropped whole: no fill    *)
(* that comes late replaces it (revision.go:103-110).                      *)
THEOREM AnswersStay == Spec => AnswersAreKept
<1> DEFINE Kept == \A k \in Keys : entries[k] = Known /\ entries'[k] # Known => Full
<1>1. CacheInv /\ [Next]_vars => [Kept]_vars
  <2> SUFFICES ASSUME CacheInv, Next PROVE Kept
    BY DEF vars
  <2>1. ASSUME NEW f \in Fills, Resolved(f) PROVE Kept
    <3>1. /\ fill[f].key \in Keys /\ entries[fill[f].key] # Known
      BY <2>1 DEF CacheInv, FillInv, Resolved
    <3>2. PICK e : store(fill[f].key, e) BY <2>1 DEF Resolved
    <3> QED BY <3>1, <3>2 DEF store
  <2>2. CASE \/ \E c \in Callers : Lookup(c) \/ Again(c) \/ GiveUp(c)
             \/ \E f \in Fills : CloseDone(f)
             \/ Tick
    BY <2>2 DEF Lookup, Again, Ask, GiveUp, CloseDone, Tick
  <2> QED BY <2>1, <2>2 DEF Next
<1> QED BY <1>1, CacheAlways, PTL DEF Spec, AnswersAreKept

-----------------------------------------------------------------------------
(* The size of the cache. *)

LEMMA StoreBounded ==
  ASSUME CacheBounded, NEW k \in Keys, NEW e, store(k, e)
  PROVE  CacheBounded'
<1>1. IsFiniteSet(Present) /\ Cardinality(Present) \in Nat
  BY RevisionsAssumption, FS_Subset, FS_CardinalityType DEF Present
<1>2. CASE Full
  <2>1. Present' \subseteq {k} BY <1>2 DEF store, Present
  <2>2. IsFiniteSet({k}) /\ Cardinality({k}) = 1 BY FS_Singleton
  <2>3. IsFiniteSet(Present') /\ Cardinality(Present') <= 1
    BY <2>1, <2>2, FS_Subset
  <2>4. Cardinality(Present') \in Nat BY <2>3, FS_CardinalityType
  <2> QED BY <2>3, <2>4, RevisionsAssumption DEF CacheBounded
<1>3. CASE ~Full
  <2>1. Present' \subseteq Present \cup {k} BY <1>3 DEF store, Present
  <2>2. /\ IsFiniteSet(Present \cup {k})
        /\ Cardinality(Present \cup {k}) <= Cardinality(Present) + 1
    BY <1>1, FS_AddElement
  <2>3. IsFiniteSet(Present') /\ Cardinality(Present') <= Cardinality(Present \cup {k})
    BY <2>1, <2>2, FS_Subset
  <2>4. Cardinality(Present') \in Nat /\ Cardinality(Present \cup {k}) \in Nat
    BY <2>2, <2>3, FS_CardinalityType
  <2> QED BY <1>1, <1>3, <2>2, <2>3, <2>4, RevisionsAssumption DEF Full, CacheBounded
<1> QED BY <1>2, <1>3

(* The cache never outgrows its limit (revision.go:48-51, 197-203).        *)
THEOREM CacheStaysBounded == Spec => []CacheBounded
<1>1. Init => CacheBounded
  <2>1. Init => Present = {} BY DEF Init, Present
  <2> QED BY <2>1, FS_EmptySet, RevisionsAssumption DEF CacheBounded
<1>2. CacheInv /\ CacheBounded /\ [Next]_vars => CacheBounded'
  <2> SUFFICES ASSUME CacheInv, CacheBounded, [Next]_vars PROVE CacheBounded'
    OBVIOUS
  <2>1. ASSUME NEW f \in Fills, Resolved(f) PROVE CacheBounded'
    <3>1. fill[f].key \in Keys BY <2>1 DEF CacheInv, FillInv, Resolved
    <3> QED BY <2>1, <3>1, StoreBounded DEF Resolved
  <2>2. CASE \/ \E c \in Callers : Lookup(c) \/ Again(c) \/ GiveUp(c)
             \/ \E f \in Fills : CloseDone(f)
             \/ Tick \/ UNCHANGED vars
    <3>1. entries' = entries
      BY <2>2 DEF Lookup, Again, Ask, GiveUp, CloseDone, Tick, vars
    <3> QED BY <3>1 DEF CacheBounded, Present
  <2> QED BY <2>1, <2>2 DEF Next
<1> QED BY <1>1, <1>2, CacheAlways, PTL DEF Spec

-----------------------------------------------------------------------------
(* The values of the variables (revision.go:97-125).                       *)
THEOREM CacheIsTyped == Spec => []TypeOK
<1>1. CacheInv => TypeOK BY DEF CacheInv
<1> QED BY <1>1, CacheAlways, PTL
=============================================================================

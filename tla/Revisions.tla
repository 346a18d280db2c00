----------------------------- MODULE Revisions ------------------------------
(***************************************************************************)
(* The revision cache (internal/revision/revision.go): callers with a      *)
(* deadline look digests up, misses are filled by one detached goroutine   *)
(* per key, failures are remembered for a while, and a cache grown too     *)
(* large is dropped whole.                                                 *)
(***************************************************************************)
EXTENDS Integers, FiniteSets

CONSTANTS
    Keys,           \* repository@digest
    Callers,
    Fills,          \* fill goroutines with their done channels, reused: more
                    \* than Callers, so that one is always free in the end
    maxEntries,
    failureRetry,
    MaxTime         \* bound on the clock

NoFill == "no fill"
NoKey == "no key"

ASSUME RevisionsAssumption ==
    /\ IsFiniteSet(Keys) /\ NoKey \notin Keys /\ NoFill \notin Fills
    /\ maxEntries \in Nat \ {0}
    /\ failureRetry \in Nat /\ MaxTime \in Nat

VARIABLES
    entries,   \* cachedSource.entries
    fills,     \* cachedSource.fills: the fill registered for a key
    fill,      \* each fill goroutine: its key and where it is
    lookup,    \* each caller: the key it asks for, the fill it waits on
    now

vars == <<entries, fills, fill, lookup, now>>

Absent == [kind |-> "absent", at |-> 0]
Known == [kind |-> "ok", at |-> 0]
FailedUntil(t) == [kind |-> "failed", at |-> t + failureRetry]
Failed(t) == [kind |-> "failed", at |-> t]
Entry == [kind : {"absent", "ok", "failed"}, at : 0 .. MaxTime]

Idle == [key |-> NoKey, on |-> NoFill]

(* A goroutine and its channel are free once the channel is closed and     *)
(* nobody waits on it.                                                     *)
Closed(f) == fill[f].at = "closed"
Free(f) == Closed(f) /\ \A c \in Callers : lookup[c].on # f

-----------------------------------------------------------------------------
(* cachedOrFilling, one critical section.                                  *)

Fresh(e) == e.kind = "failed" /\ now - e.at < failureRetry
Decided(k) == entries[k] = Known \/ Fresh(entries[k])

UnfilledAlways(k) == TRUE
Unfilled(k) == fills[k] = NoFill

Register(k, f) == fills' = [fills EXCEPT ![k] = f]
KeepRegistered(k) == UNCHANGED fills
Deregister(k) == fills' = [fills EXCEPT ![k] = NoFill]

Answered(c) == lookup' = [lookup EXCEPT ![c] = Idle]

Ask(c, k) ==
    \/ Decided(k) /\ Answered(c) /\ UNCHANGED <<entries, fills, fill, now>>
    \/ /\ ~Decided(k) /\ ~Unfilled(k)
       /\ lookup' = [lookup EXCEPT ![c] = [key |-> k, on |-> fills[k]]]
       /\ UNCHANGED <<entries, fills, fill, now>>
    \/ /\ ~Decided(k) /\ Unfilled(k)
       /\ \E f \in Fills :
            /\ Free(f)
            /\ Register(k, f)
            /\ fill' = [fill EXCEPT ![f] = [key |-> k, at |-> "resolving"]]
            /\ lookup' = [lookup EXCEPT ![c] = [key |-> k, on |-> f]]
       /\ UNCHANGED <<entries, now>>

Lookup(c) ==
    /\ lookup[c] = Idle
    /\ \E k \in Keys : Ask(c, k)

(* done is closed: read the cache again rather than trust the fill.        *)
Again(c) ==
    /\ lookup[c] # Idle
    /\ Closed(lookup[c].on)
    /\ Ask(c, lookup[c].key)

(* The caller's context is done. *)
GiveUp(c) ==
    /\ lookup[c] # Idle
    /\ Answered(c)
    /\ UNCHANGED <<entries, fills, fill, now>>

-----------------------------------------------------------------------------
(* fill: resolve, then store and deregister under the lock, then close.    *)

Present == {k \in Keys : entries[k] # Absent}
OneTooMany == Cardinality(Present) > maxEntries
Full == Cardinality(Present) >= maxEntries

store(k, e) ==
    entries' = [[q \in Keys |-> IF Full THEN Absent ELSE entries[q]] EXCEPT ![k] = e]

Resolved(f) ==
    LET k == fill[f].key IN
    /\ fill[f].at = "resolving"
    /\ store(k, Known) \/ store(k, Failed(now))
    /\ Deregister(k)
    /\ fill' = [fill EXCEPT ![f].at = "closing"]
    /\ UNCHANGED <<lookup, now>>

CloseDone(f) ==
    /\ fill[f].at = "closing"
    /\ fill' = [fill EXCEPT ![f].at = "closed"]
    /\ UNCHANGED <<entries, fills, lookup, now>>

Tick ==
    /\ now < MaxTime
    /\ now' = now + 1
    /\ UNCHANGED <<entries, fills, fill, lookup>>

-----------------------------------------------------------------------------
Init ==
    /\ entries = [k \in Keys |-> Absent]
    /\ fills = [k \in Keys |-> NoFill]
    /\ fill = [f \in Fills |-> [key |-> NoKey, at |-> "closed"]]
    /\ lookup = [c \in Callers |-> Idle]
    /\ now = 0

Next ==
    \/ \E c \in Callers : Lookup(c) \/ Again(c) \/ GiveUp(c)
    \/ \E f \in Fills : Resolved(f) \/ CloseDone(f)
    \/ Tick

Spec == Init /\ [][Next]_vars

(* Fills are bounded by fillTimeout; nobody's patience has to end. *)
FairSpec ==
    /\ Spec
    /\ \A f \in Fills : WF_vars(Resolved(f) \/ CloseDone(f))
    /\ \A c \in Callers : WF_vars(Again(c))

-----------------------------------------------------------------------------
(* The cache, its fills and its callers have the values of their types. *)
TypeOK ==
    /\ entries \in [Keys -> Entry]
    /\ fills \in [Keys -> Fills \cup {NoFill}]
    /\ fill \in [Fills -> [key : Keys \cup {NoKey}, at : {"resolving", "closing", "closed"}]]
    /\ lookup \in [Callers -> [key : Keys, on : Fills] \cup {Idle}]
    /\ now \in 0 .. MaxTime

(* The cache never holds more than maxEntries answers (revision.go:48-51). *)
CacheBounded == Cardinality(Present) <= maxEntries

(* One goroutine at a time asks the registry about a key, and whoever      *)
(* waits for the key waits on its fill: the registered one as long as that *)
(* has not stored its answer, so that whoever asks next joins the same     *)
(* wait (revision.go:107-113, 156-182).                                    *)
OneFillPerKey ==
    /\ \A f, g \in Fills :
        /\ fill[f].at = "resolving" /\ fill[g].at = "resolving"
        /\ fill[f].key = fill[g].key
        => f = g
    /\ \A c \in Callers : lookup[c] # Idle =>
        LET f == lookup[c].on IN
        /\ fill[f].key = lookup[c].key
        /\ fill[f].at = "resolving" => fills[lookup[c].key] = f

(* An answer once found is forgotten only with the whole cache: no slower  *)
(* fill, and no impatient caller, replaces it by a failure                 *)
(* (revision.go:103-110).                                                  *)
AnswersAreKept ==
    [][\A k \in Keys : entries[k] = Known /\ entries'[k] # Known => Full]_vars

(* Every lookup returns without help from its caller's deadline, as long   *)
(* as the cache is not dropped again and again: a waiter whose entry was   *)
(* dropped before it woke starts over (revision.go:146-150).               *)
Drop == \E k \in Present : entries'[k] = Absent
EveryLookupReturns ==
    \/ []<><<Drop>>_vars
    \/ \A c \in Callers : lookup[c] # Idle ~> lookup[c] = Idle
=============================================================================

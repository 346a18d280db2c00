--------------------------- MODULE CatalogProofs ---------------------------
(***************************************************************************)
(* Proofs of safety properties of the watcher and of the drift loop, for   *)
(* every set of services and repositories and every bound.                 *)
(***************************************************************************)
EXTENDS Catalog, TLAPS

LEMMA PinsAreNot ==
  /\ Absent \notin Pin /\ Unreadable \notin Pin
  /\ Pin \subseteq Manifest /\ Absent \in Manifest /\ Unreadable \in Manifest
  BY CatalogAssumption DEF Manifest

-----------------------------------------------------------------------------
(* The watcher.  An answer under way is one the registry gave, so it is no *)
(* newer than the tag and no older than the answer before it.              *)

OfferInv ==
    /\ tag \in [Repositories -> Nat] /\ latest \in [Repositories -> Nat]
    /\ restarts \in Nat
    /\ \A r \in Repositories : latest[r] <= tag[r]
    /\ poll = [left |-> poll.left, answer |-> poll.answer]
    /\ poll.left \subseteq Repositories
    /\ poll.answer # NoAnswer =>
        /\ poll.answer.repository \in Repositories
        /\ poll.answer.version \in Nat
        /\ poll.answer.version # 0 =>
            /\ latest[poll.answer.repository] <= poll.answer.version
            /\ poll.answer.version <= tag[poll.answer.repository]

LEMMA OfferInit == Init => OfferInv
  BY DEF Init, OfferInv, NoPoll, NoAnswer

LEMMA NamedAreRepositories ==
  ASSUME NEW s \in Services, Reads(s)
  PROVE  mirror[s].repository \in Repositories
  BY DEF Reads, Readable, Pin

LEMMA OfferWatch ==
  ASSUME OfferInv, Watch
  PROVE  OfferInv' /\ \A r \in Repositories : latest'[r] >= latest[r]
<1>1. CASE Tick
  <2>1. repositories \subseteq Repositories
    BY NamedAreRepositories DEF repositories, Named
  <2>2. PICK part \in SUBSET repositories : poll' = [left |-> part, answer |-> NoAnswer]
    BY <1>1 DEF Tick, NoPoll
  <2>3. /\ poll' = [left |-> poll'.left, answer |-> poll'.answer]
        /\ poll'.left \subseteq Repositories /\ poll'.answer = NoAnswer
    BY <2>1, <2>2
  <2>4. UNCHANGED <<tag, latest, restarts>> BY <1>1 DEF Tick, worldVars
  <2> QED BY <2>3, <2>4 DEF OfferInv
<1>2. CASE Resolve
  <2>1. PICK r \in poll.left :
          \/ poll' = [left |-> poll.left, answer |-> Answered(r)]
          \/ poll' = [left |-> poll.left, answer |-> Failed(r)]
    BY <1>2 DEF Resolve, OfferInv
  <2>2. UNCHANGED <<tag, latest, restarts>> BY <1>2 DEF Resolve, worldVars
  <2>3. r \in Repositories BY <2>1 DEF OfferInv
  <2>4. /\ poll' = [left |-> poll'.left, answer |-> poll'.answer]
        /\ poll'.left = poll.left
        /\ poll'.answer.repository = r
        /\ poll'.answer.version \in {0, tag[r]}
    BY <2>1 DEF Answered, Failed
  <2> QED BY <2>1, <2>2, <2>3, <2>4 DEF OfferInv
<1>3. CASE Store
  <2> DEFINE r == poll.answer.repository
             v == poll.answer.version
  <2>1. r \in Repositories /\ v \in Nat BY <1>3 DEF Store, OfferInv
  <2>2. latest' = [latest EXCEPT ![r] = IF v # 0 THEN v ELSE latest[r]]
    BY <1>3 DEF Store, Standing
  <2>3. poll' = [left |-> poll.left \ {r}, answer |-> NoAnswer] /\ UNCHANGED <<tag, restarts>>
    BY <1>3 DEF Store, worldVars
  <2>4. v # 0 => latest[r] <= v /\ v <= tag[r] BY <1>3 DEF Store, OfferInv
  <2> QED BY <2>1, <2>2, <2>3, <2>4 DEF OfferInv
<1> QED BY <1>1, <1>2, <1>3 DEF Watch

LEMMA OfferNext ==
  ASSUME OfferInv, [Next]_vars
  PROVE  /\ OfferInv'
         /\ restarts' = restarts => \A r \in Repositories : latest'[r] >= latest[r]
<1>1. CASE Watch BY <1>1, OfferWatch
<1>2. ASSUME NEW r \in Repositories, TagMoves(r)
      PROVE  OfferInv' /\ \A q \in Repositories : latest'[q] >= latest[q]
  <2>1. tag' = [tag EXCEPT ![r] = @ + 1] /\ UNCHANGED <<latest, poll, restarts>>
    BY <1>2 DEF TagMoves, Changes, watchVars
  <2>2. tag' \in [Repositories -> Nat] /\ \A q \in Repositories : tag[q] <= tag'[q]
    BY <2>1 DEF OfferInv
  <2> QED BY <2>1, <2>2 DEF OfferInv
<1>3. CASE \/ \E s \in Services : Push(s) \/ HostChanges(s)
           \/ WatchDrift \/ OthersSync \/ UNCHANGED vars
  <2>1. UNCHANGED <<tag, latest, poll, restarts>>
    BY <1>3 DEF Push, HostChanges, Changes, WatchDrift, DriftSync, DriftList,
       DriftManifest, DriftRunning, SetDrift, OthersSync, worldVars, watchVars, vars
  <2> QED BY <2>1 DEF OfferInv
<1>4. CASE Restart
  <2>1. /\ latest' = [r \in Repositories |-> 0] /\ poll' = NoPoll
        /\ UNCHANGED tag /\ restarts' = restarts + 1
    BY <1>4 DEF Restart, Boot, worldVars
  <2>2. OfferInv' BY <2>1 DEF OfferInv, NoPoll
  <2>3. \A r \in Repositories : restarts' = restarts => latest'[r] >= latest[r]
    BY <2>1 DEF OfferInv
  <2> QED BY <2>2, <2>3
<1> QED BY <1>1, <1>2, <1>3, <1>4 DEF Next, World

(* The digest on offer for a repository only gets newer while the daemon   *)
(* lives, whatever fails and however slow the registry is                  *)
(* (registry.go:52-54, 136-152).                                           *)
THEOREM OffersOnlyGetNewer == Spec => OffersNeverGoBack
<1>1. OfferInv /\ [Next]_vars => OfferInv' BY OfferNext
<1>2. OfferInv /\ [Next]_vars =>
        [restarts' = restarts => \A r \in Repositories : latest'[r] >= latest[r]]_vars
  BY OfferNext
<1> QED BY <1>1, <1>2, OfferInit, PTL DEF Spec, OffersNeverGoBack

-----------------------------------------------------------------------------
(* The drift loop.  Once a check has synced, the mirror agrees with main   *)
(* on whatever holds still, whoever syncs next; what it has still to visit *)
(* and what it has found tell of every service that does.                  *)

Check == [at : {"idle", "list", "manifest", "running"}, left : SUBSET Services,
          service : Services \cup {"none"}, pin : Manifest,
          drift : SUBSET Services, blind : SUBSET Services]

WorldInv ==
    /\ main \in [Services -> Manifest] /\ mirror \in [Services -> Manifest]
    /\ running \in [Services -> Pin \cup {Absent}]
    /\ torn \subseteq Services

Visited(s) == s \in check.left \/ (s \in check.drift <=> Owed(s) = "drifted")
Still == steady \ torn

CheckInv ==
    /\ check \in Check
    /\ steady \subseteq Services
    /\ check.left \cap check.drift = {} /\ check.blind \subseteq check.drift
    /\ check.at # "idle" => synced /\ \A s \in Still : mirror[s] = main[s]
    /\ check.at = "list" => check.drift = {}
    /\ check.at = "running" =>
        /\ check.service \in check.left
        /\ check.service \in Still => check.pin = main[check.service]
    /\ check.at \in {"manifest", "running"} =>
        \A s \in Still : main[s] # Absent => Visited(s)

DriftInv == WorldInv /\ CheckInv

LEMMA NoCheckIsIdle == NoCheck \in Check /\ NoCheck.at = "idle" /\ NoCheck.left = {}
    /\ NoCheck.drift = {} /\ NoCheck.blind = {}
  BY PinsAreNot DEF NoCheck, Check

LEMMA DriftInit == Init => DriftInv
<1> SUFFICES ASSUME Init PROVE DriftInv
  OBVIOUS
<1>1. 1 \in Versions BY CatalogAssumption DEF Versions
<1>2. \A r \in Repositories : [repository |-> r, version |-> 1] \in Pin BY <1>1 DEF Pin
<1>3. main \in [Services -> Pin] BY <1>2 DEF Init
<1>4. WorldInv BY <1>3, PinsAreNot DEF Init, WorldInv
<1>5. CheckInv BY NoCheckIsIdle DEF Init, CheckInv
<1> QED BY <1>4, <1>5 DEF DriftInv

LEMMA WorldNext ==
  ASSUME WorldInv, [Next]_vars
  PROVE  WorldInv'
<1> DEFINE Synced == /\ UNCHANGED <<main, running>>
                     /\ mirror' \in [Services -> Manifest] /\ torn' \subseteq Services
<1>1. SyncSucceeds => mirror' \in [Services -> Manifest]
  BY DEF SyncSucceeds, WorldInv
<1>2. SyncFails => mirror' \in [Services -> Manifest] /\ torn' \subseteq Services
  BY DEF SyncFails, WorldInv
<1>3. Synced => WorldInv' BY DEF WorldInv
<1>4. CASE OthersSync BY <1>1, <1>2, <1>3, <1>4 DEF OthersSync, worldVars, WorldInv
<1>5. CASE DriftSync BY <1>1, <1>2, <1>3, <1>5 DEF DriftSync, DriftSyncs, worldVars, WorldInv
<1>6. CASE Restart
  <2>1. mirror' \in {mirror, main} /\ UNCHANGED torn BY <1>6 DEF Restart, Boot
  <2> QED BY <1>3, <1>6, <2>1 DEF Restart, worldVars, WorldInv
<1>7. ASSUME NEW s \in Services, Push(s) PROVE WorldInv'
  BY <1>7 DEF Push, Changes, mirrorVars, WorldInv
<1>8. ASSUME NEW s \in Services, HostChanges(s) PROVE WorldInv'
  <2>1. PICK image \in {mirror[s], Absent} \ {running[s], Unreadable} :
          running' = [running EXCEPT ![s] = image]
    BY <1>8 DEF HostChanges
  <2>2. image \in Pin \cup {Absent} BY <2>1 DEF WorldInv, Manifest
  <2> QED BY <1>8, <2>1, <2>2 DEF HostChanges, Changes, mirrorVars, WorldInv
<1>9. CASE \/ \E r \in Repositories : TagMoves(r)
           \/ Watch \/ DriftList \/ DriftManifest \/ DriftRunning \/ SetDrift
           \/ UNCHANGED vars
  <2>1. UNCHANGED <<main, running, mirror, torn>>
    BY <1>9 DEF TagMoves, Changes, Watch, Tick, Resolve, Store, DriftList, DriftManifest,
       DriftRunning, SetDrift, worldVars, mirrorVars, vars
  <2> QED BY <2>1 DEF WorldInv
<1> QED
  BY <1>4, <1>5, <1>6, <1>7, <1>8, <1>9 DEF Next, World, WatchDrift

(* A sync keeps what holds still in step with main, unless it tears it. *)
LEMMA SyncKeepsStill ==
  ASSUME WorldInv, (SyncSucceeds /\ UNCHANGED torn) \/ SyncFails, UNCHANGED main
  PROVE  /\ torn \subseteq torn'
         /\ \A s \in Services \ torn' : mirror[s] = main[s] => mirror'[s] = main'[s]
<1>1. CASE SyncSucceeds /\ UNCHANGED torn BY <1>1 DEF WorldInv, SyncSucceeds
<1>2. CASE SyncFails BY <1>2 DEF SyncFails
<1> QED BY <1>1, <1>2

LEMMA SyncStaysSynced ==
  ASSUME SyncSucceeds \/ SyncFails, synced
  PROVE  synced'
  BY DEF SyncSucceeds, SyncFails, StillSynced

LEMMA OthersKeepCheck ==
  ASSUME DriftInv, OthersSync
  PROVE  CheckInv'
<1>1. UNCHANGED <<main, running, check, steady>>
  BY DEF OthersSync, worldVars, driftVars
<1>2. (SyncSucceeds /\ UNCHANGED torn) \/ SyncFails BY DEF OthersSync
<1>3. torn \subseteq torn' /\ \A s \in Services \ torn' : mirror[s] = main[s] => mirror'[s] = main'[s]
  BY <1>1, <1>2, SyncKeepsStill DEF DriftInv
<1>4. synced => synced' BY <1>2, SyncStaysSynced
<1>5. Still' \subseteq Still /\ \A s \in Still : s \in Services
  BY <1>1, <1>3 DEF Still, DriftInv, CheckInv
<1>6. \A s \in Still' : mirror[s] = main[s] => mirror'[s] = main'[s]
  BY <1>1, <1>3, <1>5 DEF Still
<1> QED BY <1>1, <1>4, <1>5, <1>6 DEF DriftInv, CheckInv, Visited, InStep, Owed

LEMMA CheckBegins ==
  ASSUME DriftInv, DriftSync
  PROVE  CheckInv'
<1>1. check = NoCheck /\ steady' = Services /\ UNCHANGED <<main, running>>
  BY DEF DriftSync, worldVars
<1>2. CASE SyncSucceeds /\ check' = [NoCheck EXCEPT !.at = "list"]
  <2>1. /\ check' \in Check /\ check'.at = "list"
        /\ check'.left = {} /\ check'.drift = {} /\ check'.blind = {}
    BY <1>2, PinsAreNot DEF NoCheck, Check
  <2>2. synced' /\ mirror' = main' BY <1>1, <1>2 DEF SyncSucceeds
  <2> QED BY <1>1, <2>1, <2>2 DEF CheckInv
<1>3. CASE UNCHANGED check
  BY <1>1, <1>3, NoCheckIsIdle DEF CheckInv
<1> QED BY <1>2, <1>3 DEF DriftSync, DriftSyncs

LEMMA CheckLists ==
  ASSUME DriftInv, DriftList
  PROVE  CheckInv'
<1>1. check.at = "list" /\ UNCHANGED <<main, running, mirror, synced, torn, steady>>
  BY DEF DriftList, worldVars, mirrorVars
<1>2. CASE check' = NoCheck
  BY <1>1, <1>2, NoCheckIsIdle DEF DriftInv, CheckInv
<1>3. CASE check' = [check EXCEPT !.at = "manifest", !.left = Known]
  <2>1. Known \subseteq Services BY DEF Known
  <2>2. /\ check' \in Check /\ check'.at = "manifest" /\ check'.left = Known
        /\ check'.drift = {} /\ check'.blind = {}
    BY <1>1, <1>3, <2>1 DEF DriftInv, CheckInv, Check
  <2>3. \A s \in Still : main[s] # Absent => s \in Known
    BY <1>1 DEF DriftInv, CheckInv, Known, Still
  <2> QED BY <1>1, <2>2, <2>3 DEF DriftInv, CheckInv, Visited, Still
<1> QED BY <1>2, <1>3 DEF DriftList

(* A verdict on one service: it leaves what is to be visited, found        *)
(* drifted or not, rightly if it held still, or for want of a reading.     *)
LEMMA CheckDecides ==
  ASSUME DriftInv, check.at \in {"manifest", "running"}, NEW s \in check.left,
         UNCHANGED <<main, running, mirror, synced, torn, steady>>,
         \/ Drifts(s) /\ (s \in Still /\ main[s] # Absent => ~InStep(s))
         \/ Agrees(s) /\ (s \in Still /\ main[s] # Absent => InStep(s))
         \/ DriftsUnseen(s)
  PROVE  CheckInv'
<1> DEFINE done == [check EXCEPT !.at = "manifest", !.left = @ \ {s}, !.service = "none",
                                 !.pin = Absent]
<1>1. s \in Services /\ s \notin check.drift /\ s \notin check.blind
  BY DEF DriftInv, CheckInv, Check
<1>2. /\ done \in Check /\ done.at = "manifest" /\ done.left = check.left \ {s}
      /\ done.drift = check.drift /\ done.blind = check.blind
  BY PinsAreNot DEF DriftInv, CheckInv, Check
<1>3. Decided(s) = done BY DEF Decided
<1> HIDE DEF done
<1>4. ASSUME check' \in Check, check'.at = "manifest", check'.left = check.left \ {s},
             check'.blind \subseteq check'.drift,
             \A q \in Services \ {s} : /\ q \in check'.drift <=> q \in check.drift
                                       /\ q \in check'.blind <=> q \in check.blind,
             s \in Still /\ main[s] # Absent =>
                (s \in check'.drift <=> ~InStep(s) \/ s \in check'.blind)
      PROVE  CheckInv'
  <2>1. \A q \in Still' : main'[q] # Absent => Visited(q)'
    <3> SUFFICES ASSUME NEW q \in Still, main[q] # Absent, q \notin check'.left
                 PROVE  q \in check'.drift <=> Owed(q)' = "drifted"
      BY DEF Visited, Still
    <3>1. Owed(q)' = "drifted" <=> ~InStep(q) \/ q \in check'.blind
      BY DEF Owed, InStep
    <3>2. CASE q = s BY <1>4, <3>1, <3>2
    <3>3. CASE q # s
      <4>0. q \in Services BY DEF Still, DriftInv, CheckInv
      <4>1. q \in check.drift <=> Owed(q) = "drifted"
        BY <1>4, <3>3 DEF DriftInv, CheckInv, Visited
      <4>2. /\ q \in check'.drift <=> q \in check.drift
            /\ q \in check'.blind <=> q \in check.blind
        BY <1>4, <3>3, <4>0
      <4> QED BY <3>1, <4>1, <4>2 DEF Owed
    <3> QED BY <3>2, <3>3
  <2>2. check'.left \cap check'.drift = {}
    BY <1>1, <1>4 DEF DriftInv, CheckInv, Check
  <2> QED BY <1>4, <2>1, <2>2 DEF DriftInv, CheckInv, Still
<1>5. CASE Drifts(s) /\ (s \in Still /\ main[s] # Absent => ~InStep(s))
  <2>1. check' = [done EXCEPT !.drift = @ \cup {s}] BY <1>3, <1>5 DEF Drifts
  <2>2. /\ check' \in Check /\ check'.at = "manifest" /\ check'.left = check.left \ {s}
        /\ check'.drift = check.drift \cup {s} /\ check'.blind = check.blind
    BY <1>1, <1>2, <2>1 DEF Check
  <2> QED BY <1>1, <1>4, <1>5, <2>2 DEF DriftInv, CheckInv
<1>6. CASE Agrees(s) /\ (s \in Still /\ main[s] # Absent => InStep(s))
  <2>1. /\ check' \in Check /\ check'.at = "manifest" /\ check'.left = check.left \ {s}
        /\ check'.drift = check.drift /\ check'.blind = check.blind
    BY <1>2, <1>3, <1>6 DEF Agrees
  <2> QED BY <1>1, <1>4, <1>6, <2>1 DEF DriftInv, CheckInv
<1>7. CASE DriftsUnseen(s)
  <2>1. check' = [done EXCEPT !.drift = @ \cup {s}, !.blind = @ \cup {s}]
    BY <1>3, <1>7 DEF DriftsUnseen
  <2>2. /\ check' \in Check /\ check'.at = "manifest" /\ check'.left = check.left \ {s}
        /\ check'.drift = check.drift \cup {s} /\ check'.blind = check.blind \cup {s}
    BY <1>1, <1>2, <2>1 DEF Check
  <2> QED BY <1>1, <1>4, <2>2 DEF DriftInv, CheckInv
<1> QED BY <1>5, <1>6, <1>7

LEMMA CheckReads ==
  ASSUME DriftInv, DriftManifest
  PROVE  CheckInv'
<1>1. PICK s \in check.left :
        \/ ~Reads(s) /\ Drifts(s)
        \/ DriftsUnseen(s)
        \/ Reads(s) /\ check' = [check EXCEPT !.at = "running", !.service = s, !.pin = mirror[s]]
  BY DEF DriftManifest
<1>2. check.at = "manifest" /\ UNCHANGED <<main, running, mirror, synced, torn, steady>>
  BY DEF DriftManifest, worldVars, mirrorVars
<1>3. s \in Services BY DEF DriftInv, CheckInv, Check
<1>4. CASE ~Reads(s) /\ Drifts(s)
  <2>1. s \in Still /\ main[s] # Absent => main[s] = Unreadable
    BY <1>2, <1>3, <1>4 DEF DriftInv, WorldInv, CheckInv, Reads, Readable, Manifest
  <2>2. running[s] # Unreadable
    BY <1>3, CatalogAssumption DEF DriftInv, WorldInv
  <2>3. s \in Still /\ main[s] # Absent => ~InStep(s) BY <2>1, <2>2 DEF InStep
  <2> QED BY <1>2, <1>4, <2>3, CheckDecides
<1>5. CASE DriftsUnseen(s) BY <1>2, <1>5, CheckDecides
<1>6. CASE check' = [check EXCEPT !.at = "running", !.service = s, !.pin = mirror[s]]
  <2>1. /\ check' \in Check /\ check'.at = "running" /\ check'.service = s
        /\ check'.pin = mirror[s] /\ check'.left = check.left
        /\ check'.drift = check.drift /\ check'.blind = check.blind
    BY <1>3, <1>6 DEF DriftInv, WorldInv, CheckInv, Check
  <2> QED BY <1>2, <2>1 DEF DriftInv, CheckInv, Visited, InStep, Owed, Still
<1> QED BY <1>1, <1>4, <1>5, <1>6

LEMMA CheckInspects ==
  ASSUME DriftInv, DriftRunning
  PROVE  CheckInv'
<1> DEFINE s == check.service
<1>1. check.at = "running" /\ UNCHANGED <<main, running, mirror, synced, torn, steady>>
  BY DEF DriftRunning, worldVars, mirrorVars
<1>2. s \in check.left /\ (s \in Still => check.pin = main[s])
  BY <1>1 DEF DriftInv, CheckInv
<1>3. CASE running[s] = check.pin /\ Agrees(s)
  BY <1>1, <1>2, <1>3, CheckDecides DEF InStep
<1>4. CASE running[s] # check.pin /\ Drifts(s)
  BY <1>1, <1>2, <1>4, CheckDecides DEF InStep
<1>5. CASE DriftsUnseen(s)
  BY <1>1, <1>2, <1>5, CheckDecides
<1> QED BY <1>3, <1>4, <1>5 DEF DriftRunning

LEMMA WorldKeepsCheck ==
  ASSUME DriftInv, World
  PROVE  CheckInv'
<1>1. ASSUME NEW s \in Services, Push(s) \/ HostChanges(s)
      PROVE  CheckInv'
  <2>1. UNCHANGED <<check, mirror, synced, torn>> /\ steady' = steady \ {s}
    BY <1>1 DEF Push, HostChanges, Changes, mirrorVars
  <2>2. \A q \in Services \ {s} : main'[q] = main[q] /\ running'[q] = running[q]
    BY <1>1 DEF Push, HostChanges, DriftInv, WorldInv
  <2>3. Still' = Still \ {s} /\ Still \subseteq Services
    BY <2>1 DEF Still, DriftInv, CheckInv
  <2>4. \A q \in Still' : main'[q] = main[q] /\ running'[q] = running[q]
    BY <2>2, <2>3
  <2> QED BY <2>1, <2>3, <2>4 DEF DriftInv, CheckInv, Visited, InStep, Owed
<1>2. ASSUME NEW r \in Repositories, TagMoves(r)
      PROVE  CheckInv'
  <2>1. /\ UNCHANGED <<main, running, check, mirror, synced, torn>>
        /\ steady' = steady \ {}
    BY <1>2 DEF TagMoves, Changes, mirrorVars
  <2> QED BY <2>1 DEF DriftInv, CheckInv, Visited, InStep, Owed, Still
<1> QED BY <1>1, <1>2 DEF World

LEMMA DriftNext == DriftInv /\ [Next]_vars => DriftInv'
<1> SUFFICES ASSUME DriftInv, [Next]_vars PROVE DriftInv'
  OBVIOUS
<1>1. CASE World BY <1>1, WorldKeepsCheck, WorldNext DEF DriftInv
<1>2. CASE OthersSync BY <1>2, OthersKeepCheck, WorldNext DEF DriftInv
<1>3. CASE DriftSync BY <1>3, CheckBegins, WorldNext DEF DriftInv
<1>4. CASE DriftList BY <1>4, CheckLists, WorldNext DEF DriftInv
<1>5. CASE DriftManifest BY <1>5, CheckReads, WorldNext DEF DriftInv
<1>6. CASE DriftRunning BY <1>6, CheckInspects, WorldNext DEF DriftInv
<1>7. CASE SetDrift
  <2>1. check' = NoCheck /\ UNCHANGED steady BY <1>7 DEF SetDrift
  <2>2. CheckInv' BY <2>1, NoCheckIsIdle DEF DriftInv, CheckInv
  <2> QED BY <2>2, WorldNext DEF DriftInv
<1>8. CASE Watch \/ UNCHANGED vars
  <2>1. UNCHANGED <<main, running, mirror, synced, torn, check, steady>>
    BY <1>8 DEF Watch, Tick, Resolve, Store, worldVars, mirrorVars, driftVars, vars
  <2>2. CheckInv' BY <2>1 DEF DriftInv, CheckInv, Visited, InStep, Owed, Still
  <2> QED BY <2>2, WorldNext DEF DriftInv
<1>9. CASE Restart
  <2>1. check' = NoCheck /\ steady' = {} BY <1>9 DEF Restart, Boot
  <2>2. CheckInv' BY <2>1, NoCheckIsIdle DEF CheckInv
  <2> QED BY <2>2, WorldNext DEF DriftInv
<1> QED
  BY <1>1, <1>2, <1>3, <1>4, <1>5, <1>6, <1>7, <1>8, <1>9 DEF Next, WatchDrift

(* What a drift check publishes of a service that held still while it ran  *)
(* and that no failed sync tore is right, whoever synced, pushed or polled *)
(* meanwhile; one that could not be read or inspected is "drifted", and    *)
(* without the list of services one in step keeps its gauge                *)
(* (engine.go:698-726, api.go:163-170, metrics.go:118-131).                *)
THEOREM DriftVerdicts == Spec => VerdictIsRight
<1> DEFINE Right == SetDrift => \A s \in steady \ torn : main[s] # Absent =>
              \/ gauge'[s] = Owed(s)
              \/ /\ Owed(s) = "in step"
                 /\ faults' = faults + 1 /\ gauge'[s] = gauge[s]
<1>1. DriftInv /\ [Next]_vars => [Right]_vars
  <2> SUFFICES ASSUME DriftInv, SetDrift, NEW s \in steady \ torn, main[s] # Absent
               PROVE  \/ gauge'[s] = Owed(s)
                      \/ Owed(s) = "in step" /\ faults' = faults + 1 /\ gauge'[s] = gauge[s]
    OBVIOUS
  <2>1. s \in Services /\ s \in Still BY DEF DriftInv, CheckInv, Still
  <2>2. Visited(s) /\ s \notin check.left BY <2>1 DEF DriftInv, CheckInv, SetDrift
  <2>3. s \in check.drift <=> Owed(s) = "drifted" BY <2>2 DEF Visited
  <2>4. Owed(s) \in {"in step", "drifted"} BY DEF Owed
  <2>5. CASE gauge' = setDrift(Known)
    <3>1. s \in Known BY <2>1 DEF DriftInv, CheckInv, SetDrift, Known
    <3>2. gauge'[s] = IF s \in check.drift THEN "drifted" ELSE "in step"
      BY <2>1, <2>5, <3>1 DEF setDrift
    <3> QED BY <2>3, <2>4, <3>2
  <2>6. CASE Fault /\ gauge' = setDrift({})
    <3>1. gauge'[s] = IF s \in check.drift THEN "drifted" ELSE gauge[s]
      BY <2>1, <2>6 DEF setDrift
    <3>2. faults' = faults + 1 BY <2>6 DEF Fault
    <3> QED BY <2>3, <2>4, <3>1, <3>2
  <2> QED BY <2>5, <2>6 DEF SetDrift
<1> QED BY <1>1, DriftInit, DriftNext, PTL DEF Spec, VerdictIsRight

-----------------------------------------------------------------------------
(* The types.  That no digest on offer is beyond the versions there are    *)
(* comes of OfferInv, the check's of DriftInv.                             *)

SyncTypes ==
    synced \in BOOLEAN /\ failure \in Reasons \cup {"none"} /\ (~synced => failure # "none")
PollTypes ==
    /\ tag \in [Repositories -> Versions]
    /\ polls \in [Repositories -> {"never", "ok", "error"}]
    /\ poll.answer # NoAnswer => poll.answer.repository \in poll.left
GaugeTypes ==
    /\ gauge \in [Services -> {"unset", "in step", "drifted"}]
    /\ check.at = "running" => check.pin \in Pin
Types == SyncTypes /\ PollTypes /\ GaugeTypes

LEMMA TypesInit == Init => Types
<1> SUFFICES ASSUME Init PROVE Types OBVIOUS
<1>1. 1 \in Versions BY CatalogAssumption DEF Versions
<1>2. SyncTypes BY DEF Init, SyncTypes, Reasons
<1>3. PollTypes BY <1>1 DEF Init, PollTypes, NoPoll
<1>4. GaugeTypes BY NoCheckIsIdle DEF Init, GaugeTypes
<1> QED BY <1>2, <1>3, <1>4 DEF Types

LEMMA SyncTyped ==
  ASSUME SyncTypes, SyncSucceeds \/ SyncFails
  PROVE  SyncTypes'
<1>1. CASE SyncSucceeds BY <1>1 DEF SyncSucceeds, SyncTypes
<1>2. CASE SyncFails
  <2>1. failure' \in Reasons /\ synced' = synced
    BY <1>2 DEF SyncFails, Recorded, StillSynced, Reasons
  <2> QED BY <2>1 DEF SyncTypes, Reasons
<1> QED BY <1>1, <1>2

LEMMA PollTyped ==
  ASSUME PollTypes, OfferInv, [Next]_vars
  PROVE  PollTypes'
<1>1. CASE Tick
  <2>0. PICK part : poll' = [NoPoll EXCEPT !.left = part] BY <1>1 DEF Tick
  <2>1. poll'.answer = NoAnswer /\ UNCHANGED <<tag, polls>>
    BY <1>1, <2>0 DEF Tick, NoPoll, worldVars
  <2> QED BY <2>1 DEF PollTypes
<1>2. CASE Resolve
  <2>1. PICK r \in poll.left :
          \/ poll' = [left |-> poll.left, answer |-> Answered(r)]
          \/ poll' = [left |-> poll.left, answer |-> Failed(r)]
    BY <1>2 DEF Resolve, OfferInv
  <2>2. poll'.answer.repository \in poll'.left BY <2>1 DEF Answered, Failed
  <2> QED BY <1>2, <2>2 DEF Resolve, PollTypes, worldVars
<1>3. CASE Store
  <2>1. poll'.answer = NoAnswer /\ UNCHANGED tag BY <1>3 DEF Store, worldVars
  <2>2. PICK how \in {"ok", "error"} : polls' = [polls EXCEPT ![poll.answer.repository] = how]
    BY <1>3 DEF Store
  <2> QED BY <2>1, <2>2 DEF PollTypes
<1>4. ASSUME NEW r \in Repositories, TagMoves(r) PROVE PollTypes'
  <2>1. tag[r] + 1 \in Versions
    BY <1>4, CatalogAssumption DEF TagMoves, PollTypes, Versions
  <2> QED BY <1>4, <2>1 DEF TagMoves, Changes, watchVars, PollTypes
<1>5. CASE \/ \E s \in Services : Push(s) \/ HostChanges(s)
           \/ WatchDrift \/ OthersSync \/ UNCHANGED vars
  <2>1. UNCHANGED <<tag, polls, poll>>
    BY <1>5 DEF Push, HostChanges, Changes, WatchDrift, DriftSync, DriftList,
       DriftManifest, DriftRunning, SetDrift, OthersSync, worldVars, watchVars, vars
  <2> QED BY <2>1 DEF PollTypes
<1>6. CASE Restart
  <2>1. poll' = NoPoll /\ polls' = [r \in Repositories |-> "never"] /\ UNCHANGED tag
    BY <1>6 DEF Restart, Boot, worldVars
  <2> QED BY <2>1 DEF PollTypes, NoPoll
<1> QED BY <1>1, <1>2, <1>3, <1>4, <1>5, <1>6 DEF Next, World, Watch

LEMMA SyncGaugeTyped ==
  ASSUME DriftInv, SyncTypes, GaugeTypes, [Next]_vars
  PROVE  SyncTypes' /\ GaugeTypes'
<1>1. CASE World \/ Watch \/ UNCHANGED vars
  <2>1. UNCHANGED <<synced, failure, check, gauge>>
    BY <1>1 DEF World, Push, HostChanges, TagMoves, Changes, Watch, Tick, Resolve, Store,
       mirrorVars, driftVars, vars
  <2> QED BY <2>1 DEF SyncTypes, GaugeTypes
<1>2. CASE OthersSync BY <1>2, SyncTyped DEF OthersSync, driftVars, GaugeTypes
<1>3. CASE DriftSync
  <2>1. SyncTypes' BY <1>3, SyncTyped DEF DriftSync, DriftSyncs
  <2>2. check = NoCheck /\ check' \in {NoCheck, [NoCheck EXCEPT !.at = "list"]}
    BY <1>3 DEF DriftSync
  <2>3. check'.at # "running" BY <2>2 DEF NoCheck
  <2> QED BY <1>3, <2>1, <2>3 DEF DriftSync, GaugeTypes
<1>4. CASE DriftList \/ DriftManifest \/ DriftRunning
  <2>1. UNCHANGED <<synced, failure, gauge>>
    BY <1>4 DEF DriftList, DriftManifest, DriftRunning, mirrorVars
  <2>2. check'.at = "running" => check'.pin \in Pin
    <3>1. check = [at |-> check.at, left |-> check.left, service |-> check.service,
                   pin |-> check.pin, drift |-> check.drift, blind |-> check.blind]
      BY DEF DriftInv, CheckInv, Check
    <3>2. ASSUME NEW s, Drifts(s) \/ Agrees(s) \/ DriftsUnseen(s)
          PROVE  check'.at = "manifest"
      BY <3>1, <3>2 DEF Drifts, Agrees, DriftsUnseen, Decided
    <3>3. CASE DriftList BY <3>1, <3>3, NoCheckIsIdle DEF DriftList
    <3>4. CASE DriftManifest
      <4>1. PICK s \in check.left :
              \/ Drifts(s) \/ DriftsUnseen(s)
              \/ /\ Reads(s)
                 /\ check' = [check EXCEPT !.at = "running", !.service = s, !.pin = mirror[s]]
        BY <3>4 DEF DriftManifest
      <4> QED BY <3>1, <3>2, <4>1 DEF Reads, Readable
    <3>5. CASE DriftRunning BY <3>2, <3>5 DEF DriftRunning
    <3> QED BY <1>4, <3>3, <3>4, <3>5
  <2> QED BY <2>1, <2>2 DEF SyncTypes, GaugeTypes
<1>5. CASE SetDrift
  <2>1. UNCHANGED <<synced, failure>> /\ check'.at # "running"
    BY <1>5, NoCheckIsIdle DEF SetDrift, mirrorVars
  <2>2. gauge' \in [Services -> {"unset", "in step", "drifted"}]
    BY <1>5 DEF SetDrift, setDrift, GaugeTypes
  <2> QED BY <2>1, <2>2 DEF SyncTypes, GaugeTypes
<1>6. CASE Restart
  <2>1. SyncTypes' BY <1>6 DEF Restart, Boot, Recorded, SyncTypes, Reasons
  <2>2. GaugeTypes' BY <1>6, NoCheckIsIdle DEF Restart, Boot, GaugeTypes
  <2> QED BY <2>1, <2>2
<1> QED BY <1>1, <1>2, <1>3, <1>4, <1>5, <1>6 DEF Next, WatchDrift

(* The values of the variables, and a mirror that was not read says why    *)
(* (gitops/repo.go:100-112).                                               *)
THEOREM CatalogIsTyped == Spec => []TypeOK
<1>1. OfferInv /\ DriftInv /\ Types => TypeOK
  <2> SUFFICES ASSUME OfferInv, DriftInv, Types PROVE TypeOK OBVIOUS
  <2>1. latest \in [Repositories -> 0 .. MaxVersion]
    <3>1. \A r \in Repositories : latest[r] \in 0 .. MaxVersion
      <4> SUFFICES ASSUME NEW r \in Repositories PROVE latest[r] \in 0 .. MaxVersion OBVIOUS
      <4>1. latest[r] \in Nat /\ latest[r] <= tag[r] BY DEF OfferInv
      <4>2. tag[r] \in 1 .. MaxVersion BY DEF Types, PollTypes, Versions
      <4> QED BY <4>1, <4>2, CatalogAssumption
    <3> QED BY <3>1 DEF OfferInv
  <2>2. /\ check.at \in {"idle", "list", "manifest", "running"}
        /\ check.left \subseteq Services
        /\ check.blind \subseteq check.drift /\ check.drift \subseteq Services
        /\ check.at = "running" => check.service \in check.left
        /\ steady \subseteq Services
    BY DEF DriftInv, CheckInv, Check
  <2> QED
    BY <2>1, <2>2 DEF DriftInv, WorldInv, OfferInv, Types, SyncTypes, PollTypes, GaugeTypes, TypeOK
<1>2. OfferInv /\ DriftInv /\ Types /\ [Next]_vars => Types'
  BY PollTyped, SyncGaugeTyped DEF Types
<1>3. OfferInv /\ [Next]_vars => OfferInv' BY OfferNext
<1> QED BY <1>1, <1>2, <1>3, OfferInit, DriftInit, DriftNext, TypesInit, PTL DEF Spec
=============================================================================

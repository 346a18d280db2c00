------------------------------ MODULE Catalog ------------------------------
(***************************************************************************)
(* What the daemon keeps up to date by itself: the mirror and what it says *)
(* of its last sync (internal/gitops/repo.go), the registry watcher        *)
(* (internal/registry/registry.go), and the drift loop with its gauges     *)
(* (watchDrift in cmd/snowdeployd/main.go, Engine.Drift, api/metrics.go).  *)
(* Main, the registry's tags and the host move on their own.               *)
(*                                                                         *)
(* A digest is the version of its repository's tag that published it, so a *)
(* manifest that parses is its pin: a repository and a version.            *)
(***************************************************************************)
EXTENDS Integers, FiniteSets

CONSTANTS
    Services,
    Repositories,  \* image repositories a manifest may name
    Absent,        \* no manifest; no container
    Unreadable,    \* a manifest that does not parse
    MaxVersion,    \* bound on the versions of a tag
    MaxChanges,    \* bound on pushes, tag moves and changes of the host
    MaxFaults,     \* bound on failed syncs, reads, polls and inspections
    MaxRestarts

Versions == 1 .. MaxVersion
Pin == [repository : Repositories, version : Versions]
Manifest == Pin \cup {Absent, Unreadable}

ASSUME CatalogAssumption ==
    /\ MaxVersion \in Nat \ {0} /\ MaxChanges \in Nat
    /\ MaxFaults \in Nat /\ MaxRestarts \in Nat
    /\ Absent \notin Pin /\ Unreadable \notin Pin /\ Absent # Unreadable

VARIABLES
    main,      \* what the configuration repository says of each service
    tag,       \* the version each repository's tag resolves to
    running,   \* the image each service's container runs
    mirror,    \* Repo's working tree
    synced,    \* Repo.synced
    failure,   \* Repo.failure
    torn,      \* history: services whose file a failed sync left as neither it
               \* was nor main has it, since a check or a listing last synced
    latest,    \* Watcher.latest; 0 for a repository without an entry
    polls,     \* Watcher.polls: how the last poll went
    poll,      \* Watcher.poll: repositories left, and the answer under way
    check,     \* watchDrift's check: services left, and what it has found
    gauge,     \* the drift gauge of each service
    steady,    \* history: services that did not change since check began
    changes, faults, restarts

worldVars == <<main, tag, running>>
mirrorVars == <<mirror, synced, failure, torn>>
watchVars == <<latest, polls, poll>>
driftVars == <<check, gauge, steady>>
vars == <<worldVars, mirrorVars, watchVars, driftVars, changes, faults, restarts>>

Readable(m) == m \in Pin
NoAnswer == [repository |-> "none", version |-> 0]
NoPoll == [left |-> {}, answer |-> NoAnswer]
NoCheck == [at |-> "idle", left |-> {}, service |-> "none", pin |-> Absent,
            drift |-> {}, blind |-> {}]

Fault == faults < MaxFaults /\ faults' = faults + 1

-----------------------------------------------------------------------------
(* Repo.  Sync holds the lock throughout, and a read holds it too.         *)

Reasons == {"credential", "remote"}

(* A fetch that fails changes nothing; a reset or a clean that does leaves *)
(* some files at the new commit and some missing or cut short.  Neither    *)
(* takes back that the mirror was once read.                               *)
RecordedNone == UNCHANGED failure
Recorded == failure' \in Reasons
Forgotten == FALSE
StillSynced == synced

SyncSucceeds ==
    /\ mirror' = main
    /\ synced' = TRUE /\ failure' = "none"
    /\ UNCHANGED faults

SyncFails ==
    /\ Fault
    /\ Recorded
    /\ synced' = StillSynced
    /\ \/ UNCHANGED mirror
       \/ /\ failure' = "remote"
          /\ mirror' \in {m \in [Services -> Manifest] : \A s \in Services :
                          m[s] \in {mirror[s], main[s], Absent, Unreadable}}
    /\ torn' = torn \cup {s \in Services : mirror'[s] \notin {mirror[s], main[s]}}

(* Requests and runs sync as well. *)
OthersSync ==
    /\ \/ SyncSucceeds /\ UNCHANGED torn
       \/ SyncFails
    /\ UNCHANGED <<worldVars, watchVars, driftVars, changes, restarts>>

(* Repo.Services and Repo.Manifest, which a mirror never read refuses; the *)
(* directory is gone with its last file, and the disk may fail a read.     *)
Known == {s \in Services : synced /\ mirror[s] # Absent}
Reads(s) == synced /\ Readable(mirror[s])

-----------------------------------------------------------------------------
(* The registry watcher: one goroutine, one repository after the other.    *)
(* The answer is stored after the registry gave it.                        *)

Named == {mirror[s].repository : s \in {x \in Services : Reads(x)}}
NamedOnce == IF \E r \in Repositories : polls[r] # "never"
             THEN {r \in Repositories : polls[r] # "never"} ELSE Named
repositories == Named
Answered(r) == [repository |-> r, version |-> tag[r]]
Failed(r) == [repository |-> r, version |-> 0]

Tick ==
    /\ poll = NoPoll
    /\ \/ poll' = [NoPoll EXCEPT !.left = repositories] /\ UNCHANGED faults
       \/ Fault /\ \E part \in SUBSET repositories : poll' = [NoPoll EXCEPT !.left = part]
    /\ UNCHANGED <<worldVars, mirrorVars, latest, polls, driftVars, changes, restarts>>

Resolve ==
    /\ poll.answer = NoAnswer
    /\ \E r \in poll.left :
         \/ poll' = [poll EXCEPT !.answer = Answered(r)] /\ UNCHANGED faults
         \/ Fault /\ poll' = [poll EXCEPT !.answer = Failed(r)]
    /\ UNCHANGED <<worldVars, mirrorVars, latest, polls, driftVars, changes, restarts>>

(* A failed poll leaves the previous answer standing.                      *)
StandingNone(r) == 0
Standing(r) == latest[r]

Store ==
    LET r == poll.answer.repository
        ok == poll.answer.version # 0
    IN /\ poll.answer # NoAnswer
       /\ latest' = [latest EXCEPT ![r] = IF ok THEN poll.answer.version ELSE Standing(r)]
       /\ polls' = [polls EXCEPT ![r] = IF ok THEN "ok" ELSE "error"]
       /\ poll' = [left |-> poll.left \ {r}, answer |-> NoAnswer]
       /\ UNCHANGED <<worldVars, mirrorVars, driftVars, changes, faults, restarts>>

Watch == Tick \/ Resolve \/ Store

-----------------------------------------------------------------------------
(* The drift loop: Engine.Drift, then Server.SetDrift.                     *)

SyncSkipped == UNCHANGED <<mirror, synced, failure, faults>>
DriftSyncs == SyncSucceeds

DriftSync ==
    /\ check = NoCheck
    /\ \/ DriftSyncs /\ torn' = {} /\ check' = [NoCheck EXCEPT !.at = "list"]
       \/ SyncFails /\ UNCHANGED check
    /\ steady' = Services
    /\ UNCHANGED <<worldVars, watchVars, gauge, changes, restarts>>

(* Without the list of services there is no check.                         *)
DriftList ==
    /\ check.at = "list"
    /\ \/ check' = [check EXCEPT !.at = "manifest", !.left = Known] /\ UNCHANGED faults
       \/ Known = {} /\ check' = NoCheck /\ UNCHANGED faults
       \/ Fault /\ check' = NoCheck
    /\ UNCHANGED <<worldVars, mirrorVars, watchVars, gauge, steady, changes, restarts>>

Decided(s) == [check EXCEPT !.at = "manifest", !.left = @ \ {s}, !.service = "none",
                            !.pin = Absent]
Agrees(s) == check' = Decided(s)
Drifts(s) == check' = [Decided(s) EXCEPT !.drift = @ \cup {s}]

(* What cannot be read or inspected is reported as drifted.                *)
DriftsUnseen(s) == Fault /\ check' = [Decided(s) EXCEPT !.drift = @ \cup {s}, !.blind = @ \cup {s}]

DriftManifest ==
    /\ check.at = "manifest"
    /\ \E s \in check.left :
         \/ ~Reads(s) /\ Drifts(s) /\ UNCHANGED faults
         \/ DriftsUnseen(s)
         \/ /\ Reads(s)
            /\ check' = [check EXCEPT !.at = "running", !.service = s, !.pin = mirror[s]]
            /\ UNCHANGED faults
    /\ UNCHANGED <<worldVars, mirrorVars, watchVars, gauge, steady, changes, restarts>>

DriftRunning ==
    LET s == check.service IN
    /\ check.at = "running"
    /\ \/ running[s] = check.pin /\ Agrees(s) /\ UNCHANGED faults
       \/ running[s] # check.pin /\ Drifts(s) /\ UNCHANGED faults
       \/ DriftsUnseen(s)
    /\ UNCHANGED <<worldVars, mirrorVars, watchVars, gauge, steady, changes, restarts>>

(* setDrift: the services listed, and those found drifted.  When the list  *)
(* cannot be read it is empty.                                             *)
SetOnlyDrifted(listed) ==
    [s \in Services |-> IF s \in check.drift THEN "drifted" ELSE gauge[s]]
setDrift(listed) ==
    [s \in Services |-> IF s \in check.drift THEN "drifted"
                        ELSE IF s \in listed THEN "in step" ELSE gauge[s]]

SetDrift ==
    /\ check.at = "manifest" /\ check.left = {}
    /\ \/ gauge' = setDrift(Known) /\ UNCHANGED faults
       \/ Fault /\ gauge' = setDrift({})
    /\ check' = NoCheck
    /\ UNCHANGED <<worldVars, mirrorVars, watchVars, steady, changes, restarts>>

WatchDrift == DriftSync \/ DriftList \/ DriftManifest \/ DriftRunning \/ SetDrift

-----------------------------------------------------------------------------
(* Everyone else.                                                          *)

Changes(who) ==
    /\ changes < MaxChanges
    /\ changes' = changes + 1
    /\ steady' = steady \ who
    /\ UNCHANGED <<mirrorVars, watchVars, check, gauge, faults, restarts>>

Push(s) ==
    /\ \E m \in Manifest \ {main[s]} : main' = [main EXCEPT ![s] = m]
    /\ Changes({s}) /\ UNCHANGED <<tag, running>>

TagMoves(r) ==
    /\ tag[r] < MaxVersion
    /\ tag' = [tag EXCEPT ![r] = @ + 1]
    /\ Changes({}) /\ UNCHANGED <<main, running>>

(* A run applies what the mirror says, or a container is stopped.          *)
HostChanges(s) ==
    /\ \E image \in {mirror[s], Absent} \ {running[s], Unreadable} :
         running' = [running EXCEPT ![s] = image]
    /\ Changes({s}) /\ UNCHANGED <<main, tag>>

World ==
    \/ \E s \in Services : Push(s) \/ HostChanges(s)
    \/ \E r \in Repositories : TagMoves(r)

(* A daemon starts with a clone it may have on disk and has not read; it   *)
(* serves once its first sync was tried.                                   *)
Boot ==
    /\ \/ mirror' = main /\ synced' = TRUE /\ failure' = "none"
       \/ UNCHANGED mirror /\ synced' = FALSE /\ Recorded
    /\ latest' = [r \in Repositories |-> 0]
    /\ polls' = [r \in Repositories |-> "never"]
    /\ poll' = NoPoll
    /\ check' = NoCheck
    /\ gauge' = [s \in Services |-> "unset"]
    /\ steady' = {}
    /\ UNCHANGED torn

Restart ==
    /\ restarts < MaxRestarts
    /\ restarts' = restarts + 1
    /\ Boot
    /\ UNCHANGED <<worldVars, changes, faults>>

Init ==
    /\ main \in [Services -> {[repository |-> r, version |-> 1] : r \in Repositories}]
    /\ tag = [r \in Repositories |-> 1]
    /\ running = main
    /\ \/ mirror = main /\ synced = TRUE /\ failure = "none"
       \/ mirror = main /\ synced = FALSE /\ failure \in Reasons
    /\ torn = {}
    /\ latest = [r \in Repositories |-> 0]
    /\ polls = [r \in Repositories |-> "never"]
    /\ poll = NoPoll
    /\ check = NoCheck
    /\ gauge = [s \in Services |-> "unset"]
    /\ steady = {}
    /\ changes = 0 /\ faults = 0 /\ restarts = 0

Next == World \/ Watch \/ WatchDrift \/ OthersSync \/ Restart

Spec == Init /\ [][Next]_vars

(* Both loops are woken by their timers and their calls return.            *)
FairSpec == Spec /\ WF_vars(Watch) /\ WF_vars(WatchDrift)

-----------------------------------------------------------------------------
(* The values of the variables; a mirror that was not read says why, since *)
(* the first sync is tried before anyone can ask (main.go:192-197).        *)
TypeOK ==
    /\ main \in [Services -> Manifest] /\ mirror \in [Services -> Manifest]
    /\ tag \in [Repositories -> Versions]
    /\ running \in [Services -> Pin \cup {Absent}]
    /\ synced \in BOOLEAN /\ failure \in Reasons \cup {"none"}
    /\ ~synced => failure # "none"
    /\ latest \in [Repositories -> 0 .. MaxVersion]
    /\ polls \in [Repositories -> {"never", "ok", "error"}]
    /\ poll.left \subseteq Repositories
    /\ poll.answer # NoAnswer => poll.answer.repository \in poll.left
    /\ check.at \in {"idle", "list", "manifest", "running"}
    /\ check.left \subseteq Services
    /\ check.blind \subseteq check.drift /\ check.drift \subseteq Services
    /\ check.at = "running" => check.service \in check.left /\ check.pin \in Pin
    /\ gauge \in [Services -> {"unset", "in step", "drifted"}]
    /\ steady \subseteq Services /\ torn \subseteq Services

(* Within one life of the daemon the digest offered for a repository only  *)
(* gets newer: an outage "must never look like the image disappeared", and *)
(* no answer is overtaken by an older one (registry.go:52-54, 136-152).    *)
OffersNeverGoBack ==
    [][restarts' = restarts => \A r \in Repositories : latest'[r] >= latest[r]]_vars

(* What a drift check publishes of a service that neither main nor the     *)
(* host changed during it, and whose file no failed sync tore, is right:   *)
(* the pin it compares with is main's and not that of an older sync, and   *)
(* the whole picture is republished (engine.go:698-726, metrics.go:        *)
(* 118-119), with two exceptions.  A service whose manifest or container   *)
(* could not be read is "drifted" whatever it is, and when the services    *)
(* cannot be listed one in step keeps the gauge it had.                    *)
InStep(s) == running[s] = main[s]
Owed(s) == IF InStep(s) /\ s \notin check.blind THEN "in step" ELSE "drifted"
VerdictIsRight ==
    [][SetDrift => \A s \in steady \ torn : main[s] # Absent =>
        \/ gauge'[s] = Owed(s)
        \/ /\ Owed(s) = "in step"
           /\ faults' = faults + 1 /\ gauge'[s] = gauge[s]]_vars

(* A repository that main goes on naming is offered at its newest version  *)
(* in the end, although the first sync may fail, polls may fail, and the   *)
(* manifest may name it only since the last tick (registry.go:119-120).    *)
Names(r) == \E s \in Services : Readable(main[s]) /\ main[s].repository = r
NewestIsOffered ==
    \A r \in Repositories : <>[]Names(r) => <>[](latest[r] = tag[r])

(* A service that stays in step, or stays out of it, ends up with a gauge  *)
(* that says so (metrics.go:118-119).                                      *)
GaugeSettles ==
    \A s \in Services :
        /\ <>[](main[s] # Absent /\ InStep(s)) => <>[](gauge[s] = "in step")
        /\ <>[](main[s] # Absent /\ ~InStep(s)) => <>[](gauge[s] = "drifted")
=============================================================================

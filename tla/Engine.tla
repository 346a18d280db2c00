------------------------------- MODULE Engine -------------------------------
(***************************************************************************)
(* The deploy engine (internal/deploy/engine.go) inside its daemon         *)
(* (cmd/snowdeployd/main.go): clicks become journalled runs, runs queue    *)
(* for their service's turn and then for the merge queue, propose, merge,  *)
(* apply to the host, probe, and on a failed probe restore the host and    *)
(* revert main.  The daemon may be stopped or die at any point, and every  *)
(* call a run makes may fail.  The mirror, the journal, the host and the   *)
(* configuration repository are as the engine sees them.                   *)
(***************************************************************************)
EXTENDS ConfigRepo

CONSTANTS
    Clients,         \* concurrent POST handlers
    Actions,         \* the actions clicked: "deploy", "rollback", "converge"
    MaxRuns,         \* bound on journalled runs
    MergeAttempts,   \* mergeAttempts
    RevertAttempts,  \* Options.RevertAttempts
    Faults,          \* the kinds of failure that may happen
    MaxFaults,       \* bound on how many do
    MaxStops,        \* bound on graceful stops and deaths of the daemon
    NoContent        \* no manifest: no container, no click

ASSUME EngineAssumption ==
    /\ Actions \subseteq {"deploy", "rollback", "converge"}
    /\ MaxRuns \in Nat /\ MaxFaults \in Nat /\ MaxStops \in Nat
    /\ MergeAttempts \in Nat \ {0}
    /\ RevertAttempts \in Nat \ {0}
    /\ NoContent \notin Content

VARIABLES
    mirror,    \* Repo's working tree, per service
    synced,    \* Repo.synced
    unit,      \* per service, the manifest the unit file was rendered from
    running,   \* per service, the manifest its container was started from
    journal,   \* the deploys table; a row's index is its id
    pending,   \* Engine.pending
    slot,      \* Engine.locks: the run holding the service's channel
    mergeMu,   \* Engine.mergeMu: the run holding it
    pc,        \* where each run is in Engine.run
    req,       \* each run's runRequest and locals
    click,     \* each POST handler between the two halves of Engine.start
    daemon,    \* "up", "stopping" (context cancelled), "closing" (its wait for
               \* the runs is over), "down" or "booting"
    faults,    \* failures so far
    stops,     \* stops and deaths so far
    probed     \* history: <<service, digest>> pairs that passed a probe

mirrorVars == <<mirror, synced>>
hostVars == <<unit, running>>
queueVars == <<pending, slot, mergeMu>>
daemonVars == <<click, daemon, stops>>
worldVars == <<repoVars, mirrorVars, hostVars>>
runVars == <<journal, queueVars, pc, req>>
asideVars == <<daemonVars, probed>>
vars == <<worldVars, runVars, asideVars, faults>>

Ids == 1 .. MaxRuns
NoRun == 0

-----------------------------------------------------------------------------
(* Data.                                                                   *)

Terminal == {"healthy", "rolled-back", "failed"}
States == {"detected", "pr-open", "checks", "merged", "reconciling", "probing"}
              \cup Terminal

(* What a run ends with: a terminal state and what its detail says of main *)
Outcomes == {"healthy", "failed", "restore failed", "main reverted", "main still pins"}
StateOf(outcome) ==
    CASE outcome = "healthy" -> "healthy"
      [] outcome \in {"failed", "restore failed"} -> "failed"
      [] OTHER -> "rolled-back"

Row == [service : Services, action : Actions, old : Digests, new : Digests,
        pr : Nat, merged : BOOLEAN, state : States,
        detail : Outcomes \cup {"none"}, finished : BOOLEAN]

PendingRun == [action : Actions, digest : Digests, id : Ids]
NoPending == [action |-> "none", digest |-> "none", id |-> NoRun]

Handler == [service : Services, action : Actions, digest : Digests, raw : Content]
NoClick == [service |-> "none", action |-> "none", digest |-> "none", raw |-> NoContent]

(* content is what the run proposes and then what it applies; mode is what *)
(* applyManifest or mergeThroughChecks is being used for.                  *)
Request == [old : Digests, new : Digests, original : Content, content : Content,
            pr : Nat, attempt : 1 .. MergeAttempts, undo : 1 .. RevertAttempts,
            mode : {"apply", "restore", "revert"}, outcome : Outcomes \cup {"none"}]
NoRequest == [old |-> InitialPin, new |-> InitialPin,
              original |-> [digest |-> InitialPin, rev |-> 0],
              content |-> [digest |-> InitialPin, rev |-> 0],
              pr |-> 0, attempt |-> 1, undo |-> 1, mode |-> "apply",
              outcome |-> "none"]

Labels == {"unused", "begun", "sync", "turn", "converge sync", "converge read", "merge queue",
           "front", "inspect", "open", "record", "checks", "merge", "update",
           "abandon", "merged", "apply sync", "apply read", "write", "restart",
           "probe", "finish", "release", "leave", "gone"}

(* mergeMu is held from the re-read at the front of the queue to the merge. *)
MergeSpan == {"front", "inspect", "open", "record", "checks", "merge", "update"}
(* The service's turn lasts from lock to the deferred release.              *)
Turn == (Labels \ {"unused", "begun", "sync", "turn", "leave", "gone", "finish"})
HostSteps == {"write", "restart", "probe"}

Service(r) == journal[r].service
Live(r) == pc[r] \notin {"unused", "gone"}

-----------------------------------------------------------------------------
(* Steps of a run.  A call that takes the context fails once the daemon is *)
(* stopping; any call may fail otherwise, out of the budget of faults.  A  *)
(* call under way when the context is cancelled may still have its effect. *)
(* The journal is closed at some point after the wait for the runs is over.*)

At(r, label) == pc[r] = label
Goto(r, label) == pc' = [pc EXCEPT ![r] = label]

Cancelled == daemon \in {"stopping", "closing"}
Succeeds == ~Cancelled /\ UNCHANGED faults
Fault(kind) == kind \in Faults /\ faults < MaxFaults /\ faults' = faults + 1
CallFails(kind) == (Cancelled /\ UNCHANGED faults) \/ Fault(kind)
JournalFails(kind) == (daemon = "closing" /\ UNCHANGED faults) \/ Fault(kind)

(* finish writes the receipt next, whatever happens to locks on the way.   *)
EndWith(r, outcome) ==
    /\ Goto(r, "finish")
    /\ req' = [req EXCEPT ![r].outcome = outcome]

Unsealed(r) == ~journal[r].finished
Progress(r, state) ==
    journal' = IF Unsealed(r) THEN [journal EXCEPT ![r].state = state] ELSE journal

(* Sync brings the mirror to main's head. *)
Sync == mirror' = main /\ synced' = TRUE

(* rollback re-applies the bytes captured before the proposal.             *)
PreviousFromMirror(r) == mirror[Service(r)]
Previous(r) == req[r].original

RollBack(r) ==
    /\ req' = [req EXCEPT ![r].mode = "restore", ![r].content = Previous(r)]
    /\ Goto(r, "write")
    /\ Progress(r, "reconciling")

-----------------------------------------------------------------------------
(* Engine.start: the manifest is read and the target resolved outside the  *)
(* lock; joining or journalling is one critical section after it.          *)

(* PreviousHealthyDigest: the newest healthy digest that is not current.   *)
PreviousHealthyDigest(s, current) ==
    LET older == {r \in DOMAIN journal : /\ journal[r].service = s
                                         /\ journal[r].state = "healthy"
                                         /\ journal[r].new # current}
    IN {journal[r].new : r \in Newest(older)}

(* A rollback to an explicit digest resolves as a deploy does.             *)
Resolve(action, s, current) ==
    CASE action = "deploy" -> Digests
      [] action = "rollback" -> PreviousHealthyDigest(s, current)
      [] action = "converge" -> {current}

(* The server stops waiting for its handlers after a grace, and no longer  *)
(* looks after them then: they may be anywhere in start until the end.     *)
Serving == {"up", "stopping", "closing"}

ReadClick(c) ==
    /\ daemon \in Serving
    /\ synced
    /\ click[c] = NoClick
    /\ Len(journal) < MaxRuns
    /\ \E s \in Services, a \in Actions :
         LET raw == mirror[s] IN
         \E d \in Resolve(a, s, raw.digest) :
           /\ a # "converge" => raw.digest # d /\ OccursOnce(raw)
           /\ click' = [click EXCEPT ![c] =
                [service |-> s, action |-> a, digest |-> d, raw |-> raw]]
    /\ UNCHANGED <<worldVars, runVars, daemon, stops, faults, probed>>

(* A converge joins only a converge; deploys and rollbacks join each other. *)
SameKind(a, b) == (a = "converge") = (b = "converge")

Joins(c) ==
    LET k == click[c]
        p == pending[k.service]
    IN p # NoPending /\ SameKind(p.action, k.action) /\ p.digest = k.digest

Join(c) ==
    /\ click[c] # NoClick
    /\ Joins(c)
    /\ click' = [click EXCEPT ![c] = NoClick]
    /\ UNCHANGED <<worldVars, runVars, daemon, stops, faults, probed>>

RegistersAlways(s) == TRUE
Registers(s) == pending[s] = NoPending

Begin(c) ==
    LET k == click[c]
        s == k.service
        id == Len(journal) + 1
    IN /\ k # NoClick
       /\ ~Joins(c)
       /\ id \in Ids
       /\ journal' = Append(journal,
            [service |-> s, action |-> k.action, old |-> k.raw.digest,
             new |-> k.digest, pr |-> 0, merged |-> FALSE, state |-> "detected",
             detail |-> "none", finished |-> FALSE])
       /\ pending' = IF Registers(s)
            THEN [pending EXCEPT ![s] =
                    [action |-> k.action, digest |-> k.digest, id |-> id]]
            ELSE pending
       /\ req' = [req EXCEPT ![id] =
            [NoRequest EXCEPT !.old = k.raw.digest, !.new = k.digest,
                              !.original = k.raw, !.content = k.raw]]
       /\ Goto(id, "begun")
       /\ click' = [click EXCEPT ![c] = NoClick]
       /\ UNCHANGED <<worldVars, slot, mergeMu, daemon, stops, faults,
                      probed>>

BeginFails(c) ==
    /\ click[c] # NoClick
    /\ ~Joins(c)
    /\ JournalFails("begin")
    /\ click' = [click EXCEPT ![c] = NoClick]
    /\ UNCHANGED <<worldVars, runVars, daemon, stops, probed>>

(* inFlight.Add, outside the lock, and the goroutine.                      *)
Launch(r) ==
    /\ At(r, "begun")
    /\ Goto(r, "sync")
    /\ UNCHANGED <<worldVars, journal, queueVars, req, asideVars, faults>>

-----------------------------------------------------------------------------
(* Engine.run up to the front of the queue.                                *)

PrologueSync(r) ==
    /\ At(r, "sync")
    /\ \/ Succeeds /\ Sync /\ Goto(r, "turn") /\ UNCHANGED req
       \/ CallFails("sync") /\ EndWith(r, "failed") /\ UNCHANGED mirrorVars
    /\ UNCHANGED <<repoVars, hostVars, journal, queueVars, asideVars>>

SlotUnbounded(s) == TRUE
SlotFree(s) == slot[s] = NoRun

(* lock: the service's channel, or the context if it is done first.        *)
TakeTurn(r) ==
    /\ At(r, "turn")
    /\ SlotFree(Service(r))
    /\ slot' = [slot EXCEPT ![Service(r)] = r]
    /\ Goto(r, IF journal[r].action = "converge" THEN "converge sync" ELSE "merge queue")
    /\ UNCHANGED <<worldVars, journal, pending, mergeMu, req, daemonVars,
                   faults, probed>>

AbandonTurn(r) ==
    /\ At(r, "turn")
    /\ Cancelled
    /\ EndWith(r, "failed")
    /\ UNCHANGED <<worldVars, journal, queueVars, asideVars, faults>>

MergeQueueIgnored == TRUE
MergeQueueFree == mergeMu = NoRun

(* lockMergeQueue does not watch the context; the backoff before another   *)
(* revert attempt does.                                                    *)
LockMergeQueue(r) ==
    /\ At(r, "merge queue")
    /\ MergeQueueFree
    /\ mergeMu' = r
    /\ Goto(r, IF req[r].mode = "revert" THEN "open" ELSE "front")
    /\ UNCHANGED <<worldVars, journal, pending, slot, req, asideVars, faults>>

AbandonBackoff(r) ==
    /\ At(r, "merge queue")
    /\ req[r].mode = "revert" /\ req[r].undo > 1
    /\ Cancelled
    /\ EndWith(r, "main still pins")
    /\ UNCHANGED <<worldVars, journal, queueVars, asideVars, faults>>

KeepLocked == mergeMu' = mergeMu
Unlock == mergeMu' = NoRun

(* The manifest is read again from the mirror, and the request rewritten   *)
(* against it.                                                             *)
Front(r) ==
    /\ At(r, "front")
    /\ LET raw == mirror[Service(r)] IN
       \/ /\ Fault("read")
          /\ Unlock /\ EndWith(r, "failed")
       \/ /\ UNCHANGED faults
          /\ raw.digest = req[r].new
          /\ Goto(r, "inspect") /\ UNCHANGED <<mergeMu, req>>
       \/ /\ UNCHANGED faults
          /\ raw.digest # req[r].new /\ ~OccursOnce(raw)
          /\ Unlock /\ EndWith(r, "failed")
       \/ /\ UNCHANGED faults
          /\ raw.digest # req[r].new /\ OccursOnce(raw)
          /\ req' = [req EXCEPT ![r].old = raw.digest, ![r].original = raw,
                                ![r].content = setDigest(raw, req[r].new)]
          /\ Goto(r, "open") /\ UNCHANGED mergeMu
    /\ UNCHANGED <<worldVars, journal, pending, slot, asideVars>>

(* Main already pins the target: only what runs settles whether that is    *)
(* the end of it.                                                          *)
Runs(r) == running[Service(r)] # NoContent /\ running[Service(r)].digest = req[r].new

Inspect(r) ==
    /\ At(r, "inspect")
    /\ Unlock
    /\ \/ Succeeds /\ Runs(r) /\ EndWith(r, "healthy") /\ UNCHANGED journal
       \/ /\ (Succeeds /\ ~Runs(r)) \/ CallFails("inspect")
          /\ Progress(r, "reconciling")
          /\ Goto(r, "apply sync") /\ UNCHANGED req
    /\ UNCHANGED <<worldVars, pending, slot, asideVars>>

-----------------------------------------------------------------------------
(* The open-to-merge span, for a proposal and for a revert.                *)

Reverting(r) == req[r].mode = "revert"

(* A failed attempt gives up the merge queue.  A proposal fails with it; a *)
(* revert is tried again after a backoff unless the daemon is stopping.    *)
RevertAgain(r) ==
    /\ req[r].undo < RevertAttempts /\ ~Cancelled
    /\ req' = [req EXCEPT ![r].undo = @ + 1, ![r].attempt = 1, ![r].pr = 0]
    /\ Goto(r, "merge queue")
    /\ Progress(r, "reconciling")

RevertOver(r) ==
    /\ req[r].undo = RevertAttempts \/ Cancelled
    /\ EndWith(r, "main still pins")
    /\ UNCHANGED journal

OpenFails(r) ==
    /\ Unlock
    /\ \/ ~Reverting(r) /\ EndWith(r, "failed") /\ UNCHANGED journal
       \/ Reverting(r) /\ (RevertAgain(r) \/ RevertOver(r))

SpanFails(r) ==
    /\ Unlock
    /\ \/ ~Reverting(r) /\ Goto(r, "abandon") /\ UNCHANGED <<req, journal>>
       \/ Reverting(r) /\ (RevertAgain(r) \/ RevertOver(r))

Proposed(r) == IF Reverting(r) THEN req[r].original ELSE req[r].content

Open(r) ==
    /\ At(r, "open")
    /\ \/ \E n \in {Len(prs) + 1} \cup DOMAIN prs :
            /\ Succeeds
            /\ OpenManifestPR(Service(r), Proposed(r), n)
            /\ req' = [req EXCEPT ![r].pr = n, ![r].attempt = 1]
            /\ Goto(r, IF Reverting(r) THEN "checks" ELSE "record")
            /\ IF Reverting(r) THEN Progress(r, "checks") ELSE UNCHANGED journal
            /\ UNCHANGED mergeMu
       \/ \E n \in {Len(prs) + 1} \cup DOMAIN prs :
            /\ CallFails("open reply")
            /\ OpenManifestPR(Service(r), Proposed(r), n)
            /\ OpenFails(r)
       \/ /\ \/ Succeeds /\ RefusedAsEmpty(Service(r), Proposed(r))
             \/ CallFails("open")
          /\ OpenFails(r) /\ UNCHANGED repoVars
    /\ UNCHANGED <<mirrorVars, hostVars, pending, slot, asideVars>>

(* SetPR, and the pr-open event when it worked. *)
Record(r) ==
    /\ At(r, "record")
    /\ \/ /\ UNCHANGED faults
          /\ journal' = [journal EXCEPT ![r].pr = req[r].pr, ![r].state = "checks"]
          /\ Goto(r, "checks") /\ UNCHANGED <<mergeMu, req>>
       \/ Fault("set pr") /\ Unlock /\ EndWith(r, "failed") /\ UNCHANGED journal
    /\ UNCHANGED <<worldVars, pending, slot, asideVars>>

WaitChecks(r) ==
    /\ At(r, "checks")
    /\ \/ /\ Succeeds
          /\ Goto(r, "merge") /\ UNCHANGED <<mergeMu, req, journal>>
       \/ (Fault("red") \/ CallFails("checks")) /\ SpanFails(r)
    /\ UNCHANGED <<worldVars, pending, slot, asideVars>>

(* A merge that landed although the call failed is retried like any other. *)
MergePR(r) ==
    /\ At(r, "merge")
    /\ \/ /\ Succeeds /\ Merge(req[r].pr)
          /\ Unlock
          /\ IF Reverting(r)
               THEN EndWith(r, "main reverted")
               ELSE Goto(r, "merged") /\ UNCHANGED req
          /\ UNCHANGED journal
       \/ /\ (Succeeds /\ ~CanMerge(req[r].pr)) \/ (~Cancelled /\ Fault("merge"))
          /\ Goto(r, "update") /\ UNCHANGED <<repoVars, mergeMu, req, journal>>
       \/ /\ ~Cancelled /\ Fault("merge reply") /\ Merge(req[r].pr)
          /\ Goto(r, "update") /\ UNCHANGED <<mergeMu, req, journal>>
       \/ /\ Cancelled /\ UNCHANGED faults
          /\ Merge(req[r].pr) \/ UNCHANGED repoVars
          /\ SpanFails(r)
    /\ UNCHANGED <<mirrorVars, hostVars, pending, slot, asideVars>>

NeverLast(r) == FALSE
LastAttempt(r) == req[r].attempt = MergeAttempts

(* GitHub accepts an update and makes it later: the checks and the next    *)
(* merge may still meet the old head.                                      *)
Update(r) ==
    /\ At(r, "update")
    /\ \/ /\ ~LastAttempt(r)
          /\ \/ Succeeds /\ UpdateBranch(req[r].pr)
             \/ /\ ~Cancelled /\ Fault("update lag")
                /\ CanUpdate(req[r].pr) /\ UNCHANGED repoVars
          /\ req' = [req EXCEPT ![r].attempt = @ + 1]
          /\ Progress(r, "checks")
          /\ Goto(r, "checks") /\ UNCHANGED mergeMu
       \/ /\ (Succeeds /\ LastAttempt(r)) \/ (Cancelled /\ UNCHANGED faults)
          /\ UpdateBranch(req[r].pr)
          /\ SpanFails(r)
       \/ /\ (Succeeds /\ ~CanUpdate(req[r].pr)) \/ CallFails("update")
          /\ SpanFails(r) /\ UNCHANGED repoVars
    /\ UNCHANGED <<mirrorVars, hostVars, pending, slot, asideVars>>

(* closePR, whose failure is dropped. *)
Abandon(r) ==
    /\ At(r, "abandon")
    /\ \/ Succeeds /\ ClosePR(req[r].pr)
       \/ CallFails("close") /\ UNCHANGED repoVars
    /\ EndWith(r, "failed")
    /\ UNCHANGED <<mirrorVars, hostVars, journal, queueVars, asideVars>>

(* SetMergeSHA, then the merged and reconciling events. *)
RecordMerge(r) ==
    /\ At(r, "merged")
    /\ \/ /\ UNCHANGED faults
          /\ journal' = [journal EXCEPT ![r].merged = TRUE, ![r].state = "reconciling"]
          /\ Goto(r, "apply sync") /\ UNCHANGED req
       \/ Fault("set merge") /\ EndWith(r, "failed") /\ UNCHANGED journal
    /\ UNCHANGED <<worldVars, queueVars, asideVars>>

-----------------------------------------------------------------------------
(* What reaches the host: Engine.converge, applyMerged, restorePrevious,   *)
(* and the Applier's write, restart and probe, which they share.           *)

SyncThen(r, from, next, onError) ==
    /\ At(r, from)
    /\ \/ Succeeds /\ Sync /\ Goto(r, next) /\ UNCHANGED <<req, journal>>
       \/ CallFails("sync") /\ onError /\ UNCHANGED mirrorVars
    /\ UNCHANGED <<repoVars, hostVars, queueVars, asideVars>>

ConvergeSync(r) ==
    SyncThen(r, "converge sync", "converge read",
             EndWith(r, "failed") /\ UNCHANGED journal)

ApplySync(r) == SyncThen(r, "apply sync", "apply read", RollBack(r))

(* A converge takes whatever pin the manifest has now, and SetDigests      *)
(* records it when it is not the one clicked.                              *)
ConvergeRead(r) ==
    LET raw == mirror[Service(r)] IN
    /\ At(r, "converge read")
    /\ \/ /\ UNCHANGED faults
          /\ journal' = [journal EXCEPT ![r].old =
                            IF raw.digest = req[r].new THEN @ ELSE raw.digest,
                                        ![r].new = raw.digest,
                                        ![r].state = "reconciling"]
          /\ req' = [req EXCEPT ![r].old = raw.digest, ![r].new = raw.digest,
                                ![r].content = raw]
          /\ Goto(r, "write")
       \/ /\ Fault("read") \/ (raw.digest # req[r].new /\ Fault("set digests"))
          /\ EndWith(r, "failed") /\ UNCHANGED journal
    /\ UNCHANGED <<worldVars, queueVars, asideVars>>

AppliedFrozen(r) == req[r].content
Applied(r) == mirror[Service(r)]

ApplyRead(r) ==
    /\ At(r, "apply read")
    /\ \/ /\ UNCHANGED faults
          /\ Applied(r).digest = req[r].new
          /\ req' = [req EXCEPT ![r].content = Applied(r)]
          /\ Goto(r, "write") /\ UNCHANGED journal
       \/ /\ Fault("read") \/ (Applied(r).digest # req[r].new /\ UNCHANGED faults)
          /\ RollBack(r)
    /\ UNCHANGED <<worldVars, queueVars, asideVars>>

(* A failed apply: nothing to restore for a converge, the previous         *)
(* manifest for a deploy, and no further remedy for the restore itself.    *)
ApplyFails(r) ==
    \/ /\ journal[r].action = "converge"
       /\ EndWith(r, "failed") /\ UNCHANGED journal
    \/ /\ journal[r].action # "converge" /\ req[r].mode = "apply"
       /\ RollBack(r)
    \/ /\ req[r].mode = "restore"
       /\ EndWith(r, "restore failed") /\ UNCHANGED journal

(* Nothing before the rename touches the unit; syncing the directory after *)
(* it can still fail.  No context is consulted.                            *)
WriteUnit(r) ==
    LET s == Service(r) IN
    /\ At(r, "write")
    /\ \/ /\ UNCHANGED faults
          /\ unit' = [unit EXCEPT ![s] = req[r].content]
          /\ Goto(r, "restart") /\ UNCHANGED req
          /\ Progress(r, "reconciling")
       \/ /\ Fault("write")
          /\ unit' = unit \/ unit' = [unit EXCEPT ![s] = req[r].content]
          /\ ApplyFails(r)
    /\ UNCHANGED <<repoVars, mirrorVars, running, queueVars, asideVars>>

(* systemd starts what the unit file says.  A restart that fails leaves    *)
(* the old container, none, or the new one.                                *)
StartedStale(r) == running[Service(r)]
Started(r) == unit[Service(r)]

ReloadAndRestart(r) ==
    LET s == Service(r) IN
    /\ At(r, "restart")
    /\ \/ /\ Succeeds
          /\ running' = [running EXCEPT ![s] = Started(r)]
          /\ Progress(r, "probing")
          /\ Goto(r, "probe") /\ UNCHANGED req
       \/ /\ CallFails("restart")
          /\ \E c \in {running[s], Started(r), NoContent} :
                running' = [running EXCEPT ![s] = c]
          /\ ApplyFails(r)
    /\ UNCHANGED <<repoVars, mirrorVars, unit, queueVars, asideVars>>

(* The run is over once its service is healthy, except that a restored     *)
(* host still has main to revert.                                          *)
Healthy(r) ==
    \/ req[r].mode = "apply" /\ EndWith(r, "healthy") /\ UNCHANGED journal
    \/ /\ req[r].mode = "restore"
       /\ req' = [req EXCEPT ![r].mode = "revert", ![r].pr = 0]
       /\ Goto(r, "merge queue")
       /\ Progress(r, "reconciling")

Probe(r) ==
    LET s == Service(r) IN
    /\ At(r, "probe")
    /\ \/ /\ Succeeds /\ running[s] # NoContent
          /\ probed' = probed \cup {<<s, running[s].digest>>}
          /\ Healthy(r)
       \/ CallFails("probe") /\ ApplyFails(r) /\ UNCHANGED probed
    /\ UNCHANGED <<worldVars, queueVars, daemonVars>>

-----------------------------------------------------------------------------
(* The end of a run: finish, then the deferred release of the channel,     *)
(* then the deferred removal of the run's own pending entry.               *)

Sealed(row, outcome) ==
    [row EXCEPT !.state = StateOf(outcome), !.detail = outcome, !.finished = TRUE]

Finish(r) ==
    /\ At(r, "finish")
    /\ \/ /\ UNCHANGED faults
          /\ journal' = IF Unsealed(r)
                THEN [journal EXCEPT ![r] = Sealed(@, req[r].outcome)] ELSE journal
       \/ JournalFails("finish") /\ UNCHANGED journal
    /\ Goto(r, IF slot[Service(r)] = r THEN "release" ELSE "leave")
    /\ UNCHANGED <<worldVars, queueVars, req, asideVars>>

Release(r) ==
    /\ At(r, "release")
    /\ slot' = [slot EXCEPT ![Service(r)] = NoRun]
    /\ Goto(r, "leave")
    /\ UNCHANGED <<worldVars, journal, pending, mergeMu, req, asideVars,
                   faults>>

OwnsNone(r, p) == FALSE
Owns(r, p) == p.id = r

Leave(r) ==
    LET s == Service(r) IN
    /\ At(r, "leave")
    /\ pending' = IF Owns(r, pending[s]) THEN [pending EXCEPT ![s] = NoPending]
                                          ELSE pending
    /\ Goto(r, "gone")
    /\ req' = [req EXCEPT ![r] = NoRequest]
    /\ UNCHANGED <<worldVars, journal, slot, mergeMu, asideVars, faults>>

-----------------------------------------------------------------------------
(* The daemon and everyone else.                                           *)

(* Drift and GET /services sync on their own schedule. *)
BackgroundSync ==
    /\ daemon \in Serving
    /\ Sync
    /\ UNCHANGED <<repoVars, hostVars, runVars, asideVars, faults>>

Edit(s) ==
    /\ Push(s)
    /\ UNCHANGED <<mirrorVars, hostVars, runVars, asideVars, faults>>

(* SIGTERM cancels the context. *)
Stop ==
    /\ daemon = "up" /\ stops < MaxStops
    /\ stops' = stops + 1
    /\ daemon' = "stopping"
    /\ UNCHANGED <<worldVars, runVars, click, faults, probed>>

MemoryLost ==
    /\ daemon' = "down"
    /\ synced' = FALSE
    /\ pending' = [s \in Services |-> NoPending]
    /\ slot' = [s \in Services |-> NoRun]
    /\ mergeMu' = NoRun
    /\ pc' = [r \in Ids |-> IF Live(r) THEN "gone" ELSE pc[r]]
    /\ req' = [r \in Ids |-> NoRequest]
    /\ click' = [c \in Clients |-> NoClick]
    /\ UNCHANGED <<repoVars, mirror, hostVars, journal, faults, probed>>

(* close: Wait returns when inFlight is zero, which does not count a run   *)
(* that was journalled and not added; then the journal is closed, and the  *)
(* process ends whatever its handlers have started since.                  *)
DrainIgnored == TRUE
Drained == \A r \in Ids : pc[r] \in {"unused", "begun", "gone"}

Wait ==
    /\ daemon = "stopping"
    /\ Drained
    /\ daemon' = "closing"
    /\ UNCHANGED <<worldVars, runVars, click, stops, faults, probed>>

Exit ==
    /\ daemon = "closing"
    /\ MemoryLost /\ UNCHANGED stops

Die ==
    /\ daemon # "down" /\ stops < MaxStops
    /\ stops' = stops + 1
    /\ MemoryLost

Boot ==
    /\ daemon = "down"
    /\ daemon' = "booting"
    /\ UNCHANGED <<worldVars, runVars, click, stops, faults, probed>>

(* failOrphanedDeploys: rows nobody drives, oldest first; a row that       *)
(* cannot be closed keeps the daemon from starting.                        *)
EveryRow == DOMAIN journal
UnfinishedProposals == {r \in DOMAIN journal : ~journal[r].finished /\ journal[r].pr # 0}
Unfinished == {r \in DOMAIN journal : ~journal[r].finished}

CloseOrphan ==
    /\ daemon = "booting"
    /\ \E r \in Unfinished :
         /\ \A q \in Unfinished : r <= q
         /\ \/ /\ journal' = [journal EXCEPT ![r] = Sealed(@, "failed")]
               /\ UNCHANGED <<daemon, faults>>
            \/ Fault("close orphan") /\ daemon' = "down" /\ UNCHANGED journal
    /\ UNCHANGED <<worldVars, queueVars, pc, req, click, stops, probed>>

(* The first sync is best effort. *)
Serve ==
    /\ daemon = "booting"
    /\ Unfinished = {}
    /\ daemon' = "up"
    /\ \/ Sync /\ UNCHANGED faults
       \/ Fault("sync") /\ UNCHANGED mirrorVars
    /\ UNCHANGED <<repoVars, hostVars, runVars, click, stops, probed>>

-----------------------------------------------------------------------------
Init ==
    /\ RepoInit
    /\ mirror = main /\ synced = TRUE
    /\ unit = main /\ running = main
    /\ journal = <<>>
    /\ pending = [s \in Services |-> NoPending]
    /\ slot = [s \in Services |-> NoRun]
    /\ mergeMu = NoRun
    /\ pc = [r \in Ids |-> "unused"]
    /\ req = [r \in Ids |-> NoRequest]
    /\ click = [c \in Clients |-> NoClick]
    /\ daemon = "up"
    /\ faults = 0
    /\ stops = 0
    /\ probed = {<<s, InitialPin>> : s \in Services}

Handle(c) == ReadClick(c) \/ Join(c) \/ Begin(c) \/ BeginFails(c)

Run(r) ==
    \/ Launch(r) \/ PrologueSync(r) \/ TakeTurn(r) \/ AbandonTurn(r)
    \/ LockMergeQueue(r) \/ AbandonBackoff(r) \/ Front(r) \/ Inspect(r)
    \/ Open(r) \/ Record(r) \/ WaitChecks(r) \/ MergePR(r) \/ Update(r)
    \/ Abandon(r) \/ RecordMerge(r)
    \/ ConvergeSync(r) \/ ConvergeRead(r) \/ ApplySync(r) \/ ApplyRead(r)
    \/ WriteUnit(r) \/ ReloadAndRestart(r) \/ Probe(r)
    \/ Finish(r) \/ Release(r) \/ Leave(r)

Startup == Boot \/ CloseOrphan \/ Serve

Next ==
    \/ \E c \in Clients : Handle(c)
    \/ \E r \in Ids : Run(r)
    \/ \E s \in Services : Edit(s)
    \/ BackgroundSync \/ Startup
    \/ Stop \/ Wait \/ Exit \/ Die

Spec == Init /\ [][Next]_vars

(* Calls with no deadline of their own: only a cancelled context is sure   *)
(* to end them.                                                            *)
Hanging == {"checks", "sync", "converge sync", "apply sync"}

(* Goroutines are scheduled, other calls return, a queue is served, and    *)
(* systemd restarts the daemon.                                            *)
FairSpec ==
    /\ Spec
    /\ \A r \in Ids : WF_vars(Run(r) /\ (pc[r] \in Hanging => Cancelled))
    /\ \A c \in Clients : WF_vars(Join(c) \/ Begin(c) \/ BeginFails(c))
    /\ WF_vars(Startup) /\ WF_vars(Wait \/ Exit)
=============================================================================

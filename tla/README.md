# snowdeploy in TLA+

snowdeploy deploys container images to one host by changing a configuration
repository first: a deploy is a pull request that pins a digest, a merge, an
apply to the host through systemd, a probe, and, when the probe fails, a
restore of the host and a revert of the repository. This directory models the
program, checks the model with TLC on small instances and proves parts of it
with TLAPS. Paths below are relative to the repository root.

- [The system](#the-system)
- [The modules](#the-modules)
- [What the model abstracts](#what-the-model-abstracts)
- [What is checked](#what-is-checked)
- [Where code and comments disagree](#where-code-and-comments-disagree)
- [Fairness](#fairness)
- [What is proved](#what-is-proved)
- [What is not modelled](#what-is-not-modelled)
- [Plan](#plan)
- [Running it](#running-it)

## The system

| Component | State | Operations | Talks to |
|---|---|---|---|
| deploy engine, `internal/deploy` | `pending` (the run a click would join), a channel per service, `mergeMu`, each run's request and locals | `start` (join or journal), `run`, `converge`, `applyMerged`, `rollback`, `revertMain`, `Wait` | all below; called by the API's POST handlers |
| pull requests, `internal/gitops/github.go` | none; GitHub's branches, pull requests and default branch | `OpenManifestPR`, `WaitChecks`, `Merge`, `UpdateBranch`, `ClosePR` | GitHub |
| git mirror, `internal/gitops/repo.go` | working tree, `synced`, `failure` | `Sync`, `SyncState`, `Manifest`, `Services`, `Template` | git; read by the engine, the API and the drift loop |
| journal, `internal/journal` | the `deploys` table | `Begin`, `SetState`, `SetPR`, `SetMergeSHA`, `SetDigests`, `Finish`, `Recent`, `Unfinished`, `PreviousHealthyDigest` | engine, API, start of the daemon |
| applier, `internal/reconcile` | unit files and containers of the host | `Apply` = write unit, reload and restart, probe; `RunningImage` | systemd, podman |
| daemon, `cmd/snowdeployd` | the context, the set of running goroutines, the drift loop's findings | boot (close orphans, first sync), serve, stop, drain; `watchDrift`, `repositories` | everything |
| HTTP API, `internal/api/api.go` | none; a request's locals | `handleServices` and `status`, the gate `service`, history, revisions, `dispatch` | mirror, watcher, journal, host, engine |
| event stream, `internal/api/sse.go` | the broker's subscribers and their bounded channels | `publish`, `subscribe`, `handleEvents`, `snapshotEvents` | engine (callback), journal, browsers and CLIs |
| CLI, `cmd/snowdeploy` | where one command is | open the stream, click, follow to an exit code | API |
| web page, `web/src` | rails of runs in flight, lists of receipts, fetches under way | `applyEvent`, `setServices`, `setHistory`, poll, refetch | API |
| revision cache, `internal/revision` | entries, registered fills | `Lookup`, `fill`, `store` | registry, GitHub |
| registry watcher, `internal/registry` | newest digest and last poll per repository, the poll under way | `Run`, `poll`, `Latest`, `LastPoll` | registry; mirror (repositories) |
| metrics, `internal/api/metrics.go` | gauges and counters | `setDrift` | drift loop |
| auth and proxy boundary, `internal/api` | none; the token hash file, read on every request | `actor`, `parseTokenHashFile`, `identity`, `authedFor` | API |
| configuration, manifests | none after start | parse, validate, render | engine, API, CLI |

What is hard in it, and what would make it correct:

- **Concurrency of runs.** Any number of goroutines run the engine; they meet
  at the join map, at the channel of their service, at the merge queue and at
  the one mirror, and each holds locals read before it waited. Correct: one
  applier a service, one merge span in all, a join point that stays live, and
  receipts that are true of the host when they are written.
- **Two worlds that must agree.** main says what should run, the host is what
  runs, and each call that changes one may fail, be cancelled, or succeed and
  lose its reply. Correct: the host never has what main did not hold; a revert
  leaves main describing the host; no pull request stays open that nobody
  will look at.
- **Stops and deaths.** A cancelled context fails the next call of every run
  wherever it is; a death leaves only rows. Correct: an accepted run gets one
  receipt, from itself or from the next start; a graceful stop leaves to the
  next start only rows of runs that have done nothing yet.
- **A lossy stream.** The broker drops, connections break, snapshots and
  queued frames overlap, and fetches come back in any order. Correct: a
  drained stream has told the truth, exit code 0 means healthy, a page shows
  no receipt the journal does not have, or lost, and no rail for long after its
  run.
- **A view that lags.** The mirror is as old as its last sync, the digest on
  offer as the last poll, and a request or a drift check reads one thing at a
  time while all of them move. Correct: what is not known is never denied, an
  offer never goes back to an older image, and what is said of a service that
  held still is true of it but for what could not be read.
- **A file typed by hand.** Correct: no slip that the grammar can notice lets a
  token do more than was meant, and none shuts the browser out.
- **A shared cache.** Correct: one question per digest at a time, answers that
  no impatient caller spoils, no lookup that waits forever.

`PROJECT.json` lists each hazard at its line, with the properties about it.

## The modules

```
ConfigRepo <- Engine <- EngineProperties <- MCEngine            (TLC)
                            |    \--------- EngineProofs <- HostProofs  (TLAPS)
                            +-- INSTANCE Deploys                (abstract)
Stream <- Follower                                              (TLC)
      | <- Page                                                 (TLC)
      |   \---------------- StreamProofs <- FollowerProofs, PageProofs  (TLAPS)
Revisions                                                       (TLC)
    \---------------------- RevisionsProofs                     (TLAPS)
Catalog, Access <- Api                                          (TLC)
    \               \------ ApiProofs                           (TLAPS)
     \--------------------- CatalogProofs                       (TLAPS)
```

**ConfigRepo**: the repository as GitHub holds it. `main` maps a service to its
manifest; `prs` is the sequence of pull requests, each with its branch. An
action is a call of `github.go`: `OpenOnNewBranch`, `OpenOnOldBranch` (the branch
is named after the content, so it may exist), `AdoptOpen`, `RefusedAsEmpty`,
`Merge`, `UpdateBranch`, `ClosePR`. `Push` is a person.

**Engine**: `Engine` in its daemon. `pc[r]` is where run `r` is in `Engine.run`,
`req[r]` its `runRequest` and locals, `journal` the table (a row's index is its
id), `pending`, `slot` and `mergeMu` the three locks. Each label of `pc` is the
call the goroutine makes next, and an action is that call with what follows it
until the next one; locks are taken in actions of their own.

| Code | Labels and actions |
|---|---|
| `start` | `ReadClick` (reads outside the lock), then `Join`, `Begin` or `BeginFails`, and for a run begun `Launch` (`inFlight.Add`, after the lock) |
| `run`, prologue | `PrologueSync`, `TakeTurn`, `AbandonTurn` |
| merge queue | `LockMergeQueue`, `Front` (re-read), `Inspect` (already running?), `Open`, `Record` (`SetPR`) |
| `mergeThroughChecks` | `WaitChecks`, `MergePR`, `Update`, `Abandon` (`closePR`) |
| after the merge | `RecordMerge`, `ApplySync`, `ApplyRead`; `ConvergeSync`, `ConvergeRead` |
| `applyManifest` | `WriteUnit`, `ReloadAndRestart`, `Probe`; `mode` says if it applies or restores |
| `rollback`, `revertMain` | the same actions with mode "restore", then the merge queue with mode "revert"; `AbandonBackoff` |
| `finish`, deferred calls | `Finish`, `Release`, `Leave` |
| `cmd/snowdeployd` | `Boot`, `CloseOrphan`, `Serve`, `BackgroundSync`, `Stop`, `Wait` (the daemon is "closing": its wait for the runs is over), `Exit`, `Die` |

**Deploys**: what an operator is promised, in sixty lines: a turn per service,
only its holder touches the host and only with its receipt open, receipts are
written once. `EngineProperties!ImplementsDeploys` is the refinement: the channel is the
turn, the journal's receipts are the receipts, unit and container are the host.

**EngineProperties**: the properties of Engine. **MCEngine**: symmetry and the
definition of `Mentions` for TLC. **EngineProofs** and, for the host and main,
**HostProofs**: theorems.

**Stream**: runs reduced to the transitions they make (`emit`, `finish`) and then
`publish`; the broker; `handleEvents` as `Accept` (headers out), `subscribe`,
`snapshotEvents` (service by service, each a read of the journal that may be
skipped), `writeFrame`; `Disconnect` and `Restart`. `ran` is what runs did and
`rows` what the journal has of it: `LoseWrite` is a transition whose write fails,
which the code ignores (engine.go:763, 769), and `lost` the runs it happened to.

**Follower**: a CLI command on such a stream. **Page**: the page's store on such
a stream, with its poll and its fetches, each of them a request, an answer by
the server and a receipt by the page, with anything in between. An answer to the
poll has a service's newest row, or the service without it (its manifest or its
rows could not be read), or not the service at all.

**Revisions**: the cache; `Ask` is `cachedOrFilling`, one critical section;
`Resolved` and `CloseDone` are the two halves of `fill`, before and after the lock
is let go.

**Catalog**: what the daemon keeps up to date by itself. `main`, `tag` (the
version of each repository's tag) and `running` are the world; `mirror`, `synced`,
`failure` are `Repo`; `latest`, `polls` and the `poll` under way are the watcher;
`check` and `gauge` are the drift loop and its metric. `torn` records the services
whose file a failed sync left as no commit has it.

| Code | Actions |
|---|---|
| `Repo.Sync` | `SyncSucceeds`, `SyncFails` (changing nothing, or leaving each file as it was, as main has it, missing or cut short), in the drift loop (`DriftSync`), a list (`ListSync`) or anyone's (`OthersSync`) |
| `Watcher.Run`, `poll` | `Tick`, then per repository `Resolve` (the registry answers) and `Store` |
| `Engine.Drift`, `SetDrift` | `DriftSync`, `DriftList`, per service `DriftManifest` and `DriftRunning`, `SetDrift` |
| `build` | `Restart` |

**Access**: the token hash file's grammar at the level of its fields, scopes,
the proxy's headers, and which of the two ways in judges a request; no
variables. `Verdicts` is how any request can be judged under any file of up to
two lines, typed well or badly, together with what the file was meant to say:
`Noticed` are the slips the grammar refuses, `Unnoticed` those it reads as a label.

**Api**: the handlers on top of both. `request` is the one under way, at the
read it makes next: `List` is `handleServices` with `status` read by read,
`GateReady` and `GateLookup` are `service`, `Look` is history and revisions,
`Click` is `dispatch` with what `Engine.start` refuses; `BareDeploy` and `state` are the
CLI's use of a list. `newest` are the services whose newest row has no receipt,
`older` those with an older row that has none: runs end in any order, and a
receipt may be lost. `request.failed` are the reads of a row that failed. The drift loop, which no request reads, is only its syncs here.

## What the model abstracts

- A manifest is its pinned digest and the revision of its other text. That a
  digest may occur more than once in the text, where `setDigest` refuses, is
  `Mentions`. In Engine, manifests that do not parse are the "read" fault. The
  changes a deploy may make to the rest of a manifest are not modelled.
- Failures are drawn from a budget: `Faults` names the calls that may fail in a
  run of TLC, `MaxFaults` how many do. "open reply" and "merge reply" are calls
  that take effect and report failure; "begin", "set pr", "set merge", "set
  digests", "finish" and "close orphan" are the journal's writes; "update lag" is
  an update GitHub accepts and never makes. Once the context is cancelled every
  call that takes it fails, outside the budget, or takes effect on its way.
- The image a container runs is the digest of the manifest it was started
  from. A probe is one step; it fails by fault.
- `edits`, `landed` and `probed` record history for the properties. So do
  `joined`, `blind`, `seen` and `untold` in Follower.
- In Stream a transition is its number; the first two of a run are both
  "detected". A run takes its turn as in Engine and may fail at any
  transition. `MaxLost` bounds the runs whose writes are lost, not the writes.
  The graceful stop is in Engine only: to a stream it is a restart. A click whose
  answer is lost is `ClickFails` after anybody's `Begin`.
- The page's requests are a bag: equal requests are interchangeable, and
  responses arrive in any order. One service's page stays open.
- In Catalog and Api a digest is the version of its repository's tag that
  published it, so that "newer" can be said at all: the code only compares for
  equality. The repositories of a tick are read from the mirror in one step.
- `steady` (services that neither main, the host nor a run changed since the
  check or the request began), `torn` (see above), `check.blind` (services a check
  could not read), `lacked` (services main once lacked or had unreadable) and
  `served` (this daemon has answered from its mirror) are history. A failed read
  takes no service out of `steady`.
- A token line is its token and its fields after the hash; a field is a word of
  a label, a scope field naming actions, or a near miss. What a line was `meant`
  to allow is recorded with it and read by no definition of the code.
- A sync and a read of the mirror are one step each: that `Repo.mu` is held while
  a fetch runs, and who waits for it, is not modelled (see Fairness).
- Requests share nothing but what they read, so one is under way at a time. A
  run is only its being in flight; what it changes is the world's to change.
- A fill of the revision cache finds the revision or does not.

## What is checked

| Run | Instance | Properties |
|---|---|---|
| `deploys` | 1 service, 3 digests, 3 runs of any action, 3 faults of probe, red check, merge, restart, receipt | `TypeOK`, `OneApplierPerService`, `HealthyMeansRunning`, `RolledBackMeansRestored`, `OpenPRAccountedFor`, `JoinPointKept` |
| `stops` | 2 handlers, 2 runs of deploy and converge, 1 push whose text repeats a digest, 1 stop or death, 1 fault of 20 kinds | `UnfinishedIsDriven`, `PendingIsLive`, `MergeFirst`, `StopLeavesNoOrphan`, `RevertMatchesHost`, `ImplementsDeploys` |
| `live` | 2 services, 2 deploys, 1 stop or death, 1 fault of 6 kinds, fair | `MergeSpanSerial`, `OnlyPushesMoveMain`, `EveryRunLeaves`, `EveryRunGetsAReceipt`, `StopDrains` |
| `follow` | 1 follower, 2 runs of 3 transitions, one of which may lose writes, buffer 1, 1 cut | `TypeOK`, `DrainedIsCurrent`, `ExitZeroIsHealthy`, `StarterHearsTheEnd` |
| `page` | 2 runs that fail, one of which may lose writes, buffer 1, 1 cut, 1 polled request at a time, a service's page | `ReceiptsAreTrue` |
| `rails` | the same two runs, the list of services, fair | `RailsClear`, `BusyIsShown` |
| `cache` | 3 keys, 2 callers, 3 fills, room for 2, 1 tick, fair | `TypeOK`, `CacheBounded`, `OneFillPerKey`, `AnswersAreKept`, `EveryLookupReturns` |
| `catalog` | 1 service, 2 repositories, 2 versions, 2 changes of the world, 1 fault, 1 restart, fair | `TypeOK`, `OffersNeverGoBack`, `VerdictIsRight`, `NewestIsOffered`, `GaugeSettles` |
| `api` | 1 service, 1 repository, 2 versions, 2 tokens, 2 changes, 1 fault, 1 restart | `NotFoundIsKnown`, `OnceReadStaysServed`, `NeverWidened`, `BrowserKeepsWorking`, `OfferHasVerdict`, `StatusIsTrue` |

What each shows: `deploys`, that receipts are true of the host however runs of one
service queue behind each other's failures; `stops`, that no interruption or
single failure leaves a row undriven or the host and main apart in a way nobody
intended, and that the engine keeps the promises of Deploys under all of them;
`live`, that services share nothing but the merge queue and that nothing waits
forever; `follow`, how far the stream and the exit code can be believed; `page` and
`rails`, that the page lists no false receipt, clears its rails and shows a busy
service busy; `cache`, that one question per key is asked and every caller is
answered; `catalog`, that offers and drift gauges follow a world that moves under
them; `api`, that answers claim no more than the daemon knows, that
authorization is as meant, and that a status line is right.

Why these bounds. A hazard of the engine needs a run that left something behind
(an abandoned branch, a host that was not restored, a stale mirror), a run that
meets it, and at most one more waiting: three runs of one service, or two runs
and a push, or two services with a run each. Two digests besides the initial
one tell "the other run's digest" from "mine". Three faults let a deploy fail
its probe and both attempts at its revert fail too; two attempts show both a
retry and the last one. One stop reaches every label, since it may come at any
of them. A broker buffer of one is full as soon as a reader lags a frame or
two; the 64 of the code only makes it rarer. A cache of two drops itself on
the third key, with a fill under way; a fill more than there are callers means
that no caller waits for a goroutine, which Go would simply start. In Catalog
and Api services do not interact but by naming the same repository; two changes
move the tag and the pin, or the pin and the host, in either order, or take a
service away and bring it back; the one fault tears the mirror, fails a read, a
poll or an inspection, and what follows is the code's answer to it; a file of two
lines lets one of them be malformed, and names a token twice. One lost run in the
stream lets the row of either run stay behind while the other is told as it is.

`page` and `rails` bound a run to one transition before it is over, so their runs
only fail: what they are about is the order of responses, not the outcome.

Journal faults. A receipt that cannot be written leaves its row to the next
start, by design: it is a fault of `deploys`, whose `OpenPRAccountedFor` allows for it, and not
of `stops` and `live`, whose `UnfinishedIsDriven` and `EveryRunGetsAReceipt` say what holds otherwise. A
pull request whose number cannot be written fails its run and stays open with no
receipt that says so, a hole the code has: "set pr" is a fault of `stops` and
`live`, not of `deploys`. In the stream's runs any write of a run may be lost,
and `ExitZeroIsHealthy`, `DrainedIsCurrent` and `ReceiptsAreTrue` say what is then told.

What no property denies, because the code does it: a receipt "failed" beside a
main that moved (a merge whose reply was lost, or `SetMergeSHA` that failed), a proposal
given up because an update was not made in time, a pull request left open by a
stop. `PROJECT.json` lists these hazards without a property.

Every property of a passing run has a mutant in `PROJECT.json`: the change of a
mapped definition, such as a dropped guard or a reset that is missing, under
which TLC finds that property violated.

Deadlock is checked except in Follower, where a command that has exited takes
no more steps and the daemon has no more runs to make.

## Where code and comments disagree

Each of these has a run that TLC finds violated; `PROJECT.json` quotes the lines.

| Run | The comment's claim | What the code can do |
|---|---|---|
| `edits` | the re-read keeps a proposal from reverting what landed in between | the re-read is of the mirror, not synced since the prologue: a push since then is merged over |
| `probed` | healthy without a probe is never concluded | a digest whose probe and whose restore failed keeps running; the next deploy of it ends healthy at the inspection |
| `unobserved` | subscribe before starting, so no transition goes unobserved | headers are flushed before the handler subscribes |

Seen on the way, in traces of the same model, and kept without a run:

- "A pending run has not yet finished" (engine.go:292): the entry is removed
  after the receipt (engine.go:272), so a click in between joins a run that is
  over, and its follower waits for the timeout.
- The manifest captured for a rollback is the mirror's. After a revert that did
  not land it pins a digest the host does not run, and a rollback does not
  return "the host to the digest that was running" (docs/architecture.md:56-57).
- A converge click joins a converge that has read an older manifest
  (engine.go:242), although "Converge applies the manifest as main has it right
  now" (engine.go:181).
- The branch of an abandoned proposal is reused by content at its old base
  (github.go:174), so an update may conflict with no push at all, although
  "only external pushes can move the base here" (engine.go:465).
- A revert whose merge landed and whose reply was lost ends in a receipt that
  "main still pins the failed digest" (engine.go:621-624).
- A receipt that cannot be written is published all the same (engine.go:767-771):
  the CLI exits 0 and the page lists "healthy" for a row that the next start
  closes as failed. Until then the row keeps a rail on the page.
- A snapshot passes over every service when the mirror cannot be listed, and one
  service whose rows cannot be read or that left main with a run in flight
  (sse.go:155-164), although "a fresh connection is owed" an event of each.
- `http.Server.Shutdown` gives up after its grace (main.go:271-279; an open event stream
  is enough), and `inFlight.Add` comes after the row is journalled (engine.go:269): a
  handler may begin a run that `Wait` does not wait for, and its row is left to the
  next start. It has done nothing by then, so that "re-run" is good advice.
- A snapshot frame may be newer than frames queued behind it (sse.go:121): the
  client is shown states going backwards, not just "the same state twice".
- The page's list is replaced by fetches (state.ts:255) and its rail only by
  events and the catalog, so the two can disagree, and a response that left
  the server before a run ended may replace its receipt (state.ts:2-4, 149-152).
- A branch update is a promise: GitHub answers 202 and makes it later
  (github.go:238-253). The wait for checks that follows may be for the old head, the
  merge then fails again, and after the last attempt the run gives up a proposal
  nothing was wrong with.
- `setDrift` visits the services the mirror lists and those just found drifted.
  A service that leaves main keeps its gauge, a 1 for ever included, also one that
  was in step and left during the check, although "a service that stops
  drifting drops back to 0 instead of keeping a stale 1" (metrics.go:118-119). So
  does a service in step when `SetDrift` cannot list the services (api.go:165-168).
- A drift check that cannot inspect a container, or read a manifest, reports the
  service as drifted whatever it is (engine.go:710-718).
- A reset or clean that fails leaves files missing or cut short (repo.go:162-170), and
  the lock is let go: reads then see the file "half one commit, half another"
  that holding it is to prevent (repo.go:234-237). Such a service gets a 404, a row
  that says "in sync", and a drift gauge of its own making.
- `service` answers 404 "no such service" for whatever keeps the manifest from being
  read (api.go:514-516), although 404 "asserts that it does not" exist
  (api.go:548-550).
- A slip in the token file that leaves no field beginning with "scope" ("scop=",
  "actions=", a field in quotes, the field on a line of its own) is read as a label and
  leaves the token unscoped (auth.go:194), although "reading it as a label would
  silently leave the token unscoped" is why near misses are refused (auth.go:156-160).
- A failing sync lets its lock go before `SyncState` is asked (api.go:255-264, and
  engine.go:509-522 in the same way). If another sync succeeds in between there is
  no reason to give, and the client reads errNoConfiguration, "the daemon has no
  usable copy", said to be impossible short of a broken contract
  (api.go:532-536), just when the daemon got a copy.
- `Latest` and `LastPoll` are two reads (api.go:295-301): the digest of one poll may be
  shown with the verdict of the next.
- A status row has the newest journal row only (api.go:303): when that run is over
  and an older one is still in flight, `snowdeploy status` shows drift or "in sync",
  although "a run without a receipt outranks every static comparison"
  (cmd/snowdeploy/main.go:159-160).
- A manifest that does not parse blanks its row before the journal is read
  (api.go:283-286): `snowdeploy status` prints "in sync" for it, also with a run in
  flight, while the drift loop calls it drifted. And a run that ends while its row is
  read may leave "DRIFTED" on a service that is not.
- Digests have no order: once main pins a newer image than the last poll saw,
  status calls the older one an "update available", and a bare `snowdeploy
  deploy` goes back to it (cmd/snowdeploy/main.go:161-168, 264-280).
- `dispatch` tells a failed sync from other errors by its text (api.go:485-486);
  `Engine.start` does not sync, so for a mirror once read that branch is dead.

## Fairness

`Engine!FairSpec`: each run's next step, each handler between the halves of
`start`, startup, and the wait and exit of a stop are weakly fair. The Go scheduler
runs every goroutine; Go channels and mutexes serve their waiters, and a lock in this
model is taken by an action that stays enabled for one waiter until it acts;
systemd restarts the daemon. Two kinds of call have no deadline of their own: the
wait for checks, and a sync's fetch, which may "hang on an unreachable remote"
(engine.go:196-199). The labels of both are in `Hanging`, and their steps are fair only
once the context is cancelled. `EveryRunLeaves` and `EveryRunGetsAReceipt` are therefore implications
from `NothingHangs`, while `StopDrains` holds whatever hangs. The other calls (GitHub's and the
host's) are taken to return, which their clients do not guarantee either; nor is it
modelled that `Repo.mu` is held across a fetch and waited for without a context: a run
that waits for a fetch of `GET /services`, which runs under the request's context and
which a stop does not cancel, may hold up the stop. No fairness is assumed of clicks,
pushes, stops or background syncs.

Page states no fairness. `RailsClear` and `BusyIsShown` have a premise instead, `PollTells`: again and
again an answer to the poll is received that has the service's newest row. That is the
timer, a server that answers, a service that main has, and a manifest and rows that
can be read. Answers without it may come in between. Runs need not end, the server
need not write frames, nor the connection come back. A row whose receipt was lost is in
flight to the journal, and its rail stays until the next start.

`Revisions!FairSpec`: a fill ends (its context has `fillTimeout`) and a waiter whose
channel is closed runs. Callers' contexts need not end. `EveryLookupReturns` excepts
a cache that is dropped again and again: a waiter whose entry is gone before
it wakes starts over, and at a cache of two TLC shows that it may do so for
ever. At `maxEntries` = 512 (revision.go:51) each round takes hundreds of fills.

`Catalog!FairSpec`: the watcher and the drift loop each take their next step; their
timers fire, and their calls return or fail: neither the fetch nor `ResolveDigest` has a
deadline of its own, so `NewestIsOffered` and `GaugeSettles` say nothing of a remote that
hangs. Nobody else need sync.

## What is proved

For every set of services, clients, digests, faults, keys and so on and every
value of the bounds, from the assumptions on the constants only:
`RepoAssumption` and `EngineAssumption` (`InitialPin` is a digest, the bounds are naturals,
attempts at least one, `NoContent` is no content), `RevisionsAssumption` (a cache of at
least one entry; "no key" and "no fill" are neither), `CatalogAssumption` (at least one
version; a missing or unreadable manifest is no pin) and `AccessAssumption` (a typo is
not the name of an action).

Three theorems have a hypothesis besides, without which what they say is not so (see
"Journal faults" above). `RowsAreDriven` and `StopsClean` have `"finish" \notin Faults`, that
receipts can be written: it is how the runs `stops` and `live` are configured.
`ProposalsAreAccountedFor` has `Unhindered`, that nobody stops the daemon and that its calls to
open, record and close a pull request do what they report (`MaxStops = 0`, no fault "open reply", "set
pr" or "close"): it is how `deploys` is configured. Every other fault is allowed, a receipt that
cannot be written and a merge whose reply is lost among them, and pushes to main.

The engine, `EngineProofs`:

- `EngineIsTyped`: `Spec => []TypeOK`. `TypeOK` is inductive as it
  stands because it carries what types alone lack: only journalled runs run, a
  run past `Open` has a pull request, a run at `finish` has an outcome. The module
  proves each part (repository, host, journal, queues, runs, daemon) preserved
  by each action, and also that rows keep their service (`ServicesKept`).
- `MergeSpanIsSerial`: `Spec => []MergeSpanSerial`. `MergeSpanSerial` is not inductive: two runs of
  which neither holds `mergeMu` could be in the span. `SpanInv` adds that whoever
  is in the span holds it; then one holder means one run.
- `OneApplier`: `Spec => []OneApplierPerService`, from `TurnInv`: a run whose label lies between lock and
  release holds its service's slot. That needs `TypeOK` (the slot's service is
  that of a row that never changes it), so the two are combined.
- `JoinPointIsLive` and `JoinPointStays`: `Spec => []PendingIsLive` and `Spec => JoinPointKept`. The
  first is inductive given `TypeOK`: an entry is made with its run, a run takes its
  own entry out in the step in which it leaves, and a stop that takes the runs
  takes the map. Hence an entry changes only as its run goes.
- `RowsAreDriven` and `StopsClean`: `Spec => []UnfinishedIsDriven` and `Spec => StopLeavesNoOrphan`. `DrivenInv`
  adds that a run which releases its turn or leaves has its receipt, so that no row
  loses its run before it is finished; `Serve` waits for the last orphan to be closed.
  A stop is harder, since handlers may begin runs until the end: `CloseInv` says that
  a run that has not got past its first sync is untouched, and that once the wait is
  over there are only such runs, runs at their receipt and runs that left. With the
  context cancelled a run's first sync ends it, so that none of them gets further.
- `EngineImplementsDeploys`: `Spec => ImplementsDeploys`. Under the mapping each step of Engine is one step of
  Deploys or none: taking and giving up a turn, writing the unit, restarting,
  finishing, closing an orphan, dying. It takes `TurnInv` (who touches the host has the turn),
  `ReceiptInv` (who has not finished has an open receipt) and `SlotInv` (a turn is
  only ever its own service's).

Host and main, `HostProofs`:

- `MergedBeforeApplied`: `Spec => []MergeFirst`. The host gets what some run carries, which got it from the
  mirror, a click or a request made before, so `LandedInv` follows all of
  them: what is on main, in the mirror, on the host, in a handler between its
  read and its lock, and in any run's `content` and `original`, main has held. It is
  kept because `landed` only grows.
- `HealthyRuns` and `RolledBackIsRestored`: `Spec => []HealthyMeansRunning` and `Spec => []RolledBackMeansRestored`, from
  `HostInv`: what a run's mode and label say of unit and container. In mode "apply" its
  content pins its digest, in "restore" it is the manifest captured before; from
  "restart" on the unit is that content, at "probe" the container too; a run in
  mode "revert", which waits for locks, checks and backoffs, still holds its turn
  and has the restored manifest in both places. `TurnInv` keeps everyone else
  away from them meanwhile.
- `NobodyStranded`: `Spec => OnlyPushesMoveMain`. An action property that follows step by step from `SpanInv`: a
  merge is a step of the span, so no other run's proposal is in it.
- `RevertMatches`: `Spec => RevertMatchesHost`. Beyond `HostInv` it takes `ProposalInv`: a run's proposal is of
  its service, a proposal with all of main was forked from main as it is, and the
  proposal of a revert pins the captured manifest's digest or, after an update that merged a
  push into it, main's own, in which case its merge does not move the pin.
- `ProposalsAreAccountedFor`: `Spec => []OpenPRAccountedFor` of an `Unhindered` daemon. `AnsweredInv` names who
  answers for an open proposal: the deploy that opened or adopted it, until it merges or closes it; a
  revert whose manifest is the one its branch is named for; a receipt "main still
  pins"; a run gone without its receipt. The hard step is a revert that lands: a failed attempt
  of the same revert may have left a proposal open. `BranchInv` says that the open proposal of a branch
  is its newest, so that an attempt adopts it instead of opening a second one, and
  `UndoInv` that a revert in the span has no other proposal of its branch than the one it
  merges, because nobody else opens any while it holds the merge queue.

The stream's clients. `StreamProofs` holds the lemmas both rest on: `StreamInv` gives the
types of the queues and says that a frame anywhere on its way is about a
journalled run and names a transition it made, and a terminal one bears how it ended;
a row agrees with its run unless the journal lost a write of it; runs and rows only
grow. It also has the lemmas on queues: what appending and taking the head does to "the last frame about this run".

- `FollowerProofs!FollowerIsTyped`: `Spec => []TypeOK`.
- `FollowerProofs!ExitsAreHonest`: `Spec => []ExitZeroIsHealthy`; with terminal frames true of their runs and
  ends final, the property is inductive.
- `FollowerProofs!DrainedStreamsAreCurrent`: `Spec => []DrainedIsCurrent`. `CurrentInv` says where the newest step of a run is: the last
  frame about it in the broker's channel names it; if the channel has none, then
  the last one in the snapshot buffer does; if that has none either, the last one on
  the wire, or else the reader has seen it; where the snapshot has yet to visit
  the service, or passed over it, or found its row behind (`untold`), only the first part
  is claimed, until the run's next event. That is why the order of subscription and
  snapshot matters, and why a stale snapshot frame cannot come last.
- `FollowerProofs!StartersHearTheEnd`: `Spec => []StarterHearsTheEnd`. `HearInv`: of a run begun on a subscribed stream the terminal
  frame, once published, is in one of the three queues until it is read.
- `PageProofs!ReceiptsShownAreTrue`: `Spec => []ReceiptsAreTrue`. `PageInv` says the same of the receipts in
  responses under way. Whatever order they are applied in, a receipt was true when it
  was read, and receipts are final but for the row of a run whose write was lost.

Cache, mirror, watcher and API:

- `RevisionsProofs`, from `CacheInv`, which is `TypeOK`, `FillInv` (a fill under way is the one
  registered for its key, whose answer is not known) and `WaitInv` (who waits, waits on a
  fill of its key): `CacheIsTyped`, `OneFillAtATime` (`OneFillPerKey`) and `AnswersStay`
  (`AnswersAreKept`: an answer found goes only with the whole cache, since no fill is under
  way for it). `CacheStaysBounded` (`CacheBounded`) follows from the
  cardinality of a set with one element more; `store` empties a full cache first.
- `CatalogProofs!OffersOnlyGetNewer`: `Spec => OffersNeverGoBack`. An answer under way may
  be older than the tag, which is why the property could fail; `OfferInv` says
  that it lies between what is on offer and the tag. It holds because one
  goroutine asks: nothing is stored between an answer and its storing.
- `CatalogProofs!DriftVerdicts`: `Spec => VerdictIsRight`. `CheckInv` says of every service
  that held still since the check began, and that no sync tore: the mirror agrees
  with main, whoever has synced since; it is still to be visited, or it was found
  drifted exactly if it is or could not be read (`blind`); and the pin read before the
  inspection is main's.
- `CatalogProofs!CatalogIsTyped`: `Spec => []TypeOK`, with both invariants: that no offer is beyond
  the versions there are comes of the first, the types of the check of the second.
- `ApiProofs!NobodyWidened` and `BrowserIsLetIn`: `ApiSpec => []NeverWidened` and
  `ApiSpec => []BrowserKeepsWorking`. Most of it is about the operators of Access: a line
  that parses allows what it was meant to, or has no field that looks like a scope
  (`LineIsMeant`, over every way to type it), hence a bearer that is let act was meant to, or
  slipped (`AuthorisedIsMeant`); a request has the
  browser's identity exactly if it came through the proxy (`IdentityIsVouched`). The files
  have up to two lines, whatever the tokens.
- `ApiProofs!NotFoundIsTrue` and `ServedStaysServed`: `ApiSpec => []NotFoundIsKnown` and
  `ApiSpec => []OnceReadStaysServed`. `ApiInv` adds that what the mirror lacks is on record as
  lacking from main once or as torn, that past the gate the mirror was read, that
  whoever was served had such a mirror, and which requests name a service.
- `ApiProofs!OffersHaveVerdicts`: `ApiSpec => []OfferHasVerdict`. `VerdictInv` says that a
  repository with a digest has a verdict, and what a row holds after each of its
  four reads; a verdict may change between two of them but is not taken back.
- `ApiProofs!StatusPrintedIsTrue`: `ApiSpec => []StatusIsTrue`. `StatusInv` says of a service that held still that the
  mirror agrees with main from the list's own sync on, unless a sync tore its file, that the
  row has that manifest or could not read it, after the first read the image its container
  runs or a failure on record, and after the last whether its newest run is in flight.
  Others' syncs may come between: they bring the mirror what main has, or tear it.

Model-checked only: liveness, which with fairness is out of the prover's reach
(`EveryRunLeaves`, `EveryRunGetsAReceipt`, `StopDrains`, `RailsClear`, `BusyIsShown`,
`EveryLookupReturns`, `NewestIsOffered`, `GaugeSettles`).

## What is not modelled

- Configuration and its validation; parsing, validation and rendering of
  manifests, and template edits: text to text, no state. A manifest that does
  not parse is a value of its own in Catalog and Api.
- Checks that register late at GitHub (`WaitChecks` waits for some to appear): a wait
  for checks ends green, red, or with the context.
- The journal's queries `LastHealthyDigest` and `Recent` beyond the newest row, SQLite
  and its migration, git's commands, systemd's and podman's own behaviour beyond
  the success and failure of the calls made.
- The counters of the metrics, the embedded page's files, the canary image.

## Plan

Modelled and checked: ConfigRepo, Engine, Deploys, Stream with its two clients,
Revisions, Catalog with Access and Api. Proved: every safety property the passing
runs check, and the refinement of Deploys. What is left to model, most important first:

1. Template edits that a deploy carries along.
2. The journal's queries (`LastHealthyDigest`, `Recent`, `PreviousHealthyDigest`) against a
   reference definition.
3. Single check runs with their late registration.

## Running it

```
tlc -workers 2 -config MCEngine_deploys.cfg MCEngine
tlc -workers 2 -config Follower_follow.cfg Follower
tlc -workers 2 -config Page_page.cfg Page
tlc -workers 2 -config Revisions_cache.cfg Revisions
tlc -workers 2 -config Catalog_catalog.cfg Catalog
tlc -workers 2 -config Api_api.cfg Api
tlapm EngineProofs.tla
tlapm HostProofs.tla
tlapm StreamProofs.tla
tlapm FollowerProofs.tla
tlapm PageProofs.tla
tlapm RevisionsProofs.tla
tlapm CatalogProofs.tla
tlapm ApiProofs.tla
```

A configuration is named after its module and its run.

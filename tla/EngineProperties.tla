-------------------------- MODULE EngineProperties --------------------------
(***************************************************************************)
(* What the deploy engine promises, as invariants, action properties and   *)
(* liveness properties of Engine, and the claims its comments and docs     *)
(* make that the code does not keep.                                       *)
(***************************************************************************)
EXTENDS Engine

WorldTypeOK ==
    /\ mirror \in [Services -> Content] /\ synced \in BOOLEAN
    /\ unit \in [Services -> Content]
    /\ running \in [Services -> Content \cup {NoContent}]
    /\ probed \subseteq Services \X Digests

JournalTypeOK == journal \in Seq(Row) /\ Len(journal) <= MaxRuns

QueueTypeOK ==
    /\ pending \in [Services -> PendingRun \cup {NoPending}]
    /\ slot \in [Services -> Ids \cup {NoRun}]
    /\ mergeMu \in Ids \cup {NoRun}

InSpan == {"record", "checks", "merge", "update", "abandon"}

RunTypeOK ==
    /\ pc \in [Ids -> Labels]
    /\ req \in [Ids -> Request]
    /\ \A r \in Ids : pc[r] # "unused" => r \in DOMAIN journal
    /\ \A r \in Ids : pc[r] \in InSpan => req[r].pr \in DOMAIN prs
    /\ \A r \in Ids : pc[r] = "finish" => req[r].outcome \in Outcomes

DaemonTypeOK ==
    /\ click \in [Clients -> Handler \cup {NoClick}]
    /\ daemon \in {"up", "stopping", "closing", "down", "booting"}
    /\ faults \in 0 .. MaxFaults /\ stops \in 0 .. MaxStops

(* Every variable has the values its Go type and its use allow, only a     *)
(* journalled run runs, one past Open knows a pull request, and one about  *)
(* to finish knows with what.                                              *)
TypeOK ==
    /\ RepoTypeOK /\ WorldTypeOK /\ JournalTypeOK
    /\ QueueTypeOK /\ RunTypeOK /\ DaemonTypeOK

-----------------------------------------------------------------------------
(* Locking. *)

(* mergeMu serializes the span from the re-read of the manifest to the     *)
(* merge across all services (engine.go:109-116).                          *)
MergeSpanSerial ==
    \A r, q \in Ids : pc[r] \in MergeSpan /\ pc[q] \in MergeSpan => r = q

(* Two runs never write, restart or probe the same service at once         *)
(* (engine.go:740).                                                        *)
OneApplierPerService ==
    \A r, q \in Ids : /\ pc[r] \in HostSteps /\ pc[q] \in HostSteps
                      /\ Service(r) = Service(q)
                      => r = q

(* No merge of the daemon's strands a proposal another run has in flight:  *)
(* main moves underneath an open proposal only by someone's push           *)
(* (engine.go:109-115, 464-465).                                           *)
OnlyPushesMoveMain ==
    [][\A r \in Ids :
        LET n == req[r].pr IN
        /\ pc[r] \in {"record", "checks", "merge", "update"}
        /\ ~prs[n].behind /\ prs'[n].behind /\ prs'[n].state = "open"
        => edits' # edits]_vars

-----------------------------------------------------------------------------
(* The host and main. *)

(* The host never has, as unit or as container, a manifest main has not    *)
(* held: merge first, then apply (docs/architecture.md:9-13).              *)
MergeFirst ==
    \A s \in Services : {unit[s], running[s]} \subseteq landed[s] \cup {NoContent}

(* When a run is about to write healthy, the host runs its digest, whoever *)
(* else was clicked meanwhile (engine.go:372-396, 446-452).                *)
HealthyMeansRunning ==
    \A r \in Ids : /\ pc[r] = "finish" /\ req[r].outcome = "healthy"
                   => running[Service(r)].digest = req[r].new

(* When a run is about to write rolled-back, unit file and container are   *)
(* the manifest it restored, and still are after the revert's long waits   *)
(* (engine.go:609-630).                                                    *)
RolledBackMeansRestored ==
    \A r \in Ids :
        /\ pc[r] = "finish" /\ StateOf(req[r].outcome) = "rolled-back"
        => unit[Service(r)] = req[r].original /\ running[Service(r)] = req[r].original

(* A revert that lands moves main's pin to what the host runs or, where a  *)
(* push already settled the pin, not at all: "so the record keeps          *)
(* describing what runs" (engine.go:602-603).                              *)
RevertMatchesHost ==
    [][\A r \in Ids :
        /\ pc[r] = "merge" /\ Reverting(r)
        /\ main'[Service(r)].digest # main[Service(r)].digest /\ edits' = edits
        => main'[Service(r)].digest = running[Service(r)].digest]_vars

(* Every open pull request is some run's to close or merge, or a receipt   *)
(* tells the operator to look, unless that receipt could not be written    *)
(* (engine.go:433, 621-624, 769).                                          *)
OpenPRAccountedFor ==
    \A n \in DOMAIN prs : prs[n].state = "open" =>
        \E r \in DOMAIN journal :
            /\ Service(r) = prs[n].service
            /\ \/ Live(r) /\ (req[r].pr = n \/ Reverting(r))
               \/ journal[r].detail = "main still pins"
               \/ ~Live(r) /\ ~journal[r].finished

-----------------------------------------------------------------------------
(* Joining and the journal. *)

(* The run a click would join is live and of that service                  *)
(* (engine.go:229-235, 292).                                               *)
PendingIsLive ==
    \A s \in Services : pending[s] # NoPending =>
        /\ Live(pending[s].id)
        /\ Service(pending[s].id) = s

(* A registered run stays the join point for its digest until it has left: *)
(* no other run overwrites or deletes its entry (engine.go:261-266, 274).  *)
JoinPointKept ==
    [][\A s \in Services :
        pending[s] # NoPending /\ pending'[s] # pending[s]
        => pc'[pending[s].id] = "gone"]_vars

(* Once the daemon serves, every row without a receipt is a run it drives  *)
(* (main.go:223-226), failed journal writes aside.                         *)
UnfinishedIsDriven ==
    daemon \in {"up", "stopping"} =>
        \A r \in DOMAIN journal : journal[r].finished \/ Live(r)

(* A row that a graceful stop leaves without a receipt is one whose run    *)
(* did nothing, begun by a handler that outlived the server's grace: no    *)
(* pull request, nothing on the host.  The wait for the runs covers every  *)
(* other, so the next start may tell its owner to "re-run" (main.go:90-95, *)
(* 237-241, 271-279; engine.go:269).                                       *)
Untouched(r) == journal[r].state = "detected" /\ journal[r].pr = 0 /\ req[r].pr = 0
StopLeavesNoOrphan ==
    [][daemon = "closing" /\ daemon' = "down" /\ stops' = stops
       => \A r \in DOMAIN journal :
            journal[r].finished \/ Untouched(r)]_vars

-----------------------------------------------------------------------------
(* Refinement. *)

ReceiptOf(r) ==
    IF r \notin DOMAIN journal THEN "none"
    ELSE IF journal[r].finished THEN journal[r].state ELSE "open"

Promise == INSTANCE Deploys WITH
    receipt <- [r \in Ids |-> ReceiptOf(r)],
    turn <- slot,
    host <- [s \in Services |-> <<unit[s], running[s]>>]

(* Engine implements Deploys: the channel is the turn, the host changes    *)
(* only in the turn of a run whose receipt is open, and receipts are       *)
(* written once, whether by the run or by the next start.                  *)
ImplementsDeploys == Promise!Spec

-----------------------------------------------------------------------------
(* Claims of the comments and docs that some run of the code breaks.       *)

(* A proposal changes the pin and nothing else that landed meanwhile: "or  *)
(* the proposal silently reverts whatever landed in between"               *)
(* (engine.go:358-363).                                                    *)
ProposalKeepsEdits ==
    [][\A r \in Ids :
        /\ pc[r] = "merge" /\ ~Reverting(r)
        /\ main' # main /\ edits' = edits
        => main'[Service(r)].rev = main[Service(r)].rev]_vars

(* A digest gets a healthy receipt only once it passed a probe: finishing  *)
(* healthy on manifest equality "would poison LastHealthyDigest"           *)
(* (engine.go:375-378).                                                    *)
HealthyWasProbed ==
    \A r \in DOMAIN journal :
        journal[r].state = "healthy" => <<Service(r), journal[r].new>> \in probed

-----------------------------------------------------------------------------
(* Liveness. *)

(* The checks of every pull request conclude and every fetch ends, sooner  *)
(* or later.                                                               *)
NothingHangs == \A r \in Ids : []<>(pc[r] \notin Hanging)

(* Every accepted run gets its receipt, from itself or, when the daemon    *)
(* dies, from the next start, unless checks or a fetch hang                *)
(* (engine.go:269-280, main.go:223-246).                                   *)
EveryRunGetsAReceipt ==
    NothingHangs => \A r \in Ids : Live(r) ~> (Len(journal) >= r /\ journal[r].finished)

(* No run waits for a lock forever, its service's or the merge queue that  *)
(* all services share, unless checks or a fetch hang (engine.go:109-116,   *)
(* 740).                                                                   *)
EveryRunLeaves == NothingHangs => \A r \in Ids : Live(r) ~> ~Live(r)

(* A stopping daemon drains and exits, whatever its runs were waiting for: *)
(* locks, checks that never conclude, a fetch (main.go:90-95).             *)
StopDrains == Cancelled ~> daemon = "down"
=============================================================================

-------------------------------- MODULE Api --------------------------------
(***************************************************************************)
(* The HTTP API's requests (internal/api/api.go) and the CLI's use of them *)
(* (cmd/snowdeploy/main.go), against the mirror, the watcher and the world *)
(* of Catalog.  A request is judged once, on arrival (Access), and then    *)
(* reads one thing at a time while syncs, polls, pushes and runs go on.    *)
(*                                                                         *)
(* One request at a time: requests share nothing but what they read.  The  *)
(* drift loop, which no request reads, is only its syncs here; a run is    *)
(* only its journal row without a receipt, and what it changes is          *)
(* Catalog's World.                                                        *)
(***************************************************************************)
EXTENDS Catalog, Access

VARIABLES
    request,  \* the request under way, or its answer
    newest,   \* services whose newest journal row has no receipt
    older,    \* services with an older row that has none
    lacked,   \* history: services main has lacked, or had unreadable
    served    \* history: whether this daemon has shown a client its mirror

apiVars == <<request, newest, older, lacked, served>>
allVars == <<vars, apiVars>>

(* ServiceStatus, as far as it is filled in. *)
RowOf(s, manifest, seen) ==
    [service |-> s, manifest |-> manifest, running |-> Absent, latest |-> 0, poll |-> "never",
     flight |-> FALSE, seen |-> seen]
Blank(s) == RowOf(s, Absent, FALSE)
NoRow == Blank("none")
NoRequest == [at |-> "idle", ask |-> "none", service |-> "none", action |-> "no action",
              digest |-> 0, meant |-> FALSE, slipped |-> FALSE, vouched |-> FALSE,
              read |-> 0, names |-> {}, row |-> NoRow, failed |-> {}, code |-> 0]

At(label) == request.at = label
Goto(label) == request' = [request EXCEPT !.at = label]
AnswerFor(failed, code) ==
    request' = [NoRequest EXCEPT !.at = "answered", !.code = code, !.ask = request.ask,
                                 !.service = request.service, !.row = request.row,
                                 !.meant = request.meant, !.slipped = request.slipped,
                                 !.vouched = request.vouched, !.failed = failed]
Answer(code) == AnswerFor({}, code)

WorldStands == UNCHANGED <<worldVars, latest, polls, poll, driftVars, changes, restarts>>
Reading == WorldStands /\ UNCHANGED <<mirrorVars, newest, older, lacked, served>>

-----------------------------------------------------------------------------
(* identify and authedFor: 401 for nobody, 403 for somebody who may not.   *)

Judged(ask, s, action, digest) ==
    \E v \in {x \in Verdicts : x.action = action} :
        LET asked == [NoRequest EXCEPT !.ask = ask, !.service = s, !.action = action,
                                       !.digest = digest, !.meant = v.meant,
                                       !.slipped = v.slipped, !.vouched = v.vouched]
        IN request' =
            IF ~v.known THEN [asked EXCEPT !.at = "answered", !.code = 401]
            ELSE IF ~v.allowed THEN [asked EXCEPT !.at = "answered", !.code = 403]
            ELSE [asked EXCEPT !.at = IF ask = "list" THEN "list" ELSE "gate"]

(* The history is what changed since a request began. *)
Fresh == steady' = Services
ArrivalKeeps ==
    UNCHANGED <<worldVars, mirrorVars, watchVars, check, gauge, changes, faults, restarts,
                newest, older, lacked, served>>

Arrive ==
    /\ At("idle")
    /\ \/ Judged("list", "none", "no action", 0)
       \/ \E s \in Services : Judged("look", s, "no action", 0)
       \/ \E s \in Services, action \in knownActions, d \in Versions :
            Judged("click", s, action, d)
    /\ Fresh /\ ArrivalKeeps

(* The client has its answer and asks no more. *)
Leave ==
    /\ At("answered")
    /\ request' = NoRequest
    /\ Reading /\ UNCHANGED faults

-----------------------------------------------------------------------------
(* handleServices. *)

ListSkipsSync == UNCHANGED <<mirror, synced, failure, faults>>
ListSyncs == SyncSucceeds

ListSync ==
    /\ At("list")
    /\ \/ ListSyncs /\ torn' = {} /\ Goto("names")
       \/ SyncFails /\ Goto("list failed")
    /\ WorldStands /\ UNCHANGED <<newest, older, lacked, served>>

(* writeUnavailable. *)
Unavailable == Answer(IF synced THEN 502 ELSE 503)

ListFailed ==
    /\ At("list failed")
    /\ Unavailable
    /\ Reading /\ UNCHANGED faults

ListNames ==
    /\ At("names")
    /\ \/ request' = [request EXCEPT !.at = "rows", !.names = Known] /\ UNCHANGED faults
       \/ Known = {} /\ Answer(502) /\ UNCHANGED faults
       \/ Fault /\ Answer(502)
    /\ Reading

(* status reads these, in this order. *)
PollBeforeLatest == <<"running", "poll", "latest", "recent">>
statusReads == <<"running", "latest", "poll", "recent">>

(* A manifest that cannot be read leaves the row with nothing but its name. *)
Seen(s) == RowOf(s, mirror[s], TRUE)

StatusManifest ==
    /\ request.at \in {"rows", "row done"}
    /\ \E s \in request.names :
         \/ /\ Reads(s)
            /\ request' = [request EXCEPT !.names = @ \ {s}, !.at = "row", !.read = 1,
                                          !.row = Seen(s), !.failed = {}]
            /\ UNCHANGED faults
         \/ /\ ~Reads(s)
            /\ request' = [request EXCEPT !.names = @ \ {s}, !.at = "row done",
                                          !.row = Blank(s), !.failed = {}]
            /\ UNCHANGED faults
         \/ /\ Fault
            /\ request' = [request EXCEPT !.names = @ \ {s}, !.at = "row done",
                                          !.row = Blank(s), !.failed = {"manifest"}]
    /\ Reading

Filled(row) ==
    LET s == row.service
        r == row.manifest.repository
    IN CASE statusReads[request.read] = "running" -> [row EXCEPT !.running = running[s]]
         [] statusReads[request.read] = "latest" -> [row EXCEPT !.latest = latest[r]]
         [] statusReads[request.read] = "poll" -> [row EXCEPT !.poll = polls[r]]
         [] OTHER -> [row EXCEPT !.flight = s \in newest]

Then(row, failed) ==
    request' = [request EXCEPT !.row = row, !.failed = failed,
        !.at = IF request.read = Len(statusReads) THEN "row done" ELSE "row",
        !.read = IF request.read = Len(statusReads) THEN 0 ELSE @ + 1]

(* A container that cannot be inspected, or a journal that cannot be read, *)
(* leaves its part of the row blank.                                       *)
StatusRead ==
    LET what == statusReads[request.read] IN
    /\ At("row")
    /\ \/ Then(Filled(request.row), request.failed) /\ UNCHANGED faults
       \/ /\ what \in {"running", "recent"}
          /\ Fault /\ Then(request.row, request.failed \cup {what})
    /\ Reading

Listed ==
    /\ request.at \in {"rows", "row done"}
    /\ request.names = {}
    /\ Answer(200)
    /\ served' = TRUE
    /\ WorldStands /\ UNCHANGED <<mirrorVars, faults, newest, older, lacked>>

List == ListSync \/ ListFailed \/ ListNames \/ StatusManifest \/ StatusRead \/ Listed

(* What "snowdeploy status" prints of a row. *)
state(row) ==
    IF row.flight THEN "in flight"
    ELSE IF ~row.seen THEN "in sync"
    ELSE IF row.running # row.manifest THEN "DRIFTED"
    ELSE IF row.latest \notin {0, row.manifest.version} THEN "update available"
    ELSE "in sync"

(* A bare "snowdeploy deploy": latestFor, then the click.                  *)
latestFor == request.row.latest

BareDeploy ==
    /\ At("answered") /\ request.ask = "list" /\ request.code = 200
    /\ latestFor # 0
    /\ Judged("click", request.row.service, "deploy", latestFor)
    /\ Fresh /\ ArrivalKeeps

-----------------------------------------------------------------------------
(* service: readiness is settled before the lookup. *)

ReadyAlways == TRUE
Ready == synced

GateReady ==
    /\ At("gate")
    /\ IF Ready THEN Goto("lookup") ELSE Unavailable
    /\ Reading /\ UNCHANGED faults

(* Whatever keeps the manifest from being read. *)
NotFound ==
    \/ ~Reads(request.service) /\ Answer(404) /\ UNCHANGED faults
    \/ Fault /\ AnswerFor({"manifest"}, 404)

GateLookup ==
    /\ At("lookup")
    /\ \/ Reads(request.service) /\ Goto(request.ask) /\ UNCHANGED faults
       \/ NotFound
    /\ Reading

(* handleHistory answers from the journal; handleRevisions reads the       *)
(* manifest again.                                                         *)
Look ==
    /\ At("look")
    /\ \/ Answer(200) /\ served' = TRUE /\ UNCHANGED faults
       \/ Fault /\ Answer(500) /\ UNCHANGED served
       \/ NotFound /\ UNCHANGED served
    /\ WorldStands /\ UNCHANGED <<mirrorVars, newest, older, lacked>>

(* dispatch: Engine.start reads the manifest for itself, and refuses a     *)
(* deploy of the pin main has, a rollback without a target, and anything   *)
(* it cannot journal.  A click joins a run or begins one.                  *)
Refuses ==
    \/ ~Reads(request.service) /\ UNCHANGED faults
    \/ /\ Reads(request.service)
       /\ \/ request.action = "rollback" /\ UNCHANGED faults
          \/ /\ request.action = "deploy" /\ mirror[request.service].version = request.digest
             /\ UNCHANGED faults
          \/ Fault

Accepts ==
    /\ Reads(request.service)
    /\ request.action = "deploy" => mirror[request.service].version # request.digest

(* A run that begins has the newest row.  A click may also join a run, be  *)
(* it between its receipt and its last deferred call.                      *)
Begins(s) ==
    /\ newest' = newest \cup {s}
    /\ older' = older \cup (newest \cap {s})
    /\ steady' = steady \ {s}

Click ==
    /\ At("click")
    /\ \/ Refuses /\ Answer(400) /\ UNCHANGED <<newest, older, served, steady>>
       \/ /\ Accepts /\ Answer(202)
          /\ Begins(request.service) \/ UNCHANGED <<newest, older, steady>>
          /\ served' = TRUE /\ UNCHANGED faults
    /\ UNCHANGED <<worldVars, mirrorVars, watchVars, check, gauge, changes, restarts, lacked>>

-----------------------------------------------------------------------------
(* Everyone else. *)

(* Runs of a service end in any order; a row whose receipt is lost stays.  *)
RunEnds ==
    /\ \E s \in Services :
         /\ \/ s \in newest /\ newest' = newest \ {s} /\ UNCHANGED older
            \/ s \in older /\ older' = older \ {s} /\ UNCHANGED newest
         /\ steady' = steady \ {s}
    /\ UNCHANGED <<worldVars, mirrorVars, watchVars, check, gauge, changes, faults, restarts,
                   request, lacked, served>>

Lacks == {s \in Services : ~Readable(main'[s])}

Others ==
    /\ World \/ Watch \/ OthersSync
    /\ lacked' = lacked \cup Lacks
    /\ UNCHANGED <<request, newest, older, served>>

(* A restart fails the runs it finds and drops the connections. *)
Reboot ==
    /\ Restart
    /\ request' = NoRequest /\ newest' = {} /\ older' = {} /\ served' = FALSE
    /\ UNCHANGED lacked

ApiInit ==
    /\ Init
    /\ request = NoRequest /\ newest = {} /\ older = {} /\ lacked = {} /\ served = FALSE

ApiNext ==
    \/ Arrive \/ Leave \/ BareDeploy
    \/ List
    \/ GateReady \/ GateLookup \/ Look \/ Click
    \/ RunEnds \/ Others \/ Reboot

ApiSpec == ApiInit /\ [][ApiNext]_allVars

-----------------------------------------------------------------------------
(* 404 "asserts that it does not" exist.  It is answered for a service     *)
(* that main once did lack, or could not have read, for one whose file a   *)
(* failed sync tore, and when the manifest could not be read this time;    *)
(* never for want of a copy of main (api.go:500-503, 514-516, 548-550).    *)
NotFoundIsKnown ==
    At("answered") /\ request.code = 404 =>
        request.service \in lacked \cup torn \/ "manifest" \in request.failed

(* Past the gate the mirror was read, for good (gitops/repo.go:100-112):   *)
(* 503 is "a mirror that was never populated", and who was answered once   *)
(* is not told so again before a restart, whatever fails (api.go:540-543). *)
Past == {"names", "rows", "row", "row done", "lookup", "look", "click"}
OnceReadStaysServed ==
    /\ request.at \in Past => synced
    /\ At("answered") /\ request.code = 503 => ~served

(* No request gets past authorization to act unless the file was meant to  *)
(* let that token take that action, or the proxy vouched for a listed      *)
(* browser: a slip in the file denies "rather than widening"               *)
(* (auth.go:91-95, 153-160; proxy.go:71-74).  The grammar does notice      *)
(* whatever begins with "scope", and only that (auth.go:194): a token can  *)
(* do more than was meant only by a line with no such field.               *)
NeverWidened == At("gate") => request.meant \/ request.slipped

(* A browser the proxy vouches for is let in whatever the token file has   *)
(* become: the proxy path "keeps working until the operator repairs the    *)
(* file" (auth.go:94-95).                                                  *)
BrowserKeepsWorking == At("answered") /\ request.vouched => request.code \notin {401, 403}

(* A digest is offered with how its last poll went, never without: that is *)
(* "what says it might be stale" (registry.go:102-104).                    *)
OfferHasVerdict == At("row done") /\ request.row.latest # 0 => request.row.poll # "never"

(* The state printed of a service that did not change under the request,   *)
(* and whose file no failed sync tore, is its state: a run in flight       *)
(* outranks drift, drift an update (cmd/snowdeploy/main.go:157-166).  The  *)
(* run is the newest row's, whatever older one has no receipt yet, and     *)
(* each failed read prints what it leaves: "in sync" without the manifest, *)
(* drift without the container, no run without the journal.                *)
StatusIsTrue ==
    LET s == request.row.service
        shown == state(request.row)
        unread(what) == what \in request.failed
    IN At("row done") /\ s \in steady \ torn =>
        IF ~Readable(main[s]) \/ unread("manifest") THEN shown = "in sync"
        ELSE IF s \in newest /\ ~unread("recent") THEN shown = "in flight"
        ELSE IF ~InStep(s) \/ unread("running") THEN shown = "DRIFTED"
        ELSE shown \in {"in sync", "update available"}
=============================================================================

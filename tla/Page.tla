-------------------------------- MODULE Page --------------------------------
(***************************************************************************)
(* The web page (web/src/App.svelte and web/src/lib/state.ts): a store fed *)
(* by the event stream, by a poll of GET /services and by the fetches a    *)
(* terminal event sets off, whose responses arrive in any order.           *)
(***************************************************************************)
EXTENDS Stream, Bags, BagsExt

CONSTANTS
    Page,        \* the page's connection; the browser reopens it by itself
    Route,       \* the service whose page is open, or "services" for the list
    MaxFetches   \* bound on the requests under way that polling adds to

ASSUME PageAssumption ==
    Conns = {Page} /\ Route \in Services \cup {"services"} /\ MaxFetches \in Nat \ {0}

VARIABLES
    active,    \* store.active: the in-flight run each service shows
    history,   \* store.history: what the receipt list says of each run
    fetches    \* bag of requests under way, with what the server answered

pageVars == <<active, history, fetches>>
vars == <<streamVars, pageVars>>

NoRail == [run |-> NoRun, step |-> 0]
NoRow == [run |-> NoRun, step |-> 0, over |-> "no"]
NotListed == [run |-> NoRun, step |-> 0, over |-> "not listed"]

(* What GET /services and GET /services/{name}/history say of the journal. *)
(* A service main has no longer is not listed; one whose manifest cannot   *)
(* be read, or whose rows cannot, is listed without its newest row.        *)
lastDeploy(s) == {NotListed, NoRow} \cup {eventFromEntry(r) : r \in Newest(s)}
entry(r) == IF r \notin DOMAIN rows THEN "absent"
            ELSE IF rows[r].over # "no" THEN rows[r].over ELSE "in flight"

Asked(kind) == [kind |-> kind, services |-> <<>>, history |-> <<>>]

-----------------------------------------------------------------------------
(* The reducer.                                                            *)

ReceiptOfRail(ev) == active[Service(ev.run)].run
ReceiptOf(ev) == ev.run

applyEvent(ev) ==
    LET s == Service(ev.run) IN
    IF ev.over # "no"
    THEN /\ active' = [active EXCEPT ![s] = NoRail]
         /\ history' = [r \in Ids |-> IF r = ReceiptOf(ev) THEN ev.over ELSE history[r]]
    ELSE /\ active' = [active EXCEPT ![s] = [run |-> ev.run, step |-> ev.step]]
         /\ UNCHANGED history

(* The journal's newest row ends a rail that is not newer than it, and     *)
(* starts one where there is none; a service not listed loses its rail.    *)
EndsOlder(last, current) == last.over # "no" /\ last.run > current.run
Ends(last, current) == last.over # "no" /\ last.run >= current.run
StartsNone(last) == NoRail
Starts(last) == IF last.over = "no" THEN [run |-> last.run, step |-> last.step] ELSE NoRail

setServices(answer) ==
    active' = [s \in Services |->
        LET last == answer[s] IN
        IF last = NotListed THEN NoRail
        ELSE IF last = NoRow THEN active[s]
        ELSE IF active[s] = NoRail THEN Starts(last)
        ELSE IF Ends(last, active[s]) THEN NoRail ELSE active[s]]

(* The list of a service's page is replaced by what was fetched. *)
setHistory(answer) ==
    history' = [r \in Ids |->
        IF answer[r] # "absent" THEN answer[r]
        ELSE IF r \in DOMAIN rows /\ rows[r].service = Route THEN "absent"
        ELSE history[r]]

-----------------------------------------------------------------------------
reconnect ==
    /\ Accept(Page)
    /\ UNCHANGED pageVars

(* A terminal event refreshes the catalog, and the receipts of its service *)
(* when that is the page open.                                             *)
onEvent ==
    /\ wire[Page] # <<>>
    /\ LET ev == Head(wire[Page]) IN
         /\ applyEvent(ev)
         /\ fetches' = IF ev.over = "no" THEN fetches
                       ELSE fetches (+) SetToBag({Asked("services")} \cup
                                {Asked("history") : s \in {Service(ev.run)} \cap {Route}})
    /\ wire' = [wire EXCEPT ![Page] = Tail(@)]
    /\ UNCHANGED <<runVars, connVars, cuts>>

UnderWay(kind) == {f \in DOMAIN fetches : f.kind = kind}

Request(kind) ==
    /\ BagCardinality(fetches) < MaxFetches
    /\ fetches' = BagAdd(fetches, Asked(kind))
    /\ UNCHANGED <<streamVars, active, history>>

refresh == Request("services")
loadHistory == Route \in Services /\ Request("history")

(* The server reads the journal, which may be long before the page has it. *)
Answered(kind) ==
    IF kind = "services"
    THEN {[Asked(kind) EXCEPT !.services = answer] :
            answer \in {a \in [Services -> UNION {lastDeploy(s) : s \in Services}] :
                          \A s \in Services : a[s] \in lastDeploy(s)}}
    ELSE {[Asked(kind) EXCEPT !.history =
            [r \in Ids |-> IF r \in DOMAIN rows /\ rows[r].service = Route
                           THEN entry(r) ELSE "absent"]]}

Answer(kind) ==
    /\ Asked(kind) \in DOMAIN fetches
    /\ \E f \in Answered(kind) : fetches' = BagAdd(BagRemove(fetches, Asked(kind)), f)
    /\ UNCHANGED <<streamVars, active, history>>

Received(f) ==
    /\ IF f.kind = "services"
         THEN setServices(f.services) /\ UNCHANGED history
         ELSE setHistory(f.history) /\ UNCHANGED active
    /\ fetches' = BagRemove(fetches, f)
    /\ UNCHANGED streamVars

Receive(kind) == \E f \in UnderWay(kind) \ {Asked(kind)} : Received(f)

(* A failed request leaves the store as it is, but for the banner. *)
Fails ==
    /\ \E f \in DOMAIN fetches : fetches' = BagRemove(fetches, f)
    /\ UNCHANGED <<streamVars, active, history>>

-----------------------------------------------------------------------------
Init ==
    /\ StreamInit
    /\ active = [s \in Services |-> NoRail]
    /\ history = [r \in Ids |-> "absent"]
    /\ fetches = EmptyBag

Daemon ==
    \/ Runs \/ Restart
    \/ \E s \in Services : Begin(s)
    \/ Serve(Page) \/ Disconnect(Page)

Next ==
    \/ Daemon /\ UNCHANGED pageVars
    \/ reconnect \/ onEvent
    \/ refresh \/ loadHistory \/ Fails
    \/ \E kind \in {"services", "history"} : Answer(kind) \/ Receive(kind)

Spec == Init /\ [][Next]_vars

-----------------------------------------------------------------------------
(* A receipt the page lists is the journal's, whatever was in flight, was  *)
(* lost or arrived late; or it is how a run ended of which the journal     *)
(* lost a write (state.ts:149-161; engine.go:769).                         *)
ReceiptsAreTrue ==
    \A r \in Ids : history[r] \in Outcomes =>
        /\ r \in DOMAIN rows
        /\ \/ rows[r].over = history[r]
           \/ r \in lost /\ ran[r].over = history[r]

(* The poll goes on, and its answers have the service's newest row again   *)
(* and again: they arrive, the service is listed, its manifest and its     *)
(* rows can be read.                                                       *)
Tells(s) ==
    \E f \in UnderWay("services") \ {Asked("services")} :
        f.services[s] \notin {NotListed, NoRow} /\ Received(f)
PollTells(s) == []<><<Tells(s)>>_vars

(* Once every row of a service has its receipt no rail of it is shown for  *)
(* long: the poll ends what "a dropped terminal frame would otherwise      *)
(* strand" (state.ts:199-203, 214-223).                                    *)
Idle(s) == \A r \in DOMAIN rows : rows[r].service = s => rows[r].over # "no"
RailsClear ==
    \A s \in Services :
        PollTells(s) => (Idle(s) ~> (~Idle(s) \/ active[s] = NoRail))

(* And a service whose newest row stays without one does not look idle for *)
(* long: the poll puts back a rail that the terminal event of another run  *)
(* deleted, that an answer without the service deleted, or whose events    *)
(* the broker dropped (state.ts:147, 214-230).                             *)
BusyIsShown ==
    \A s \in Services :
        PollTells(s) =>
            (InFlight(s) # {} ~> (active[s] # NoRail \/ InFlight(s) = {}))
=============================================================================

------------------------------- MODULE Stream -------------------------------
(***************************************************************************)
(* The event stream (internal/api/sse.go): the transitions runs journal    *)
(* and publish, the broker that fans them out, and the handler of each     *)
(* connection, which subscribes, writes a snapshot of what is in flight    *)
(* and then whatever the broker queued.  Clients are in the modules that   *)
(* extend this one.                                                        *)
(***************************************************************************)
EXTENDS Integers, Sequences, FiniteSets

CONSTANTS
    Services,
    Conns,        \* connections to GET /events
    Buffer,       \* subscriberBuffer
    WireBound,    \* bound on frames written and not yet read
    MaxRuns,      \* bound on journalled runs
    MaxSteps,     \* bound on the transitions of a run before it is over
    MaxCuts,      \* bound on lost connections and deaths of the daemon
    MaxLost       \* bound on runs the journal loses a write of

ASSUME StreamAssumption ==
    /\ Buffer \in Nat \ {0} /\ WireBound \in Nat \ {0}
    /\ MaxRuns \in Nat /\ MaxSteps \in Nat /\ MaxCuts \in Nat /\ MaxLost \in Nat

VARIABLES
    ran,       \* what each run did: its service, transitions so far, its end
    rows,      \* the journal's row of each run
    lost,      \* runs a transition of which could not be journalled
    told,      \* whether a run's last transition has been published
    pending,   \* Engine.pending, by service
    turn,      \* who has a service's turn
    conn,      \* where each connection's handler is
    unread,    \* services whose row the snapshot has still to read
    out,       \* snapshot frames not yet written
    ch,        \* subscriber.ch
    dropped,   \* connections the broker dropped an event for
    wire,      \* frames written, not yet read by the client
    cuts

journalVars == <<rows, lost>>
runVars == <<ran, journalVars, told, pending, turn>>
connVars == <<conn, unread, out, ch, dropped>>
streamVars == <<runVars, connVars, wire, cuts>>

Ids == 1 .. MaxRuns
NoRun == 0
Outcomes == {"healthy", "failed"}

(* An event reports one transition of a run: step says which, over whether *)
(* it was the last and how it ended.                                       *)
Row == [service : Services, step : Nat, over : Outcomes \cup {"no"}]
Event == [run : Ids, step : Nat, over : Outcomes \cup {"no"}]
EventOf(r, row) == [run |-> r, step |-> row.step, over |-> row.over]
event(r) == EventOf(r, ran[r])
eventFromEntry(r) == EventOf(r, rows[r])

Service(r) == ran[r].service
Over(r) == ran[r].over # "no"

-----------------------------------------------------------------------------
(* Runs, as the stream sees them.  A transition is journalled, or that     *)
(* fails and is ignored, and it is published all the same; before its turn *)
(* a run makes two, both "detected".                                       *)
QueuedSteps == 2

Begin(s) ==
    LET row == [service |-> s, step |-> 0, over |-> "no"] IN
    /\ Len(rows) < MaxRuns
    /\ ran' = Append(ran, row) /\ rows' = Append(rows, row)
    /\ told' = Append(told, TRUE)
    /\ pending' = IF pending[s] = NoRun
                  THEN [pending EXCEPT ![s] = Len(rows) + 1] ELSE pending
    /\ UNCHANGED <<lost, turn, connVars, wire, cuts>>

TakeTurn(r) ==
    LET s == Service(r) IN
    /\ ~Over(r) /\ told[r] /\ ran[r].step = QueuedSteps
    /\ turn[s] = NoRun
    /\ turn' = [turn EXCEPT ![s] = r]
    /\ UNCHANGED <<ran, journalVars, told, pending, connVars, wire, cuts>>

Write(r, row) == rows' = [rows EXCEPT ![r] = row] /\ UNCHANGED lost
LoseWrite(r) ==
    /\ Cardinality(lost \cup {r}) <= MaxLost
    /\ lost' = lost \cup {r} /\ UNCHANGED rows

Transition(r, row) ==
    /\ ran' = [ran EXCEPT ![r] = row]
    /\ Write(r, row) \/ LoseWrite(r)
    /\ told' = [told EXCEPT ![r] = FALSE]
    /\ UNCHANGED <<pending, turn, connVars, wire, cuts>>

emit(r) ==
    /\ ~Over(r) /\ told[r]
    /\ ran[r].step < MaxSteps
    /\ ran[r].step < QueuedSteps \/ turn[Service(r)] = r
    /\ Transition(r, [ran[r] EXCEPT !.step = @ + 1])

finish(r) ==
    /\ ~Over(r) /\ told[r]
    /\ ran[r].step > 0
    /\ \E outcome \in Outcomes :
         /\ outcome = "healthy" => turn[Service(r)] = r
         /\ Transition(r, [ran[r] EXCEPT !.step = @ + 1, !.over = outcome])

(* The broker never blocks: a full channel loses the event.                *)
SubscribedLate(c) == conn[c] = "streaming"
Subscribed(c) == conn[c] \in {"snapshot", "streaming"}
BufferIgnored(c) == TRUE
Room(c) == Len(ch[c]) < Buffer

publish(r) ==
    /\ ~told[r]
    /\ told' = [told EXCEPT ![r] = TRUE]
    /\ ch' = [c \in Conns |-> IF Subscribed(c) /\ Room(c)
                              THEN Append(ch[c], event(r)) ELSE ch[c]]
    /\ dropped' = dropped \cup {c \in Conns : Subscribed(c) /\ ~Room(c)}
    /\ UNCHANGED <<ran, journalVars, pending, turn, conn, unread, out, wire, cuts>>

(* The deferred release of the turn, then of the pending entry.            *)
Leave(r) ==
    LET s == Service(r) IN
    /\ Over(r) /\ told[r]
    /\ \/ turn[s] = r /\ turn' = [turn EXCEPT ![s] = NoRun] /\ UNCHANGED pending
       \/ /\ turn[s] # r /\ pending[s] = r
          /\ pending' = [pending EXCEPT ![s] = NoRun] /\ UNCHANGED turn
    /\ UNCHANGED <<ran, journalVars, told, connVars, wire, cuts>>

-----------------------------------------------------------------------------
(* handleEvents.  The client has its response once the headers are         *)
(* flushed; subscribing comes after.                                       *)

Accept(c) ==
    /\ conn[c] = "closed" /\ wire[c] = <<>>
    /\ conn' = [conn EXCEPT ![c] = "accepted"]
    /\ UNCHANGED <<runVars, unread, out, ch, dropped, wire, cuts>>

subscribe(c) ==
    /\ conn[c] = "accepted"
    /\ conn' = [conn EXCEPT ![c] = "snapshot"]
    /\ unread' = [unread EXCEPT ![c] = Services]
    /\ UNCHANGED <<runVars, out, ch, dropped, wire, cuts>>

(* Recent(name, 1): the newest row of the service, if it has no receipt.   *)
Newest(s) == {r \in DOMAIN rows :
                /\ rows[r].service = s
                /\ \A q \in DOMAIN rows : rows[q].service = s => q <= r}
InFlight(s) == {r \in Newest(s) : rows[r].over = "no"}

(* A service is passed over when nothing of it is in flight, and when the  *)
(* mirror cannot be listed or no longer has it, or Recent fails.           *)
snapshotEvents(c) ==
    /\ conn[c] = "snapshot"
    /\ \/ \E s \in unread[c] :
            /\ unread' = [unread EXCEPT ![c] = @ \ {s}]
            /\ \/ UNCHANGED out
               \/ \E r \in InFlight(s) :
                    out' = [out EXCEPT ![c] = Append(@, eventFromEntry(r))]
            /\ UNCHANGED conn
       \/ /\ unread[c] = {}
          /\ conn' = [conn EXCEPT ![c] = "streaming"]
          /\ UNCHANGED <<unread, out>>
    /\ UNCHANGED <<runVars, ch, dropped, wire, cuts>>

writeFrame(c) ==
    /\ conn[c] = "streaming"
    /\ Len(wire[c]) < WireBound
    /\ \/ /\ out[c] # <<>>
          /\ wire' = [wire EXCEPT ![c] = Append(@, Head(out[c]))]
          /\ out' = [out EXCEPT ![c] = Tail(@)] /\ UNCHANGED ch
       \/ /\ out[c] = <<>> /\ ch[c] # <<>>
          /\ wire' = [wire EXCEPT ![c] = Append(@, Head(ch[c]))]
          /\ ch' = [ch EXCEPT ![c] = Tail(@)] /\ UNCHANGED out
    /\ UNCHANGED <<runVars, conn, unread, dropped, cuts>>

(* The handler returns and unsubscribes: its client went away, or the      *)
(* network between them did.                                               *)
Close(c) ==
    /\ conn' = [conn EXCEPT ![c] = "closed"]
    /\ unread' = [unread EXCEPT ![c] = {}]
    /\ out' = [out EXCEPT ![c] = <<>>]
    /\ ch' = [ch EXCEPT ![c] = <<>>]
    /\ dropped' = dropped \ {c}
    /\ UNCHANGED runVars

Disconnect(c) ==
    /\ conn[c] # "closed"
    /\ cuts < MaxCuts
    /\ cuts' = cuts + 1
    /\ Close(c) /\ UNCHANGED wire

(* The daemon dies and starts again: every stream ends, and the rows       *)
(* without a receipt are closed without an event.                          *)
Sealed(row) == IF row.over = "no" THEN [row EXCEPT !.step = @ + 1, !.over = "failed"] ELSE row

Restart ==
    /\ cuts < MaxCuts
    /\ cuts' = cuts + 1
    /\ rows' = [r \in DOMAIN rows |-> Sealed(rows[r])]
    /\ ran' = [r \in DOMAIN ran |-> Sealed(ran[r])]
    /\ told' = [r \in DOMAIN told |-> TRUE]
    /\ pending' = [s \in Services |-> NoRun]
    /\ turn' = [s \in Services |-> NoRun]
    /\ conn' = [c \in Conns |-> "closed"]
    /\ unread' = [c \in Conns |-> {}]
    /\ out' = [c \in Conns |-> <<>>]
    /\ ch' = [c \in Conns |-> <<>>]
    /\ dropped' = {}
    /\ UNCHANGED <<lost, wire>>

-----------------------------------------------------------------------------
StreamInit ==
    /\ ran = <<>> /\ rows = <<>> /\ told = <<>> /\ lost = {}
    /\ pending = [s \in Services |-> NoRun]
    /\ turn = [s \in Services |-> NoRun]
    /\ conn = [c \in Conns |-> "closed"]
    /\ unread = [c \in Conns |-> {}]
    /\ out = [c \in Conns |-> <<>>]
    /\ ch = [c \in Conns |-> <<>>]
    /\ dropped = {}
    /\ wire = [c \in Conns |-> <<>>]
    /\ cuts = 0

Run(r) == TakeTurn(r) \/ emit(r) \/ finish(r) \/ publish(r) \/ Leave(r)
Serve(c) == subscribe(c) \/ snapshotEvents(c) \/ writeFrame(c)

Runs == \E r \in DOMAIN rows : Run(r)

StreamTypeOK ==
    /\ rows \in Seq(Row) /\ Len(rows) <= MaxRuns
    /\ ran \in Seq(Row) /\ Len(ran) = Len(rows)
    /\ \A r \in DOMAIN rows : rows[r].service = Service(r)
    /\ lost \subseteq DOMAIN rows
    /\ told \in [DOMAIN rows -> BOOLEAN]
    /\ pending \in [Services -> {NoRun} \cup DOMAIN rows]
    /\ turn \in [Services -> {NoRun} \cup DOMAIN rows]
    /\ conn \in [Conns -> {"closed", "accepted", "snapshot", "streaming"}]
    /\ unread \in [Conns -> SUBSET Services]
    /\ \A c \in Conns : /\ out[c] \in Seq(Event) /\ ch[c] \in Seq(Event)
                        /\ wire[c] \in Seq(Event)
                        /\ Len(ch[c]) <= Buffer /\ Len(wire[c]) <= WireBound
    /\ dropped \subseteq Conns
    /\ cuts \in 0 .. MaxCuts
=============================================================================

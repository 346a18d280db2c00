------------------------------ MODULE Follower ------------------------------
(***************************************************************************)
(* The CLI's deploy, rollback and converge commands                        *)
(* (cmd/snowdeploy/main.go): open the event stream, click, and follow the  *)
(* run to its end for the exit code.  Each follower has its connection.    *)
(***************************************************************************)
EXTENDS Stream

VARIABLES
    cli,       \* where each follower is
    followed,  \* the run it was answered with
    joined,    \* whether that run was there before its click
    blind,     \* history: it clicked before its stream was subscribed
    seen,      \* history: the newest transition of each run read from a stream
    untold     \* history: runs whose state the stream's snapshot did not tell

followerVars == <<cli, followed, joined, blind, seen>>
vars == <<streamVars, followerVars, untold>>

Ended == {"exit 0", "exit 1", "no click", "no end", "timeout"}

NothingSeen == [r \in Ids |-> 0]

(* openEvents returns with the response's headers. *)
openEvents(c) ==
    /\ cli[c] = "idle"
    /\ Accept(c)
    /\ cli' = [cli EXCEPT ![c] = "open"]
    /\ UNCHANGED <<followed, joined, blind, seen>>

(* A click is answered with the pending run when it is for the same target *)
(* and starts a run otherwise.                                             *)
Follows(c, r) ==
    /\ followed' = [followed EXCEPT ![c] = r]
    /\ cli' = [cli EXCEPT ![c] = "following"]
    /\ blind' = IF Subscribed(c) THEN blind ELSE blind \cup {c}
    /\ UNCHANGED seen

startDeploy(c) ==
    /\ cli[c] = "open"
    /\ \E s \in Services :
         \/ Begin(s) /\ Follows(c, Len(rows) + 1) /\ UNCHANGED joined
         \/ /\ pending[s] # NoRun
            /\ Follows(c, pending[s])
            /\ joined' = joined \cup {c}
            /\ UNCHANGED streamVars

(* Every way out closes the stream. *)
Exits(c, code) ==
    /\ cli' = [cli EXCEPT ![c] = code]
    /\ Close(c) /\ wire' = [wire EXCEPT ![c] = <<>>]
    /\ seen' = [seen EXCEPT ![c] = NothingSeen]
    /\ UNCHANGED <<cuts, followed, joined, blind>>

(* The click is refused, or its answer is lost, and with it the run that   *)
(* the daemon may have begun for it.                                       *)
ClickFails(c) ==
    /\ cli[c] = "open"
    /\ Exits(c, "no click")

(* nextEvent passes over the frames of other runs. *)
EveryFrame(c, ev) == TRUE
Matches(c, ev) == ev.run = followed[c]
OnlyHealthy(ev) == ev.over = "healthy"
Ends(ev) == ev.over # "no"

nextEvent(c) ==
    /\ cli[c] = "following" /\ wire[c] # <<>>
    /\ LET ev == Head(wire[c]) IN
         /\ ~(Matches(c, ev) /\ Ends(ev))
         /\ seen' = [seen EXCEPT ![c][ev.run] = ev.step]
    /\ wire' = [wire EXCEPT ![c] = Tail(@)]
    /\ UNCHANGED <<runVars, connVars, cuts, cli, followed, joined, blind>>

follow(c) ==
    /\ cli[c] = "following" /\ wire[c] # <<>>
    /\ LET ev == Head(wire[c]) IN
         /\ Matches(c, ev) /\ Ends(ev)
         /\ Exits(c, IF ev.over = "healthy" THEN "exit 0" ELSE "exit 1")

(* The stream ended before a terminal state. *)
StreamEnds(c) ==
    /\ cli[c] = "following"
    /\ conn[c] = "closed" /\ wire[c] = <<>>
    /\ Exits(c, "no end")

(* The context's deadline. *)
Timeout(c) ==
    /\ cli[c] = "following"
    /\ Exits(c, "timeout")

-----------------------------------------------------------------------------
Init ==
    /\ StreamInit
    /\ cli = [c \in Conns |-> "idle"]
    /\ followed = [c \in Conns |-> NoRun]
    /\ joined = {} /\ blind = {}
    /\ seen = [c \in Conns |-> NothingSeen]
    /\ untold = [c \in Conns |-> {}]

(* A snapshot does not tell where a run is when it passes the run's        *)
(* service over or finds its row behind; the run's next event does.        *)
Missed(c) ==
    {r \in UNION {InFlight(s) : s \in unread[c] \ unread'[c]} :
        out'[c] # Append(out[c], event(r))}
Published == {r \in DOMAIN told : ~told[r] /\ told'[r]}

Telling ==
    untold' = [c \in Conns |-> IF conn'[c] = "closed" THEN {}
                               ELSE (untold[c] \cup Missed(c)) \ Published]

Command(c) ==
    \/ openEvents(c) \/ startDeploy(c) \/ ClickFails(c)
    \/ nextEvent(c) \/ follow(c) \/ StreamEnds(c) \/ Timeout(c)

Daemon ==
    \/ Runs \/ Restart
    \/ \E s \in Services : Begin(s)
    \/ \E c \in Conns : Serve(c) \/ Disconnect(c)

Next ==
    /\ \/ Daemon /\ UNCHANGED followerVars
       \/ \E c \in Conns : Command(c)
    /\ Telling

Spec == Init /\ [][Next]_vars

-----------------------------------------------------------------------------
(* Each follower is at a point of followedCommand, and following a run     *)
(* whenever it got past its click.                                         *)
TypeOK ==
    /\ StreamTypeOK
    /\ cli \in [Conns -> {"idle", "open", "following"} \cup Ended]
    /\ followed \in [Conns -> {NoRun} \cup DOMAIN rows]
    /\ \A c \in Conns : cli[c] = "following" => followed[c] # NoRun
    /\ joined \subseteq Conns /\ blind \subseteq Conns
    /\ seen \in [Conns -> [Ids -> Nat]] /\ untold \in [Conns -> SUBSET Ids]

(* Nothing of a connection is left to deliver. *)
Drained(c) == conn[c] = "streaming" /\ out[c] = <<>> /\ ch[c] = <<>> /\ wire[c] = <<>>

(* A stream that lost nothing and is drained has told its reader where the *)
(* newest run of every service is, but for a run whose row the snapshot    *)
(* could not read, or found behind, and that has not moved since: the      *)
(* subscription is live before the snapshot is read, "so a transition      *)
(* landing in between arrives as a regular frame rather than being lost"   *)
(* (sse.go:104-106, 155-164; engine.go:763).                               *)
DrainedIsCurrent ==
    \A c \in Conns :
        Drained(c) /\ c \notin dropped /\ cli[c] = "following" =>
            \A s \in Services : \A r \in InFlight(s) :
                told[r] => r \in untold[c] \/ seen[c][r] = ran[r].step

(* The exit code is 0 only when the run followed ended healthy, and has    *)
(* that receipt unless a journal write of it failed (README.md:167-169;    *)
(* engine.go:769).                                                         *)
ExitZeroIsHealthy ==
    \A c \in Conns : cli[c] = "exit 0" =>
        /\ ran[followed[c]].over = "healthy"
        /\ followed[c] \in lost \/ rows[followed[c]].over = "healthy"

(* A follower that started its run on a live stream hears how it ended,    *)
(* unless the broker dropped an event of it: no wait for a timeout         *)
(* (cmd/snowdeploy/main.go:228, client.go:213-214).                        *)
Stranded(c) ==
    /\ cli[c] = "following" /\ Drained(c) /\ c \notin dropped
    /\ Over(followed[c]) /\ told[followed[c]]
StarterHearsTheEnd ==
    \A c \in Conns : c \notin joined \cup blind => ~Stranded(c)

(* "Subscribe before starting, so no transition happens unobserved"        *)
(* (cmd/snowdeploy/main.go:228): a follower that joined nothing is not     *)
(* left waiting.                                                           *)
NoTransitionUnobserved == \A c \in Conns : c \notin joined => ~Stranded(c)
=============================================================================

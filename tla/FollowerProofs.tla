--------------------------- MODULE FollowerProofs ---------------------------
(***************************************************************************)
(* Proofs of what the CLI's followers are promised, for every number of    *)
(* services, connections, runs and losses, and every size of the broker's  *)
(* buffer.                                                                 *)
(***************************************************************************)
EXTENDS Follower, StreamProofs

(* The commands that end a follower. *)
LEMMA CommandExits ==
  ASSUME NEW c \in Conns, ClickFails(c) \/ follow(c) \/ StreamEnds(c) \/ Timeout(c)
  PROVE  /\ cli[c] \in {"open", "following"}
         /\ \E code \in Ended : Exits(c, code)
<1>1. CASE ClickFails(c) BY <1>1 DEF ClickFails, Ended
<1>2. CASE follow(c) BY <1>2 DEF follow, Ended
<1>3. CASE StreamEnds(c) BY <1>3 DEF StreamEnds, Ended
<1>4. CASE Timeout(c) BY <1>4 DEF Timeout, Ended
<1> QED BY <1>1, <1>2, <1>3, <1>4

(* A command moves the stream as a reader does. *)
LEMMA CommandMoves ==
  ASSUME NEW c \in Conns, Command(c)
  PROVE  StreamMove \/ UNCHANGED streamVars
<1>1. CASE openEvents(c) BY <1>1 DEF openEvents, StreamMove, Connection
<1>2. CASE startDeploy(c) BY <1>2 DEF startDeploy, StreamMove
<1>3. CASE nextEvent(c) BY <1>3 DEF nextEvent, StreamMove, Connection, Read
<1>4. ASSUME NEW code \in Ended, Exits(c, code) PROVE StreamMove
  BY <1>4 DEF Exits, StreamMove, Connection
<1> QED BY <1>1, <1>2, <1>3, <1>4, CommandExits DEF Command

LEMMA FollowerMoves ==
  ASSUME [Next]_vars
  PROVE  StreamMove \/ UNCHANGED streamVars
<1>1. CASE Daemon BY <1>1 DEF Daemon, StreamMove, Connection
<1>2. CASE \E c \in Conns : Command(c) BY <1>2, CommandMoves
<1>3. CASE UNCHANGED vars BY <1>3 DEF vars
<1> QED BY <1>1, <1>2, <1>3 DEF Next

-----------------------------------------------------------------------------
(* Types.                                                                  *)

FollowInv ==
    /\ cli \in [Conns -> {"idle", "open", "following"} \cup Ended]
    /\ followed \in [Conns -> {NoRun} \cup DOMAIN rows]
    /\ \A c \in Conns : cli[c] \in {"following", "exit 0"} => followed[c] # NoRun
    /\ joined \subseteq Conns /\ blind \subseteq Conns
    /\ seen \in [Conns -> [Ids -> Nat]] /\ untold \in [Conns -> SUBSET Ids]

LEMMA FollowInit == Init => FollowInv
BY DEF Init, FollowInv, NothingSeen, NoRun

(* What the stream's snapshot has not told is told by a run's next event.  *)
LEMMA ToldStays ==
  ASSUME RowsTyped, FollowInv, Telling
  PROVE  /\ untold' \in [Conns -> SUBSET Ids]
         /\ \A c \in Conns : conn'[c] # "closed" =>
              untold'[c] = (untold[c] \cup Missed(c)) \ Published
         /\ \A c \in Conns : \A r \in untold[c] :
              conn'[c] # "closed" /\ told'[r] = told[r] => r \in untold'[c]
<1>1. \A c \in Conns : Missed(c) \subseteq Ids BY RowsAre DEF Missed, InFlight, Newest
<1>2. \A c \in Conns : untold'[c] = IF conn'[c] = "closed" THEN {}
                                    ELSE (untold[c] \cup Missed(c)) \ Published
  BY DEF Telling
<1>3. untold' \in [Conns -> SUBSET Ids] BY <1>1, <1>2 DEF Telling, FollowInv
<1>4. ASSUME NEW c \in Conns, NEW r \in untold[c], conn'[c] # "closed", told'[r] = told[r]
      PROVE  r \in untold'[c]
  <2>1. r \notin Published BY <1>4 DEF Published
  <2> QED BY <1>2, <1>4, <2>1
<1> QED BY <1>2, <1>3, <1>4

LEMMA FrameRead ==
  ASSUME StreamInv, NEW c \in Conns, nextEvent(c) \/ follow(c)
  PROVE  /\ Head(wire[c]) \in Reported
         /\ Head(wire[c]).run \in DOMAIN rows /\ Head(wire[c]).run \in Ids
         /\ Head(wire[c]).step \in Nat
<1>1. wire[c] \in Seq(Reported) /\ wire[c] # <<>>
  BY DEF StreamInv, QueueInv, nextEvent, follow
<1>2. Head(wire[c]) \in Reported BY <1>1, HeadTailProperties
<1> QED BY <1>2 DEF Reported, Event

LEMMA CommandFollows ==
  ASSUME StreamInv, FollowInv, Grows, NEW c \in Conns, Command(c), Telling
  PROVE  FollowInv'
<1>1. /\ DOMAIN rows = 1 .. Len(rows) /\ Len(rows) \in Nat
      /\ DOMAIN rows \subseteq DOMAIN rows'
      /\ untold' \in [Conns -> SUBSET Ids]
  BY RowsAre, ToldStays DEF StreamInv, Grows
<1>2. CASE openEvents(c) BY <1>1, <1>2 DEF FollowInv, openEvents
<1>3. CASE startDeploy(c)
  <2>1. PICK r : Follows(c, r) /\ r \in DOMAIN rows' /\ r # NoRun /\ joined' \subseteq Conns
    <3>1. PICK s \in Services :
            \/ Begin(s) /\ Follows(c, Len(rows) + 1) /\ UNCHANGED joined
            \/ /\ pending[s] # NoRun /\ Follows(c, pending[s])
               /\ joined' = joined \cup {c} /\ UNCHANGED streamVars
      BY <1>3 DEF startDeploy
    <3>2. CASE Begin(s) /\ Follows(c, Len(rows) + 1) /\ UNCHANGED joined
      <4>1. RowsTyped' /\ Len(rows') = Len(rows) + 1 BY <3>2, BeginRows DEF StreamInv
      <4>2. DOMAIN rows' = 1 .. Len(rows) + 1 BY <4>1, LenProperties DEF RowsTyped
      <4>3. PICK r : r = Len(rows) + 1 OBVIOUS
      <4>4. Follows(c, r) /\ r \in DOMAIN rows' /\ r # NoRun BY <1>1, <3>2, <4>2, <4>3 DEF NoRun
      <4>5. joined' \subseteq Conns BY <3>2 DEF FollowInv
      <4> QED BY <4>4, <4>5
    <3>3. CASE /\ pending[s] # NoRun /\ Follows(c, pending[s])
               /\ joined' = joined \cup {c} /\ UNCHANGED streamVars
      <4>1. pending[s] \in DOMAIN rows BY <3>1, <3>3 DEF StreamInv, TurnsTyped
      <4>2. joined' \subseteq Conns BY <3>3 DEF FollowInv
      <4>3. pending[s] \in DOMAIN rows' BY <1>1, <4>1
      <4> QED BY <3>3, <4>2, <4>3
    <3> QED BY <3>1, <3>2, <3>3
  <2> QED BY <1>1, <2>1 DEF FollowInv, Follows
<1>4. CASE nextEvent(c)
  <2>1. Head(wire[c]).run \in Ids /\ Head(wire[c]).step \in Nat BY <1>4, FrameRead
  <2>2. /\ UNCHANGED <<cli, followed, joined, blind>>
        /\ seen' = [seen EXCEPT ![c][Head(wire[c]).run] = Head(wire[c]).step]
    BY <1>4 DEF nextEvent
  <2>3. seen' \in [Conns -> [Ids -> Nat]] BY <2>1, <2>2 DEF FollowInv
  <2> QED BY <1>1, <2>2, <2>3 DEF FollowInv
<1>5. ASSUME NEW code \in Ended, cli[c] = "open" => code # "exit 0",
             cli[c] \in {"open", "following"}, Exits(c, code)
      PROVE  FollowInv'
  <2>1. /\ cli' = [cli EXCEPT ![c] = code] /\ UNCHANGED <<followed, joined, blind>>
        /\ seen' = [seen EXCEPT ![c] = NothingSeen]
    BY <1>5 DEF Exits
  <2>2. seen' \in [Conns -> [Ids -> Nat]] BY <2>1 DEF FollowInv, NothingSeen
  <2>3. cli' \in [Conns -> {"idle", "open", "following"} \cup Ended]
    BY <1>5, <2>1 DEF FollowInv
  <2>4. \A d \in Conns : cli'[d] \in {"following", "exit 0"} => followed'[d] # NoRun
    <3>1. code # "following" BY <1>5 DEF Ended
    <3> QED BY <1>5, <2>1, <3>1 DEF FollowInv
  <2> QED BY <1>1, <2>1, <2>2, <2>3, <2>4 DEF FollowInv
<1>6. CASE ClickFails(c) \/ follow(c) \/ StreamEnds(c) \/ Timeout(c)
  <2>1. cli[c] = "open" => ClickFails(c) BY <1>6 DEF follow, StreamEnds, Timeout
  <2>2. CASE ClickFails(c)
    BY <1>5, <2>2 DEF ClickFails, Ended
  <2>3. CASE ~ClickFails(c) BY <1>5, <1>6, <2>1, <2>3, CommandExits
  <2> QED BY <2>2, <2>3
<1> QED BY <1>2, <1>3, <1>4, <1>6 DEF Command

LEMMA FollowNext ==
  ASSUME StreamInv, FollowInv, [Next]_vars
  PROVE  StreamInv' /\ Grows /\ FollowInv'
<1>1. StreamInv' /\ Grows BY FollowerMoves, StreamMoveKeeps, StreamRests
<1>2. CASE UNCHANGED followerVars /\ Telling
  <2>1. untold' \in [Conns -> SUBSET Ids] BY <1>2, ToldStays DEF StreamInv
  <2> QED BY <1>1, <1>2, <2>1 DEF FollowInv, followerVars, Grows
<1>3. CASE (\E c \in Conns : Command(c)) /\ Telling BY <1>1, <1>3, CommandFollows
<1>4. CASE UNCHANGED vars BY <1>1, <1>4 DEF FollowInv, vars, followerVars, Grows
<1> QED BY <1>1, <1>2, <1>3, <1>4 DEF Next

LEMMA FollowHolds == Spec => [](StreamInv /\ FollowInv)
<1>1. Init => StreamInv /\ FollowInv BY StreamInitInv, FollowInit DEF Init
<1> QED BY <1>1, FollowNext, PTL DEF Spec

(* Each follower is where its command left it and follows a run of the     *)
(* journal (cmd/snowdeploy/main.go:228-248).                               *)
THEOREM FollowerIsTyped == Spec => []TypeOK
<1>1. StreamInv /\ FollowInv => TypeOK BY StreamTyped DEF FollowInv, TypeOK
<1> QED BY <1>1, FollowHolds, PTL

-----------------------------------------------------------------------------
(* Exit codes: how a run ended does not change, nor does its receipt, and  *)
(* terminal frames agree with both, but for a row that lost a write.       *)

LEMMA ExitNext ==
  ASSUME StreamInv, FollowInv, ExitZeroIsHealthy, [Next]_vars
  PROVE  ExitZeroIsHealthy'
<1> SUFFICES ASSUME NEW c \in Conns, cli'[c] = "exit 0"
             PROVE  /\ ran'[followed'[c]].over = "healthy"
                    /\ \/ followed'[c] \in lost'
                       \/ rows'[followed'[c]].over = "healthy"
  BY DEF ExitZeroIsHealthy
<1>1. Grows BY FollowNext
<1>2. CASE cli[c] = "exit 0" /\ followed'[c] = followed[c]
  <2>1. /\ followed[c] \in DOMAIN rows /\ ran[followed[c]].over = "healthy"
        /\ followed[c] \in lost \/ rows[followed[c]].over = "healthy"
    BY <1>2 DEF FollowInv, ExitZeroIsHealthy
  <2> QED BY <1>1, <1>2, <2>1 DEF Grows, Over
<1>3. CASE follow(c)
  <2>1. Head(wire[c]) \in Reported /\ UNCHANGED <<ran, rows, lost, followed>>
    BY <1>3, FrameRead DEF follow, Exits, Close, runVars, journalVars
  <2>2. PICK code : code = IF Head(wire[c]).over = "healthy" THEN "exit 0" ELSE "exit 1"
    OBVIOUS
  <2>3. cli' = [cli EXCEPT ![c] = code] /\ Matches(c, Head(wire[c]))
    BY <1>3, <2>2 DEF follow, Exits
  <2>4. Head(wire[c]).over = "healthy" BY <2>2, <2>3 DEF FollowInv
  <2>5. followed[c] \in DOMAIN rows /\ ran[followed[c]].over = "healthy"
    BY <2>1, <2>3, <2>4 DEF Matches, Reported
  <2> QED BY <2>1, <2>5 DEF StreamInv, RowsTyped, Journalled
<1>4. ASSUME NEW d \in Conns, Command(d), ~(d = c /\ follow(c))
      PROVE  cli[c] = "exit 0" /\ followed'[c] = followed[c]
  <2>1. CASE openEvents(d) \/ startDeploy(d) \/ nextEvent(d)
    BY <2>1 DEF openEvents, startDeploy, Follows, nextEvent, FollowInv
  <2>2. ASSUME NEW code, Exits(d, code), d = c => code # "exit 0"
        PROVE  cli[c] = "exit 0" /\ followed'[c] = followed[c]
    BY <2>2 DEF Exits, FollowInv
  <2>3. CASE d # c BY <1>4, <2>1, <2>2, <2>3, CommandExits DEF Command
  <2>4. CASE d = c /\ ~follow(c)
    BY <1>4, <2>1, <2>2, <2>4 DEF Command, ClickFails, StreamEnds, Timeout
  <2> QED BY <1>4, <2>3, <2>4
<1>5. CASE UNCHANGED followerVars BY <1>2, <1>5 DEF followerVars
<1> QED BY <1>2, <1>3, <1>4, <1>5 DEF Next, vars

(* A follower exits with 0 only when the run it followed ended healthy,    *)
(* and has that receipt unless the journal lost a write of it, whatever    *)
(* was dropped, closed or restarted (README.md:167-169; engine.go:769).    *)
THEOREM ExitsAreHonest == Spec => []ExitZeroIsHealthy
<1>1. Init => ExitZeroIsHealthy BY DEF Init, ExitZeroIsHealthy
<1> QED BY <1>1, ExitNext, FollowHolds, PTL DEF Spec

-----------------------------------------------------------------------------
(* What a drained stream has told.  The last frame about a run on its way  *)
(* from the broker names its newest step; where the broker has none and    *)
(* the snapshot told where the run was, the last one of the snapshot does, *)
(* and where that has none either the last on the wire, or what the reader *)
(* saw already.                                                            *)

Up(c, r) == Subscribed(c) /\ c \notin dropped /\ told[r]
Shown(c, r) ==
    /\ LastSays(out[c], r, ran[r].step)
    /\ Silent(out[c], r) =>
         /\ LastSays(wire[c], r, ran[r].step)
         /\ Silent(wire[c], r) => seen[c][r] = ran[r].step
Snapped(c, r) ==
    /\ r \in InFlight(rows[r].service) /\ rows[r].service \notin unread[c]
    /\ r \notin untold[c]
CurrentOn(c, r) ==
    Up(c, r) => /\ LastSays(ch[c], r, ran[r].step)
                /\ Snapped(c, r) /\ Silent(ch[c], r) => Shown(c, r)

CurrentInv ==
    \A c \in Conns :
        /\ \A r \in DOMAIN rows : CurrentOn(c, r)
        /\ \A r \in Ids \ DOMAIN rows : seen[c][r] = 0

(* A run still in flight after a step was in flight before it. *)
LEMMA StillInFlight ==
  ASSUME Grows, NEW r \in DOMAIN rows, rows'[r] = rows[r],
         r \in InFlight(rows[r].service)'
  PROVE  r \in InFlight(rows[r].service)
BY DEF Grows, InFlight, Newest

(* What a step leaves a connection, when its queues and a run stay. *)
QueuesOf(c) ==
    /\ conn'[c] = conn[c] /\ unread'[c] = unread[c]
    /\ out'[c] = out[c] /\ ch'[c] = ch[c] /\ wire'[c] = wire[c]
    /\ seen'[c] = seen[c] /\ (c \in dropped <=> c \in dropped')

LEMMA CurrentStands ==
  ASSUME StreamInv, FollowInv, Telling,
         Grows, NEW c \in Conns, NEW r \in DOMAIN rows, CurrentOn(c, r),
         QueuesOf(c), rows'[r] = rows[r], ran'[r] = ran[r], told'[r] = told[r]
  PROVE  CurrentOn(c, r)'
<1> SUFFICES ASSUME Up(c, r)'
             PROVE  /\ LastSays(ch[c], r, ran[r].step)'
                    /\ Snapped(c, r)' /\ Silent(ch[c], r)' => Shown(c, r)'
  BY DEF CurrentOn
<1>1. Up(c, r) BY DEF Up, Subscribed, QueuesOf
<1>2. LastSays(ch[c], r, ran[r].step)' BY <1>1 DEF CurrentOn, LastSays, QueuesOf
<1>3. ASSUME Snapped(c, r)', Silent(ch[c], r)' PROVE Shown(c, r)'
  <2>1. Snapped(c, r)
    <3>1. conn'[c] # "closed" BY DEF Up, Subscribed
    <3>2. r \notin untold[c] BY <1>3, <3>1, ToldStays DEF Snapped, StreamInv
    <3> QED BY <1>3, <3>2, StillInFlight DEF Snapped, QueuesOf
  <2>2. Silent(ch[c], r) BY <1>3 DEF Silent, QueuesOf
  <2>3. Shown(c, r) BY <1>1, <2>1, <2>2 DEF CurrentOn
  <2> QED BY <2>3 DEF Shown, Silent, LastSays, QueuesOf
<1> QED BY <1>2, <1>3

(* A run not journalled before is on no queue and was never seen. *)
LEMMA CurrentNew ==
  ASSUME StreamInv, CurrentInv, Grows, NEW c \in Conns, QueuesOf(c),
         NEW r \in (DOMAIN rows)' \ DOMAIN rows, r \in Ids
  PROVE  CurrentOn(c, r)'
<1>1. /\ out[c] \in Seq(Reported) /\ ch[c] \in Seq(Reported) /\ wire[c] \in Seq(Reported)
  BY DEF StreamInv, QueueInv
<1>2. ASSUME NEW q \in Seq(Reported) PROVE Silent(q, r)
  <2>1. \A i \in DOMAIN q : q[i] \in Reported BY <1>2, ElementOfSeq, LenProperties
  <2> QED BY <2>1 DEF Silent, Reported
<1>3. seen[c][r] = 0 /\ ran'[r].step = 0 BY DEF CurrentInv, Grows
<1>4. Silent(out'[c], r) /\ Silent(ch'[c], r) /\ Silent(wire'[c], r)
  BY <1>1, <1>2 DEF QueuesOf
<1>5. /\ LastSays(out'[c], r, ran'[r].step) /\ LastSays(ch'[c], r, ran'[r].step)
      /\ LastSays(wire'[c], r, ran'[r].step)
  BY <1>4, SilentSays
<1>6. seen'[c][r] = ran'[r].step BY <1>3 DEF QueuesOf
<1> QED BY <1>5, <1>6 DEF CurrentOn, Shown

LEMMA CurrentInit == Init => CurrentInv
BY DEF Init, StreamInit, CurrentInv, NothingSeen

LEMMA CurrentRests ==
  ASSUME StreamInv, FollowInv, Telling, CurrentInv, UNCHANGED streamVars, UNCHANGED seen
  PROVE  CurrentInv'
<1>1. UNCHANGED <<ran, rows, lost, told, conn, unread, out, ch, dropped, wire>>
  BY DEF streamVars, runVars, journalVars, connVars
<1>2. Grows BY <1>1, RowsRest DEF StreamInv
<1>3. ASSUME NEW c \in Conns, NEW r \in DOMAIN rows PROVE CurrentOn(c, r)'
  <2>1. QueuesOf(c) BY <1>1 DEF QueuesOf
  <2>2. CurrentOn(c, r) BY <1>3 DEF CurrentInv
  <2> QED BY <1>1, <1>2, <1>3, <2>1, <2>2, CurrentStands
<1> QED BY <1>1, <1>3 DEF CurrentInv

LEMMA CurrentRuns ==
  ASSUME StreamInv, FollowInv, Telling, CurrentInv, Grows, StreamInv', UNCHANGED seen,
         \/ \E s \in Services : Begin(s)
         \/ Runs \/ Restart
  PROVE  CurrentInv'
<1> SUFFICES ASSUME NEW c \in Conns
             PROVE  /\ \A r \in (DOMAIN rows)' : CurrentOn(c, r)'
                    /\ \A r \in Ids \ (DOMAIN rows)' : seen'[c][r] = 0
  BY DEF CurrentInv
<1>1. /\ DOMAIN rows \subseteq (DOMAIN rows)' /\ (DOMAIN rows)' \subseteq Ids
      /\ RowsTyped /\ UNCHANGED seen
  <2>1. rows' \in Seq(Row) /\ Len(rows') <= MaxRuns BY DEF StreamInv, RowsTyped
  <2>2. (DOMAIN rows)' \subseteq Ids BY <2>1, LenProperties, StreamAssumption DEF Ids
  <2> QED BY <2>2 DEF Grows, StreamInv
<1>2. \A r \in Ids \ (DOMAIN rows)' : seen'[c][r] = 0 BY <1>1 DEF CurrentInv
<1>3. \A r \in DOMAIN rows : CurrentOn(c, r) BY DEF CurrentInv
<1>4. CASE Restart
  <2>1. conn'[c] = "closed" BY <1>4 DEF Restart
  <2> QED BY <1>2, <2>1 DEF CurrentOn, Up, Subscribed
<1>5. ASSUME UNCHANGED <<connVars, wire>> PROVE QueuesOf(c)
  BY <1>1, <1>5 DEF QueuesOf, connVars
<1>6. ASSUME NEW s \in Services, Begin(s) PROVE \A r \in (DOMAIN rows)' : CurrentOn(c, r)'
  <2>1. QueuesOf(c) BY <1>5, <1>6 DEF Begin
  <2>2. \A r \in DOMAIN rows : rows'[r] = rows[r] /\ ran'[r] = ran[r] /\ told'[r] = told[r]
    BY <1>1, <1>6, BeginRows
  <2>3. \A r \in DOMAIN rows : CurrentOn(c, r)' BY <1>3, <2>1, <2>2, CurrentStands
  <2>4. \A r \in (DOMAIN rows)' \ DOMAIN rows : CurrentOn(c, r)'
    BY <1>1, <2>1, CurrentNew
  <2> QED BY <2>3, <2>4
<1>7. ASSUME NEW p \in DOMAIN rows, Run(p) PROVE \A r \in (DOMAIN rows)' : CurrentOn(c, r)'
  <2> SUFFICES ASSUME NEW r \in DOMAIN rows PROVE CurrentOn(c, r)'
    BY <1>7, RunKeeps
  <2>1. CASE TakeTurn(p) \/ Leave(p)
    <3>1. QueuesOf(c) BY <1>5, <2>1 DEF TakeTurn, Leave
    <3>2. rows'[r] = rows[r] /\ ran'[r] = ran[r] /\ told'[r] = told[r]
      BY <2>1 DEF TakeTurn, Leave, journalVars
    <3> QED BY <1>3, <3>1, <3>2, CurrentStands
  <2>2. CASE emit(p) \/ finish(p)
    <3>1. QueuesOf(c) BY <1>5, <2>2 DEF emit, finish, Transition
    <3>2. Moves(p) /\ told'[p] = FALSE BY <1>1, <1>7, <2>2, EmitRows, FinishRows
    <3>3. CASE r = p BY <3>2, <3>3 DEF CurrentOn, Up
    <3>4. CASE r # p BY <1>3, <3>1, <3>2, <3>4, CurrentStands DEF Moves
    <3> QED BY <3>3, <3>4
  <2>3. CASE publish(p)
    <3>1. /\ UNCHANGED <<ran, rows, conn, unread, out, wire, seen>>
          /\ \A q \in DOMAIN rows : q # p => told'[q] = told[q]
          /\ dropped \subseteq dropped'
      BY <1>1, <1>7, <2>3, PublishRows DEF publish
    <3> SUFFICES ASSUME Up(c, r)'
                 PROVE  /\ LastSays(ch[c], r, ran[r].step)'
                        /\ Snapped(c, r)' /\ Silent(ch[c], r)' => Shown(c, r)'
      BY DEF CurrentOn
    <3>2. Subscribed(c) /\ c \notin dropped /\ c \notin dropped'
      BY <3>1 DEF Up, Subscribed
    <3>3. ch'[c] = Append(ch[c], event(p)) BY <2>3, <3>2 DEF publish
    <3>4. /\ event(p) \in Reported /\ event(p).run = p /\ event(p).step = ran[p].step
          /\ ch[c] \in Seq(Reported)
      BY <1>1, <1>7, EventReported DEF StreamInv, QueueInv
    <3>5. CASE r = p
      <4>1. LastSays(ch'[c], r, ran[r].step) BY <3>3, <3>4, <3>5, AppendSays
      <4>2. ~Silent(ch'[c], r) BY <3>3, <3>4, <3>5, AppendTells
      <4> QED BY <3>1, <4>1, <4>2
    <3>6. CASE r # p
      <4>1. Up(c, r) BY <3>1, <3>2, <3>6 DEF Up
      <4>2. LastSays(ch'[c], r, ran[r].step)
        BY <1>3, <3>3, <3>4, <3>6, <4>1, AppendSays DEF CurrentOn
      <4>3. Silent(ch'[c], r) => Silent(ch[c], r) BY <3>3, <3>4, AppendTells
      <4>4. Snapped(c, r)' => Snapped(c, r)
        <5>1. conn'[c] # "closed" /\ told'[r] = told[r] BY <3>1, <3>2, <3>6 DEF Subscribed
        <5>2. r \in untold[c] => r \in untold'[c] BY <1>1, <5>1, ToldStays
        <5> QED BY <3>1, <5>2 DEF Snapped, InFlight, Newest
      <4>5. Shown(c, r) => Shown(c, r)' BY <3>1 DEF Shown
      <4> QED BY <1>3, <3>1, <4>1, <4>2, <4>3, <4>4, <4>5 DEF CurrentOn
    <3> QED BY <3>5, <3>6
  <2> QED BY <1>7, <2>1, <2>2, <2>3 DEF Run
<1> QED BY <1>2, <1>4, <1>6, <1>7 DEF Runs

(* What a step of a connection or of its reader leaves of the others. *)
OnlyAt(c) ==
    /\ UNCHANGED <<ran, rows, lost, told>>
    /\ \A d \in Conns \ {c} : QueuesOf(d)
    /\ seen' \in [Conns -> [Ids -> Nat]]
    /\ \A r \in Ids \ DOMAIN rows : seen'[c][r] \in {0, seen[c][r]}

LEMMA CurrentAt ==
  ASSUME StreamInv, FollowInv, Telling, CurrentInv, NEW c \in Conns, OnlyAt(c),
         ASSUME NEW r \in DOMAIN rows, Up(c, r)', CurrentOn(c, r)
         PROVE  /\ LastSays(ch[c], r, ran[r].step)'
                /\ Snapped(c, r)' /\ Silent(ch[c], r)' => Shown(c, r)'
  PROVE  CurrentInv'
<1>1. Grows BY RowsRest DEF OnlyAt, StreamInv
<1>2. ASSUME NEW r \in DOMAIN rows PROVE CurrentOn(c, r)'
  <2>1. CurrentOn(c, r) BY <1>2 DEF CurrentInv
  <2> QED BY <1>2, <2>1 DEF CurrentOn
<1>3. ASSUME NEW d \in Conns \ {c}, NEW r \in DOMAIN rows PROVE CurrentOn(d, r)'
  <2>1. CurrentOn(d, r) BY <1>3 DEF CurrentInv
  <2>2. QueuesOf(d) /\ rows'[r] = rows[r] /\ ran'[r] = ran[r] /\ told'[r] = told[r]
    BY <1>3 DEF OnlyAt
  <2> QED BY <1>1, <1>3, <2>1, <2>2, CurrentStands
<1>4. \A d \in Conns : \A r \in Ids \ DOMAIN rows : seen'[d][r] = 0
  BY DEF CurrentInv, OnlyAt, QueuesOf
<1>5. UNCHANGED rows BY DEF OnlyAt
<1>6. \A d \in Conns : \A r \in DOMAIN rows : CurrentOn(d, r)' BY <1>2, <1>3
<1> QED BY <1>4, <1>5, <1>6 DEF CurrentInv

LEMMA SameSnapped ==
  ASSUME StreamInv, FollowInv, Telling, NEW c \in Conns, NEW r \in DOMAIN rows,
         UNCHANGED <<rows, told, unread>>, conn'[c] # "closed"
  PROVE  Snapped(c, r)' => Snapped(c, r)
<1>1. r \in untold[c] => r \in untold'[c] BY ToldStays DEF StreamInv
<1> QED BY <1>1 DEF Snapped, InFlight, Newest

LEMMA CurrentServes ==
  ASSUME StreamInv, FollowInv, Telling, CurrentInv, NEW c \in Conns, Serve(c), UNCHANGED seen
  PROVE  CurrentInv'
<1>1. UNCHANGED <<ran, rows, lost, told, dropped, seen>>
  BY ServeQueues DEF StreamInv, runVars, journalVars
<1>a. \A r \in DOMAIN rows : Up(c, r)' => conn'[c] # "closed" BY DEF Up, Subscribed
<1>2. /\ conn \in [Conns -> Handlers] /\ unread \in [Conns -> SUBSET Services]
      /\ out \in [Conns -> Seq(Reported)] /\ ch \in [Conns -> Seq(Reported)]
      /\ wire \in [Conns -> Seq(Reported)] /\ seen \in [Conns -> [Ids -> Nat]]
  BY DEF StreamInv, QueueInv, FollowInv
<1>3. CASE subscribe(c)
  <2>1. /\ UNCHANGED <<out, ch, wire>> /\ conn[c] = "accepted"
        /\ conn' = [conn EXCEPT ![c] = "snapshot"]
        /\ unread' = [unread EXCEPT ![c] = Services]
    BY <1>3 DEF subscribe
  <2>2. OnlyAt(c) BY <1>1, <1>2, <2>1 DEF OnlyAt, QueuesOf
  <2>3. ch[c] = <<>> BY <2>1 DEF StreamInv, QueueInv, Subscribed
  <2>4. ASSUME NEW r \in DOMAIN rows
        PROVE  LastSays(ch[c], r, ran[r].step)' /\ ~Snapped(c, r)'
    <3>1. rows[r].service \in Services BY <2>4, RowsAre DEF StreamInv
    <3>2. LastSays(ch'[c], r, ran'[r].step) BY <2>1, <2>3, EmptySays
    <3> QED BY <1>1, <1>2, <2>1, <3>1, <3>2 DEF Snapped
  <2> QED BY <2>2, <2>4, CurrentAt
<1>4. CASE snapshotEvents(c)
  <2>1. UNCHANGED <<ch, wire>> /\ conn[c] = "snapshot" BY <1>4 DEF snapshotEvents
  <2>2. CASE UNCHANGED <<unread, out>> /\ conn' = [conn EXCEPT ![c] = "streaming"]
    <3>1. OnlyAt(c) BY <1>1, <1>2, <2>1, <2>2 DEF OnlyAt, QueuesOf
    <3>2. ASSUME NEW r \in DOMAIN rows, Up(c, r)', CurrentOn(c, r)
          PROVE  /\ LastSays(ch[c], r, ran[r].step)'
                 /\ Snapped(c, r)' /\ Silent(ch[c], r)' => Shown(c, r)'
      <4>1. Up(c, r) BY <1>1, <2>1, <3>2 DEF Up, Subscribed
      <4>2. Snapped(c, r)' => Snapped(c, r) BY <1>1, <1>a, <2>2, <3>2, SameSnapped
      <4> QED BY <1>1, <2>1, <2>2, <3>2, <4>1, <4>2 DEF CurrentOn, Shown
    <3> QED BY <3>1, <3>2, CurrentAt
  <2>3. ASSUME NEW s \in unread[c], unread' = [unread EXCEPT ![c] = @ \ {s}], UNCHANGED conn,
               \/ UNCHANGED out
               \/ \E p \in InFlight(s) : out' = [out EXCEPT ![c] = Append(@, eventFromEntry(p))]
        PROVE  CurrentInv'
    <3>1. OnlyAt(c) BY <1>1, <1>2, <2>1, <2>3 DEF OnlyAt, QueuesOf
    <3>2. ASSUME NEW r \in DOMAIN rows, Up(c, r)', CurrentOn(c, r)
          PROVE  /\ LastSays(ch[c], r, ran[r].step)'
                 /\ Snapped(c, r)' /\ Silent(ch[c], r)' => Shown(c, r)'
      <4>1. Up(c, r) BY <1>1, <2>3, <3>2 DEF Up, Subscribed
      <4>2. LastSays(ch[c], r, ran[r].step)' BY <1>1, <2>1, <3>2, <4>1 DEF CurrentOn
      <4>3. InFlight(rows[r].service)' = InFlight(rows[r].service)
        BY <1>1 DEF InFlight, Newest
      <4>4. /\ untold'[c] = (untold[c] \cup Missed(c)) \ Published
            /\ r \in untold[c] => r \in untold'[c]
        BY <1>1, <1>a, <3>2, ToldStays DEF StreamInv
      <4>5. CASE rows[r].service # s \/ r \notin InFlight(s)
        <5>1. Snapped(c, r)' => Snapped(c, r)
          BY <1>1, <1>2, <2>3, <4>3, <4>4, <4>5 DEF Snapped
        <5>2. ASSUME Shown(c, r) PROVE Shown(c, r)'
          <6>1. CASE UNCHANGED out BY <1>1, <2>1, <5>2, <6>1 DEF Shown
          <6>2. ASSUME NEW p \in InFlight(s), out' = [out EXCEPT ![c] = Append(@, eventFromEntry(p))]
                PROVE  Shown(c, r)'
            <7>1. eventFromEntry(p) \in Reported /\ eventFromEntry(p).run # r
              BY <4>5, <6>2, EntryReported DEF StreamInv
            <7>2. out'[c] = Append(out[c], eventFromEntry(p)) BY <1>2, <6>2
            <7>3. out[c] \in Seq(Reported) BY <1>2
            <7>4. LastSays(out'[c], r, ran[r].step)
              BY <5>2, <7>1, <7>2, <7>3, AppendSays DEF Shown
            <7>5. Silent(out'[c], r) => Silent(out[c], r)
              BY <7>1, <7>2, <7>3, AppendTells
            <7> QED BY <1>1, <2>1, <5>2, <7>4, <7>5 DEF Shown
          <6> QED BY <2>3, <6>1, <6>2
        <5> QED BY <1>1, <2>1, <3>2, <4>1, <4>2, <5>1, <5>2 DEF CurrentOn
      <4>6. CASE rows[r].service = s /\ r \in InFlight(s)
        <5>1. CASE out'[c] = Append(out[c], event(r))
          <6>1. /\ event(r) \in Reported /\ event(r).run = r /\ event(r).step = ran[r].step
            BY EventReported DEF StreamInv
          <6>2. out[c] \in Seq(Reported) BY <1>2
          <6>3. LastSays(out'[c], r, ran[r].step) /\ ~Silent(out'[c], r)
            BY <5>1, <6>1, <6>2, AppendSays, AppendTells
          <6> QED BY <1>1, <4>2, <6>3 DEF Shown
        <5>2. CASE out'[c] # Append(out[c], event(r))
          <6>1. s \in unread[c] \ unread'[c] BY <1>2, <2>3
          <6>2. r \in Missed(c) BY <4>6, <5>2, <6>1 DEF Missed
          <6>3. r \notin Published BY <1>1 DEF Published
          <6>4. r \in untold'[c] BY <4>4, <6>2, <6>3
          <6> QED BY <4>2, <6>4 DEF Snapped
        <5> QED BY <5>1, <5>2
      <4> QED BY <4>5, <4>6
    <3> QED BY <3>1, <3>2, CurrentAt
  <2> QED BY <1>4, <2>2, <2>3 DEF snapshotEvents
<1>5. CASE writeFrame(c)
  <2>1. UNCHANGED <<conn, unread>> BY <1>5 DEF writeFrame
  <2>2. /\ out[c] \in Seq(Reported) /\ ch[c] \in Seq(Reported) /\ wire[c] \in Seq(Reported)
    BY <1>2
  <2>3. CASE /\ out[c] # <<>>
             /\ wire' = [wire EXCEPT ![c] = Append(@, Head(out[c]))]
             /\ out' = [out EXCEPT ![c] = Tail(@)] /\ UNCHANGED ch
    <3>1. OnlyAt(c) BY <1>1, <1>2, <2>1, <2>3 DEF OnlyAt, QueuesOf
    <3>2. /\ wire'[c] = Append(wire[c], Head(out[c])) /\ out'[c] = Tail(out[c])
          /\ Head(out[c]) \in Reported
      BY <1>2, <2>2, <2>3, HeadTailProperties
    <3>3. ASSUME NEW r \in DOMAIN rows, Up(c, r)', CurrentOn(c, r)
          PROVE  /\ LastSays(ch[c], r, ran[r].step)'
                 /\ Snapped(c, r)' /\ Silent(ch[c], r)' => Shown(c, r)'
      <4>1. Up(c, r) BY <1>1, <2>1, <3>3 DEF Up, Subscribed
      <4>2. Snapped(c, r)' => Snapped(c, r) BY <1>1, <1>a, <2>1, <3>3, SameSnapped
      <4>3. ASSUME Shown(c, r) PROVE Shown(c, r)'
        <5> DEFINE n == ran[r].step
        <5>1. LastSays(out[c], r, n) BY <4>3 DEF Shown
        <5>2. LastSays(out'[c], r, n) BY <2>2, <2>3, <3>2, <5>1, TailSays
        <5>3. ASSUME Silent(out'[c], r) PROVE LastSays(wire'[c], r, n)
          <6>1. CASE Head(out[c]).run = r
            <7>1. Silent(Tail(out[c]), r) BY <3>2, <5>3
            <7>2. Head(out[c]).step = n BY <2>2, <2>3, <5>1, <6>1, <7>1, HeadSays
            <7> QED BY <2>2, <3>2, <6>1, <7>2, AppendSays
          <6>2. CASE Head(out[c]).run # r
            <7>1. Silent(out[c], r) BY <2>2, <2>3, <3>2, <5>3, <6>2, TailTells
            <7>2. LastSays(wire[c], r, n) BY <4>3, <7>1 DEF Shown
            <7> QED BY <2>2, <3>2, <6>2, <7>2, AppendSays
          <6> QED BY <6>1, <6>2
        <5>4. ASSUME Silent(out'[c], r), Silent(wire'[c], r) PROVE seen[c][r] = n
          <6>1. Silent(wire[c], r) /\ Head(out[c]).run # r
            BY <2>2, <3>2, <5>4, AppendTells
          <6>2. Silent(out[c], r) BY <2>2, <2>3, <3>2, <5>4, <6>1, TailTells
          <6> QED BY <4>3, <6>1, <6>2 DEF Shown
        <5> QED BY <1>1, <5>2, <5>3, <5>4 DEF Shown
      <4> QED BY <1>1, <2>3, <3>3, <4>1, <4>2, <4>3 DEF CurrentOn
    <3> QED BY <3>1, <3>3, CurrentAt
  <2>4. CASE /\ out[c] = <<>> /\ ch[c] # <<>>
             /\ wire' = [wire EXCEPT ![c] = Append(@, Head(ch[c]))]
             /\ ch' = [ch EXCEPT ![c] = Tail(@)] /\ UNCHANGED out
    <3>1. OnlyAt(c) BY <1>1, <1>2, <2>1, <2>4 DEF OnlyAt, QueuesOf
    <3>2. /\ wire'[c] = Append(wire[c], Head(ch[c])) /\ ch'[c] = Tail(ch[c])
          /\ Head(ch[c]) \in Reported /\ out'[c] = <<>>
      BY <1>2, <2>2, <2>4, HeadTailProperties
    <3>3. ASSUME NEW r \in DOMAIN rows, Up(c, r)', CurrentOn(c, r)
          PROVE  /\ LastSays(ch[c], r, ran[r].step)'
                 /\ Snapped(c, r)' /\ Silent(ch[c], r)' => Shown(c, r)'
      <4> DEFINE n == ran[r].step
      <4>1. Up(c, r) BY <1>1, <2>1, <3>3 DEF Up, Subscribed
      <4>2. Snapped(c, r)' => Snapped(c, r) BY <1>1, <1>a, <2>1, <3>3, SameSnapped
      <4>3. LastSays(ch[c], r, n) BY <3>3, <4>1 DEF CurrentOn
      <4>4. LastSays(ch'[c], r, n) BY <2>2, <2>4, <3>2, <4>3, TailSays
      <4>5. ASSUME Snapped(c, r), Silent(ch'[c], r) PROVE Shown(c, r)'
        <5>1. LastSays(out'[c], r, n) BY <3>2, EmptySays
        <5>2. CASE Head(ch[c]).run = r
          <6>1. Head(ch[c]).step = n
            BY <2>2, <2>4, <3>2, <4>3, <4>5, <5>2, HeadSays
          <6>2. LastSays(wire'[c], r, n) BY <2>2, <3>2, <5>2, <6>1, AppendSays
          <6>3. Silent(wire'[c], r) => Head(ch[c]).run # r BY <2>2, <3>2, AppendTells
          <6> QED BY <1>1, <5>1, <5>2, <6>2, <6>3 DEF Shown
        <5>3. CASE Head(ch[c]).run # r
          <6>1. Silent(ch[c], r) BY <2>2, <2>4, <3>2, <4>5, <5>3, TailTells
          <6>2. Shown(c, r) BY <3>3, <4>1, <4>5, <6>1 DEF CurrentOn
          <6>3. Silent(out[c], r) BY <2>4, EmptySays
          <6>4. LastSays(wire[c], r, n) /\ (Silent(wire[c], r) => seen[c][r] = n)
            BY <6>2, <6>3 DEF Shown
          <6>5. LastSays(wire'[c], r, n) BY <2>2, <3>2, <5>3, <6>4, AppendSays
          <6>6. Silent(wire'[c], r) => Silent(wire[c], r) BY <2>2, <3>2, AppendTells
          <6> QED BY <1>1, <5>1, <6>4, <6>5, <6>6 DEF Shown
        <5> QED BY <5>2, <5>3
      <4> QED BY <1>1, <4>2, <4>4, <4>5
    <3> QED BY <3>1, <3>3, CurrentAt
  <2> QED BY <1>5, <2>3, <2>4 DEF writeFrame
<1> QED BY <1>3, <1>4, <1>5 DEF Serve

LEMMA CurrentReads ==
  ASSUME StreamInv, FollowInv, FollowInv', Telling, CurrentInv, NEW c \in Conns, Command(c)
  PROVE  CurrentInv'
<1>1. CASE nextEvent(c)
  <2>1. /\ UNCHANGED <<ran, rows, lost, told, conn, unread, out, ch, dropped>>
        /\ wire' = [wire EXCEPT ![c] = Tail(@)] /\ wire[c] # <<>>
        /\ seen' = [seen EXCEPT ![c][Head(wire[c]).run] = Head(wire[c]).step]
    BY <1>1 DEF nextEvent, runVars, journalVars, connVars
  <2>2. /\ wire \in [Conns -> Seq(Reported)] /\ seen \in [Conns -> [Ids -> Nat]]
        /\ seen' \in [Conns -> [Ids -> Nat]]
    BY DEF StreamInv, QueueInv, FollowInv
  <2>3. Head(wire[c]).run \in DOMAIN rows BY <1>1, FrameRead
  <2>4. wire'[c] = Tail(wire[c]) /\ wire[c] \in Seq(Reported) BY <2>1, <2>2
  <2>5. \A r \in Ids : seen'[c][r] = IF r = Head(wire[c]).run THEN Head(wire[c]).step
                                     ELSE seen[c][r]
    BY <2>1, <2>2
  <2>6. OnlyAt(c)
    <3>1. \A d \in Conns \ {c} : wire'[d] = wire[d] /\ seen'[d] = seen[d] BY <2>1, <2>2
    <3> QED BY <2>1, <2>2, <2>3, <2>5, <3>1 DEF OnlyAt, QueuesOf
  <2>7. ASSUME NEW r \in DOMAIN rows, Up(c, r)', CurrentOn(c, r)
        PROVE  /\ LastSays(ch[c], r, ran[r].step)'
               /\ Snapped(c, r)' /\ Silent(ch[c], r)' => Shown(c, r)'
    <3> DEFINE n == ran[r].step
    <3>1. Up(c, r) BY <2>1, <2>7 DEF Up, Subscribed
    <3>2. Snapped(c, r)' => Snapped(c, r)
      BY <2>1, <2>7, <3>1, SameSnapped DEF Up, Subscribed
    <3>3. ASSUME Shown(c, r) PROVE Shown(c, r)'
      <4>1. LastSays(out'[c], r, n) BY <2>1, <3>3 DEF Shown
      <4>2. ASSUME Silent(out'[c], r)
            PROVE  LastSays(wire'[c], r, n) /\ (Silent(wire'[c], r) => seen'[c][r] = n)
        <5>1. LastSays(wire[c], r, n) /\ (Silent(wire[c], r) => seen[c][r] = n)
          BY <2>1, <3>3, <4>2 DEF Shown
        <5>2. LastSays(wire'[c], r, n) BY <2>1, <2>4, <5>1, TailSays
        <5>3. ASSUME Silent(wire'[c], r) PROVE seen'[c][r] = n
          <6>1. Silent(Tail(wire[c]), r) /\ r \in Ids
            BY <2>4, <2>7, <5>3, RowsAre DEF StreamInv
          <6>2. CASE Head(wire[c]).run = r
            <7>1. Head(wire[c]).step = n BY <2>1, <2>4, <5>1, <6>1, <6>2, HeadSays
            <7> QED BY <2>5, <6>1, <6>2, <7>1
          <6>3. CASE Head(wire[c]).run # r
            <7>1. Silent(wire[c], r) BY <2>1, <2>4, <6>1, <6>3, TailTells
            <7> QED BY <2>5, <5>1, <6>1, <6>3, <7>1
          <6> QED BY <6>2, <6>3
        <5> QED BY <5>2, <5>3
      <4> QED BY <2>1, <4>1, <4>2 DEF Shown
    <3> QED BY <2>1, <2>7, <3>1, <3>2, <3>3 DEF CurrentOn
  <2> QED BY <2>6, <2>7, CurrentAt
<1>2. CASE openEvents(c)
  <2>1. /\ UNCHANGED <<ran, rows, lost, told, seen>> /\ conn'[c] = "accepted"
        /\ \A d \in Conns \ {c} : QueuesOf(d)
    BY <1>2 DEF openEvents, Accept, runVars, journalVars, QueuesOf, StreamInv, QueueInv
  <2>2. OnlyAt(c) BY <2>1 DEF OnlyAt, FollowInv
  <2>3. \A r \in DOMAIN rows : ~Up(c, r)' BY <2>1 DEF Up, Subscribed
  <2> QED BY <2>2, <2>3, CurrentAt
<1>4. ASSUME NEW code, Exits(c, code) PROVE CurrentInv'
  <2>1. /\ UNCHANGED <<ran, rows, lost, told>> /\ conn'[c] = "closed"
        /\ \A d \in Conns \ {c} : QueuesOf(d)
        /\ seen' = [seen EXCEPT ![c] = NothingSeen]
    BY <1>4 DEF Exits, Close, runVars, journalVars, QueuesOf, StreamInv, QueueInv, FollowInv
  <2>2. OnlyAt(c) BY <2>1 DEF OnlyAt, FollowInv, NothingSeen
  <2>3. \A r \in DOMAIN rows : ~Up(c, r)' BY <2>1 DEF Up, Subscribed
  <2> QED BY <2>2, <2>3, CurrentAt
<1>3. CASE startDeploy(c)
  <2>1. UNCHANGED seen BY <1>3 DEF startDeploy, Follows
  <2>2. CASE UNCHANGED streamVars BY <2>1, <2>2, CurrentRests
  <2>3. CASE \E s \in Services : Begin(s) BY <2>1, <2>3, BeginKeeps, CurrentRuns
  <2> QED BY <1>3, <2>2, <2>3 DEF startDeploy
<1> QED BY <1>1, <1>2, <1>3, <1>4, CommandExits DEF Command

LEMMA CurrentNext ==
  ASSUME StreamInv, FollowInv, CurrentInv, [Next]_vars
  PROVE  CurrentInv'
<1>1. StreamInv' /\ FollowInv' BY FollowNext
<1>2. CASE Daemon /\ UNCHANGED followerVars /\ Telling
  <2>1. UNCHANGED seen BY <1>2 DEF followerVars
  <2>2. CASE Runs \/ Restart \/ \E s \in Services : Begin(s)
    BY <1>1, <1>2, <2>1, <2>2, CurrentRuns, StreamMoveKeeps DEF StreamMove
  <2>3. ASSUME NEW c \in Conns, Serve(c) PROVE CurrentInv' BY <1>2, <2>1, <2>3, CurrentServes
  <2>4. ASSUME NEW c \in Conns, Disconnect(c) PROVE CurrentInv'
    <3>1. /\ UNCHANGED <<ran, rows, lost, told, wire>> /\ conn'[c] = "closed"
          /\ \A d \in Conns \ {c} : QueuesOf(d)
      BY <2>1, <2>4 DEF Disconnect, Close, runVars, journalVars, QueuesOf, StreamInv, QueueInv
    <3>2. OnlyAt(c) BY <1>1, <2>1, <3>1 DEF OnlyAt, FollowInv
    <3>3. \A r \in DOMAIN rows : ~Up(c, r)' BY <3>1 DEF Up, Subscribed
    <3> QED BY <1>2, <3>2, <3>3, CurrentAt
  <2> QED BY <1>2, <2>2, <2>3, <2>4 DEF Daemon
<1>3. CASE (\E c \in Conns : Command(c)) /\ Telling BY <1>1, <1>3, CurrentReads
<1>4. CASE UNCHANGED vars
  <2>1. UNCHANGED <<ran, rows, told, conn, unread, out, ch, dropped, wire, seen, untold>>
    BY <1>4 DEF vars, streamVars, runVars, journalVars, connVars, followerVars
  <2> QED
    BY <2>1 DEF CurrentInv, CurrentOn, Up, Subscribed, Shown, Snapped, InFlight, Newest,
                LastSays, Silent
<1> QED BY <1>2, <1>3, <1>4 DEF Next

(* A stream that lost nothing and is drained has told its reader where the *)
(* newest run of every service is, unless the snapshot passed it over or   *)
(* found its row behind and it has not moved since: the subscription       *)
(* precedes the snapshot, "so a transition landing in between arrives as a *)
(* regular frame rather than being lost" (sse.go:104-106, 155-164).        *)
THEOREM DrainedStreamsAreCurrent == Spec => []DrainedIsCurrent
<1>1. ASSUME StreamInv, CurrentInv PROVE DrainedIsCurrent
  <2> SUFFICES ASSUME NEW c \in Conns, Drained(c), c \notin dropped,
                      NEW s \in Services, NEW r \in InFlight(s), told[r], r \notin untold[c]
               PROVE  seen[c][r] = ran[r].step
    BY DEF DrainedIsCurrent
  <2>1. r \in DOMAIN rows /\ rows[r].service = s BY DEF InFlight, Newest
  <2>2. Up(c, r) BY DEF Up, Drained, Subscribed
  <2>3. unread[c] = {} BY <1>1 DEF Drained, StreamInv, QueueInv
  <2>4. CurrentOn(c, r) BY <1>1, <2>1 DEF CurrentInv
  <2>5. Silent(ch[c], r) /\ Silent(out[c], r) /\ Silent(wire[c], r)
    BY EmptySays DEF Drained
  <2>6. Snapped(c, r) BY <2>1, <2>3 DEF Snapped
  <2> QED BY <2>2, <2>4, <2>5, <2>6 DEF CurrentOn, Shown
<1>2. Init => CurrentInv BY CurrentInit
<1> QED BY <1>1, <1>2, CurrentNext, FollowHolds, PTL DEF Spec

-----------------------------------------------------------------------------
(* Waiting for the end.  Who started its run on a live stream has the      *)
(* terminal frame ahead of it as soon as the frame is published, unless    *)
(* the broker dropped something.                                           *)

Starter(c) == cli[c] = "following" /\ c \notin joined \cup blind
EndAhead(c, r) == EndsIn(wire[c], r) \/ EndsIn(out[c], r) \/ EndsIn(ch[c], r)
HearsOn(c) ==
    /\ conn[c] # "accepted"
    /\ Up(c, followed[c]) /\ Over(followed[c]) => EndAhead(c, followed[c])
HearInv == \A c \in Conns : Starter(c) => HearsOn(c)

LEMMA HearStands ==
  ASSUME Grows, NEW c \in Conns, HearsOn(c), followed[c] \in DOMAIN rows,
         QueuesOf(c), followed'[c] = followed[c],
         ran'[followed[c]] = ran[followed[c]], told'[followed[c]] = told[followed[c]]
  PROVE  HearsOn(c)'
<1>1. conn'[c] # "accepted" BY DEF HearsOn, QueuesOf
<1>2. (Up(c, followed[c]) /\ Over(followed[c]))' => Up(c, followed[c]) /\ Over(followed[c])
  BY DEF Up, Subscribed, Over, QueuesOf
<1>3. EndAhead(c, followed[c]) => EndAhead(c, followed[c])' BY DEF EndAhead, EndsIn, QueuesOf
<1> QED BY <1>1, <1>2, <1>3 DEF HearsOn

LEMMA HearRuns ==
  ASSUME StreamInv, NEW c \in Conns, HearsOn(c), followed[c] \in DOMAIN rows,
         followed'[c] = followed[c], seen'[c] = seen[c],
         \/ \E s \in Services : Begin(s)
         \/ Runs \/ Restart
  PROVE  HearsOn(c)'
<1>1. Grows /\ RowsTyped BY StreamMoveKeeps DEF StreamMove, StreamInv
<1> DEFINE r == followed[c]
<1>2. CASE Restart
  <2>1. conn'[c] = "closed" BY <1>2 DEF Restart
  <2> QED BY <2>1 DEF HearsOn, Up, Subscribed
<1>3. ASSUME UNCHANGED <<connVars, wire>> PROVE QueuesOf(c)
  BY <1>3 DEF QueuesOf, connVars
<1>4. ASSUME NEW s \in Services, Begin(s) PROVE HearsOn(c)'
  <2>1. QueuesOf(c) BY <1>3, <1>4 DEF Begin
  <2>2. ran'[r] = ran[r] /\ told'[r] = told[r] BY <1>1, <1>4, BeginRows
  <2> QED BY <1>1, <2>1, <2>2, HearStands
<1>5. ASSUME NEW p \in DOMAIN rows, Run(p) PROVE HearsOn(c)'
  <2>1. CASE TakeTurn(p) \/ Leave(p)
    <3>1. QueuesOf(c) BY <1>3, <2>1 DEF TakeTurn, Leave
    <3>2. rows'[r] = rows[r] /\ ran'[r] = ran[r] /\ told'[r] = told[r]
      BY <2>1 DEF TakeTurn, Leave, journalVars
    <3> QED BY <1>1, <3>1, <3>2, HearStands
  <2>2. CASE emit(p) \/ finish(p)
    <3>1. QueuesOf(c) BY <1>3, <2>2 DEF emit, finish, Transition
    <3>2. Moves(p) /\ told'[p] = FALSE BY <1>1, <1>5, <2>2, EmitRows, FinishRows
    <3>3. CASE r = p BY <3>1, <3>2, <3>3 DEF HearsOn, Up, QueuesOf
    <3>4. CASE r # p BY <1>1, <3>1, <3>2, <3>4, HearStands DEF Moves
    <3> QED BY <3>3, <3>4
  <2>3. CASE publish(p)
    <3>1. /\ UNCHANGED <<ran, conn, out, wire>>
          /\ \A q \in DOMAIN rows : q # p => told'[q] = told[q]
          /\ dropped \subseteq dropped'
      BY <1>1, <1>5, <2>3, PublishRows DEF publish
    <3> SUFFICES ASSUME Up(c, r)', Over(r)'
                 PROVE  EndAhead(c, r)'
      BY <3>1 DEF HearsOn
    <3>2. Subscribed(c) /\ c \notin dropped /\ c \notin dropped'
      BY <3>1 DEF Up, Subscribed
    <3>3. ch'[c] = Append(ch[c], event(p)) BY <2>3, <3>2 DEF publish
    <3>4. /\ event(p) \in Reported /\ event(p).run = p /\ event(p).over = ran[p].over
          /\ ch[c] \in Seq(Reported)
      BY <1>1, <1>5, EventReported DEF StreamInv, QueueInv
    <3>5. CASE r = p
      <4>1. event(p).over # "no" BY <3>1, <3>4, <3>5 DEF Over
      <4>2. EndsIn(ch'[c], r) BY <3>3, <3>4, <3>5, <4>1, AppendTells
      <4> QED BY <4>2 DEF EndAhead
    <3>6. CASE r # p
      <4>1. Up(c, r) /\ Over(r) BY <3>1, <3>2, <3>6 DEF Up, Over
      <4>2. EndAhead(c, r) BY <4>1 DEF HearsOn
      <4>3. EndsIn(ch[c], r) => EndsIn(ch'[c], r) BY <3>3, <3>4, AppendTells
      <4> QED BY <3>1, <4>2, <4>3 DEF EndAhead
    <3> QED BY <3>5, <3>6
  <2> QED BY <1>5, <2>1, <2>2, <2>3 DEF Run
<1> QED BY <1>2, <1>4, <1>5 DEF Runs

LEMMA HearServes ==
  ASSUME StreamInv, NEW c \in Conns, HearsOn(c), NEW d \in Conns, Serve(d),
         followed'[c] = followed[c], seen'[c] = seen[c]
  PROVE  HearsOn(c)'
<1>1. UNCHANGED <<ran, rows, told, dropped>>
  BY ServeQueues DEF StreamInv, runVars, journalVars
<1>2. /\ conn \in [Conns -> Handlers] /\ out[c] \in Seq(Reported)
      /\ ch[c] \in Seq(Reported) /\ wire[c] \in Seq(Reported)
      /\ c \in DOMAIN out /\ c \in DOMAIN ch /\ c \in DOMAIN wire
  BY DEF StreamInv, QueueInv
<1>3. ~subscribe(c) BY DEF HearsOn, subscribe
<1>4. conn'[c] # "accepted" /\ (Up(c, followed[c])' => Up(c, followed[c]))
  <2>1. CASE subscribe(d) BY <1>1, <1>3, <2>1 DEF subscribe, HearsOn, Up, Subscribed
  <2>2. CASE snapshotEvents(d)
    BY <1>1, <1>2, <2>2 DEF snapshotEvents, HearsOn, Up, Subscribed
  <2>3. CASE writeFrame(d) BY <1>1, <2>3 DEF writeFrame, HearsOn, Up, Subscribed
  <2> QED BY <2>1, <2>2, <2>3 DEF Serve
<1>5. EndAhead(c, followed[c]) => EndAhead(c, followed[c])'
  <2> DEFINE r == followed[c]
  <2>1. CASE subscribe(d) BY <1>1, <2>1 DEF subscribe, EndAhead
  <2>2. CASE snapshotEvents(d)
    <3>1. UNCHANGED <<ch, wire>> BY <2>2 DEF snapshotEvents
    <3>2. CASE out'[c] = out[c] BY <3>1, <3>2 DEF EndAhead
    <3>3. ASSUME NEW s, NEW p \in InFlight(s), out'[c] = Append(out[c], eventFromEntry(p))
          PROVE  EndsIn(out[c], r) => EndsIn(out'[c], r)
      <4>1. eventFromEntry(p) \in Reported BY <3>3, EntryReported DEF StreamInv
      <4> QED BY <1>2, <3>3, <4>1, AppendTells
    <3>4. \/ out'[c] = out[c]
          \/ \E s : \E p \in InFlight(s) : out'[c] = Append(out[c], eventFromEntry(p))
      BY <1>2, <2>2 DEF snapshotEvents
    <3> QED BY <3>1, <3>2, <3>3, <3>4 DEF EndAhead
  <2>3. CASE writeFrame(d)
    <3>1. CASE /\ out[d] # <<>>
               /\ wire' = [wire EXCEPT ![d] = Append(@, Head(out[d]))]
               /\ out' = [out EXCEPT ![d] = Tail(@)] /\ UNCHANGED ch
      <4>1. CASE d = c
        <5>1. /\ wire'[c] = Append(wire[c], Head(out[c])) /\ out'[c] = Tail(out[c])
              /\ Head(out[c]) \in Reported
          BY <1>2, <3>1, <4>1, HeadTailProperties
        <5>2. EndsIn(wire[c], r) => EndsIn(wire'[c], r) BY <1>2, <5>1, AppendTells
        <5>3. EndsIn(out[c], r) => EndsIn(out'[c], r) \/ EndsIn(wire'[c], r)
          BY <1>2, <3>1, <4>1, <5>1, AppendTells, TailTells
        <5> QED BY <1>1, <3>1, <5>2, <5>3 DEF EndAhead
      <4>2. CASE d # c BY <1>1, <3>1, <4>2 DEF EndAhead
      <4> QED BY <4>1, <4>2
    <3>2. CASE /\ out[d] = <<>> /\ ch[d] # <<>>
               /\ wire' = [wire EXCEPT ![d] = Append(@, Head(ch[d]))]
               /\ ch' = [ch EXCEPT ![d] = Tail(@)] /\ UNCHANGED out
      <4>1. CASE d = c
        <5>1. /\ wire'[c] = Append(wire[c], Head(ch[c])) /\ ch'[c] = Tail(ch[c])
              /\ Head(ch[c]) \in Reported
          BY <1>2, <3>2, <4>1, HeadTailProperties
        <5>2. EndsIn(wire[c], r) => EndsIn(wire'[c], r) BY <1>2, <5>1, AppendTells
        <5>3. EndsIn(ch[c], r) => EndsIn(ch'[c], r) \/ EndsIn(wire'[c], r)
          BY <1>2, <3>2, <4>1, <5>1, AppendTells, TailTells
        <5> QED BY <1>1, <3>2, <5>2, <5>3 DEF EndAhead
      <4>2. CASE d # c BY <1>1, <3>2, <4>2 DEF EndAhead
      <4> QED BY <4>1, <4>2
    <3> QED BY <2>3, <3>1, <3>2 DEF writeFrame
  <2> QED BY <2>1, <2>2, <2>3 DEF Serve
<1> QED BY <1>1, <1>4, <1>5 DEF HearsOn, Over

LEMMA HearRests ==
  ASSUME NEW c \in Conns, HearsOn(c), UNCHANGED streamVars,
         followed'[c] = followed[c]
  PROVE  HearsOn(c)'
BY DEF streamVars, runVars, connVars, HearsOn, Up, Subscribed, Over, EndAhead, EndsIn

(* The click: whoever starts a run unsubscribed is blind, and a run just   *)
(* begun is not over.                                                      *)
LEMMA HearStarts ==
  ASSUME StreamInv, FollowInv, NEW c \in Conns, startDeploy(c), Starter(c)'
  PROVE  HearsOn(c)'
<1>1. c \notin joined' /\ c \notin blind' BY DEF Starter
<1>2. PICK s \in Services : Begin(s) /\ Follows(c, Len(rows) + 1)
  BY <1>1 DEF startDeploy
<1>3. Subscribed(c) BY <1>1, <1>2 DEF Follows
<1>4. conn'[c] # "accepted" BY <1>2, <1>3 DEF Begin, connVars, Subscribed
<1>5. followed'[c] = Len(rows) + 1 BY <1>2 DEF Follows, FollowInv
<1>6. ran'[Len(rows) + 1].over = "no"
  <2>1. Grows /\ RowsTyped' /\ Len(rows') = Len(rows) + 1
    BY <1>2, BeginRows DEF StreamInv
  <2>2. DOMAIN rows' = 1 .. Len(rows') /\ DOMAIN rows = 1 .. Len(rows) /\ Len(rows) \in Nat
    BY <2>1, LenProperties DEF StreamInv, RowsTyped
  <2>3. Len(rows) + 1 \in DOMAIN rows' \ DOMAIN rows BY <2>1, <2>2
  <2> QED BY <2>1, <2>3 DEF Grows
<1> QED BY <1>4, <1>5, <1>6 DEF HearsOn, Over

LEMMA HearReads ==
  ASSUME StreamInv, FollowInv, NEW c \in Conns, nextEvent(c), HearsOn(c)
  PROVE  HearsOn(c)'
<1> DEFINE r == followed[c]
<1>1. /\ UNCHANGED <<ran, told, conn, unread, out, ch, dropped, followed>>
      /\ wire' = [wire EXCEPT ![c] = Tail(@)] /\ wire[c] # <<>>
  BY DEF nextEvent, runVars, connVars
<1>2. wire[c] \in Seq(Reported) /\ wire'[c] = Tail(wire[c])
  BY <1>1 DEF StreamInv, QueueInv
<1>3. ~(Head(wire[c]).run = r /\ Head(wire[c]).over # "no")
  BY DEF nextEvent, Matches, Ends
<1>4. EndsIn(wire[c], r) => EndsIn(wire'[c], r) BY <1>1, <1>2, <1>3, TailTells
<1> QED BY <1>1, <1>4 DEF HearsOn, Up, Subscribed, Over, EndAhead

LEMMA HearNext ==
  ASSUME StreamInv, FollowInv, HearInv, [Next]_vars
  PROVE  HearInv'
<1> SUFFICES ASSUME NEW c \in Conns, Starter(c)' PROVE HearsOn(c)'
  BY DEF HearInv
<1>1. Starter(c) => HearsOn(c) /\ followed[c] \in DOMAIN rows
  BY DEF HearInv, Starter, FollowInv
<1>2. Grows BY FollowNext
<1>3. ASSUME NEW d \in Conns \ {c}, UNCHANGED <<ran, told>>, QueuesOf(c), Starter(c),
             followed'[c] = followed[c]
      PROVE  HearsOn(c)'
  BY <1>1, <1>2, <1>3, HearStands
<1>4. CASE Daemon /\ UNCHANGED followerVars
  <2>1. Starter(c) /\ followed'[c] = followed[c] /\ seen'[c] = seen[c]
    BY <1>4 DEF followerVars, Starter
  <2>2. CASE Runs \/ Restart \/ \E s \in Services : Begin(s)
    BY <1>1, <2>1, <2>2, HearRuns
  <2>3. ASSUME NEW d \in Conns, Serve(d) PROVE HearsOn(c)'
    BY <1>1, <2>1, <2>3, HearServes
  <2>4. ASSUME NEW d \in Conns, Disconnect(d) PROVE HearsOn(c)'
    <3>1. CASE d = c
      <4>1. conn'[c] = "closed" BY <2>4, <3>1 DEF Disconnect, Close, StreamInv, QueueInv
      <4> QED BY <4>1 DEF HearsOn, Up, Subscribed
    <3>2. CASE d # c
      <4>1. UNCHANGED <<ran, told>> /\ QueuesOf(c)
        BY <2>1, <2>4, <3>2 DEF Disconnect, Close, runVars, QueuesOf, StreamInv, QueueInv
      <4> QED BY <1>3, <2>1, <3>2, <4>1
    <3> QED BY <3>1, <3>2
  <2> QED BY <1>4, <2>2, <2>3, <2>4 DEF Daemon
<1>5. CASE Command(c)
  <2>1. cli \in [Conns -> {"idle", "open", "following"} \cup Ended] /\ cli'[c] = "following"
    BY DEF FollowInv, Starter
  <2>2. startDeploy(c) \/ nextEvent(c)
    <3>1. ~openEvents(c) BY <2>1 DEF openEvents
    <3>2. \A code \in Ended : ~Exits(c, code) BY <2>1 DEF Exits, Ended
    <3> QED BY <1>5, <3>1, <3>2, CommandExits DEF Command
  <2>3. CASE nextEvent(c)
    <3>1. Starter(c) BY <2>3 DEF nextEvent, Starter
    <3> QED BY <1>1, <2>3, <3>1, HearReads
  <2> QED BY <2>2, <2>3, HearStarts
<1>6. ASSUME NEW d \in Conns \ {c}, Command(d) PROVE HearsOn(c)'
  <2>1. CASE startDeploy(d)
    <3>1. Starter(c) /\ followed'[c] = followed[c] /\ seen'[c] = seen[c]
      BY <1>6, <2>1 DEF startDeploy, Follows, Starter, FollowInv
    <3>2. CASE UNCHANGED streamVars BY <1>1, <3>1, <3>2, HearRests
    <3>3. CASE \E s \in Services : Begin(s) BY <1>1, <3>1, <3>3, HearRuns
    <3> QED BY <2>1, <3>2, <3>3 DEF startDeploy
  <2>2. ASSUME NEW code, Exits(d, code) PROVE HearsOn(c)'
    <3>1. Starter(c) /\ followed'[c] = followed[c] /\ UNCHANGED <<ran, told>>
      BY <1>6, <2>2 DEF Exits, Close, runVars, Starter, FollowInv
    <3>2. QueuesOf(c)
      BY <1>6, <2>2 DEF Exits, Close, QueuesOf, StreamInv, QueueInv, FollowInv
    <3> QED BY <1>3, <1>6, <3>1, <3>2
  <2>3. CASE openEvents(d)
    <3>1. Starter(c) /\ followed'[c] = followed[c] /\ UNCHANGED <<ran, told>>
      BY <1>6, <2>3 DEF openEvents, Accept, runVars, Starter, FollowInv
    <3>2. QueuesOf(c) BY <1>6, <2>3 DEF openEvents, Accept, QueuesOf, StreamInv, QueueInv
    <3> QED BY <1>3, <1>6, <3>1, <3>2
  <2>4. CASE nextEvent(d)
    <3>1. Starter(c) /\ followed'[c] = followed[c] /\ UNCHANGED <<ran, told>>
      BY <1>6, <2>4 DEF nextEvent, runVars, Starter, FollowInv
    <3>2. QueuesOf(c)
      BY <1>6, <2>4 DEF nextEvent, connVars, QueuesOf, StreamInv, QueueInv, FollowInv
    <3> QED BY <1>3, <1>6, <3>1, <3>2
  <2> QED BY <1>6, <2>1, <2>2, <2>3, <2>4, CommandExits DEF Command
<1>7. CASE UNCHANGED vars
  <2>1. Starter(c) /\ followed'[c] = followed[c] /\ UNCHANGED streamVars
    BY <1>7 DEF vars, followerVars, Starter
  <2> QED BY <1>1, <2>1, HearRests
<1> QED BY <1>4, <1>5, <1>6, <1>7 DEF Next

(* A follower that began its run after its stream was subscribed is never  *)
(* left on a drained stream that lost nothing after its run ended          *)
(* (cmd/snowdeploy/main.go:228, client.go:213-214).                        *)
THEOREM StartersHearTheEnd == Spec => []StarterHearsTheEnd
<1>1. ASSUME StreamInv, HearInv PROVE StarterHearsTheEnd
  <2> SUFFICES ASSUME NEW c \in Conns, c \notin joined \cup blind, Stranded(c) PROVE FALSE
    BY DEF StarterHearsTheEnd
  <2>1. HearsOn(c) BY <1>1 DEF HearInv, Starter, Stranded
  <2>2. Up(c, followed[c]) /\ Over(followed[c]) BY DEF Up, Subscribed, Stranded, Drained
  <2>3. EndAhead(c, followed[c]) BY <2>1, <2>2 DEF HearsOn
  <2> QED BY <2>3, EmptySays DEF EndAhead, Stranded, Drained
<1>2. Init => HearInv BY DEF Init, HearInv, Starter
<1> QED BY <1>1, <1>2, HearNext, FollowHolds, PTL DEF Spec
=============================================================================

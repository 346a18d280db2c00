---------------------------- MODULE HostProofs ------------------------------
(***************************************************************************)
(* Proofs, for every value of the constants, of what Engine does to the    *)
(* host and to main: nothing runs that was not merged first, a receipt     *)
(* about to be written is true of the host, a revert puts main back to     *)
(* what runs, no merge of the daemon's strands another's proposal, and an  *)
(* open proposal is accounted for.                                         *)
(***************************************************************************)
EXTENDS EngineProofs

-----------------------------------------------------------------------------
(* What a step of a run makes of its request, as far as the host is        *)
(* concerned: it keeps it, ends it, turns to the manifest the mirror has   *)
(* or back to the one before, or rewrites the request at the front.        *)

Undoing == {"merge queue", "open", "checks", "merge", "update"}

SameRequest(r) ==
    /\ req'[r].new = req[r].new /\ req'[r].mode = req[r].mode
    /\ req'[r].original = req[r].original /\ req'[r].content = req[r].content

Keeps(r) ==
    /\ SameRequest(r)
    /\ pc'[r] # "finish"
    /\ pc'[r] \in HostSteps =>
         \/ WriteUnit(r) /\ unit' = [unit EXCEPT ![Service(r)] = req[r].content]
                         /\ pc'[r] = "restart"
         \/ ReloadAndRestart(r) /\ running' = [running EXCEPT ![Service(r)] = unit[Service(r)]]
                                /\ pc'[r] = "probe"
    /\ pc[r] \in HostSteps => pc'[r] \in HostSteps
    /\ req[r].mode = "revert" /\ pc[r] \in Undoing => pc'[r] \in Undoing

Ends(r) ==
    /\ SameRequest(r)
    /\ pc'[r] = "finish"
    /\ req'[r].outcome = "healthy" =>
         \/ pc[r] = "inspect" /\ Runs(r)
         \/ pc[r] = "probe" /\ req[r].mode = "apply"
    /\ StateOf(req'[r].outcome) = "rolled-back" => req[r].mode = "revert"

TurnsBack(r) ==
    /\ pc[r] \in {"apply sync", "apply read"} \cup HostSteps
    /\ pc'[r] = "write"
    /\ req'[r].new = req[r].new /\ req'[r].mode = "restore"
    /\ req'[r].original = req[r].original /\ req'[r].content = req[r].original

TakesPin(r) ==
    /\ pc[r] \in {"converge read", "apply read"} /\ pc'[r] = "write"
    /\ req'[r].mode = req[r].mode /\ req'[r].original = req[r].original
    /\ req'[r].content = mirror[Service(r)] /\ req'[r].content.digest = req'[r].new

Rewrites(r) ==
    /\ pc[r] = "front" /\ pc'[r] = "open"
    /\ req'[r].new = req[r].new /\ req'[r].mode = req[r].mode
    /\ req'[r].original = mirror[Service(r)]

TurnsToMain(r) ==
    /\ pc[r] = "probe" /\ req[r].mode = "restore"
    /\ pc'[r] = "merge queue" /\ req'[r].mode = "revert"
    /\ req'[r].new = req[r].new
    /\ req'[r].original = req[r].original /\ req'[r].content = req[r].content

HostMove(r) ==
    \/ Keeps(r) \/ Ends(r) \/ TurnsBack(r) \/ TakesPin(r) \/ Rewrites(r)
    \/ TurnsToMain(r) \/ pc'[r] \in Quiet

LEMMA EndingIs ==
  /\ StateOf("healthy") = "healthy" /\ StateOf("failed") = "failed"
  /\ StateOf("restore failed") = "failed"
  /\ StateOf("main reverted") = "rolled-back"
  /\ StateOf("main still pins") = "rolled-back"
BY DEF StateOf

LEMMA GoesOnWith ==
  ASSUME pc \in [Ids -> Labels], NEW r \in Ids, NEW label, Goto(r, label), UNCHANGED req
  PROVE  SameRequest(r) /\ pc'[r] = label
BY DEF Goto, SameRequest

LEMMA EndsWith ==
  ASSUME req \in [Ids -> Request], pc \in [Ids -> Labels], NEW r \in Ids, NEW o,
         EndWith(r, o)
  PROVE  SameRequest(r) /\ pc'[r] = "finish" /\ req'[r].outcome = o
<1>1. req[r] \in Request /\ req'[r] = [req[r] EXCEPT !.outcome = o] BY DEF EndWith
<1>2. pc'[r] = "finish" BY DEF EndWith, Goto
<1> QED BY <1>1, <1>2 DEF Request, SameRequest

LEMMA EndsFailed ==
  ASSUME req \in [Ids -> Request], pc \in [Ids -> Labels], NEW r \in Ids,
         NEW o \in {"failed", "restore failed"}, EndWith(r, o)
  PROVE  Ends(r)
BY EndsWith, EndingIs DEF Ends

LEMMA RollBackTurnsBack ==
  ASSUME req \in [Ids -> Request], pc \in [Ids -> Labels], NEW r \in Ids, RollBack(r),
         pc[r] \in {"apply sync", "apply read"} \cup HostSteps
  PROVE  TurnsBack(r)
<1>1. /\ req[r] \in Request
      /\ req'[r] = [req[r] EXCEPT !.mode = "restore", !.content = req[r].original]
  BY DEF RollBack, Previous
<1>2. pc'[r] = "write" BY DEF RollBack, Goto
<1> QED BY <1>1, <1>2 DEF Request, TurnsBack

LEMMA RevertAgainKeeps ==
  ASSUME req \in [Ids -> Request], pc \in [Ids -> Labels], NEW r \in Ids, RevertAgain(r),
         pc[r] \notin HostSteps
  PROVE  Keeps(r)
<1>1. /\ req[r] \in Request
      /\ req'[r] = [req[r] EXCEPT !.undo = req[r].undo + 1, !.attempt = 1, !.pr = 0]
  BY DEF RevertAgain
<1>2. pc'[r] = "merge queue" BY DEF RevertAgain, Goto
<1>3. SameRequest(r) BY <1>1 DEF Request, SameRequest
<1> QED BY <1>2, <1>3 DEF Keeps, HostSteps, Undoing

LEMMA RevertFails ==
  ASSUME req \in [Ids -> Request], pc \in [Ids -> Labels], NEW r \in Ids,
         OpenFails(r) \/ SpanFails(r), pc[r] \notin HostSteps
  PROVE  Keeps(r) \/ Ends(r)
<1>1. CASE EndWith(r, "failed") BY <1>1, EndsFailed
<1>2. CASE ~Reverting(r) /\ Goto(r, "abandon") /\ UNCHANGED req
  BY <1>2, GoesOnWith DEF Keeps, Reverting, HostSteps
<1>3. CASE RevertAgain(r) BY <1>3, RevertAgainKeeps
<1>4. CASE Reverting(r) /\ RevertOver(r)
  BY <1>4, EndsWith, EndingIs DEF RevertOver, Ends, Reverting
<1> QED BY <1>1, <1>2, <1>3, <1>4 DEF OpenFails, SpanFails

LEMMA ApplyFailsTurnsBack ==
  ASSUME req \in [Ids -> Request], pc \in [Ids -> Labels], NEW r \in Ids, ApplyFails(r),
         pc[r] \in HostSteps
  PROVE  Ends(r) \/ TurnsBack(r)
BY EndsFailed, RollBackTurnsBack DEF ApplyFails

LEMMA RunIsHostMove ==
  ASSUME TypeOK, NEW r \in Ids, Run(r)
  PROVE  HostMove(r)
<1>1. req \in [Ids -> Request] /\ pc \in [Ids -> Labels] /\ req[r] \in Request
  BY DEF TypeOK, RunTypeOK
<1> USE DEF HostMove
<1>2. ASSUME NEW label \in Labels \ (HostSteps \cup {"finish"}), Goto(r, label),
             UNCHANGED req, pc[r] \notin HostSteps,
             req[r].mode = "revert" /\ pc[r] \in Undoing => label \in Undoing
      PROVE  HostMove(r)
  BY <1>1, <1>2, GoesOnWith DEF Keeps
<1>3. CASE EndWith(r, "failed") BY <1>1, <1>3, EndsFailed
<1>4. CASE (OpenFails(r) \/ SpanFails(r)) /\ pc[r] \notin HostSteps
  BY <1>1, <1>4, RevertFails
<1>5. ASSUME pc[r] \notin Undoing \cup HostSteps, NEW label \in Labels \ (HostSteps \cup {"finish"}),
             Goto(r, label), UNCHANGED req
      PROVE  HostMove(r)
  BY <1>2, <1>5
<1>6. CASE Launch(r) \/ PrologueSync(r) \/ TakeTurn(r) \/ AbandonTurn(r) \/ Inspect(r) \/ Record(r)
           \/ Abandon(r) \/ RecordMerge(r) \/ ConvergeSync(r) \/ ApplySync(r)
  <2>1. pc[r] \in {"begun", "sync", "turn", "inspect", "record", "abandon", "merged",
                   "converge sync", "apply sync"}
    BY <1>6 DEF Launch, PrologueSync, TakeTurn, AbandonTurn, Inspect, Record, Abandon, RecordMerge,
       ConvergeSync, ApplySync, SyncThen, At
  <2>2. \/ EndWith(r, "failed")
        \/ Inspect(r) /\ Runs(r) /\ EndWith(r, "healthy")
        \/ ApplySync(r) /\ RollBack(r)
        \/ /\ \E label \in {"sync", "turn", "converge sync", "merge queue", "apply sync",
                            "checks", "converge read", "apply read"} : Goto(r, label)
           /\ UNCHANGED req
    BY <1>6 DEF Launch, PrologueSync, TakeTurn, AbandonTurn, Inspect, Record, Abandon, RecordMerge,
       ConvergeSync, ApplySync, SyncThen
  <2>3. CASE Inspect(r) /\ Runs(r) /\ EndWith(r, "healthy")
    BY <1>1, <2>3, EndsWith, EndingIs DEF Inspect, At, Ends
  <2>4. CASE ApplySync(r) /\ RollBack(r)
    BY <1>1, <2>4, RollBackTurnsBack DEF ApplySync, SyncThen, At
  <2>5. CASE /\ \E label \in {"sync", "turn", "converge sync", "merge queue", "apply sync",
                              "checks", "converge read", "apply read"} : Goto(r, label)
             /\ UNCHANGED req
    <3>1. {"sync", "turn", "converge sync", "merge queue", "apply sync", "checks",
           "converge read", "apply read"} \subseteq Labels \ (HostSteps \cup {"finish"})
      BY DEF Labels, HostSteps
    <3>2. pc[r] \notin Undoing \cup HostSteps BY <2>1 DEF Undoing, HostSteps
    <3> QED BY <1>5, <2>5, <3>1, <3>2
  <2> QED BY <1>3, <2>2, <2>3, <2>4, <2>5
<1>7. CASE LockMergeQueue(r)
  <2> pc[r] \notin HostSteps BY <1>7 DEF LockMergeQueue, At, HostSteps
  <2>1. CASE req[r].mode = "revert"
    <3>1. "open" \in Labels \ (HostSteps \cup {"finish"}) /\ "open" \in Undoing
      BY DEF Labels, HostSteps, Undoing
    <3> QED BY <1>2, <1>7, <2>1, <3>1 DEF LockMergeQueue
  <2>2. CASE req[r].mode # "revert"
    <3>1. "front" \in Labels \ (HostSteps \cup {"finish"}) BY DEF Labels, HostSteps
    <3> QED BY <1>2, <1>7, <2>2, <3>1 DEF LockMergeQueue
  <2> QED BY <2>1, <2>2
<1>8. CASE AbandonBackoff(r)
  BY <1>1, <1>8, EndsWith, EndingIs DEF AbandonBackoff, Ends
<1>9. CASE Front(r)
  <2> DEFINE raw == mirror[Service(r)]
  <2>1. \/ EndWith(r, "failed")
        \/ Goto(r, "inspect") /\ UNCHANGED req
        \/ /\ Goto(r, "open")
           /\ req' = [req EXCEPT ![r].old = raw.digest, ![r].original = raw,
                                 ![r].content = setDigest(raw, req[r].new)]
    BY <1>9 DEF Front
  <2>2. pc[r] = "front" BY <1>9 DEF Front, At
  <2>3. CASE Goto(r, "inspect") /\ UNCHANGED req
    <3>1. "inspect" \in Labels \ (HostSteps \cup {"finish"}) 
          /\ "front" \notin Undoing \cup HostSteps
      BY DEF Labels, HostSteps, Undoing
    <3> QED BY <1>5, <2>2, <2>3, <3>1
  <2>4. CASE /\ Goto(r, "open")
             /\ req' = [req EXCEPT ![r].old = raw.digest, ![r].original = raw,
                                   ![r].content = setDigest(raw, req[r].new)]
    <3>1. pc'[r] = "open" BY <1>1, <2>4 DEF Goto
    <3>2. PICK w : w = setDigest(raw, req[r].new) OBVIOUS
    <3>3. req'[r] = [req[r] EXCEPT !.old = raw.digest, !.original = raw, !.content = w]
      BY <1>1, <2>4, <3>2
    <3>4. /\ req'[r].new = req[r].new /\ req'[r].mode = req[r].mode
          /\ req'[r].original = raw
      BY <1>1, <3>3 DEF Request
    <3> QED BY <2>2, <3>1, <3>4 DEF Rewrites
  <2> QED BY <1>3, <2>1, <2>3, <2>4
<1>10. CASE Open(r)
  <2>1. pc[r] = "open" BY <1>10 DEF Open, At
  <2>2. \/ OpenFails(r)
        \/ \E n : /\ req' = [req EXCEPT ![r].pr = n, ![r].attempt = 1]
                  /\ Goto(r, IF Reverting(r) THEN "checks" ELSE "record")
    BY <1>10 DEF Open
  <2>3. ASSUME NEW n, req' = [req EXCEPT ![r].pr = n, ![r].attempt = 1],
               Goto(r, IF Reverting(r) THEN "checks" ELSE "record")
        PROVE  HostMove(r)
    <3>1. req'[r] = [req[r] EXCEPT !.pr = n, !.attempt = 1] BY <1>1, <2>3
    <3>2. SameRequest(r) BY <1>1, <3>1 DEF Request, SameRequest
    <3>3. pc'[r] = IF Reverting(r) THEN "checks" ELSE "record" BY <1>1, <2>3 DEF Goto
    <3> QED BY <2>1, <3>2, <3>3 DEF Keeps, HostSteps, Undoing, Reverting
  <2> QED BY <1>4, <2>1, <2>2, <2>3 DEF HostSteps
<1>11. CASE WaitChecks(r) \/ MergePR(r)
  <2> pc[r] \notin HostSteps BY <1>11 DEF WaitChecks, MergePR, At, HostSteps
  <2>1. \/ SpanFails(r)
        \/ MergePR(r) /\ Reverting(r) /\ EndWith(r, "main reverted")
        \/ ~Reverting(r) /\ Goto(r, "merged") /\ UNCHANGED req
        \/ (Goto(r, "merge") \/ Goto(r, "update")) /\ UNCHANGED req
    BY <1>11 DEF WaitChecks, MergePR
  <2>2. CASE MergePR(r) /\ Reverting(r) /\ EndWith(r, "main reverted")
    BY <1>1, <2>2, EndsWith, EndingIs DEF Ends, Reverting
  <2>3. {"merged", "merge", "update"} \subseteq Labels \ (HostSteps \cup {"finish"})
    BY DEF Labels, HostSteps
  <2>4. CASE ~Reverting(r) /\ Goto(r, "merged") /\ UNCHANGED req
    BY <1>2, <2>3, <2>4 DEF Reverting
  <2>5. CASE (Goto(r, "merge") \/ Goto(r, "update")) /\ UNCHANGED req
    <3>1. {"merge", "update"} \subseteq Undoing BY DEF Undoing
    <3> QED BY <1>2, <2>3, <2>5, <3>1
  <2> QED BY <1>4, <2>1, <2>2, <2>4, <2>5
<1>12. CASE Update(r)
  <2> pc[r] \notin HostSteps BY <1>12 DEF Update, At, HostSteps
  <2>1. \/ SpanFails(r)
        \/ /\ req' = [req EXCEPT ![r].attempt = req[r].attempt + 1]
           /\ Goto(r, "checks")
    BY <1>12 DEF Update
  <2>2. CASE /\ req' = [req EXCEPT ![r].attempt = req[r].attempt + 1]
             /\ Goto(r, "checks")
    <3>1. req'[r] = [req[r] EXCEPT !.attempt = req[r].attempt + 1] BY <1>1, <2>2
    <3>2. SameRequest(r) BY <1>1, <3>1 DEF Request, SameRequest
    <3>3. pc'[r] = "checks" BY <1>1, <2>2 DEF Goto
    <3> QED BY <3>2, <3>3 DEF Keeps, HostSteps, Undoing
  <2> QED BY <1>4, <2>1, <2>2
<1>13. CASE ConvergeRead(r)
  <2> DEFINE raw == mirror[Service(r)]
  <2>1. \/ EndWith(r, "failed")
        \/ /\ Goto(r, "write")
           /\ req' = [req EXCEPT ![r].old = raw.digest, ![r].new = raw.digest,
                                 ![r].content = raw]
    BY <1>13 DEF ConvergeRead
  <2>2. pc[r] = "converge read" BY <1>13 DEF ConvergeRead, At
  <2>3. CASE /\ Goto(r, "write")
             /\ req' = [req EXCEPT ![r].old = raw.digest, ![r].new = raw.digest,
                                   ![r].content = raw]
    <3>1. pc'[r] = "write" BY <1>1, <2>3 DEF Goto
    <3>2. PICK d : d = raw.digest OBVIOUS
    <3>3. req'[r] = [req[r] EXCEPT !.old = d, !.new = d, !.content = raw]
      BY <1>1, <2>3, <3>2
    <3>4. /\ req'[r].new = d /\ req'[r].mode = req[r].mode
          /\ req'[r].original = req[r].original /\ req'[r].content = raw
      BY <1>1, <3>3 DEF Request
    <3> QED BY <2>2, <3>1, <3>2, <3>4 DEF TakesPin
  <2> QED BY <1>3, <2>1, <2>3
<1>14. CASE ApplyRead(r)
  <2>1. pc[r] = "apply read" BY <1>14 DEF ApplyRead, At
  <2>2. CASE RollBack(r) BY <1>1, <2>1, <2>2, RollBackTurnsBack
  <2>3. CASE /\ mirror[Service(r)].digest = req[r].new /\ Goto(r, "write")
             /\ req' = [req EXCEPT ![r].content = mirror[Service(r)]]
    <3>1. pc'[r] = "write" BY <1>1, <2>3 DEF Goto
    <3>2. req'[r] = [req[r] EXCEPT !.content = mirror[Service(r)]] BY <1>1, <2>3
    <3>3. /\ req'[r].new = req[r].new /\ req'[r].mode = req[r].mode
          /\ req'[r].original = req[r].original
          /\ req'[r].content = mirror[Service(r)]
      BY <1>1, <3>2 DEF Request
    <3> QED BY <2>1, <2>3, <3>1, <3>3 DEF TakesPin
  <2> QED BY <1>14, <2>2, <2>3 DEF ApplyRead, Applied
<1>15. CASE WriteUnit(r)
  <2>1. pc[r] \in HostSteps /\ pc[r] \notin Undoing
    BY <1>15 DEF WriteUnit, At, HostSteps, Undoing
  <2>2. CASE ApplyFails(r) BY <1>1, <2>1, <2>2, ApplyFailsTurnsBack
  <2>3. CASE /\ unit' = [unit EXCEPT ![Service(r)] = req[r].content]
             /\ Goto(r, "restart") /\ UNCHANGED req
    BY <1>1, <1>15, <2>1, <2>3, GoesOnWith DEF Keeps, HostSteps
  <2> QED BY <1>15, <2>2, <2>3 DEF WriteUnit
<1>16. CASE ReloadAndRestart(r)
  <2>1. pc[r] \in HostSteps /\ pc[r] \notin Undoing
    BY <1>16 DEF ReloadAndRestart, At, HostSteps, Undoing
  <2>2. CASE ApplyFails(r) BY <1>1, <2>1, <2>2, ApplyFailsTurnsBack
  <2>3. CASE /\ running' = [running EXCEPT ![Service(r)] = unit[Service(r)]]
             /\ Goto(r, "probe") /\ UNCHANGED req
    BY <1>1, <1>16, <2>1, <2>3, GoesOnWith DEF Keeps, HostSteps
  <2> QED BY <1>16, <2>2, <2>3 DEF ReloadAndRestart, Started
<1>17. CASE Probe(r)
  <2>1. pc[r] = "probe" BY <1>17 DEF Probe, At
  <2>2. CASE ApplyFails(r)
    BY <1>1, <2>1, <2>2, ApplyFailsTurnsBack DEF HostSteps
  <2>3. CASE req[r].mode = "apply" /\ EndWith(r, "healthy")
    BY <1>1, <2>1, <2>3, EndsWith, EndingIs DEF Ends
  <2>4. CASE /\ req[r].mode = "restore" /\ Goto(r, "merge queue")
             /\ req' = [req EXCEPT ![r].mode = "revert", ![r].pr = 0]
    <3>1. pc'[r] = "merge queue" BY <1>1, <2>4 DEF Goto
    <3>2. req'[r] = [req[r] EXCEPT !.mode = "revert", !.pr = 0] BY <1>1, <2>4
    <3>3. /\ req'[r].new = req[r].new /\ req'[r].mode = "revert"
          /\ req'[r].original = req[r].original /\ req'[r].content = req[r].content
      BY <1>1, <3>2 DEF Request
    <3> QED BY <2>1, <2>4, <3>1, <3>3 DEF TurnsToMain
  <2> QED BY <1>17, <2>2, <2>3, <2>4 DEF Probe, Healthy
<1>18. CASE Finish(r) \/ Release(r) \/ Leave(r)
  <2>1. \E label \in {"release", "leave", "gone"} : Goto(r, label)
    BY <1>18 DEF Finish, Release, Leave
  <2> QED BY <1>1, <2>1 DEF Goto, Quiet
<1> QED
  BY <1>6, <1>7, <1>8, <1>9, <1>10, <1>11, <1>12, <1>13, <1>14, <1>15, <1>16, <1>17,
     <1>18 DEF Run

-----------------------------------------------------------------------------
(* Who touches what.  A run touches the host in WriteUnit and              *)
(* ReloadAndRestart, the repository in Open, MergePR, Update and Abandon,  *)
(* and main in MergePR alone.                                              *)

RepoMove(r) ==
    LET n == req[r].pr IN
    \/ UNCHANGED repoVars
    \/ pc[r] = "open" /\ \E m \in Nat : OpenManifestPR(Service(r), Proposed(r), m)
    \/ pc[r] = "merge" /\ Merge(n)
    \/ pc[r] = "update" /\ UpdateBranch(n)
    \/ pc[r] = "abandon" /\ ClosePR(n)

LEMMA RunIsRepoMove ==
  ASSUME TypeOK, NEW r \in Ids, Run(r)
  PROVE  RepoMove(r)
<1>1. CASE Open(r)
  <2>1. {Len(prs) + 1} \cup DOMAIN prs \subseteq Nat
    BY LenProperties DEF TypeOK, RepoTypeOK
  <2> QED BY <1>1, <2>1 DEF Open, At, RepoMove
<1>2. CASE MergePR(r) BY <1>2 DEF MergePR, At, RepoMove, repoVars
<1>3. CASE Update(r) BY <1>3 DEF Update, At, RepoMove, repoVars
<1>4. CASE Abandon(r) BY <1>4 DEF Abandon, At, RepoMove, repoVars
<1>5. CASE UNCHANGED repoVars BY <1>5 DEF RepoMove
<1> QED
  BY <1>1, <1>2, <1>3, <1>4, <1>5 DEF Run, Launch, PrologueSync, TakeTurn, AbandonTurn,
     LockMergeQueue, AbandonBackoff, Front, Inspect, Record, WaitChecks, RecordMerge,
     ConvergeSync, ConvergeRead, ApplySync, SyncThen, ApplyRead, WriteUnit,
     ReloadAndRestart, Probe, Finish, Release, Leave, worldVars

(* Main changes by someone's push, or by the merge of the run whose turn   *)
(* it is to merge.                                                         *)
LEMMA MainMoves ==
  ASSUME TypeOK, [Next]_vars
  PROVE  \/ UNCHANGED repoVars
         \/ \E s \in Services : Push(s)
         \/ \E r \in Ids : Run(r) /\ RepoMove(r)
<1>1. CASE \E r \in Ids : Run(r) BY <1>1, RunIsRepoMove
<1> QED
  BY <1>1 DEF Next, Handle, ReadClick, Join, Begin, BeginFails, Edit, BackgroundSync,
     Startup, Boot, CloseOrphan, Serve, Stop, Wait, Exit, Die, MemoryLost, vars, worldVars

LEMMA MainLands ==
  ASSUME RepoTypeOK, NEW s, NEW c, NEW ps, MainBecomes(s, c, ps),
         \A t \in Services : main[t] \in landed[t]
  PROVE  \A t \in Services : landed[t] \subseteq landed'[t] /\ main'[t] \in landed'[t]
BY DEF MainBecomes, RepoTypeOK

LEMMA LandedGrows ==
  ASSUME TypeOK, [Next]_vars, \A t \in Services : main[t] \in landed[t]
  PROVE  \A t \in Services : landed[t] \subseteq landed'[t] /\ main'[t] \in landed'[t]
<1>1. RepoTypeOK BY DEF TypeOK
<1>2. \/ UNCHANGED <<main, landed>> \/ \E s, c, ps : MainBecomes(s, c, ps)
  BY MainMoves DEF repoVars, Push, RepoMove, OpenManifestPR, Merge, UpdateBranch, ClosePR
<1> QED BY <1>1, <1>2, MainLands

LEMMA HostMoves ==
  ASSUME TypeOK, NEW r \in Ids, Run(r), NEW s \in Services
  PROVE  /\ \/ unit'[s] = unit[s]
            \/ s = Service(r) /\ WriteUnit(r) /\ unit'[s] = req[r].content
         /\ \/ running'[s] = running[s]
            \/ s = Service(r) /\ ReloadAndRestart(r) /\ running'[s] \in {unit[s], NoContent}
<1>1. unit \in [Services -> Content] /\ running \in [Services -> Content \cup {NoContent}]
  BY DEF TypeOK, WorldTypeOK
<1>2. CASE UNCHANGED <<unit, running>> BY <1>2
<1>3. CASE WriteUnit(r) BY <1>1, <1>3 DEF WriteUnit
<1>4. CASE ReloadAndRestart(r)
  <2>1. UNCHANGED unit BY <1>4 DEF ReloadAndRestart
  <2>2. PICK c \in {running[Service(r)], unit[Service(r)], NoContent} :
          running' = [running EXCEPT ![Service(r)] = c]
    BY <1>4 DEF ReloadAndRestart, Started
  <2> QED BY <1>1, <1>4, <2>1, <2>2
<1> QED BY <1>2, <1>3, <1>4, RunTouches

LEMMA HostRests ==
  ASSUME [Next]_vars, \A r \in Ids : ~Run(r)
  PROVE  UNCHANGED hostVars
BY DEF Next, Handle, ReadClick, Join, Begin, BeginFails, Edit, BackgroundSync, Startup,
   Boot, CloseOrphan, Serve, Stop, Wait, Exit, Die, MemoryLost, vars, worldVars

LEMMA MirrorMoves ==
  ASSUME [Next]_vars
  PROVE  mirror' = mirror \/ mirror' = main
<1>1. ASSUME NEW r \in Ids, Run(r) PROVE mirror' = mirror \/ mirror' = main
  <2>1. CASE Launch(r) \/ PrologueSync(r) \/ ConvergeSync(r) \/ ApplySync(r)
    BY <2>1 DEF Launch, PrologueSync, ConvergeSync, ApplySync, SyncThen, Sync, worldVars,
       mirrorVars
  <2>2. CASE \/ TakeTurn(r) \/ AbandonTurn(r) \/ LockMergeQueue(r) \/ AbandonBackoff(r)
             \/ Front(r) \/ Inspect(r) \/ Open(r) \/ Record(r) \/ WaitChecks(r)
    BY <2>2 DEF TakeTurn, AbandonTurn, LockMergeQueue, AbandonBackoff, Front, Inspect,
       Open, Record, WaitChecks, worldVars, mirrorVars
  <2>3. CASE \/ MergePR(r) \/ Update(r) \/ Abandon(r) \/ RecordMerge(r) \/ ConvergeRead(r)
             \/ ApplyRead(r) \/ WriteUnit(r) \/ ReloadAndRestart(r) \/ Probe(r)
             \/ Finish(r) \/ Release(r) \/ Leave(r)
    BY <2>3 DEF MergePR, Update, Abandon, RecordMerge, ConvergeRead, ApplyRead, WriteUnit,
       ReloadAndRestart, Probe, Finish, Release, Leave, worldVars, mirrorVars
  <2> QED BY <1>1, <2>1, <2>2, <2>3 DEF Run
<1> QED
  BY <1>1 DEF Next, Handle, ReadClick, Join, Begin, BeginFails, Edit, BackgroundSync,
     Startup, Boot, CloseOrphan, Serve, Stop, Wait, Exit, Die, MemoryLost, vars, worldVars,
     mirrorVars, Sync

-----------------------------------------------------------------------------
(* Merge first.  Whatever the daemon holds of a manifest, in the mirror,   *)
(* a click or a request that may reach the host, main has held.            *)

MainInv == \A s \in Services : main[s] \in landed[s]
MirrorInv == \A s \in Services : mirror[s] \in landed[s]
OnHostInv ==
    \A s \in Services : unit[s] \in landed[s] /\ running[s] \in landed[s] \cup {NoContent}
ClickInv == \A c \in Clients : click[c] # NoClick => click[c].raw \in landed[click[c].service]
CarriedInv ==
    \A r \in Ids :
        /\ pc[r] \notin Quiet => req[r].original \in landed[Service(r)]
        /\ pc[r] \in HostSteps => req[r].content \in landed[Service(r)]

LandedInv == MainInv /\ MirrorInv /\ OnHostInv /\ ClickInv /\ CarriedInv

LEMMA ServiceIs ==
  ASSUME TypeOK, NEW r \in DOMAIN journal
  PROVE  Service(r) \in Services
<1>1. journal[r] \in Row
  BY ElementOfSeq, LenProperties DEF TypeOK, JournalTypeOK
<1> QED BY <1>1 DEF Service, Row

(* What a step of a run carries on, it carried or took from the mirror. *)
LEMMA RunCarries ==
  ASSUME TypeOK, NEW r \in Ids, Run(r)
  PROVE  LET own == {mirror[Service(r)]} IN
         /\ pc'[r] \notin Quiet => /\ pc[r] \notin Quiet
                                   /\ req'[r].original \in {req[r].original} \cup own
         /\ pc'[r] \in HostSteps => \/ req'[r].content \in {req[r].original} \cup own
                                    \/ pc[r] \in HostSteps /\ req'[r].content = req[r].content
<1>1. CASE pc'[r] \in Quiet BY <1>1 DEF Quiet, HostSteps
<1>2. CASE pc'[r] \notin Quiet
  <2>1. pc[r] \notin Quiet
    <3>1. pc \in [Ids -> Labels] BY DEF TypeOK, RunTypeOK
    <3>2. CASE Finish(r) \/ Release(r) \/ Leave(r)
      BY <1>2, <3>1, <3>2 DEF Finish, Release, Leave, Goto, Quiet
    <3>3. CASE Works(r) BY <3>3 DEF Works, Unended
    <3> QED BY <3>2, <3>3, RunGoesOn
  <2>2. HostMove(r) BY RunIsHostMove
  <2>3. CASE Keeps(r) \/ Ends(r)
    BY <2>1, <2>3 DEF Keeps, Ends, SameRequest, WriteUnit, ReloadAndRestart, At, HostSteps
  <2>4. CASE TurnsBack(r) BY <2>1, <2>4 DEF TurnsBack
  <2>5. CASE TakesPin(r) BY <2>1, <2>5 DEF TakesPin
  <2>6. CASE Rewrites(r) BY <2>1, <2>6 DEF Rewrites, HostSteps
  <2>7. CASE TurnsToMain(r) BY <2>1, <2>7 DEF TurnsToMain, HostSteps
  <2> QED BY <1>2, <2>2, <2>3, <2>4, <2>5, <2>6, <2>7 DEF HostMove
<1> QED BY <1>1, <1>2

LEMMA CarriedRuns ==
  ASSUME TypeOK, LandedInv, NEW r \in Ids, Run(r),
         \A t \in Services : landed[t] \subseteq landed'[t]
  PROVE  CarriedInv'
<1>1. RunMovesAlone(r) /\ ServicesKept BY RunIsAlone, RunKeepsServices
<1>2. \A q \in Ids : pc[q] # "unused" => q \in DOMAIN journal BY DEF TypeOK, RunTypeOK
<1>3. ASSUME NEW q \in Ids, pc[q] \notin Quiet
      PROVE  /\ Service(q) \in Services /\ journal'[q].service = Service(q)
             /\ req[q].original \in landed'[Service(q)]
             /\ mirror[Service(q)] \in landed'[Service(q)]
             /\ pc[q] \in HostSteps => req[q].content \in landed'[Service(q)]
  <2>1. q \in DOMAIN journal BY <1>2, <1>3 DEF Quiet
  <2>2. Service(q) \in Services /\ journal'[q].service = Service(q)
    BY <1>1, <2>1, ServiceIs DEF ServicesKept, Service
  <2>3. /\ req[q].original \in landed[Service(q)]
        /\ mirror[Service(q)] \in landed[Service(q)]
        /\ pc[q] \in HostSteps => req[q].content \in landed[Service(q)]
    BY <1>3, <2>2 DEF LandedInv, CarriedInv, MirrorInv
  <2> QED BY <2>2, <2>3
<1>4. ASSUME NEW q \in Ids, pc'[q] \notin Quiet
      PROVE  /\ req'[q].original \in landed'[journal'[q].service]
             /\ pc'[q] \in HostSteps => req'[q].content \in landed'[journal'[q].service]
  <2>1. CASE q # r
    <3>1. pc'[q] = pc[q] /\ req'[q] = req[q] BY <1>1, <2>1 DEF RunMovesAlone
    <3> QED BY <1>3, <1>4, <3>1
  <2>2. CASE q = r
    <3>1. /\ pc[r] \notin Quiet
          /\ req'[r].original \in {req[r].original, mirror[Service(r)]}
          /\ pc'[r] \in HostSteps =>
               \/ req'[r].content \in {req[r].original, mirror[Service(r)]}
               \/ pc[r] \in HostSteps /\ req'[r].content = req[r].content
      BY <1>4, <2>2, RunCarries
    <3> QED BY <1>3, <2>2, <3>1
  <2> QED BY <2>1, <2>2
<1>5. HostSteps \cap Quiet = {} BY DEF HostSteps, Quiet
<1> QED BY <1>4, <1>5 DEF CarriedInv, Service

LEMMA CarriedOthers ==
  ASSUME TypeOK, LandedInv, [Next]_vars, \A r \in Ids : ~Run(r),
         \A t \in Services : landed[t] \subseteq landed'[t]
  PROVE  CarriedInv'
<1>1. /\ \A q \in Ids : pc[q] # "unused" => q \in DOMAIN journal
      /\ HostSteps \cap Quiet = {}
  BY DEF TypeOK, RunTypeOK, HostSteps, Quiet
<1>2. ASSUME NEW q \in Ids, ServicesKept, pc'[q] = pc[q], req'[q] = req[q],
             pc[q] \notin Quiet
      PROVE  /\ req'[q].original \in landed'[journal'[q].service]
             /\ pc'[q] \in HostSteps => req'[q].content \in landed'[journal'[q].service]
  <2>1. q \in DOMAIN journal BY <1>1, <1>2 DEF Quiet
  <2>2. Service(q) \in Services /\ journal'[q].service = Service(q)
    BY <1>2, <2>1, ServiceIs DEF ServicesKept, Service
  <2>3. /\ req[q].original \in landed[Service(q)]
        /\ pc[q] \in HostSteps => req[q].content \in landed[Service(q)]
    BY <1>2 DEF LandedInv, CarriedInv
  <2> QED BY <1>2, <2>2, <2>3
<1>3. CASE \E c \in Clients : Begin(c)
  <2>1. PICK c \in Clients : Begin(c) BY <1>3
  <2>2. PICK id : id = Len(journal) + 1 OBVIOUS
  <2>3. click[c] \in Handler /\ click[c] # NoClick /\ id \in Ids
    BY <2>1, <2>2 DEF Begin, TypeOK, DaemonTypeOK
  <2>4. click[c].raw \in landed'[click[c].service]
    <3>1. click[c].service \in Services BY <2>3 DEF Handler
    <3> QED BY <2>3, <3>1 DEF LandedInv, ClickInv
  <2>5. PICK row : row.service = click[c].service /\ journal' = Append(journal, row)
    BY <2>1 DEF Begin
  <2>6. /\ ServicesKept /\ journal'[id].service = click[c].service
    BY <2>2, <2>5, LenProperties DEF ServicesKept, TypeOK, JournalTypeOK
  <2>7. PICK k : k = [NoRequest EXCEPT !.old = click[c].raw.digest, !.new = click[c].digest,
                        !.original = click[c].raw, !.content = click[c].raw]
    OBVIOUS
  <2>8. req' = [req EXCEPT ![id] = k] /\ pc' = [pc EXCEPT ![id] = "begun"]
    BY <2>1, <2>2, <2>7 DEF Begin, Goto
  <2>9. k.original = click[c].raw BY <2>7 DEF NoRequest
  <2>10. /\ \A q \in Ids \ {id} : pc'[q] = pc[q] /\ req'[q] = req[q]
         /\ pc'[id] = "begun" /\ req'[id] = k
    BY <2>3, <2>8 DEF TypeOK, RunTypeOK
  <2>11. ASSUME NEW q \in Ids, pc'[q] \notin Quiet
         PROVE  /\ req'[q].original \in landed'[journal'[q].service]
                /\ pc'[q] \in HostSteps => req'[q].content \in landed'[journal'[q].service]
    <3>1. CASE q # id BY <1>2, <2>6, <2>10, <2>11, <3>1
    <3>2. CASE q = id BY <2>4, <2>6, <2>9, <2>10, <3>2 DEF HostSteps
    <3> QED BY <3>1, <3>2
  <2> QED BY <1>1, <2>11 DEF CarriedInv, Service
<1>4. CASE MemoryLost
  <2>1. \A q \in Ids : pc'[q] \in Quiet BY <1>4 DEF MemoryLost, Live, Quiet
  <2> QED BY <1>1, <2>1 DEF CarriedInv
<1>5. CASE CloseOrphan
  BY <1>1, <1>2, <1>5, OrphanKeepsServices DEF CloseOrphan, CarriedInv, Service
<1>6. CASE UNCHANGED runVars
  BY <1>1, <1>2, <1>6 DEF runVars, ServicesKept, CarriedInv, Service
<1> QED BY <1>3, <1>4, <1>5, <1>6, OtherSteps

LEMMA ClicksLanded ==
  ASSUME TypeOK, LandedInv, [Next]_vars,
         \A t \in Services : landed[t] \subseteq landed'[t]
  PROVE  ClickInv'
<1>1. click \in [Clients -> Handler \cup {NoClick}] BY DEF TypeOK, DaemonTypeOK
<1>2. ASSUME NEW c \in Clients, click'[c] = click[c], click[c] # NoClick
      PROVE  click'[c].raw \in landed'[click'[c].service]
  <2>1. click[c].service \in Services BY <1>1, <1>2 DEF Handler
  <2> QED BY <1>2, <2>1 DEF LandedInv, ClickInv
<1>3. CASE \A c \in Clients : click'[c] = click[c] \/ click'[c] = NoClick
  BY <1>2, <1>3 DEF ClickInv
<1>4. CASE \E c \in Clients : ReadClick(c)
  <2>1. PICK c \in Clients : ReadClick(c) BY <1>4
  <2>2. PICK k : /\ k.service \in Services /\ k.raw = mirror[k.service]
                 /\ click' = [click EXCEPT ![c] = k]
    BY <2>1 DEF ReadClick
  <2>3. k.raw \in landed'[k.service] BY <2>2 DEF LandedInv, MirrorInv
  <2>4. \A d \in Clients : d # c => click'[d] = click[d] BY <1>1, <2>2
  <2>5. click'[c] = k BY <1>1, <2>2
  <2> QED BY <1>2, <2>3, <2>4, <2>5 DEF ClickInv
<1>5. CASE MemoryLost BY <1>3, <1>5 DEF MemoryLost
<1>6. CASE \E c \in Clients : click' = [click EXCEPT ![c] = NoClick]
  BY <1>1, <1>3, <1>6
<1>7. ASSUME NEW r \in Ids, Run(r) PROVE ClickInv'
  <2>1. CASE \/ Launch(r) \/ PrologueSync(r) \/ ConvergeSync(r) \/ ApplySync(r) \/ TakeTurn(r)
             \/ AbandonTurn(r) \/ LockMergeQueue(r) \/ AbandonBackoff(r) \/ Front(r)
             \/ Inspect(r) \/ Open(r) \/ Record(r) \/ WaitChecks(r)
    <3>1. UNCHANGED click
      BY <2>1 DEF Launch, PrologueSync, ConvergeSync, ApplySync, SyncThen, TakeTurn, AbandonTurn,
         LockMergeQueue, AbandonBackoff, Front, Inspect, Open, Record, WaitChecks,
         asideVars, daemonVars
    <3> QED BY <1>3, <3>1
  <2>2. CASE \/ MergePR(r) \/ Update(r) \/ Abandon(r) \/ RecordMerge(r) \/ ConvergeRead(r)
             \/ ApplyRead(r) \/ WriteUnit(r) \/ ReloadAndRestart(r) \/ Probe(r)
             \/ Finish(r) \/ Release(r) \/ Leave(r)
    <3>1. UNCHANGED click
      BY <2>2 DEF MergePR, Update, Abandon, RecordMerge, ConvergeRead, ApplyRead,
         WriteUnit, ReloadAndRestart, Probe, Finish, Release, Leave, asideVars, daemonVars
    <3> QED BY <1>3, <3>1
  <2> QED BY <1>7, <2>1, <2>2 DEF Run
<1>8. CASE UNCHANGED click BY <1>3, <1>8
<1> QED
  BY <1>4, <1>5, <1>6, <1>7, <1>8 DEF Next, Handle, Join, Begin, BeginFails, Edit,
     BackgroundSync, Startup, Boot, CloseOrphan, Serve, Stop, Wait, Exit, Die, vars, asideVars,
     daemonVars

LEMMA HostLanded ==
  ASSUME TypeOK, LandedInv, [Next]_vars,
         \A t \in Services : landed[t] \subseteq landed'[t]
  PROVE  OnHostInv'
<1>1. ASSUME NEW s \in Services
      PROVE  unit'[s] \in landed'[s] /\ running'[s] \in landed'[s] \cup {NoContent}
  <2>1. unit[s] \in landed'[s] /\ running[s] \in landed'[s] \cup {NoContent}
    BY DEF LandedInv, OnHostInv
  <2>2. CASE \E r \in Ids : Run(r)
    <3>1. PICK r \in Ids : Run(r) BY <2>2
    <3>2. WriteUnit(r) /\ s = Service(r) => req[r].content \in landed'[s]
      BY DEF WriteUnit, At, HostSteps, LandedInv, CarriedInv
    <3> QED BY <2>1, <3>1, <3>2, HostMoves
  <2>3. CASE \A r \in Ids : ~Run(r)
    BY <2>1, <2>3, HostRests DEF hostVars
  <2> QED BY <2>2, <2>3
<1> QED BY <1>1 DEF OnHostInv

LEMMA LandedNext == TypeOK /\ LandedInv /\ [Next]_vars => LandedInv'
<1> SUFFICES ASSUME TypeOK, LandedInv, [Next]_vars PROVE LandedInv'
  OBVIOUS
<1>1. \A t \in Services : landed[t] \subseteq landed'[t] /\ main'[t] \in landed'[t]
  BY LandedGrows DEF LandedInv, MainInv
<1>2. MainInv' BY <1>1 DEF MainInv
<1>3. MirrorInv' BY <1>1, MirrorMoves DEF LandedInv, MirrorInv, MainInv
<1>4. OnHostInv' BY <1>1, HostLanded
<1>5. ClickInv' BY <1>1, ClicksLanded
<1>6. CarriedInv'
  <2>1. CASE \E r \in Ids : Run(r) BY <1>1, <2>1, CarriedRuns
  <2>2. CASE \A r \in Ids : ~Run(r) BY <1>1, <2>2, CarriedOthers
  <2> QED BY <2>1, <2>2
<1> QED BY <1>2, <1>3, <1>4, <1>5, <1>6 DEF LandedInv

(* The host never has, as unit or as container, a manifest main has not    *)
(* held: merge first, then apply (docs/architecture.md:9-13).              *)
THEOREM MergedBeforeApplied == Spec => []MergeFirst
<1>1. Init => LandedInv
  BY DEF Init, RepoInit, LandedInv, MainInv, MirrorInv, OnHostInv, ClickInv, CarriedInv,
     Quiet, HostSteps
<1>2. LandedInv => MergeFirst BY DEF LandedInv, OnHostInv, MergeFirst
<1> QED BY <1>1, <1>2, LandedNext, EngineIsTyped, PTL DEF Spec

-----------------------------------------------------------------------------
(* What a run's mode and place say of the host.  A run that ends healthy   *)
(* or reverts main still has its service's turn, so that what it saw of    *)
(* the host is still so.                                                   *)

InMode(r) ==
    /\ req[r].mode = "restore" => pc[r] \in HostSteps \cup {"finish"}
    /\ req[r].mode = "revert" => pc[r] \in Undoing \cup {"finish"}
    /\ pc[r] \in HostSteps => IF req[r].mode = "apply" THEN req[r].content.digest = req[r].new
                                                      ELSE req[r].content = req[r].original

OnHost(r) ==
    /\ pc[r] \in {"restart", "probe"} => unit[Service(r)] = req[r].content
    /\ pc[r] = "probe" => running[Service(r)] = req[r].content
    /\ req[r].mode = "revert" => /\ slot[Service(r)] = r
                                 /\ unit[Service(r)] = req[r].original
                                 /\ running[Service(r)] = req[r].original

AtEnd(r) ==
    pc[r] = "finish" =>
        /\ req[r].outcome = "healthy" => /\ slot[Service(r)] = r
                                         /\ running[Service(r)].digest = req[r].new
        /\ StateOf(req[r].outcome) = "rolled-back" => req[r].mode = "revert"

HostInv == \A r \in Ids : pc[r] \notin Quiet => InMode(r) /\ OnHost(r) /\ AtEnd(r)

LEMMA ModeNext ==
  ASSUME TypeOK, HostInv, NEW r \in Ids, Run(r), pc'[r] \notin Quiet
  PROVE  InMode(r)'
<1> USE DEF HostSteps, Undoing
<1>1. pc[r] \notin Quiet /\ pc[r] # "finish"
  <2>1. pc \in [Ids -> Labels] BY DEF TypeOK, RunTypeOK
  <2>2. CASE Finish(r) \/ Release(r) \/ Leave(r)
    BY <2>1, <2>2 DEF Finish, Release, Leave, Goto, Quiet
  <2>3. CASE Works(r) BY <2>3 DEF Works, Unended
  <2> QED BY <2>2, <2>3, RunGoesOn
<1>2. InMode(r) BY <1>1 DEF HostInv
<1>3. HostMove(r) BY RunIsHostMove
<1>4. CASE Keeps(r)
  <2>1. SameRequest(r) /\ pc'[r] # "finish" BY <1>4 DEF Keeps
  <2>2. pc[r] \in HostSteps => pc'[r] \in HostSteps BY <1>4 DEF Keeps
  <2>3. pc'[r] \in HostSteps => pc[r] \in HostSteps
    BY <1>4 DEF Keeps, WriteUnit, ReloadAndRestart, At
  <2>4. req[r].mode = "revert" /\ pc[r] \in Undoing => pc'[r] \in Undoing
    BY <1>4 DEF Keeps
  <2>5. req'[r].mode = "restore" => pc'[r] \in HostSteps
    BY <1>1, <1>2, <2>1, <2>2 DEF InMode, SameRequest
  <2>6. req'[r].mode = "revert" => pc'[r] \in Undoing
    BY <1>1, <1>2, <2>1, <2>4 DEF InMode, SameRequest
  <2>7. pc'[r] \in HostSteps =>
          IF req'[r].mode = "apply" THEN req'[r].content.digest = req'[r].new
                                    ELSE req'[r].content = req'[r].original
    BY <1>2, <2>1, <2>3 DEF InMode, SameRequest
  <2> QED BY <2>5, <2>6, <2>7 DEF InMode
<1>5. CASE Ends(r) BY <1>5 DEF Ends, InMode
<1>6. CASE TurnsBack(r) BY <1>6 DEF TurnsBack, InMode
<1>7. CASE TakesPin(r)
  <2>1. req[r].mode # "restore" /\ req[r].mode # "revert"
    BY <1>2, <1>7 DEF TakesPin, InMode
  <2>2. req[r].mode \in {"apply", "restore", "revert"}
    BY DEF TypeOK, RunTypeOK, Request
  <2> QED BY <1>7, <2>1, <2>2 DEF TakesPin, InMode
<1>8. CASE Rewrites(r) BY <1>2, <1>8 DEF Rewrites, InMode
<1>9. CASE TurnsToMain(r) BY <1>9 DEF TurnsToMain, InMode
<1> QED BY <1>3, <1>4, <1>5, <1>6, <1>7, <1>8, <1>9 DEF HostMove

(* A run keeps its service's turn for as long as it works there, and       *)
(* nobody else takes or gives up the turn.                                 *)
LEMMA TurnKept ==
  ASSUME TypeOK, TurnInv, NEW r \in Ids, Run(r), NEW q \in Ids, NEW s \in Services,
         slot[s] = q, ~Release(r) \/ q # r
  PROVE  slot'[s] = q
<1>1. /\ slot \in [Services -> Ids \cup {NoRun}] /\ NoRun \notin Ids
  BY DEF TypeOK, QueueTypeOK, Ids, NoRun
<1>2. CASE TakeTurn(r) BY <1>1, <1>2 DEF TakeTurn, SlotFree
<1>3. CASE Release(r)
  <2>1. slot[Service(r)] = r BY <1>3 DEF TurnInv, Release, At, Turn, Labels
  <2> QED BY <1>1, <1>3, <2>1 DEF Release
<1> QED BY <1>1, <1>2, <1>3, RunKeepsSlots

LEMMA OwnHostNext ==
  ASSUME TypeOK, HostInv, TurnInv, NEW r \in Ids, Run(r), pc'[r] \notin Quiet
  PROVE  OnHost(r)' /\ AtEnd(r)'
<1> USE DEF HostSteps, Undoing
<1> PICK s : s = Service(r) OBVIOUS
<1>1. pc[r] \notin Quiet /\ pc[r] # "finish" /\ ~Release(r)
  <2>1. pc \in [Ids -> Labels] BY DEF TypeOK, RunTypeOK
  <2>2. CASE Finish(r) \/ Release(r) \/ Leave(r)
    BY <2>1, <2>2 DEF Finish, Release, Leave, Goto, Quiet
  <2>3. CASE Works(r)
    BY <2>3 DEF Works, Unended, Release, At, Quiet
  <2> QED BY <2>2, <2>3, RunGoesOn
<1>2. InMode(r) /\ OnHost(r) BY <1>1 DEF HostInv
<1>3. s \in Services /\ journal'[r].service = s
  <2>1. r \in DOMAIN journal BY RunIsAlone DEF RunMovesAlone
  <2> QED BY <2>1, RunKeepsServices, ServiceIs DEF ServicesKept, Service
<1>4. slot[s] = r => slot'[s] = r BY <1>1, <1>3, TurnKept
<1>5. pc[r] \notin {"write", "restart"} => unit'[s] = unit[s] /\ running'[s] = running[s]
  BY <1>3, HostMoves DEF WriteUnit, ReloadAndRestart, At
<1>6. pc[r] \in Turn => slot[s] = r BY DEF TurnInv
<1>7. HostMove(r) BY RunIsHostMove
<1>8. SUFFICES /\ pc'[r] \in {"restart", "probe"} => unit'[s] = req'[r].content
               /\ pc'[r] = "probe" => running'[s] = req'[r].content
               /\ req'[r].mode = "revert" => /\ slot'[s] = r
                                             /\ unit'[s] = req'[r].original
                                             /\ running'[s] = req'[r].original
               /\ pc'[r] = "finish" =>
                    /\ req'[r].outcome = "healthy" => /\ slot'[s] = r
                                                      /\ running'[s].digest = req'[r].new
                    /\ StateOf(req'[r].outcome) = "rolled-back" => req'[r].mode = "revert"
  BY <1>3 DEF OnHost, AtEnd, Service
<1>9. ASSUME SameRequest(r), req[r].mode = "revert"
      PROVE  /\ slot'[s] = r /\ unit'[s] = req'[r].original
             /\ running'[s] = req'[r].original
  <2>1. pc[r] \notin {"write", "restart"} BY <1>1, <1>2, <1>9 DEF InMode
  <2>2. slot[s] = r /\ unit[s] = req[r].original /\ running[s] = req[r].original
    BY <1>2, <1>9 DEF OnHost
  <2> QED BY <1>4, <1>5, <1>9, <2>1, <2>2 DEF SameRequest
<1>10. CASE Keeps(r)
  <2>1. SameRequest(r) /\ pc'[r] # "finish" BY <1>10 DEF Keeps
  <2>2. ASSUME pc'[r] \in {"restart", "probe"}
        PROVE  /\ unit'[s] = req[r].content
               /\ pc'[r] = "probe" => running'[s] = req[r].content
    <3>1. unit \in [Services -> Content] /\ running \in [Services -> Content \cup {NoContent}]
      BY DEF TypeOK, WorldTypeOK
    <3>2. \/ unit' = [unit EXCEPT ![s] = req[r].content] /\ pc'[r] = "restart"
          \/ ReloadAndRestart(r) /\ running' = [running EXCEPT ![s] = unit[s]]
      BY <1>10, <2>2 DEF Keeps
    <3>3. ReloadAndRestart(r) => unit' = unit /\ unit[s] = req[r].content
      BY <1>2 DEF ReloadAndRestart, At, OnHost
    <3> QED BY <1>3, <3>1, <3>2, <3>3
  <2> QED BY <1>9, <2>1, <2>2 DEF SameRequest
<1>11. CASE Ends(r)
  <2>1. SameRequest(r) /\ pc'[r] = "finish" BY <1>11 DEF Ends
  <2>2. ASSUME req'[r].outcome = "healthy"
        PROVE  slot'[s] = r /\ running'[s].digest = req'[r].new
    <3>1. \/ pc[r] = "inspect" /\ Runs(r)
          \/ pc[r] = "probe" /\ req[r].mode = "apply"
      BY <1>11, <2>2 DEF Ends
    <3>2. running[s].digest = req[r].new BY <1>2, <3>1 DEF Runs, InMode, OnHost
    <3>3. slot[s] = r BY <1>6, <3>1 DEF Turn, Labels
    <3> QED BY <1>4, <1>5, <2>1, <3>1, <3>2, <3>3 DEF SameRequest
  <2>3. StateOf(req'[r].outcome) = "rolled-back" => req'[r].mode = "revert"
    BY <1>11, <2>1 DEF Ends, SameRequest
  <2> QED BY <1>9, <2>1, <2>2, <2>3 DEF SameRequest
<1>12. CASE TurnsBack(r) BY <1>12 DEF TurnsBack
<1>13. CASE TakesPin(r)
  <2>1. req[r].mode # "revert" BY <1>2, <1>13 DEF TakesPin, InMode
  <2> QED BY <1>13, <2>1 DEF TakesPin
<1>14. CASE Rewrites(r)
  <2>1. req[r].mode # "revert" BY <1>2, <1>14 DEF Rewrites, InMode
  <2> QED BY <1>14, <2>1 DEF Rewrites
<1>15. CASE TurnsToMain(r)
  <2>1. /\ unit[s] = req[r].content /\ running[s] = req[r].content
        /\ req[r].content = req[r].original
    BY <1>2, <1>15 DEF TurnsToMain, InMode, OnHost
  <2>2. slot[s] = r BY <1>6, <1>15 DEF TurnsToMain, Turn, Labels
  <2> QED BY <1>4, <1>5, <1>15, <2>1, <2>2 DEF TurnsToMain
<1> QED BY <1>7, <1>10, <1>11, <1>12, <1>13, <1>14, <1>15 DEF HostMove

(* The host of a run that has its service's turn is out of the others'     *)
(* reach.                                                                  *)
LEMMA OthersHostNext ==
  ASSUME TypeOK, HostInv, TurnInv, NEW r \in Ids, Run(r), NEW q \in Ids, q # r,
         pc'[q] \notin Quiet
  PROVE  InMode(q)' /\ OnHost(q)' /\ AtEnd(q)'
<1> PICK s : s = Service(q) OBVIOUS
<1>1. pc'[q] = pc[q] /\ req'[q] = req[q] BY RunIsAlone DEF RunMovesAlone
<1>2. InMode(q) /\ OnHost(q) /\ AtEnd(q) BY <1>1 DEF HostInv
<1>3. s \in Services /\ journal'[q].service = s
  <2>1. q \in DOMAIN journal BY <1>1 DEF TypeOK, RunTypeOK, Quiet
  <2> QED BY <2>1, RunKeepsServices, ServiceIs DEF ServicesKept, Service
<1>4. ASSUME slot[s] = q
      PROVE  slot'[s] = q /\ unit'[s] = unit[s] /\ running'[s] = running[s]
  <2>1. slot'[s] = q BY <1>3, <1>4, TurnKept
  <2>2. ASSUME WriteUnit(r) \/ ReloadAndRestart(r) PROVE Service(r) # s
    BY <1>4, <2>2 DEF WriteUnit, ReloadAndRestart, At, TurnInv, Turn, Labels
  <2> QED BY <1>3, <2>1, <2>2, HostMoves
<1>5. pc[q] \in {"restart", "probe"} => slot[s] = q
  BY DEF TurnInv, Turn, Labels
<1>6. InMode(q)' BY <1>1, <1>2 DEF InMode
<1>7. OnHost(q)' BY <1>1, <1>2, <1>3, <1>4, <1>5 DEF OnHost, Service
<1>8. AtEnd(q)' BY <1>1, <1>2, <1>3, <1>4 DEF AtEnd, Service
<1> QED BY <1>6, <1>7, <1>8

LEMMA HostOthers ==
  ASSUME TypeOK, HostInv, [Next]_vars, \A r \in Ids : ~Run(r)
  PROVE  HostInv'
<1>1. UNCHANGED hostVars BY HostRests
<1>2. \A q \in Ids : pc[q] # "unused" => q \in DOMAIN journal BY DEF TypeOK, RunTypeOK
<1>3. ASSUME NEW q \in Ids, ServicesKept, UNCHANGED slot, pc'[q] = pc[q],
             req'[q] = req[q], pc'[q] \notin Quiet
      PROVE  InMode(q)' /\ OnHost(q)' /\ AtEnd(q)'
  <2>1. InMode(q) /\ OnHost(q) /\ AtEnd(q) BY <1>3 DEF HostInv
  <2>2. journal'[q].service = journal[q].service
    BY <1>2, <1>3 DEF ServicesKept, Quiet
  <2>3. InMode(q)' BY <1>3, <2>1 DEF InMode
  <2>4. OnHost(q)' BY <1>1, <1>3, <2>1, <2>2 DEF OnHost, Service, hostVars
  <2>5. AtEnd(q)' BY <1>1, <1>3, <2>1, <2>2 DEF AtEnd, Service, hostVars
  <2> QED BY <2>3, <2>4, <2>5
<1>4. CASE \E c \in Clients : Begin(c)
  <2>1. PICK c \in Clients : Begin(c) BY <1>4
  <2>2. PICK id : id = Len(journal) + 1 OBVIOUS
  <2>3. PICK k : k = [NoRequest EXCEPT !.old = click[c].raw.digest, !.new = click[c].digest,
                        !.original = click[c].raw, !.content = click[c].raw]
    OBVIOUS
  <2>4. /\ req' = [req EXCEPT ![id] = k] /\ pc' = [pc EXCEPT ![id] = "begun"]
        /\ id \in Ids /\ UNCHANGED slot
    BY <2>1, <2>2, <2>3 DEF Begin, Goto
  <2>5. k.mode = "apply" BY <2>3 DEF NoRequest
  <2>6. /\ \A q \in Ids \ {id} : pc'[q] = pc[q] /\ req'[q] = req[q]
        /\ pc'[id] = "begun" /\ req'[id] = k
    BY <2>4 DEF TypeOK, RunTypeOK
  <2>7. PICK row : journal' = Append(journal, row) BY <2>1 DEF Begin
  <2>8. ServicesKept
    BY <2>7, LenProperties DEF ServicesKept, TypeOK, JournalTypeOK
  <2>9. InMode(id)' BY <2>5, <2>6 DEF InMode, HostSteps
  <2>10. OnHost(id)' /\ AtEnd(id)' BY <2>5, <2>6 DEF OnHost, AtEnd
  <2> QED BY <1>3, <2>4, <2>6, <2>8, <2>9, <2>10 DEF HostInv
<1>5. CASE MemoryLost
  <2>1. \A q \in Ids : pc'[q] \in Quiet BY <1>5 DEF MemoryLost, Live, Quiet
  <2> QED BY <2>1 DEF HostInv
<1>6. CASE CloseOrphan
  BY <1>3, <1>6, OrphanKeepsServices DEF CloseOrphan, queueVars, HostInv
<1>7. CASE UNCHANGED runVars
  BY <1>3, <1>7 DEF runVars, queueVars, ServicesKept, HostInv
<1> QED BY <1>4, <1>5, <1>6, <1>7, OtherSteps

LEMMA HostNext == TypeOK /\ TurnInv /\ HostInv /\ [Next]_vars => HostInv'
<1> SUFFICES ASSUME TypeOK, TurnInv, HostInv, [Next]_vars PROVE HostInv'
  OBVIOUS
<1>1. CASE \E r \in Ids : Run(r)
  <2>1. PICK r \in Ids : Run(r) BY <1>1
  <2>2. pc'[r] \notin Quiet => InMode(r)' /\ OnHost(r)' /\ AtEnd(r)'
    BY <2>1, ModeNext, OwnHostNext
  <2>3. \A q \in Ids \ {r} : pc'[q] \notin Quiet => InMode(q)' /\ OnHost(q)' /\ AtEnd(q)'
    BY <2>1, OthersHostNext
  <2> QED BY <2>2, <2>3 DEF HostInv
<1>2. CASE \A r \in Ids : ~Run(r) BY <1>2, HostOthers
<1> QED BY <1>1, <1>2

LEMMA HostHolds == Spec => [](TypeOK /\ TurnInv /\ HostInv)
<1>1. Init => TurnInv /\ HostInv BY DEF Init, TurnInv, Turn, HostInv, Quiet
<1>2. TypeOK /\ TurnInv /\ [Next]_vars => TurnInv'
  BY TurnStepKeeps, TurnOthers DEF Next
<1> QED BY <1>1, <1>2, HostNext, EngineIsTyped, PTL DEF Spec

(* When a run is about to write healthy, the host runs its digest, whoever *)
(* else was clicked meanwhile (engine.go:372-396, 446-452).                *)
THEOREM HealthyRuns == Spec => []HealthyMeansRunning
<1>1. HostInv => HealthyMeansRunning BY DEF HostInv, AtEnd, HealthyMeansRunning, Quiet
<1> QED BY <1>1, HostHolds, PTL

(* When a run is about to write rolled-back, unit file and container are   *)
(* the manifest it restored, and still are after the revert's long waits   *)
(* (engine.go:609-630).                                                    *)
THEOREM RolledBackIsRestored == Spec => []RolledBackMeansRestored
<1>1. HostInv => RolledBackMeansRestored
  BY DEF HostInv, AtEnd, OnHost, RolledBackMeansRestored, Quiet
<1> QED BY <1>1, HostHolds, PTL

-----------------------------------------------------------------------------
(* Main and the proposals.  What an operation on the repository leaves of  *)
(* the proposals there were: all of it, but for the head and base of the   *)
(* one it is about, and for what a commit on main does to them all.        *)

SameProposal(n) ==
    /\ n \in DOMAIN prs'
    /\ prs'[n].service = prs[n].service /\ prs'[n].base = prs[n].base
    /\ prs'[n].head = prs[n].head

CurrentOnMain(n) == ~prs[n].behind => prs[n].base = main[prs[n].service]
BaseInv == \A n \in DOMAIN prs : CurrentOnMain(n)

LEMMA OpenIs ==
  ASSUME RepoTypeOK, NEW s \in Services, NEW c \in Content, NEW n \in Nat,
         OpenManifestPR(s, c, n)
  PROVE  \E p : /\ p.service = s /\ p.head = c
                /\ BaseInv /\ ~p.behind => p.base = main[s]
                /\ \/ n = Len(prs) + 1 /\ prs' = Append(prs, p)
                   \/ /\ n \in DOMAIN prs /\ prs' = [prs EXCEPT ![n] = p]
                      /\ p.service = prs[n].service /\ p.behind = prs[n].behind
<1>1. prs \in Seq(Proposal) BY DEF RepoTypeOK
<1>2. CASE OpenOnNewBranch(s, c, n)
  <2>1. PICK p : p = [service |-> s, want |-> c, base |-> main[s], head |-> c,
                      behind |-> FALSE, state |-> "open"]
    OBVIOUS
  <2>2. p.service = s /\ p.head = c /\ p.base = main[s] BY <2>1
  <2> QED BY <1>2, <2>1, <2>2 DEF OpenOnNewBranch
<1>3. CASE OpenOnOldBranch(s, c, n)
  <2>1. PICK m \in DOMAIN prs :
          /\ prs[m].service = s /\ n = Len(prs) + 1
          /\ prs' = Append(prs, [prs[m] EXCEPT !.head = c, !.state = "open"])
    BY <1>3 DEF OpenOnOldBranch, Newest, branchFor
  <2>2. PICK p : p = [prs[m] EXCEPT !.head = c, !.state = "open"] OBVIOUS
  <2>3. prs[m] \in Proposal BY <1>1, <2>1, ElementOfSeq, LenProperties
  <2>4. /\ p.service = s /\ p.head = c /\ p.base = prs[m].base
        /\ p.behind = prs[m].behind
    BY <2>1, <2>2, <2>3 DEF Proposal
  <2> QED BY <2>1, <2>2, <2>4 DEF BaseInv, CurrentOnMain
<1>4. CASE AdoptOpen(s, c, n)
  <2>1. /\ n \in DOMAIN prs /\ prs[n].service = s
        /\ prs' = [prs EXCEPT ![n] = [prs[n] EXCEPT !.head = c]]
    BY <1>4 DEF AdoptOpen, Newest, branchFor
  <2>2. PICK p : p = [prs[n] EXCEPT !.head = c] OBVIOUS
  <2>3. prs[n] \in Proposal BY <1>1, <2>1, ElementOfSeq, LenProperties
  <2>4. /\ p.service = s /\ p.head = c /\ p.base = prs[n].base
        /\ p.behind = prs[n].behind
    BY <2>1, <2>2, <2>3 DEF Proposal
  <2> QED BY <2>1, <2>2, <2>4 DEF BaseInv, CurrentOnMain
<1> QED BY <1>2, <1>3, <1>4 DEF OpenManifestPR

LEMMA OpenGives ==
  ASSUME RepoTypeOK, NEW s \in Services, NEW c \in Content, NEW n \in Nat,
         OpenManifestPR(s, c, n)
  PROVE  prs'[n].service = s /\ prs'[n].head = c
<1>1. prs \in Seq(Proposal) BY DEF RepoTypeOK
<1>2. PICK p : /\ p.service = s /\ p.head = c
               /\ \/ n = Len(prs) + 1 /\ prs' = Append(prs, p)
                  \/ n \in DOMAIN prs /\ prs' = [prs EXCEPT ![n] = p]
  BY OpenIs
<1>3. prs'[n] = p BY <1>1, <1>2, LenProperties
<1> QED BY <1>2, <1>3

LEMMA OpenLeaves ==
  ASSUME RepoTypeOK, NEW s \in Services, NEW c \in Content, NEW n \in Nat,
         OpenManifestPR(s, c, n)
  PROVE  /\ \A m \in DOMAIN prs :
              /\ prs'[m].service = prs[m].service /\ prs'[m].behind = prs[m].behind
              /\ m # n => SameProposal(m)
         /\ DOMAIN prs' = DOMAIN prs \cup {n}
         /\ BaseInv => CurrentOnMain(n)'
<1>1. prs \in Seq(Proposal) /\ UNCHANGED main BY DEF RepoTypeOK, OpenManifestPR
<1>2. PICK p : /\ p.service = s
               /\ BaseInv /\ ~p.behind => p.base = main[s]
               /\ \/ n = Len(prs) + 1 /\ prs' = Append(prs, p)
                  \/ /\ n \in DOMAIN prs /\ prs' = [prs EXCEPT ![n] = p]
                     /\ p.service = prs[n].service /\ p.behind = prs[n].behind
  BY OpenIs
<1> DEFINE Shape == /\ DOMAIN prs' = DOMAIN prs \cup {n} /\ prs'[n] = p
                    /\ \A m \in DOMAIN prs \ {n} : prs'[m] = prs[m]
                    /\ \/ n \notin DOMAIN prs
                       \/ p.service = prs[n].service /\ p.behind = prs[n].behind
<1>a. ASSUME n = Len(prs) + 1, prs' = Append(prs, p) PROVE Shape
  <2>1. DOMAIN prs = 1 .. Len(prs) /\ Len(prs) \in Nat BY <1>1, LenProperties
  <2>2. DOMAIN prs' = DOMAIN prs \cup {n} BY <1>1, <1>a, <2>1
  <2>3. prs'[n] = p /\ \A m \in DOMAIN prs \ {n} : prs'[m] = prs[m]
    BY <1>1, <1>a, <2>1
  <2>4. n \notin DOMAIN prs BY <1>a, <2>1
  <2> QED BY <2>2, <2>3, <2>4
<1>b. ASSUME n \in DOMAIN prs, prs' = [prs EXCEPT ![n] = p],
             p.service = prs[n].service, p.behind = prs[n].behind
      PROVE  Shape
  <2>1. DOMAIN prs' = DOMAIN prs /\ prs'[n] = p BY <1>b
  <2>2. \A m \in DOMAIN prs \ {n} : prs'[m] = prs[m] BY <1>b
  <2> QED BY <1>b, <2>1, <2>2
<1>3. Shape BY <1>2, <1>a, <1>b
<1>4. BaseInv => CurrentOnMain(n)' BY <1>1, <1>2, <1>3 DEF CurrentOnMain
<1> QED BY <1>3, <1>4 DEF SameProposal

(* A commit on main leaves every proposal behind. *)
LEMMA MainLeaves ==
  ASSUME RepoTypeOK, NEW s \in Services, NEW c \in Content, NEW ps \in Seq(Proposal),
         MainBecomes(s, c, ps)
  PROVE  /\ DOMAIN prs' = DOMAIN ps
         /\ \A n \in DOMAIN ps :
              /\ prs'[n].behind = TRUE
              /\ prs'[n].service = ps[n].service /\ prs'[n].base = ps[n].base
              /\ prs'[n].head = ps[n].head /\ prs'[n].state = ps[n].state
<1>1. prs' = [n \in DOMAIN ps |-> [ps[n] EXCEPT !.behind = TRUE]] BY DEF MainBecomes
<1>2. ASSUME NEW n \in DOMAIN ps
      PROVE  /\ prs'[n].behind = TRUE
             /\ prs'[n].service = ps[n].service /\ prs'[n].base = ps[n].base
             /\ prs'[n].head = ps[n].head /\ prs'[n].state = ps[n].state
  <2>1. ps[n] \in Proposal BY <1>2, ElementOfSeq, LenProperties
  <2>2. prs'[n] = [ps[n] EXCEPT !.behind = TRUE] BY <1>1
  <2> QED BY <2>1, <2>2 DEF Proposal
<1> QED BY <1>1, <1>2

LEMMA PushLeaves ==
  ASSUME RepoTypeOK, NEW s \in Services, Push(s)
  PROVE  /\ \A n \in DOMAIN prs : SameProposal(n) /\ prs'[n].behind = TRUE
         /\ DOMAIN prs' = DOMAIN prs /\ edits' # edits
<1>1. PICK c : MainBecomes(s, c, prs) /\ c \in Content
  <2>1. PICK d \in Digests, rev \in {main[s].rev, edits + 1} :
          MainBecomes(s, [digest |-> d, rev |-> rev], prs)
    BY DEF Push
  <2>2. main[s].rev \in Revs /\ edits + 1 \in Revs
    BY RepoAssumption DEF RepoTypeOK, Content, Revs, Push
  <2>3. [digest |-> d, rev |-> rev] \in Content BY <2>1, <2>2 DEF Content
  <2> QED BY <2>1, <2>3
<1>2. prs \in Seq(Proposal) /\ edits \in Nat /\ edits' = edits + 1
  BY DEF RepoTypeOK, Push
<1>3. \A n \in DOMAIN prs : SameProposal(n) /\ prs'[n].behind = TRUE
  BY <1>1, <1>2, MainLeaves DEF SameProposal
<1>4. DOMAIN prs' = DOMAIN prs BY <1>1, <1>2, MainLeaves
<1> QED BY <1>2, <1>3, <1>4

LEMMA MergeLeaves ==
  ASSUME RepoTypeOK, NEW n \in DOMAIN prs, Merge(n)
  PROVE  /\ \A m \in DOMAIN prs : SameProposal(m) /\ prs'[m].behind = TRUE
         /\ DOMAIN prs' = DOMAIN prs /\ prs'[n].state = "merged" /\ ~prs[n].behind
         /\ main' = [main EXCEPT ![prs[n].service] = prs[n].head]
<1>1. prs \in Seq(Proposal) /\ prs[n] \in Proposal
  BY ElementOfSeq, LenProperties DEF RepoTypeOK
<1>2. PICK ps : ps = [prs EXCEPT ![n].state = "merged"] OBVIOUS
<1>3. PICK p : p = [prs[n] EXCEPT !.state = "merged"] OBVIOUS
<1>4. /\ p \in Proposal /\ p.service = prs[n].service /\ p.base = prs[n].base
      /\ p.head = prs[n].head /\ p.state = "merged"
  BY <1>1, <1>3 DEF Proposal
<1>5. ps = [prs EXCEPT ![n] = p] BY <1>2, <1>3
<1>6. /\ ps \in Seq(Proposal) /\ DOMAIN ps = DOMAIN prs /\ ps[n] = p
      /\ \A m \in DOMAIN prs \ {n} : ps[m] = prs[m]
  BY <1>1, <1>4, <1>5
<1>7. MainBecomes(prs[n].service, prs[n].head, ps) /\ ~prs[n].behind
  BY <1>2 DEF Merge, CanMerge
<1>8. prs[n].service \in Services /\ prs[n].head \in Content BY <1>1 DEF Proposal
<1>9. main' = [main EXCEPT ![prs[n].service] = prs[n].head]
  BY <1>7 DEF MainBecomes
<1>10. /\ DOMAIN prs' = DOMAIN ps
       /\ \A m \in DOMAIN ps :
            /\ prs'[m].behind = TRUE
            /\ prs'[m].service = ps[m].service /\ prs'[m].base = ps[m].base
            /\ prs'[m].head = ps[m].head /\ prs'[m].state = ps[m].state
  BY <1>6, <1>7, <1>8, MainLeaves
<1>11. ASSUME NEW m \in DOMAIN prs
       PROVE  SameProposal(m) /\ prs'[m].behind = TRUE
  <2>1. /\ ps[m].service = prs[m].service /\ ps[m].base = prs[m].base
        /\ ps[m].head = prs[m].head
    BY <1>4, <1>6
  <2>2. m \in DOMAIN ps /\ m \in DOMAIN prs' BY <1>6, <1>10
  <2> QED BY <1>10, <2>1, <2>2 DEF SameProposal
<1>12. DOMAIN prs' = DOMAIN prs /\ prs'[n].state = "merged"
  BY <1>4, <1>6, <1>10
<1> QED BY <1>7, <1>9, <1>11, <1>12

LEMMA UpdateLeaves ==
  ASSUME RepoTypeOK, NEW n \in DOMAIN prs, UpdateBranch(n)
  PROVE  /\ \A m \in DOMAIN prs : m # n =>
              SameProposal(m) /\ prs'[m].behind = prs[m].behind
         /\ DOMAIN prs' = DOMAIN prs
         /\ prs'[n].service = prs[n].service /\ prs'[n].behind = FALSE
         /\ prs'[n].base = main[prs[n].service]
         /\ prs'[n].head.digest = Merged(prs[n].base.digest, prs[n].head.digest,
                                         main[prs[n].service].digest)
<1> PICK m : m = main[prs[n].service] OBVIOUS
<1> PICK d : d = Merged(prs[n].base.digest, prs[n].head.digest, m.digest) OBVIOUS
<1> PICK rev : rev = Merged(prs[n].base.rev, prs[n].head.rev, m.rev) OBVIOUS
<1>1. prs \in Seq(Proposal) /\ prs[n] \in Proposal
  BY ElementOfSeq, LenProperties DEF RepoTypeOK
<1>2. PICK p : p = [prs[n] EXCEPT !.head.digest = d, !.head.rev = rev, !.base = m,
                                  !.behind = FALSE]
  OBVIOUS
<1>3. prs' = [prs EXCEPT ![n] = p] BY <1>2 DEF UpdateBranch
<1>4. prs[n].head \in Content BY <1>1 DEF Proposal
<1>5. PICK h : h = [prs[n].head EXCEPT !.digest = d, !.rev = rev] OBVIOUS
<1>6. h.digest = d BY <1>4, <1>5 DEF Content
<1>7. p = [prs[n] EXCEPT !.head = h, !.base = m, !.behind = FALSE]
  BY <1>1, <1>2, <1>5 DEF Proposal
<1>8. p.service = prs[n].service /\ p.behind = FALSE /\ p.base = m /\ p.head = h
  BY <1>1, <1>7 DEF Proposal
<1>9. /\ DOMAIN prs' = DOMAIN prs /\ prs'[n] = p
      /\ \A k \in DOMAIN prs \ {n} : prs'[k] = prs[k]
  BY <1>1, <1>3
<1> QED BY <1>6, <1>8, <1>9 DEF SameProposal

LEMMA CloseLeaves ==
  ASSUME RepoTypeOK, NEW n \in DOMAIN prs, ClosePR(n)
  PROVE  /\ \A m \in DOMAIN prs : SameProposal(m) /\ prs'[m].behind = prs[m].behind
         /\ DOMAIN prs' = DOMAIN prs
<1>1. prs \in Seq(Proposal) /\ prs[n] \in Proposal
  BY ElementOfSeq, LenProperties DEF RepoTypeOK
<1>2. PICK x : x = IF prs[n].state = "open" THEN "closed" ELSE prs[n].state OBVIOUS
<1>3. PICK p : p = [prs[n] EXCEPT !.state = x] OBVIOUS
<1>4. prs' = [prs EXCEPT ![n] = p] BY <1>2, <1>3 DEF ClosePR
<1>5. /\ p.service = prs[n].service /\ p.base = prs[n].base /\ p.head = prs[n].head
      /\ p.behind = prs[n].behind
  BY <1>1, <1>3 DEF Proposal
<1>6. /\ DOMAIN prs' = DOMAIN prs /\ prs'[n] = p
      /\ \A k \in DOMAIN prs \ {n} : prs'[k] = prs[k]
  BY <1>1, <1>4
<1> QED BY <1>5, <1>6 DEF SameProposal

-----------------------------------------------------------------------------
(* The proposals of the runs in the span.  A run's proposal is of its own  *)
(* service, one that has all of main was forked from main as it is, and a  *)
(* revert proposes the previous pin or, after an update, main's own.       *)

ProposalOf(r) == prs[req[r].pr]
OfItsService(r) == pc[r] \in InSpan => ProposalOf(r).service = Service(r)
RevertsPin(r) ==
    pc[r] \in {"checks", "merge", "update"} /\ Reverting(r) =>
        \/ ProposalOf(r).head.digest = ProposalOf(r).base.digest
        \/ ProposalOf(r).head.digest = req[r].original.digest

ProposalInv ==
    /\ BaseInv
    /\ \A r \in Ids : OfItsService(r) /\ RevertsPin(r)

LEMMA ProposalKnown ==
  ASSUME TypeOK, NEW r \in Ids, pc[r] \in InSpan
  PROVE  req[r].pr \in DOMAIN prs
BY DEF TypeOK, RunTypeOK

LEMMA BaseNext ==
  ASSUME TypeOK, BaseInv, [Next]_vars
  PROVE  BaseInv'
<1>1. RepoTypeOK BY DEF TypeOK
<1>2. CASE UNCHANGED repoVars BY <1>2 DEF BaseInv, CurrentOnMain, repoVars
<1>3. CASE \E s \in Services : Push(s)
  BY <1>1, <1>3, PushLeaves DEF BaseInv, CurrentOnMain
<1>4. CASE \E r \in Ids : Run(r) /\ RepoMove(r)
  <2>1. PICK r \in Ids : Run(r) /\ RepoMove(r) BY <1>4
  <2>2. CASE pc[r] = "open" /\ \E m \in Nat : OpenManifestPR(Service(r), Proposed(r), m)
    <3>1. r \in DOMAIN journal /\ req[r] \in Request
      BY <2>1, RunIsAlone DEF RunMovesAlone, TypeOK, RunTypeOK
    <3>2. Service(r) \in Services /\ Proposed(r) \in Content
      BY <3>1, ServiceIs DEF Proposed, Request
    <3>3. PICK m \in Nat : OpenManifestPR(Service(r), Proposed(r), m) BY <2>2
    <3>4. UNCHANGED main BY <3>3 DEF OpenManifestPR
    <3>5. /\ DOMAIN prs' = DOMAIN prs \cup {m} /\ CurrentOnMain(m)'
          /\ \A n \in DOMAIN prs : n # m =>
               SameProposal(n) /\ prs'[n].behind = prs[n].behind
      BY <1>1, <3>2, <3>3, OpenLeaves
    <3> QED BY <3>4, <3>5 DEF BaseInv, CurrentOnMain, SameProposal
  <2>3. CASE pc[r] = "merge" /\ Merge(req[r].pr)
    <3>1. req[r].pr \in DOMAIN prs BY <2>3, ProposalKnown DEF InSpan
    <3> QED BY <1>1, <2>3, <3>1, MergeLeaves DEF BaseInv, CurrentOnMain
  <2>4. CASE pc[r] = "update" /\ UpdateBranch(req[r].pr)
    <3>1. req[r].pr \in DOMAIN prs BY <2>4, ProposalKnown DEF InSpan
    <3>2. UNCHANGED main BY <2>4 DEF UpdateBranch
    <3>3. PICK n \in DOMAIN prs : n = req[r].pr BY <3>1
    <3>4. CurrentOnMain(n)' BY <1>1, <2>4, <3>2, <3>3, UpdateLeaves DEF CurrentOnMain
    <3>5. ASSUME NEW m \in DOMAIN prs, m # n PROVE CurrentOnMain(m)'
      <4>1. SameProposal(m) /\ prs'[m].behind = prs[m].behind
        BY <1>1, <2>4, <3>3, <3>5, UpdateLeaves
      <4> QED BY <3>2, <4>1 DEF BaseInv, CurrentOnMain, SameProposal
    <3>6. DOMAIN prs' = DOMAIN prs BY <1>1, <2>4, <3>3, UpdateLeaves
    <3> QED BY <3>4, <3>5, <3>6 DEF BaseInv
  <2>5. CASE pc[r] = "abandon" /\ ClosePR(req[r].pr)
    <3>1. req[r].pr \in DOMAIN prs BY <2>5, ProposalKnown DEF InSpan
    <3>2. UNCHANGED main BY <2>5 DEF ClosePR
    <3> QED BY <1>1, <2>5, <3>1, <3>2, CloseLeaves DEF BaseInv, CurrentOnMain, SameProposal
  <2> QED BY <1>2, <2>1, <2>2, <2>3, <2>4, <2>5 DEF RepoMove
<1> QED BY <1>2, <1>3, <1>4, MainMoves

(* A run comes to have a proposal by opening it, and keeps that one. *)
LEMMA RunProposes ==
  ASSUME TypeOK, NEW r \in Ids, Run(r), pc'[r] \in InSpan
  PROVE  /\ SameRequest(r)
         /\ \/ /\ pc[r] = "open"
               /\ \E n \in Nat : /\ OpenManifestPR(Service(r), Proposed(r), n)
                                 /\ req'[r].pr = n
            \/ pc[r] \in InSpan \ {"abandon"} /\ req'[r].pr = req[r].pr
<1>1. req \in [Ids -> Request] /\ pc \in [Ids -> Labels] /\ req[r] \in Request
  BY DEF TypeOK, RunTypeOK
<1>2. ASSUME NEW label \in Labels \ InSpan, Goto(r, label) PROVE FALSE
  BY <1>1, <1>2 DEF Goto
<1>3. {"finish", "merge queue", "merged", "sync", "turn", "converge sync", "front", "inspect",
       "open", "apply sync", "apply read", "converge read", "write", "restart", "probe",
       "release", "leave", "gone"} \subseteq Labels \ InSpan
  BY DEF Labels, InSpan
<1>4. ASSUME RevertAgain(r) \/ RevertOver(r) PROVE FALSE
  BY <1>2, <1>3, <1>4 DEF RevertAgain, RevertOver, EndWith
<1>5. CASE Open(r)
  <2>1. ~OpenFails(r) BY <1>2, <1>3, <1>4 DEF OpenFails, EndWith
  <2>2. PICK n \in {Len(prs) + 1} \cup DOMAIN prs :
          /\ OpenManifestPR(Service(r), Proposed(r), n)
          /\ req' = [req EXCEPT ![r].pr = n, ![r].attempt = 1]
    BY <1>5, <2>1 DEF Open
  <2>3. n \in Nat BY LenProperties DEF TypeOK, RepoTypeOK
  <2>4. req'[r] = [req[r] EXCEPT !.pr = n, !.attempt = 1] BY <1>1, <2>2
  <2>5. req'[r].pr = n /\ SameRequest(r) BY <1>1, <2>4 DEF Request, SameRequest
  <2> QED BY <1>5, <2>2, <2>3, <2>5 DEF Open, At
<1>6. ASSUME pc[r] \in InSpan \ {"abandon"}, UNCHANGED req
      PROVE  SameRequest(r) /\ pc[r] \in InSpan \ {"abandon"} /\ req'[r].pr = req[r].pr
  BY <1>6 DEF SameRequest
<1>7. SpanFails(r) => UNCHANGED req BY <1>4 DEF SpanFails
<1>8. CASE Record(r) \/ WaitChecks(r) \/ MergePR(r)
  <2>1. pc[r] \in InSpan \ {"abandon"}
    BY <1>8 DEF Record, WaitChecks, MergePR, At, InSpan
  <2>2. UNCHANGED req
    BY <1>2, <1>3, <1>7, <1>8 DEF Record, WaitChecks, MergePR, EndWith
  <2> QED BY <1>6, <2>1, <2>2
<1>9. CASE Update(r)
  <2>1. pc[r] \in InSpan \ {"abandon"} BY <1>9 DEF Update, At, InSpan
  <2>2. UNCHANGED req \/ req' = [req EXCEPT ![r].attempt = req[r].attempt + 1]
    BY <1>7, <1>9 DEF Update
  <2>3. CASE req' = [req EXCEPT ![r].attempt = req[r].attempt + 1]
    <3>1. req'[r] = [req[r] EXCEPT !.attempt = req[r].attempt + 1] BY <1>1, <2>3
    <3>2. SameRequest(r) /\ req'[r].pr = req[r].pr
      BY <1>1, <3>1 DEF Request, SameRequest
    <3> QED BY <2>1, <3>2
  <2> QED BY <1>6, <2>1, <2>2, <2>3
<1>10. CASE Launch(r) \/ PrologueSync(r) \/ TakeTurn(r) \/ AbandonTurn(r) \/ LockMergeQueue(r)
            \/ AbandonBackoff(r) \/ Front(r) \/ Inspect(r) \/ Abandon(r) \/ RecordMerge(r)
  <2>1. \E label \in {"finish", "sync", "turn", "converge sync", "merge queue", "open",
                      "front", "inspect", "apply sync"} : Goto(r, label)
    BY <1>10 DEF Launch, PrologueSync, TakeTurn, AbandonTurn, LockMergeQueue, AbandonBackoff,
       Front, Inspect, Abandon, RecordMerge, EndWith
  <2> QED BY <1>2, <1>3, <2>1
<1>11. CASE ConvergeSync(r) \/ ConvergeRead(r) \/ ApplySync(r) \/ ApplyRead(r)
            \/ WriteUnit(r) \/ ReloadAndRestart(r) \/ Probe(r)
  <2>1. \E label \in {"finish", "converge read", "apply read", "write", "restart",
                      "probe", "merge queue"} : Goto(r, label)
    BY <1>11 DEF ConvergeSync, ConvergeRead, ApplySync, SyncThen, ApplyRead, WriteUnit,
       ReloadAndRestart, Probe, Healthy, ApplyFails, RollBack, EndWith
  <2> QED BY <1>2, <1>3, <2>1
<1>12. CASE Finish(r) \/ Release(r) \/ Leave(r)
  <2>1. \E label \in {"release", "leave", "gone"} : Goto(r, label)
    BY <1>12 DEF Finish, Release, Leave
  <2> QED BY <1>2, <1>3, <2>1
<1> QED BY <1>5, <1>8, <1>9, <1>10, <1>11, <1>12 DEF Run

(* What a step of a run leaves of the proposals of the runs in the span.   *)
LEMMA RunLeavesProposals ==
  ASSUME TypeOK, SpanInv, NEW r \in Ids, Run(r), NEW q \in Ids, pc[q] \in InSpan
  PROVE  /\ prs'[req[q].pr].service = ProposalOf(q).service
         /\ pc[q] \in {"checks", "merge", "update"} /\ (q # r \/ pc[r] # "update")
              => SameProposal(req[q].pr)
<1> PICK n : n = req[q].pr OBVIOUS
<1>1. RepoTypeOK /\ n \in DOMAIN prs BY ProposalKnown DEF TypeOK
<1>2. pc[q] \in {"checks", "merge", "update"} /\ q # r => pc[r] \notin MergeSpan
  BY DEF SpanInv, MergeSpan
<1>3. CASE UNCHANGED repoVars BY <1>1, <1>3 DEF repoVars, SameProposal, ProposalOf
<1>4. CASE pc[r] = "open" /\ \E m \in Nat : OpenManifestPR(Service(r), Proposed(r), m)
  <2>1. r \in DOMAIN journal /\ req[r] \in Request
    BY RunIsAlone DEF RunMovesAlone, TypeOK, RunTypeOK
  <2>2. Service(r) \in Services /\ Proposed(r) \in Content
    BY <2>1, ServiceIs DEF Proposed, Request
  <2>3. PICK m \in Nat : OpenManifestPR(Service(r), Proposed(r), m) BY <1>4
  <2>4. prs'[n].service = prs[n].service
    BY <1>1, <2>2, <2>3, OpenLeaves DEF SameProposal
  <2>5. ~(pc[q] \in {"checks", "merge", "update"})
    BY <1>2, <1>4 DEF MergeSpan
  <2> QED BY <2>4, <2>5 DEF ProposalOf
<1>5. CASE pc[r] = "merge" /\ Merge(req[r].pr)
  <2>1. req[r].pr \in DOMAIN prs BY <1>5, ProposalKnown DEF InSpan
  <2>2. SameProposal(n) BY <1>1, <1>5, <2>1, MergeLeaves
  <2> QED BY <2>2 DEF SameProposal, ProposalOf
<1>6. CASE pc[r] = "update" /\ UpdateBranch(req[r].pr)
  <2>1. req[r].pr \in DOMAIN prs BY <1>6, ProposalKnown DEF InSpan
  <2>2. prs'[n].service = prs[n].service
    BY <1>1, <1>6, <2>1, UpdateLeaves DEF SameProposal
  <2>3. ~(pc[q] \in {"checks", "merge", "update"} /\ (q # r \/ pc[r] # "update"))
    BY <1>2, <1>6 DEF MergeSpan
  <2> QED BY <2>2, <2>3 DEF ProposalOf
<1>7. CASE pc[r] = "abandon" /\ ClosePR(req[r].pr)
  <2>1. req[r].pr \in DOMAIN prs BY <1>7, ProposalKnown DEF InSpan
  <2>2. SameProposal(n) BY <1>1, <1>7, <2>1, CloseLeaves
  <2> QED BY <2>2 DEF SameProposal, ProposalOf
<1> QED BY <1>3, <1>4, <1>5, <1>6, <1>7, RunIsRepoMove DEF RepoMove

LEMMA OwnProposalNext ==
  ASSUME TypeOK, SpanInv, HostInv, ProposalInv, NEW r \in Ids, Run(r)
  PROVE  OfItsService(r)' /\ RevertsPin(r)'
<1> PICK s : s = Service(r) OBVIOUS
<1> PICK n : n = req'[r].pr OBVIOUS
<1>1. /\ RepoTypeOK /\ r \in DOMAIN journal /\ req[r] \in Request
      /\ s \in Services /\ journal'[r].service = s
  <2>1. r \in DOMAIN journal BY RunIsAlone DEF RunMovesAlone
  <2> QED
    BY <2>1, RunKeepsServices, ServiceIs DEF ServicesKept, Service, TypeOK, RunTypeOK
<1>2. CASE pc'[r] \notin InSpan
  BY <1>2 DEF OfItsService, RevertsPin, InSpan
<1>3. CASE /\ pc'[r] \in InSpan /\ SameRequest(r) /\ pc[r] = "open"
           /\ OpenManifestPR(s, Proposed(r), n) /\ n \in Nat
  <2>1. Proposed(r) \in Content BY <1>1 DEF Proposed, Request
  <2>2. prs'[n].service = s /\ prs'[n].head = Proposed(r)
    <3>1. PICK c \in Content : c = Proposed(r) BY <2>1
    <3>2. OpenManifestPR(s, c, n) BY <1>3, <3>1
    <3>3. RepoTypeOK /\ s \in Services /\ n \in Nat BY <1>1, <1>3
    <3>4. prs'[n].service = s /\ prs'[n].head = c BY <3>2, <3>3, OpenGives
    <3> QED BY <3>1, <3>4
  <2>3. Reverting(r)' => prs'[n].head = req'[r].original
    BY <1>3, <2>2 DEF Reverting, SameRequest, Proposed
  <2> QED BY <1>1, <2>2, <2>3 DEF OfItsService, RevertsPin, ProposalOf, Service, Reverting
<1>4. CASE /\ pc'[r] \in InSpan /\ SameRequest(r) /\ n = req[r].pr
           /\ pc[r] \in InSpan \ {"abandon"}
  <2>1. prs'[n].service = s
    BY <1>4, RunLeavesProposals DEF ProposalInv, OfItsService
  <2>2. ASSUME req'[r].mode = "revert"
        PROVE  prs'[n].head.digest = prs'[n].base.digest
                 \/ prs'[n].head.digest = req'[r].original.digest
    <3>1. pc[r] \in {"checks", "merge", "update"} /\ Reverting(r)
      <4>1. req[r].mode = "revert" BY <1>4, <2>2 DEF SameRequest
      <4>2. InMode(r) BY <1>4 DEF HostInv, InSpan, Quiet
      <4> QED BY <1>4, <4>1, <4>2 DEF InMode, InSpan, Undoing, Reverting
    <3>2. \/ prs[n].head.digest = prs[n].base.digest
          \/ prs[n].head.digest = req[r].original.digest
      BY <1>4, <3>1 DEF ProposalInv, RevertsPin, ProposalOf
    <3>3. CASE SameProposal(n) BY <1>4, <3>2, <3>3 DEF SameProposal, SameRequest
    <3>4. CASE pc[r] = "update" /\ UpdateBranch(n)
      <4>1. n \in DOMAIN prs BY <1>4, ProposalKnown
      <4>2. /\ prs'[n].base = main[prs[n].service]
            /\ prs'[n].head.digest = Merged(prs[n].base.digest, prs[n].head.digest,
                                            main[prs[n].service].digest)
        BY <1>1, <3>4, <4>1, UpdateLeaves
      <4> QED BY <1>4, <3>2, <4>2 DEF Merged, SameRequest
    <3>5. CASE pc[r] = "update" /\ UNCHANGED repoVars
      BY <1>4, <3>2, <3>5 DEF repoVars, SameRequest
    <3>6. CASE pc[r] # "update" BY <1>4, <3>1, <3>3, <3>6, RunLeavesProposals
    <3> QED BY <1>4, <3>4, <3>5, <3>6, RunIsRepoMove DEF RepoMove
  <2> QED BY <1>1, <2>1, <2>2 DEF OfItsService, RevertsPin, ProposalOf, Service, Reverting
<1> QED BY <1>2, <1>3, <1>4, RunProposes

LEMMA OthersProposalNext ==
  ASSUME TypeOK, SpanInv, ProposalInv, NEW r \in Ids, Run(r), NEW q \in Ids, q # r
  PROVE  OfItsService(q)' /\ RevertsPin(q)'
<1> PICK n : n = req[q].pr OBVIOUS
<1>1. pc'[q] = pc[q] /\ req'[q] = req[q] BY RunIsAlone DEF RunMovesAlone
<1>2. CASE pc[q] \notin InSpan BY <1>1, <1>2 DEF OfItsService, RevertsPin, InSpan
<1>3. CASE pc[q] \in InSpan
  <2>1. journal'[q].service = journal[q].service
    BY <1>3, RunKeepsServices DEF ServicesKept, TypeOK, RunTypeOK, InSpan
  <2>2. /\ prs'[n].service = prs[n].service
        /\ pc[q] \in {"checks", "merge", "update"} => SameProposal(n)
    BY <1>3, RunLeavesProposals DEF ProposalOf
  <2>3. OfItsService(q) /\ RevertsPin(q) BY DEF ProposalInv
  <2>4. OfItsService(q)' BY <1>1, <2>1, <2>2, <2>3 DEF OfItsService, ProposalOf, Service
  <2>5. RevertsPin(q)'
    BY <1>1, <2>2, <2>3 DEF RevertsPin, ProposalOf, SameProposal, Reverting
  <2> QED BY <2>4, <2>5
<1> QED BY <1>2, <1>3

LEMMA ProposalOthers ==
  ASSUME TypeOK, ProposalInv, [Next]_vars, \A r \in Ids : ~Run(r), NEW q \in Ids
  PROVE  OfItsService(q)' /\ RevertsPin(q)'
<1> PICK n : n = req[q].pr OBVIOUS
<1>1. \A m \in DOMAIN prs : SameProposal(m)
  <2>1. RepoTypeOK BY DEF TypeOK
  <2>2. CASE UNCHANGED repoVars BY <2>2 DEF SameProposal, repoVars
  <2>3. CASE \E s \in Services : Push(s) BY <2>1, <2>3, PushLeaves
  <2> QED BY <2>2, <2>3, MainMoves
<1>2. CASE pc'[q] \notin InSpan BY <1>2 DEF OfItsService, RevertsPin, InSpan
<1>3. CASE pc'[q] \in InSpan /\ ServicesKept /\ pc'[q] = pc[q] /\ req'[q] = req[q]
  <2>1. n \in DOMAIN prs BY <1>3, ProposalKnown
  <2>2. journal'[q].service = journal[q].service
    BY <1>3 DEF ServicesKept, TypeOK, RunTypeOK, InSpan
  <2>3. OfItsService(q) /\ RevertsPin(q) BY DEF ProposalInv
  <2>4. SameProposal(n) BY <1>1, <2>1
  <2>5. OfItsService(q)'
    BY <1>3, <2>2, <2>3, <2>4 DEF OfItsService, ProposalOf, SameProposal, Service
  <2>6. RevertsPin(q)'
    BY <1>3, <2>3, <2>4 DEF RevertsPin, ProposalOf, SameProposal, Reverting
  <2> QED BY <2>5, <2>6
<1>4. CASE \E c \in Clients : Begin(c)
  <2>1. PICK c \in Clients : Begin(c) BY <1>4
  <2>2. PICK id : id = Len(journal) + 1 OBVIOUS
  <2>3. PICK k : req' = [req EXCEPT ![id] = k] /\ pc' = [pc EXCEPT ![id] = "begun"]
    BY <2>1, <2>2 DEF Begin, Goto
  <2>4. /\ q # id => pc'[q] = pc[q] /\ req'[q] = req[q]
        /\ q = id => pc'[q] = "begun"
    BY <2>3 DEF TypeOK, RunTypeOK
  <2>5. PICK row : journal' = Append(journal, row) BY <2>1 DEF Begin
  <2>6. ServicesKept
    BY <2>5, LenProperties DEF ServicesKept, TypeOK, JournalTypeOK
  <2> QED BY <1>2, <1>3, <2>4, <2>6 DEF InSpan
<1>5. CASE MemoryLost
  <2>1. pc'[q] \in Quiet BY <1>5 DEF MemoryLost, Live, Quiet
  <2> QED BY <1>2, <2>1 DEF InSpan, Quiet
<1>6. CASE CloseOrphan
  BY <1>2, <1>3, <1>6, OrphanKeepsServices DEF CloseOrphan
<1>7. CASE UNCHANGED runVars BY <1>2, <1>3, <1>7 DEF runVars, ServicesKept
<1> QED BY <1>4, <1>5, <1>6, <1>7, OtherSteps

LEMMA ProposalNext ==
  TypeOK /\ SpanInv /\ HostInv /\ ProposalInv /\ [Next]_vars => ProposalInv'
<1> SUFFICES ASSUME TypeOK, SpanInv, HostInv, ProposalInv, [Next]_vars
             PROVE  ProposalInv'
  OBVIOUS
<1>1. BaseInv' BY BaseNext DEF ProposalInv
<1>2. ASSUME NEW q \in Ids PROVE OfItsService(q)' /\ RevertsPin(q)'
  <2>1. CASE \E r \in Ids : Run(r) BY <2>1, OwnProposalNext, OthersProposalNext
  <2>2. CASE \A r \in Ids : ~Run(r) BY <2>2, ProposalOthers
  <2> QED BY <2>1, <2>2
<1> QED BY <1>1, <1>2 DEF ProposalInv

-----------------------------------------------------------------------------
(* Main moves by the merge of the run in the span, or by someone's push.   *)

LEMMA SpanIsAlone ==
  ASSUME SpanInv, NEW r \in Ids, NEW q \in Ids, pc[r] \in MergeSpan, pc[q] \in MergeSpan
  PROVE  r = q
BY DEF SpanInv

LEMMA OnlyPushesStrand ==
  ASSUME TypeOK, SpanInv, [Next]_vars, NEW r \in Ids,
         pc[r] \in {"record", "checks", "merge", "update"},
         ~prs[req[r].pr].behind, prs'[req[r].pr].behind, prs'[req[r].pr].state = "open"
  PROVE  edits' # edits
<1> PICK n : n = req[r].pr OBVIOUS
<1>1. RepoTypeOK /\ n \in DOMAIN prs /\ pc[r] \in MergeSpan
  BY ProposalKnown DEF TypeOK, InSpan, MergeSpan
<1>2. CASE UNCHANGED repoVars BY <1>2 DEF repoVars
<1>3. CASE \E s \in Services : Push(s) BY <1>1, <1>3, PushLeaves
<1>4. ASSUME NEW q \in Ids, Run(q), RepoMove(q) PROVE FALSE
  <2>1. CASE pc[q] = "open" BY <1>1, <2>1, SpanIsAlone DEF MergeSpan
  <2>2. CASE pc[q] = "merge" /\ Merge(req[q].pr)
    <3>1. q = r BY <1>1, <2>2, SpanIsAlone DEF MergeSpan
    <3> QED BY <1>1, <2>2, <3>1, MergeLeaves
  <2>3. CASE pc[q] = "update" /\ UpdateBranch(req[q].pr)
    <3>1. q = r BY <1>1, <2>3, SpanIsAlone DEF MergeSpan
    <3> QED BY <1>1, <2>3, <3>1, UpdateLeaves
  <2>4. CASE pc[q] = "abandon" /\ ClosePR(req[q].pr)
    <3>1. req[q].pr \in DOMAIN prs BY <2>4, ProposalKnown DEF InSpan
    <3> QED BY <1>1, <2>4, <3>1, CloseLeaves
  <2> QED BY <1>2, <1>4, <2>1, <2>2, <2>3, <2>4 DEF RepoMove, repoVars
<1> QED BY <1>2, <1>3, <1>4, MainMoves DEF repoVars

(* No merge of the daemon's strands a proposal another run has in flight:  *)
(* main moves underneath an open proposal only by someone's push           *)
(* (engine.go:109-115, 464-465).                                           *)
THEOREM NobodyStranded == Spec => OnlyPushesMoveMain
<1>1. TypeOK /\ SpanInv /\ [Next]_vars
        => [\A r \in Ids :
              LET n == req[r].pr IN
              /\ pc[r] \in {"record", "checks", "merge", "update"}
              /\ ~prs[n].behind /\ prs'[n].behind /\ prs'[n].state = "open"
              => edits' # edits]_vars
  BY OnlyPushesStrand
<1> QED BY <1>1, SpanInit, SpanNext, EngineIsTyped, PTL DEF Spec, OnlyPushesMoveMain

LEMMA RevertLands ==
  ASSUME TypeOK, SpanInv, HostInv, ProposalInv, [Next]_vars, NEW r \in Ids,
         pc[r] = "merge", Reverting(r), edits' = edits,
         main'[Service(r)].digest # main[Service(r)].digest
  PROVE  main'[Service(r)].digest = running[Service(r)].digest
<1> PICK s : s = Service(r) OBVIOUS
<1> PICK n : n = req[r].pr OBVIOUS
<1>1. /\ RepoTypeOK /\ n \in DOMAIN prs /\ r \in DOMAIN journal
  BY ProposalKnown DEF TypeOK, RunTypeOK, InSpan
<1>2. s \in Services BY <1>1, ServiceIs
<1>3. Merge(n)
  <2>1. ~UNCHANGED repoVars BY DEF repoVars
  <2>2. ~\E t \in Services : Push(t) BY <1>1, PushLeaves
  <2>3. PICK q \in Ids : Run(q) /\ RepoMove(q) BY <2>1, <2>2, MainMoves
  <2>4. pc[q] = "merge" /\ Merge(req[q].pr)
    BY <2>1, <2>3 DEF RepoMove, OpenManifestPR, UpdateBranch, ClosePR
  <2>5. q = r BY <2>4, SpanIsAlone DEF MergeSpan
  <2> QED BY <2>4, <2>5
<1>4. prs[n].service = s BY DEF ProposalInv, OfItsService, ProposalOf, InSpan
<1>5. main \in [Services -> Content] /\ main' = [main EXCEPT ![s] = prs[n].head]
      /\ ~prs[n].behind
  BY <1>1, <1>3, <1>4, MergeLeaves DEF RepoTypeOK
<1>6. prs[n].base = main[s]
  BY <1>1, <1>4, <1>5 DEF ProposalInv, BaseInv, CurrentOnMain
<1>7. main'[s].digest = prs[n].head.digest BY <1>2, <1>5
<1>8. prs[n].head.digest = req[r].original.digest
  BY <1>6, <1>7 DEF ProposalInv, RevertsPin, ProposalOf
<1>9. running[s] = req[r].original
  BY DEF HostInv, OnHost, Quiet, Reverting
<1> QED BY <1>7, <1>8, <1>9

(* A revert that lands moves main's pin to what the host runs or, where a  *)
(* push already settled the pin, not at all: "so the record keeps          *)
(* describing what runs" (engine.go:602-603).                              *)
THEOREM RevertMatches == Spec => RevertMatchesHost
<1>1. Init => ProposalInv
  <2>1. Init => DOMAIN prs = {} BY DEF Init, RepoInit
  <2> QED
    BY <2>1 DEF Init, ProposalInv, BaseInv, OfItsService, RevertsPin, InSpan
<1>2. TypeOK /\ SpanInv /\ HostInv /\ ProposalInv /\ [Next]_vars
        => [\A r \in Ids :
              /\ pc[r] = "merge" /\ Reverting(r)
              /\ main'[Service(r)].digest # main[Service(r)].digest /\ edits' = edits
              => main'[Service(r)].digest = running[Service(r)].digest]_vars
  BY RevertLands
<1> QED
  BY <1>1, <1>2, SpanInit, SpanNext, HostHolds, ProposalNext, PTL
  DEF Spec, RevertMatchesHost

-----------------------------------------------------------------------------
(* Open proposals.  While the daemon is not stopped, and GitHub's replies, *)
(* the record of a proposal and the call that closes one do not fail, each *)
(* open proposal is being merged or closed by the deploy that made it, is  *)
(* on the branch a revert goes back to, or is left by a run that could not *)
(* revert main or not write its receipt.                                   *)

Unhindered ==
    /\ MaxStops = 0
    /\ Faults \cap {"open reply", "set pr", "close"} = {}

Opened == {m \in DOMAIN prs : prs[m].state = "open"}

Proposes(r, m) == ~Reverting(r) /\ pc[r] \in InSpan /\ req[r].pr = m
StillReverts(r) ==
    /\ Reverting(r)
    /\ \/ pc[r] \in Undoing
       \/ pc[r] = "finish" /\ req[r].outcome = "main still pins"
       \/ pc[r] \in {"release", "leave"} /\ ~journal[r].finished
Reverts(r, m) == StillReverts(r) /\ req[r].original = prs[m].want
LeftBy(r) ==
    \/ journal[r].detail = "main still pins"
    \/ pc[r] = "gone" /\ ~journal[r].finished

Answers(r, m) ==
    /\ Service(r) = prs[m].service
    /\ Proposes(r, m) \/ Reverts(r, m) \/ LeftBy(r)

(* An open proposal is the newest of its branch, the only one a revert in  *)
(* the span may find on its own, and somebody's.                           *)
BranchInv ==
    \A m \in Opened : \A n \in branchFor(prs[m].service, prs[m].want) : n <= m
UndoInv ==
    \A r \in Ids : Reverting(r) /\ pc[r] \in {"checks", "merge", "update"} =>
        \A m \in Opened : prs[m].service = Service(r) /\ prs[m].want = req[r].original
                            => m = req[r].pr
AnsweredInv == \A m \in Opened : \E r \in DOMAIN journal : Answers(r, m)

OpenInv ==
    /\ daemon = "up"
    /\ \A r \in DOMAIN journal : journal[r].detail # "none" => journal[r].finished
    /\ BranchInv /\ UndoInv /\ AnsweredInv

(* What an operation does to the branches: it opens a proposal on one      *)
(* where none was, adopts the one there, or opens none.                    *)
SameBranch(m) ==
    /\ m \in DOMAIN prs'
    /\ prs'[m].service = prs[m].service /\ prs'[m].want = prs[m].want

OpensNone ==
    /\ DOMAIN prs' = DOMAIN prs
    /\ \A m \in DOMAIN prs :
         /\ SameBranch(m)
         /\ \/ prs'[m].state = prs[m].state
            \/ prs[m].state = "open" /\ prs'[m].state \in {"merged", "closed"}

OpensOne(s, c, n) ==
    /\ DOMAIN prs' = DOMAIN prs \cup {n}
    /\ n \in DOMAIN prs' /\ prs'[n].state = "open"
    /\ prs'[n].service = s /\ prs'[n].want = c
    /\ \A m \in DOMAIN prs \ {n} : SameBranch(m) /\ prs'[m].state = prs[m].state
    /\ \/ /\ n \in DOMAIN prs /\ prs[n].state = "open"
          /\ SameBranch(n)
       \/ /\ \A m \in DOMAIN prs : m < n
          /\ \A m \in branchFor(s, c) : prs[m].state # "open"

LEMMA OpensOnBranch ==
  ASSUME RepoTypeOK, BranchInv, NEW s \in Services, NEW c \in Content, NEW n \in Nat,
         OpenManifestPR(s, c, n)
  PROVE  OpensOne(s, c, n)
<1>1. prs \in Seq(Proposal) /\ DOMAIN prs = 1 .. Len(prs) /\ Len(prs) \in Nat
  BY LenProperties DEF RepoTypeOK
<1>2. ASSUME NEW p, p.service = s, p.want = c, p.state = "open", n = Len(prs) + 1,
             prs' = Append(prs, p), \A m \in branchFor(s, c) : prs[m].state # "open"
      PROVE  OpensOne(s, c, n)
  <2>1. /\ DOMAIN prs' = DOMAIN prs \cup {n} /\ prs'[n] = p
        /\ \A m \in DOMAIN prs : prs'[m] = prs[m] /\ m < n
    BY <1>1, <1>2
  <2> QED BY <1>2, <2>1 DEF OpensOne, SameBranch
<1>3. CASE OpenOnNewBranch(s, c, n)
  <2>1. PICK p : p = [service |-> s, want |-> c, base |-> main[s], head |-> c,
                      behind |-> FALSE, state |-> "open"]
    OBVIOUS
  <2>2. p.service = s /\ p.want = c /\ p.state = "open" BY <2>1
  <2> QED BY <1>2, <1>3, <2>1, <2>2 DEF OpenOnNewBranch
<1>4. CASE OpenOnOldBranch(s, c, n)
  <2>1. PICK k \in Newest(branchFor(s, c)) :
          /\ prs[k].state # "open" /\ n = Len(prs) + 1
          /\ prs' = Append(prs, [prs[k] EXCEPT !.head = c, !.state = "open"])
    BY <1>4 DEF OpenOnOldBranch
  <2>2. /\ k \in DOMAIN prs /\ prs[k].service = s /\ prs[k].want = c
        /\ k \in branchFor(s, c) /\ \A m \in branchFor(s, c) : m <= k
    BY <2>1 DEF Newest, branchFor
  <2>3. PICK p : p = [prs[k] EXCEPT !.head = c, !.state = "open"] OBVIOUS
  <2>4. prs[k] \in Proposal BY <1>1, <2>2, ElementOfSeq
  <2>5. p.service = s /\ p.want = c /\ p.state = "open"
    BY <2>2, <2>3, <2>4 DEF Proposal
  <2>6. ASSUME NEW m \in branchFor(s, c), prs[m].state = "open" PROVE FALSE
    <3>1. m \in DOMAIN prs /\ prs[m].service = s /\ prs[m].want = c
      BY <2>6 DEF branchFor
    <3>2. m \in Opened BY <2>6, <3>1 DEF Opened
    <3>3. k <= m BY <2>2, <3>1, <3>2 DEF BranchInv
    <3>4. k = m BY <1>1, <2>2, <2>6, <3>1, <3>3
    <3> QED BY <2>1, <2>6, <3>4
  <2> QED BY <1>2, <2>1, <2>3, <2>5, <2>6
<1>5. CASE AdoptOpen(s, c, n)
  <2>1. /\ n \in DOMAIN prs /\ prs[n].service = s /\ prs[n].want = c
        /\ prs[n].state = "open" /\ prs' = [prs EXCEPT ![n] = [prs[n] EXCEPT !.head = c]]
    BY <1>5 DEF AdoptOpen, Newest, branchFor
  <2>2. PICK p : p = [prs[n] EXCEPT !.head = c] OBVIOUS
  <2>3. prs[n] \in Proposal BY <1>1, <2>1, ElementOfSeq
  <2>4. p.service = s /\ p.want = c /\ p.state = "open"
    BY <2>1, <2>2, <2>3 DEF Proposal
  <2>5. /\ DOMAIN prs' = DOMAIN prs /\ prs'[n] = p
        /\ \A m \in DOMAIN prs \ {n} : prs'[m] = prs[m]
    BY <2>1, <2>2
  <2> QED BY <2>1, <2>4, <2>5 DEF OpensOne, SameBranch
<1> QED BY <1>3, <1>4, <1>5 DEF OpenManifestPR

LEMMA EntryOpensNone ==
  ASSUME RepoTypeOK, NEW n \in DOMAIN prs, NEW p, prs' = [prs EXCEPT ![n] = p],
         p.service = prs[n].service, p.want = prs[n].want,
         \/ p.state = prs[n].state
         \/ prs[n].state = "open" /\ p.state \in {"merged", "closed"}
  PROVE  OpensNone
<1>1. DOMAIN prs' = DOMAIN prs /\ prs'[n] = p BY DEF RepoTypeOK
<1>2. \A m \in DOMAIN prs \ {n} : prs'[m] = prs[m] BY DEF RepoTypeOK
<1> QED BY <1>1, <1>2 DEF OpensNone, SameBranch

LEMMA CommitOpensNone ==
  ASSUME RepoTypeOK, NEW s, NEW c, NEW ps \in Seq(Proposal), MainBecomes(s, c, ps),
         DOMAIN ps = DOMAIN prs,
         \A m \in DOMAIN prs :
           /\ ps[m].service = prs[m].service /\ ps[m].want = prs[m].want
           /\ \/ ps[m].state = prs[m].state
              \/ prs[m].state = "open" /\ ps[m].state \in {"merged", "closed"}
  PROVE  OpensNone
<1>1. prs' = [m \in DOMAIN ps |-> [ps[m] EXCEPT !.behind = TRUE]] BY DEF MainBecomes
<1>2. ASSUME NEW m \in DOMAIN prs
      PROVE  /\ prs'[m].service = ps[m].service /\ prs'[m].want = ps[m].want
             /\ prs'[m].state = ps[m].state
  <2>1. ps[m] \in Proposal BY <1>2, ElementOfSeq, LenProperties
  <2>2. prs'[m] = [ps[m] EXCEPT !.behind = TRUE] BY <1>1
  <2> QED BY <2>1, <2>2 DEF Proposal
<1>3. DOMAIN prs' = DOMAIN prs BY <1>1
<1> QED BY <1>2, <1>3 DEF OpensNone, SameBranch

LEMMA OthersOpenNone ==
  ASSUME RepoTypeOK, NEW n \in DOMAIN prs,
         \/ UNCHANGED repoVars \/ \E s \in Services : Push(s)
         \/ Merge(n) \/ UpdateBranch(n) \/ ClosePR(n)
  PROVE  OpensNone
<1>1. prs \in Seq(Proposal) /\ prs[n] \in Proposal
  BY ElementOfSeq, LenProperties DEF RepoTypeOK
<1>2. CASE UNCHANGED repoVars BY <1>2 DEF repoVars, OpensNone, SameBranch
<1>3. CASE \E s \in Services : Push(s)
  <2>1. PICK s, c : MainBecomes(s, c, prs) BY <1>3 DEF Push
  <2> QED BY <1>1, <2>1, CommitOpensNone
<1>4. CASE Merge(n)
  <2>1. PICK p : p = [prs[n] EXCEPT !.state = "merged"] OBVIOUS
  <2>2. PICK ps : ps = [prs EXCEPT ![n] = p] OBVIOUS
  <2>3. /\ p \in Proposal /\ p.service = prs[n].service /\ p.want = prs[n].want
        /\ p.state = "merged"
    BY <1>1, <2>1 DEF Proposal
  <2>4. /\ ps \in Seq(Proposal) /\ DOMAIN ps = DOMAIN prs /\ ps[n] = p
        /\ \A m \in DOMAIN prs \ {n} : ps[m] = prs[m]
    BY <1>1, <2>2, <2>3
  <2>5. MainBecomes(prs[n].service, prs[n].head, ps) /\ prs[n].state = "open"
    BY <1>4, <2>1, <2>2 DEF Merge, CanMerge
  <2>6. \A m \in DOMAIN prs :
          /\ ps[m].service = prs[m].service /\ ps[m].want = prs[m].want
          /\ \/ ps[m].state = prs[m].state
             \/ prs[m].state = "open" /\ ps[m].state \in {"merged", "closed"}
    BY <2>3, <2>4, <2>5
  <2> QED BY <2>4, <2>5, <2>6, CommitOpensNone
<1>5. CASE UpdateBranch(n)
  <2> PICK m : m = main[prs[n].service] OBVIOUS
  <2> PICK d : d = Merged(prs[n].base.digest, prs[n].head.digest, m.digest) OBVIOUS
  <2> PICK rev : rev = Merged(prs[n].base.rev, prs[n].head.rev, m.rev) OBVIOUS
  <2>1. PICK p : p = [prs[n] EXCEPT !.head.digest = d, !.head.rev = rev, !.base = m,
                                    !.behind = FALSE]
    OBVIOUS
  <2>2. prs' = [prs EXCEPT ![n] = p] BY <1>5, <2>1 DEF UpdateBranch
  <2>3. PICK h : h = [prs[n].head EXCEPT !.digest = d, !.rev = rev] OBVIOUS
  <2>4. p = [prs[n] EXCEPT !.head = h, !.base = m, !.behind = FALSE]
    BY <1>1, <2>1, <2>3 DEF Proposal
  <2>5. p.service = prs[n].service /\ p.want = prs[n].want /\ p.state = prs[n].state
    BY <1>1, <2>4 DEF Proposal
  <2> QED BY <2>2, <2>5, EntryOpensNone
<1>6. CASE ClosePR(n)
  <2>1. PICK x : x = IF prs[n].state = "open" THEN "closed" ELSE prs[n].state OBVIOUS
  <2>2. PICK p : p = [prs[n] EXCEPT !.state = x] OBVIOUS
  <2>3. prs' = [prs EXCEPT ![n] = p] BY <1>6, <2>1, <2>2 DEF ClosePR
  <2>4. p.service = prs[n].service /\ p.want = prs[n].want /\ p.state = x
    BY <1>1, <2>2 DEF Proposal
  <2> QED BY <2>1, <2>3, <2>4, EntryOpensNone
<1> QED BY <1>2, <1>3, <1>4, <1>5, <1>6

LEMMA BranchNext ==
  ASSUME RepoTypeOK, RepoTypeOK', BranchInv,
         OpensNone \/ \E s, c, n : OpensOne(s, c, n)
  PROVE  BranchInv'
<1>1. /\ DOMAIN prs \subseteq Nat /\ DOMAIN prs' \subseteq Nat
      /\ \A m \in DOMAIN prs : prs[m].state \in {"open", "merged", "closed"}
  <2>1. prs \in Seq(Proposal) /\ prs' \in Seq(Proposal) BY DEF RepoTypeOK
  <2>2. \A m \in DOMAIN prs : prs[m] \in Proposal BY <2>1, ElementOfSeq, LenProperties
  <2> QED BY <2>1, <2>2, LenProperties DEF Proposal
<1> SUFFICES ASSUME NEW m \in DOMAIN prs', prs'[m].state = "open",
                    NEW k \in DOMAIN prs', prs'[k].service = prs'[m].service,
                    prs'[k].want = prs'[m].want,
                    prs'[k].state = "merged" => KeepMergedBranches
             PROVE  k <= m
  BY DEF BranchInv, Opened, branchFor
<1>2. ASSUME m \in DOMAIN prs, prs[m].state = "open", SameBranch(m),
             k \in DOMAIN prs, SameBranch(k),
             prs[k].state = "merged" => prs'[k].state = "merged"
      PROVE  k <= m
  <2>1. m \in Opened /\ k \in branchFor(prs[m].service, prs[m].want)
    BY <1>2 DEF Opened, branchFor, SameBranch
  <2> QED BY <2>1 DEF BranchInv
<1>3. CASE OpensNone
  BY <1>2, <1>3 DEF OpensNone
<1>4. CASE \E s, c, n : OpensOne(s, c, n)
  <2>1. PICK s, c, n : OpensOne(s, c, n) BY <1>4
  <2>2. CASE n \in DOMAIN prs /\ prs[n].state = "open" /\ SameBranch(n)
    BY <1>2, <2>1, <2>2 DEF OpensOne
  <2>3. CASE /\ \A j \in DOMAIN prs : j < n
             /\ \A j \in branchFor(s, c) : prs[j].state # "open"
    <3>1. CASE m = n
      <4>1. k \in DOMAIN prs \/ k = n BY <2>1 DEF OpensOne
      <4> QED BY <1>1, <2>3, <3>1, <4>1
    <3>2. CASE m # n /\ k = n
      <4>1. m \in DOMAIN prs /\ SameBranch(m) /\ prs[m].state = "open"
        BY <2>1, <3>2 DEF OpensOne
      <4>2. prs[m].service = s /\ prs[m].want = c
        BY <2>1, <3>2, <4>1 DEF OpensOne, SameBranch
      <4>3. m \in branchFor(s, c) BY <4>1, <4>2 DEF branchFor
      <4> QED BY <2>3, <4>1, <4>3
    <3>3. CASE m # n /\ k # n
      BY <1>2, <2>1, <3>3 DEF OpensOne
    <3> QED BY <3>1, <3>2, <3>3
  <2> QED BY <2>1, <2>2, <2>3 DEF OpensOne
<1> QED BY <1>3, <1>4

(* A run that gets a proposal records it or, in a revert, waits for it.    *)
LEMMA OpenAnswers ==
  ASSUME TypeOK, Unhindered, daemon = "up", NEW r \in Ids, Open(r)
  PROVE  \/ UNCHANGED repoVars
         \/ \E n \in Nat :
              /\ OpenManifestPR(Service(r), Proposed(r), n)
              /\ SameRequest(r) /\ req'[r].pr = n
              /\ pc'[r] = IF Reverting(r) THEN "checks" ELSE "record"
<1>1. /\ req \in [Ids -> Request] /\ pc \in [Ids -> Labels] /\ req[r] \in Request
      /\ {Len(prs) + 1} \cup DOMAIN prs \subseteq Nat
  BY LenProperties DEF TypeOK, RunTypeOK, RepoTypeOK
<1>2. ~CallFails("open reply") BY DEF CallFails, Cancelled, Fault, Unhindered
<1>3. CASE \E n \in {Len(prs) + 1} \cup DOMAIN prs :
             /\ OpenManifestPR(Service(r), Proposed(r), n)
             /\ req' = [req EXCEPT ![r].pr = n, ![r].attempt = 1]
             /\ Goto(r, IF Reverting(r) THEN "checks" ELSE "record")
  <2>1. PICK n \in Nat : /\ OpenManifestPR(Service(r), Proposed(r), n)
                         /\ req' = [req EXCEPT ![r].pr = n, ![r].attempt = 1]
                         /\ Goto(r, IF Reverting(r) THEN "checks" ELSE "record")
    BY <1>1, <1>3
  <2>2. req'[r] = [req[r] EXCEPT !.pr = n, !.attempt = 1] BY <1>1, <2>1
  <2>3. SameRequest(r) /\ req'[r].pr = n BY <1>1, <2>2 DEF Request, SameRequest
  <2>4. pc'[r] = IF Reverting(r) THEN "checks" ELSE "record" BY <1>1, <2>1 DEF Goto
  <2> QED BY <2>1, <2>3, <2>4
<1> QED BY <1>2, <1>3 DEF Open

LEMMA RunOpens ==
  ASSUME TypeOK, NEW r \in Ids, Run(r), ~Open(r)
  PROVE  OpensNone
<1>1. RepoTypeOK BY DEF TypeOK
<1>2. pc[r] # "open"
  BY DEF Run, At, Launch, PrologueSync, TakeTurn, AbandonTurn, LockMergeQueue, AbandonBackoff,
     Front, Inspect, Record, WaitChecks, MergePR, Update, Abandon, RecordMerge,
     ConvergeSync, ConvergeRead, ApplySync, SyncThen, ApplyRead, WriteUnit,
     ReloadAndRestart, Probe, Finish, Release, Leave
<1>3. CASE UNCHANGED repoVars BY <1>3 DEF repoVars, OpensNone, SameBranch
<1>4. CASE pc[r] \in {"merge", "update", "abandon"}
  <2>1. req[r].pr \in DOMAIN prs BY <1>4, ProposalKnown DEF InSpan
  <2> QED BY <1>1, <1>2, <2>1, RunIsRepoMove, OthersOpenNone DEF RepoMove
<1> QED BY <1>2, <1>3, <1>4, RunIsRepoMove DEF RepoMove

LEMMA ProposesOn ==
  ASSUME TypeOK, Unhindered, daemon = "up", NEW r \in Ids, Run(r),
         NEW m \in DOMAIN prs, Proposes(r, m)
  PROVE  Proposes(r, m)' \/ prs'[m].state # "open"
<1>1. /\ req \in [Ids -> Request] /\ pc \in [Ids -> Labels] /\ req[r] \in Request
      /\ prs \in Seq(Proposal) /\ RepoTypeOK /\ prs[m] \in Proposal
  BY ElementOfSeq, LenProperties DEF TypeOK, RunTypeOK, RepoTypeOK
<1>2. ~Cancelled /\ ~CallFails("close") /\ ~Fault("set pr")
  BY DEF Cancelled, CallFails, Fault, Unhindered
<1>3. ASSUME NEW label \in InSpan, Goto(r, label), UNCHANGED req PROVE Proposes(r, m)'
  <2>1. pc'[r] = label BY <1>1, <1>3 DEF Goto
  <2> QED BY <1>3, <2>1 DEF Proposes, Reverting
<1>4. SpanFails(r) => Proposes(r, m)'
  <2>1. SpanFails(r) => Goto(r, "abandon") /\ UNCHANGED req
    BY DEF SpanFails, Proposes
  <2> QED BY <1>3, <2>1 DEF InSpan
<1>5. CASE Record(r)
  <2>1. Goto(r, "checks") /\ UNCHANGED req BY <1>2, <1>5 DEF Record
  <2> QED BY <1>3, <2>1 DEF InSpan
<1>6. CASE WaitChecks(r)
  <2>1. (Goto(r, "merge") /\ UNCHANGED req) \/ SpanFails(r) BY <1>6 DEF WaitChecks
  <2> QED BY <1>3, <1>4, <2>1 DEF InSpan
<1>7. CASE MergePR(r)
  <2>1. Merge(m) => prs'[m].state = "merged" BY <1>1, MergeLeaves
  <2>2. Merge(m) \/ (Goto(r, "update") /\ UNCHANGED req)
    BY <1>2, <1>7 DEF MergePR, Proposes
  <2> QED BY <1>3, <2>1, <2>2 DEF InSpan
<1>8. CASE Update(r)
  <2>1. \/ /\ req' = [req EXCEPT ![r].attempt = req[r].attempt + 1]
           /\ Goto(r, "checks")
        \/ SpanFails(r)
    BY <1>8 DEF Update
  <2>2. ASSUME req' = [req EXCEPT ![r].attempt = req[r].attempt + 1], Goto(r, "checks")
        PROVE  Proposes(r, m)'
    <3>1. req'[r] = [req[r] EXCEPT !.attempt = req[r].attempt + 1] BY <1>1, <2>2
    <3>2. req'[r].pr = req[r].pr /\ req'[r].mode = req[r].mode
      BY <1>1, <3>1 DEF Request
    <3>3. pc'[r] = "checks" BY <1>1, <2>2 DEF Goto
    <3> QED BY <3>2, <3>3 DEF Proposes, Reverting, InSpan
  <2> QED BY <1>4, <2>1, <2>2
<1>9. CASE Abandon(r)
  <2>1. ClosePR(m) BY <1>2, <1>9 DEF Abandon, Proposes
  <2>2. PICK x : x = (IF prs[m].state = "open" THEN "closed" ELSE prs[m].state) OBVIOUS
  <2>3. PICK p : p = [prs[m] EXCEPT !.state = x] OBVIOUS
  <2>4. prs' = [prs EXCEPT ![m] = p] BY <2>1, <2>2, <2>3 DEF ClosePR
  <2>5. p.state = x BY <1>1, <2>3 DEF Proposal
  <2>6. prs'[m] = p BY <1>1, <2>4
  <2> QED BY <2>2, <2>5, <2>6
<1>10. pc[r] \in InSpan BY DEF Proposes
<1>11. Record(r) \/ WaitChecks(r) \/ MergePR(r) \/ Update(r) \/ Abandon(r)
  BY <1>10 DEF InSpan, Run, At, Launch, PrologueSync, TakeTurn, AbandonTurn, LockMergeQueue,
     AbandonBackoff, Front, Inspect, Open, RecordMerge, ConvergeSync, ConvergeRead,
     ApplySync, SyncThen, ApplyRead, WriteUnit, ReloadAndRestart, Probe, Finish, Release,
     Leave
<1> QED BY <1>5, <1>6, <1>7, <1>8, <1>9, <1>11

LEMMA RevertsOn ==
  ASSUME TypeOK, ReceiptInv, daemon = "up", NEW r \in Ids, Run(r), StillReverts(r)
  PROVE  \/ StillReverts(r)' /\ req'[r].original = req[r].original
         \/ LeftBy(r)'
         \/ pc[r] = "merge" /\ Merge(req[r].pr)
<1>1. /\ req \in [Ids -> Request] /\ pc \in [Ids -> Labels] /\ req[r] \in Request
      /\ journal \in Seq(Row) /\ r \in DOMAIN journal /\ ~Cancelled
  BY RunIsAlone DEF RunMovesAlone, TypeOK, RunTypeOK, JournalTypeOK, Cancelled
<1>2. Reverting(r) BY DEF StillReverts
<1>3. ASSUME SameRequest(r), pc'[r] \in Undoing
      PROVE  StillReverts(r)' /\ req'[r].original = req[r].original
  BY <1>2, <1>3 DEF SameRequest, StillReverts, Reverting
<1>4. ASSUME NEW label \in Undoing, Goto(r, label), UNCHANGED req
      PROVE  StillReverts(r)' /\ req'[r].original = req[r].original
  BY <1>1, <1>3, <1>4, GoesOnWith
<1>5. ASSUME OpenFails(r) \/ SpanFails(r)
      PROVE  StillReverts(r)' /\ req'[r].original = req[r].original
  <2>1. CASE RevertAgain(r)
    <3>1. req'[r] = [req[r] EXCEPT !.undo = req[r].undo + 1, !.attempt = 1, !.pr = 0]
      BY <1>1, <2>1 DEF RevertAgain
    <3>2. SameRequest(r) BY <1>1, <3>1 DEF Request, SameRequest
    <3>3. pc'[r] = "merge queue" BY <1>1, <2>1 DEF RevertAgain, Goto
    <3> QED BY <1>3, <3>2, <3>3 DEF Undoing
  <2>2. CASE RevertOver(r)
    <3>1. SameRequest(r) /\ pc'[r] = "finish" /\ req'[r].outcome = "main still pins"
      BY <1>1, <2>2, EndsWith DEF RevertOver
    <3> QED BY <1>2, <3>1 DEF SameRequest, StillReverts, Reverting
  <2> QED BY <1>2, <1>5, <2>1, <2>2 DEF OpenFails, SpanFails
<1>6. CASE LockMergeQueue(r)
  <2>1. Goto(r, "open") /\ UNCHANGED req
    BY <1>2, <1>6 DEF LockMergeQueue, Reverting
  <2> QED BY <1>4, <2>1 DEF Undoing
<1>7. CASE Open(r)
  <2>1. CASE \E n : /\ req' = [req EXCEPT ![r].pr = n, ![r].attempt = 1]
                    /\ Goto(r, "checks")
    <3>1. PICK n : req' = [req EXCEPT ![r].pr = n, ![r].attempt = 1] BY <2>1
    <3>2. req'[r] = [req[r] EXCEPT !.pr = n, !.attempt = 1] BY <1>1, <3>1
    <3>3. SameRequest(r) BY <1>1, <3>2 DEF Request, SameRequest
    <3>4. pc'[r] = "checks" BY <1>1, <2>1 DEF Goto
    <3> QED BY <1>3, <3>3, <3>4 DEF Undoing
  <2> QED BY <1>2, <1>5, <1>7, <2>1 DEF Open
<1>8. CASE WaitChecks(r)
  <2>1. (Goto(r, "merge") /\ UNCHANGED req) \/ SpanFails(r) BY <1>8 DEF WaitChecks
  <2> QED BY <1>4, <1>5, <2>1 DEF Undoing
<1>9. CASE MergePR(r)
  <2>1. pc[r] = "merge" BY <1>9 DEF MergePR, At
  <2>2. Merge(req[r].pr) \/ (Goto(r, "update") /\ UNCHANGED req)
    BY <1>1, <1>9 DEF MergePR
  <2> QED BY <1>4, <2>1, <2>2 DEF Undoing
<1>10. CASE Update(r)
  <2>1. \/ /\ req' = [req EXCEPT ![r].attempt = req[r].attempt + 1]
           /\ Goto(r, "checks")
        \/ SpanFails(r)
    BY <1>10 DEF Update
  <2>2. ASSUME req' = [req EXCEPT ![r].attempt = req[r].attempt + 1], Goto(r, "checks")
        PROVE  StillReverts(r)' /\ req'[r].original = req[r].original
    <3>1. req'[r] = [req[r] EXCEPT !.attempt = req[r].attempt + 1] BY <1>1, <2>2
    <3>2. SameRequest(r) BY <1>1, <3>1 DEF Request, SameRequest
    <3>3. pc'[r] = "checks" BY <1>1, <2>2 DEF Goto
    <3> QED BY <1>3, <3>2, <3>3 DEF Undoing
  <2> QED BY <1>5, <2>1, <2>2
<1>11. CASE Finish(r)
  <2>1. ~journal[r].finished /\ req[r].outcome = "main still pins"
    BY <1>11 DEF Finish, At, ReceiptInv, Quiet, StillReverts, Undoing
  <2>2. pc'[r] \in {"release", "leave"} /\ UNCHANGED req
    BY <1>1, <1>11 DEF Finish, Goto
  <2>3. CASE RowEnds(r, "main still pins")
    <3>1. journal[r] \in Row BY <1>1, ElementOfSeq, LenProperties
    <3>2. Sealed(journal[r], "main still pins").detail = "main still pins"
      BY <3>1 DEF Sealed, Row
    <3>3. journal'[r] = Sealed(journal[r], "main still pins")
      BY <1>1, <2>3 DEF RowEnds
    <3> QED BY <3>2, <3>3 DEF LeftBy
  <2>4. CASE UNCHANGED journal
    BY <1>2, <2>1, <2>2, <2>4 DEF StillReverts, Reverting
  <2> QED BY <1>11, <2>1, <2>3, <2>4 DEF Finish, Unsealed, RowEnds
<1>12. CASE Release(r)
  <2>1. pc'[r] = "leave" /\ UNCHANGED <<req, journal>> BY <1>1, <1>12 DEF Release, Goto
  <2>2. pc[r] = "release" BY <1>12 DEF Release, At
  <2>3. ~journal[r].finished BY <2>2 DEF StillReverts, Undoing
  <2> QED BY <1>2, <2>1, <2>3 DEF StillReverts, Reverting
<1>13. CASE Leave(r)
  <2>1. pc'[r] = "gone" /\ UNCHANGED journal BY <1>1, <1>13 DEF Leave, Goto
  <2>2. pc[r] = "leave" BY <1>13 DEF Leave, At
  <2>3. ~journal[r].finished BY <2>2 DEF StillReverts, Undoing
  <2> QED BY <2>1, <2>3 DEF LeftBy
<1>14. pc[r] \in Undoing \cup {"finish", "release", "leave"} BY DEF StillReverts
<1>15. \/ LockMergeQueue(r) \/ Open(r) \/ WaitChecks(r) \/ MergePR(r) \/ Update(r)
       \/ Finish(r) \/ Release(r) \/ Leave(r)
  BY <1>1, <1>14 DEF Undoing, Run, At, Launch, PrologueSync, TakeTurn, AbandonTurn,
     AbandonBackoff, Front, Inspect, Record, Abandon, RecordMerge, ConvergeSync,
     ConvergeRead, ApplySync, SyncThen, ApplyRead, WriteUnit, ReloadAndRestart, Probe
<1> QED
  BY <1>6, <1>7, <1>8, <1>9, <1>10, <1>11, <1>12, <1>13, <1>15

LEMMA LeftStays ==
  ASSUME TypeOK, OpenInv, NEW r \in Ids, Run(r), LeftBy(r)
  PROVE  LeftBy(r)'
<1>1. r \in DOMAIN journal BY RunIsAlone DEF RunMovesAlone
<1>2. pc[r] # "gone"
  BY RunGoesOn DEF Works, Unended, Quiet, Finish, Release, Leave, At
<1>3. journal[r].detail = "main still pins" /\ journal[r].finished
  BY <1>1, <1>2 DEF LeftBy, OpenInv
<1> QED BY <1>3, RunWorksOrEnds DEF RowWorks, Unsealed, LeftBy

LEMMA AnsweredRuns ==
  ASSUME TypeOK, TypeOK', ReceiptInv, OpenInv, Unhindered, NEW r \in Ids, Run(r)
  PROVE  BranchInv' /\ AnsweredInv'
<1>1. /\ RepoTypeOK /\ RepoTypeOK' /\ BranchInv /\ UndoInv /\ AnsweredInv /\ daemon = "up"
      /\ RunMovesAlone(r) /\ ServicesKept
  BY RunIsAlone, RunKeepsServices DEF TypeOK, OpenInv
<1>2. r \in DOMAIN journal /\ req[r] \in Request /\ Service(r) \in Services
      /\ DOMAIN journal \subseteq Ids
  BY <1>1, ServiceIs, RowsAreRuns DEF RunMovesAlone, TypeOK, RunTypeOK
<1>3. Proposed(r) \in Content BY <1>2 DEF Proposed, Request
<1>4. \A q \in DOMAIN journal : q \in DOMAIN journal' /\ Service(q)' = Service(q)
  BY <1>1 DEF ServicesKept, Service
<1>5. \A q \in DOMAIN journal \ {r} : journal'[q] = journal[q]
  BY <1>2, RunWorksOrEnds DEF RowWorks, RowEnds
<1>6. ASSUME NEW m \in Opened, SameBranch(m), m \in Opened'
      PROVE  \E q \in DOMAIN journal' : Answers(q, m)'
  <2>1. m \in DOMAIN prs /\ prs[m].state = "open" /\ prs'[m].state = "open"
    BY <1>6 DEF Opened
  <2>2. PICK q \in DOMAIN journal : Answers(q, m) BY <1>1 DEF AnsweredInv
  <2>3. q \in DOMAIN journal' /\ Service(q)' = prs'[m].service
    BY <1>4, <1>6, <2>2 DEF Answers, SameBranch
  <2>4. CASE q # r
    <3>1. pc'[q] = pc[q] /\ req'[q] = req[q] /\ journal'[q] = journal[q]
      BY <1>1, <1>2, <1>5, <2>4 DEF RunMovesAlone
    <3>2. Proposes(q, m) => Proposes(q, m)' BY <3>1 DEF Proposes, Reverting
    <3>3. Reverts(q, m) => Reverts(q, m)'
      BY <1>6, <3>1 DEF Reverts, StillReverts, Reverting, SameBranch
    <3>4. LeftBy(q) => LeftBy(q)'
      <4>1. journal[q].detail = "main still pins" => LeftBy(q)' BY <3>1 DEF LeftBy
      <4>2. pc[q] = "gone" /\ ~journal[q].finished => LeftBy(q)'
        <5>1. ~journal[q].finished => ~journal'[q].finished BY <3>1
        <5> QED BY <3>1, <5>1 DEF LeftBy
      <4> QED BY <4>1, <4>2 DEF LeftBy
    <3> QED BY <2>2, <2>3, <3>2, <3>3, <3>4 DEF Answers
  <2>5. CASE q = r
    <3>1. Proposes(r, m) => Proposes(r, m)' BY <1>1, <2>1, ProposesOn
    <3>2. LeftBy(r) => LeftBy(r)' BY LeftStays
    <3>3. Reverts(r, m) => Reverts(r, m)' \/ LeftBy(r)'
      <4> SUFFICES ASSUME Reverts(r, m) PROVE Reverts(r, m)' \/ LeftBy(r)'
        OBVIOUS
      <4>1. StillReverts(r) /\ req[r].original = prs[m].want BY DEF Reverts
      <4>2. CASE StillReverts(r)' /\ req'[r].original = req[r].original
        BY <1>6, <4>1, <4>2 DEF Reverts, SameBranch
      <4>3. CASE pc[r] = "merge" /\ Merge(req[r].pr)
        <5>1. Reverting(r) /\ prs[m].service = Service(r)
          BY <2>2, <2>5, <4>1 DEF StillReverts, Answers
        <5>2. m = req[r].pr BY <1>1, <4>1, <4>3, <5>1 DEF UndoInv
        <5>3. prs'[m].state = "merged" BY <1>1, <2>1, <4>3, <5>2, MergeLeaves
        <5> QED BY <2>1, <5>3
      <4> QED BY <1>1, <4>1, <4>2, <4>3, RevertsOn
    <3> QED BY <2>2, <2>3, <2>5, <3>1, <3>2, <3>3 DEF Answers
  <2> QED BY <2>4, <2>5
<1>7. CASE OpensNone
  <2>1. BranchInv' BY <1>1, <1>7, BranchNext
  <2>2. \A m \in Opened' : m \in Opened /\ SameBranch(m) BY <1>7 DEF OpensNone, Opened
  <2> QED BY <1>6, <2>1, <2>2 DEF AnsweredInv
<1>8. CASE Open(r) /\ ~UNCHANGED repoVars
  <2>1. PICK n \in Nat : /\ OpenManifestPR(Service(r), Proposed(r), n)
                         /\ SameRequest(r) /\ req'[r].pr = n
                         /\ pc'[r] = IF Reverting(r) THEN "checks" ELSE "record"
    BY <1>1, <1>8, OpenAnswers
  <2>2. OpensOne(Service(r), Proposed(r), n) BY <1>1, <1>2, <1>3, <2>1, OpensOnBranch
  <2>3. BranchInv' BY <1>1, <2>2, BranchNext
  <2>4. Proposes(r, n)' \/ Reverts(r, n)'
    <3>1. CASE Reverting(r)
      <4>1. req'[r].original = prs'[n].want
        BY <2>1, <2>2, <3>1 DEF OpensOne, Proposed, SameRequest
      <4>2. StillReverts(r)'
        BY <2>1, <3>1 DEF StillReverts, Reverting, SameRequest, Undoing
      <4> QED BY <4>1, <4>2 DEF Reverts
    <3>2. CASE ~Reverting(r)
      BY <2>1, <3>2 DEF Proposes, Reverting, SameRequest, InSpan
    <3> QED BY <3>1, <3>2
  <2>5. r \in DOMAIN journal' /\ Answers(r, n)'
    BY <1>2, <1>4, <2>2, <2>4 DEF Answers, OpensOne
  <2>6. \A m \in Opened' : m = n \/ (m \in Opened /\ SameBranch(m))
    BY <2>2 DEF OpensOne, Opened
  <2> QED BY <1>6, <2>3, <2>5, <2>6 DEF AnsweredInv
<1>9. UNCHANGED repoVars => OpensNone BY DEF repoVars, OpensNone, SameBranch
<1> QED BY <1>7, <1>8, <1>9, RunOpens

LEMMA UndoRuns ==
  ASSUME TypeOK, TypeOK', SpanInv, HostInv, OpenInv, BranchInv', NEW r \in Ids, Run(r)
  PROVE  UndoInv'
<1>1. /\ RepoTypeOK /\ RepoTypeOK' /\ BranchInv /\ UndoInv
      /\ RunMovesAlone(r) /\ ServicesKept
      /\ \A q \in Ids : pc[q] # "unused" => q \in DOMAIN journal
  BY RunIsAlone, RunKeepsServices DEF TypeOK, RunTypeOK, OpenInv
<1> DEFINE Alone(q, m) == prs[m].service = Service(q) /\ prs[m].want = req[q].original
                            => m = req[q].pr
           Undo(q) == Reverting(q) /\ pc[q] \in {"checks", "merge", "update"}
<1>2. ASSUME NEW q \in Ids, pc[q] # "unused" PROVE Service(q)' = Service(q)
  BY <1>1, <1>2 DEF ServicesKept, Service
<1>3. ASSUME OpensNone, NEW q \in Ids, Undo(q), req'[q].original = req[q].original,
             req'[q].pr = req[q].pr, NEW m \in Opened'
      PROVE  Alone(q, m)'
  <2>1. m \in Opened /\ SameBranch(m) BY <1>3 DEF OpensNone, Opened
  <2>2. Alone(q, m) BY <1>1, <1>3, <2>1 DEF UndoInv
  <2>3. Service(q)' = Service(q) BY <1>2, <1>3
  <2> QED BY <1>3, <2>1, <2>2, <2>3 DEF SameBranch
<1>4. ASSUME NEW q \in Ids \ {r}, Undo(q)', NEW m \in Opened'
      PROVE  Alone(q, m)'
  <2>1. pc'[q] = pc[q] /\ req'[q] = req[q] BY <1>1 DEF RunMovesAlone
  <2>2. Undo(q) BY <1>4, <2>1 DEF Reverting
  <2>3. pc[r] # "open" BY <2>2, SpanIsAlone DEF MergeSpan
  <2>4. OpensNone BY <2>3, RunOpens DEF Open, At
  <2> QED BY <1>3, <1>4, <2>1, <2>2, <2>4
<1>5. ASSUME Undo(r)', NEW m \in Opened'
      PROVE  Alone(r, m)'
  <2>1. pc'[r] \in InSpan BY <1>5 DEF InSpan
  <2>2. SameRequest(r) /\ Reverting(r) BY <1>5, <2>1, RunProposes DEF SameRequest, Reverting
  <2>3. CASE pc[r] = "open" /\ \E n \in Nat : /\ OpenManifestPR(Service(r), Proposed(r), n)
                                              /\ req'[r].pr = n
    <3>1. PICK n \in Nat : OpenManifestPR(Service(r), Proposed(r), n) /\ req'[r].pr = n
      BY <2>3
    <3>2. /\ Service(r) \in Services /\ Proposed(r) \in Content /\ Service(r)' = Service(r)
          /\ Proposed(r) = req'[r].original
      BY <1>1, <1>2, <2>2, ServiceIs
      DEF RunMovesAlone, TypeOK, RunTypeOK, Request, Proposed, SameRequest
    <3>3. OpensOne(Service(r), Proposed(r), n) BY <1>1, <3>1, <3>2, OpensOnBranch
    <3>4. /\ n \in Opened' /\ prs'[n].service = Service(r)'
          /\ prs'[n].want = req'[r].original
      BY <3>2, <3>3 DEF OpensOne, Opened
    <3>5. ASSUME prs'[m].service = Service(r)', prs'[m].want = req'[r].original
          PROVE  m = n
      <4>1. /\ m \in DOMAIN prs' /\ n \in DOMAIN prs'
            /\ prs'[m].state = "open" /\ prs'[n].state = "open"
        BY <3>4 DEF Opened
      <4>2. /\ m \in branchFor(prs[n].service, prs[n].want)'
            /\ n \in branchFor(prs[m].service, prs[m].want)'
        BY <3>4, <3>5, <4>1 DEF branchFor
      <4>3. m <= n /\ n <= m BY <3>4, <4>2 DEF BranchInv
      <4>4. DOMAIN prs' \subseteq Nat BY <1>1, LenProperties DEF RepoTypeOK
      <4> QED BY <4>1, <4>3, <4>4
    <3> QED BY <3>1, <3>5
  <2>4. CASE pc[r] \in InSpan \ {"abandon"} /\ req'[r].pr = req[r].pr
    <3>1. OpensNone BY <2>4, RunOpens DEF Open, At, InSpan
    <3>2. Undo(r)
      <4>1. InMode(r) BY <2>4 DEF HostInv, InSpan, Quiet
      <4> QED BY <2>2, <2>4, <4>1 DEF InMode, InSpan, Undoing, Reverting
    <3> QED BY <1>3, <1>5, <2>2, <2>4, <3>1, <3>2 DEF SameRequest
  <2> QED BY <2>1, <2>3, <2>4, RunProposes
<1> QED BY <1>4, <1>5 DEF UndoInv

LEMMA DetailRuns ==
  ASSUME TypeOK, OpenInv, NEW r \in Ids, Run(r)
  PROVE  \A q \in DOMAIN journal' : journal'[q].detail # "none" => journal'[q].finished
<1>1. r \in DOMAIN journal /\ journal \in Seq(Row)
  BY RunIsAlone DEF RunMovesAlone, TypeOK, JournalTypeOK
<1>2. CASE RowWorks(r) BY <1>1, <1>2 DEF RowWorks, OpenInv
<1>3. CASE RowEnds(r, req[r].outcome)
  <2>1. journal[r] \in Row BY <1>1, ElementOfSeq, LenProperties
  <2>2. Sealed(journal[r], req[r].outcome).finished BY <2>1 DEF Sealed, Row
  <2> QED BY <1>1, <1>3, <2>2 DEF RowEnds, OpenInv
<1> QED BY <1>2, <1>3, RunWorksOrEnds

LEMMA StaysUp ==
  ASSUME TypeOK, Unhindered, daemon = "up", [Next]_vars
  PROVE  /\ daemon' = "up"
         /\ \/ \E r \in Ids : Run(r)
            \/ \E c \in Clients : Begin(c)
            \/ UNCHANGED runVars
<1>1. ~(stops < MaxStops)
  <2>1. stops \in 0 .. MaxStops /\ MaxStops = 0 BY DEF TypeOK, DaemonTypeOK, Unhindered
  <2> QED BY <2>1
<1>2. CASE \E r \in Ids : Run(r) BY <1>2, RunLeavesDaemon
<1> QED
  BY <1>1, <1>2 DEF Next, Handle, ReadClick, Join, Begin, BeginFails, Edit, BackgroundSync,
     Startup, Boot, CloseOrphan, Serve, Stop, Wait, Exit, Die, vars, asideVars, daemonVars

LEMMA OpenOthers ==
  ASSUME TypeOK, TypeOK', OpenInv, Unhindered, [Next]_vars, \A r \in Ids : ~Run(r)
  PROVE  OpenInv'
<1>1. /\ RepoTypeOK /\ RepoTypeOK' /\ BranchInv /\ UndoInv /\ AnsweredInv
      /\ pc \in [Ids -> Labels] /\ journal \in Seq(Row) /\ DOMAIN journal \subseteq Ids
      /\ \A q \in Ids : pc[q] # "unused" => q \in DOMAIN journal
  BY RowsAreRuns DEF TypeOK, RunTypeOK, JournalTypeOK, OpenInv
<1>2. OpensNone
  <2>1. CASE UNCHANGED repoVars BY <2>1 DEF repoVars, OpensNone, SameBranch
  <2>2. CASE \E s \in Services : Push(s)
    <3>1. PICK s, c : MainBecomes(s, c, prs) BY <2>2 DEF Push
    <3> QED BY <1>1, <3>1, CommitOpensNone DEF RepoTypeOK
  <2> QED BY <2>1, <2>2, MainMoves
<1>3. BranchInv' BY <1>1, <1>2, BranchNext
<1>4. \A m \in Opened' : m \in Opened /\ SameBranch(m) BY <1>2 DEF OpensNone, Opened
<1>5. /\ DOMAIN journal \subseteq DOMAIN journal'
      /\ \A q \in DOMAIN journal :
           /\ journal'[q] = journal[q] /\ pc'[q] = pc[q] /\ req'[q] = req[q]
      /\ \A q \in DOMAIN journal' : q \in DOMAIN journal \/ journal'[q].detail = "none"
      /\ \A q \in Ids : pc'[q] \in {"checks", "merge", "update"} => q \in DOMAIN journal
  <2>1. CASE UNCHANGED runVars BY <1>1, <2>1 DEF runVars
  <2>2. CASE \E c \in Clients : Begin(c)
    <3>1. PICK c \in Clients : Begin(c) BY <2>2
    <3>2. PICK id : id = Len(journal) + 1 OBVIOUS
    <3>3. PICK row : row.detail = "none" /\ journal' = Append(journal, row)
      BY <3>1 DEF Begin
    <3>4. PICK k : req' = [req EXCEPT ![id] = k] /\ pc' = [pc EXCEPT ![id] = "begun"]
      BY <3>1, <3>2 DEF Begin, Goto
    <3>5. /\ \A q \in DOMAIN journal : journal'[q] = journal[q] /\ q # id
          /\ DOMAIN journal' = DOMAIN journal \cup {id} /\ journal'[id] = row
      BY <1>1, <3>2, <3>3, LenProperties
    <3>6. \A q \in Ids \ {id} : pc'[q] = pc[q] /\ req'[q] = req[q]
      BY <1>1, <3>4 DEF TypeOK, RunTypeOK
    <3>7. id \in Ids => pc'[id] = "begun" BY <1>1, <3>4
    <3> QED BY <1>1, <3>3, <3>5, <3>6, <3>7
  <2> QED BY <2>1, <2>2, StaysUp DEF OpenInv
<1>6. ASSUME NEW q \in DOMAIN journal
      PROVE  /\ Service(q)' = Service(q) /\ (Reverting(q)' <=> Reverting(q))
             /\ StillReverts(q) => StillReverts(q)'
             /\ LeftBy(q) => LeftBy(q)'
  <2>1. /\ journal'[q] = journal[q] /\ pc'[q] = pc[q] /\ req'[q] = req[q]
    BY <1>5
  <2>2. ~journal[q].finished => ~journal'[q].finished BY <2>1
  <2>3. Service(q)' = Service(q) BY <2>1 DEF Service
  <2>4. Reverting(q)' <=> Reverting(q) BY <2>1 DEF Reverting
  <2>5. StillReverts(q) => StillReverts(q)' BY <2>1, <2>2, <2>4 DEF StillReverts
  <2>6. journal[q].detail = "main still pins" => LeftBy(q)' BY <2>1 DEF LeftBy
  <2>7. pc[q] = "gone" /\ ~journal[q].finished => LeftBy(q)' BY <2>1, <2>2 DEF LeftBy
  <2> QED BY <2>3, <2>4, <2>5, <2>6, <2>7 DEF LeftBy
<1>7. ASSUME NEW m \in Opened'
      PROVE  \E q \in DOMAIN journal' : Answers(q, m)'
  <2>1. m \in Opened /\ SameBranch(m) BY <1>4
  <2>2. PICK q \in DOMAIN journal : Answers(q, m) BY <1>1, <2>1 DEF AnsweredInv
  <2>3. q \in DOMAIN journal' /\ Service(q)' = prs'[m].service
    BY <1>5, <1>6, <2>1, <2>2 DEF Answers, SameBranch
  <2>4. pc'[q] = pc[q] /\ req'[q] = req[q] BY <1>5
  <2>5. Proposes(q, m) => Proposes(q, m)' BY <1>6, <2>4 DEF Proposes
  <2>6. Reverts(q, m) => Reverts(q, m)' BY <1>6, <2>1, <2>4 DEF Reverts, SameBranch
  <2> QED BY <1>6, <2>2, <2>3, <2>5, <2>6 DEF Answers
<1>8. ASSUME NEW q \in Ids, Reverting(q)', pc'[q] \in {"checks", "merge", "update"},
             NEW m \in Opened', prs'[m].service = Service(q)',
             prs'[m].want = req'[q].original
      PROVE  m = req'[q].pr
  <2>1. q \in DOMAIN journal BY <1>5, <1>8
  <2>2. pc'[q] = pc[q] /\ req'[q] = req[q] /\ Reverting(q) /\ Service(q)' = Service(q)
    BY <1>5, <1>6, <1>8, <2>1
  <2>3. m \in Opened /\ prs[m].service = Service(q) /\ prs[m].want = req[q].original
    BY <1>4, <1>8, <2>2 DEF SameBranch
  <2> QED BY <1>1, <1>8, <2>2, <2>3 DEF UndoInv
<1>9. \A q \in DOMAIN journal' : journal'[q].detail # "none" => journal'[q].finished
  <2> SUFFICES ASSUME NEW q \in DOMAIN journal', journal'[q].detail # "none"
               PROVE  journal'[q].finished
    OBVIOUS
  <2>1. q \in DOMAIN journal /\ journal'[q] = journal[q] BY <1>5
  <2>2. journal[q].finished BY <2>1 DEF OpenInv
  <2> QED BY <2>1, <2>2
<1>10. daemon' = "up" BY StaysUp DEF OpenInv
<1> QED BY <1>3, <1>7, <1>8, <1>9, <1>10 DEF OpenInv, UndoInv, AnsweredInv

LEMMA OpenNext ==
  ASSUME TypeOK, TypeOK', SpanInv, HostInv, ReceiptInv, OpenInv, Unhindered, [Next]_vars
  PROVE  OpenInv'
<1>1. CASE \A r \in Ids : ~Run(r) BY <1>1, OpenOthers
<1>2. CASE \E r \in Ids : Run(r)
  <2>1. PICK r \in Ids : Run(r) BY <1>2
  <2>2. BranchInv' /\ AnsweredInv' BY <2>1, AnsweredRuns
  <2>3. UndoInv' BY <2>1, <2>2, UndoRuns
  <2>4. \A q \in DOMAIN journal' : journal'[q].detail # "none" => journal'[q].finished
    BY <2>1, DetailRuns
  <2>5. daemon' = "up" BY StaysUp DEF OpenInv
  <2> QED BY <2>2, <2>3, <2>4, <2>5 DEF OpenInv
<1> QED BY <1>1, <1>2

(* While nobody stops the daemon, GitHub's reply to an opening reaches it, *)
(* the journal takes the proposal and a proposal that is to be closed is   *)
(* closed, every open proposal is some run's to close or merge, or a       *)
(* receipt tells the operator to look, unless that receipt could not be    *)
(* written (engine.go:433, 621-624, 769).                                  *)
THEOREM ProposalsAreAccountedFor ==
  ASSUME Unhindered
  PROVE  Spec => []OpenPRAccountedFor
<1>1. Init => OpenInv
  <2>1. Init => DOMAIN prs = {} /\ DOMAIN journal = {} BY DEF Init, RepoInit
  <2> QED
    BY <2>1 DEF Init, OpenInv, BranchInv, UndoInv, AnsweredInv, Opened
<1>2. TypeOK /\ TypeOK' /\ SpanInv /\ HostInv /\ ReceiptInv /\ OpenInv /\ [Next]_vars
        => OpenInv'
  BY OpenNext
<1>3. TypeOK /\ OpenInv => OpenPRAccountedFor
  <2> SUFFICES ASSUME TypeOK, OpenInv, NEW n \in DOMAIN prs, prs[n].state = "open"
               PROVE  \E r \in DOMAIN journal :
                        /\ Service(r) = prs[n].service
                        /\ \/ Live(r) /\ (req[r].pr = n \/ Reverting(r))
                           \/ journal[r].detail = "main still pins"
                           \/ ~Live(r) /\ ~journal[r].finished
    BY DEF OpenPRAccountedFor
  <2>1. PICK r \in DOMAIN journal : Answers(r, n)
    BY DEF OpenInv, AnsweredInv, Opened
  <2>2. Proposes(r, n) => Live(r) /\ req[r].pr = n BY DEF Proposes, InSpan, Live
  <2>3. Reverts(r, n) => Live(r) /\ Reverting(r)
    BY DEF Reverts, StillReverts, Undoing, Live
  <2> QED BY <2>1, <2>2, <2>3 DEF Answers, LeftBy, Live
<1> QED
  BY <1>1, <1>2, <1>3, SpanInit, SpanNext, HostHolds, ReceiptHolds, EngineIsTyped, PTL
  DEF Spec
=============================================================================

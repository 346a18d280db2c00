----------------------------- MODULE PageProofs -----------------------------
(***************************************************************************)
(* Proof that the receipts the web page lists are the journal's, or how    *)
(* the run ended where the journal lost a write, for every number of       *)
(* services, runs, losses and requests under way.                          *)
(***************************************************************************)
EXTENDS Page, StreamProofs

(* The page moves the stream as a reader does. *)
LEMMA PageMoves ==
  ASSUME [Next]_vars
  PROVE  StreamMove \/ UNCHANGED streamVars
<1>1. Page \in Conns BY PageAssumption
<1>2. CASE Daemon BY <1>1, <1>2 DEF Daemon, StreamMove, Connection
<1>3. CASE reconnect BY <1>1, <1>3 DEF reconnect, StreamMove, Connection
<1>4. CASE onEvent BY <1>1, <1>4 DEF onEvent, StreamMove, Connection, Read
<1>5. CASE refresh \/ loadHistory \/ Fails
  BY <1>5 DEF refresh, loadHistory, Request, Fails
<1>6. ASSUME NEW kind \in {"services", "history"}, Answer(kind) \/ Receive(kind)
      PROVE  UNCHANGED streamVars
  BY <1>6 DEF Answer, Receive, Received
<1>7. CASE UNCHANGED vars BY <1>7 DEF vars
<1> QED BY <1>2, <1>3, <1>4, <1>5, <1>6, <1>7 DEF Next

(* What is claimed of a run's receipt is in the journal, or would be had   *)
(* it not lost a write of the run, and stays true.                         *)
Honest(r, outcome) ==
    /\ r \in DOMAIN rows
    /\ rows[r].over = outcome \/ (r \in lost /\ ran[r].over = outcome)
Claims(claim) == \A r \in Ids : claim[r] \in Outcomes => Honest(r, claim[r])

LEMMA ClaimsStay ==
  ASSUME Grows, NEW claim, Claims(claim)
  PROVE  Claims(claim)'
<1> SUFFICES ASSUME NEW r \in Ids, claim[r] \in Outcomes PROVE Honest(r, claim[r])'
  BY DEF Claims
<1>1. Honest(r, claim[r]) BY DEF Claims
<1>2. claim[r] # "no" BY DEF Outcomes
<1> QED BY <1>1, <1>2 DEF Grows, Honest, Over

(* The strengthening: so is whatever a response under way says. *)
FetchInv ==
    \A f \in DOMAIN fetches :
        f.kind = "history" /\ f # Asked("history") => Claims(f.history)

PageInv == Claims(history) /\ FetchInv

LEMMA FetchStays ==
  ASSUME Grows, FetchInv, DOMAIN fetches' \subseteq DOMAIN fetches
  PROVE  FetchInv'
BY ClaimsStay DEF FetchInv, Asked

LEMMA RemoveDomain ==
  ASSUME NEW f
  PROVE  DOMAIN BagRemove(fetches, f) \subseteq DOMAIN fetches
BY DEF BagRemove

LEMMA AddDomain ==
  ASSUME NEW bag, NEW f
  PROVE  DOMAIN BagAdd(bag, f) = DOMAIN bag \cup {f}
BY DEF BagAdd

-----------------------------------------------------------------------------
(* Frames, answers and responses.                                          *)

(* A terminal frame is the receipt it stands for; what it asks for has not *)
(* been answered.                                                          *)
LEMMA EventKeeps ==
  ASSUME StreamInv, Grows, PageInv, onEvent
  PROVE  PageInv'
<1> DEFINE ev == Head(wire[Page])
<1>1. ev \in Reported
  <2>1. wire[Page] \in Seq(Reported) /\ wire[Page] # <<>>
    BY PageAssumption DEF onEvent, StreamInv, QueueInv
  <2> QED BY <2>1, HeadTailProperties
<1>2. applyEvent(ev) /\ UNCHANGED <<ran, rows, lost>> BY DEF onEvent, runVars, journalVars
<1>3. Claims(history)'
  <2>1. CASE ev.over = "no"
    <3>1. UNCHANGED history BY <1>2, <2>1 DEF applyEvent
    <3> QED BY <3>1, ClaimsStay DEF PageInv
  <2>2. CASE ev.over # "no"
    <3>1. history' = [r \in Ids |-> IF r = ev.run THEN ev.over ELSE history[r]]
      BY <1>2, <2>2 DEF applyEvent, ReceiptOf
    <3>2. Honest(ev.run, ev.over)
      BY <1>1, <2>2 DEF Reported, Honest, StreamInv, RowsTyped, Journalled
    <3> QED BY <1>2, <3>1, <3>2 DEF PageInv, Claims, Honest
  <2> QED BY <2>1, <2>2
<1>4. FetchInv'
  <2>1. CASE ev.over = "no"
    <3>1. UNCHANGED fetches BY <2>1 DEF onEvent
    <3> QED BY <3>1, FetchStays DEF PageInv
  <2>2. CASE ev.over # "no"
    <3>1. \A f \in DOMAIN fetches' :
            f \in DOMAIN fetches \/ f = Asked("services") \/ f = Asked("history")
      BY <2>2 DEF onEvent, SetToBag, (+)
    <3>2. \A f \in DOMAIN fetches :
            f.kind = "history" /\ f # Asked("history") => Claims(f.history)'
      BY ClaimsStay DEF PageInv, FetchInv
    <3>3. Asked("services").kind # "history" BY DEF Asked
    <3> QED BY <3>1, <3>2, <3>3 DEF FetchInv, Asked
  <2> QED BY <2>1, <2>2
<1> QED BY <1>3, <1>4 DEF PageInv

(* The server answers from the journal as it is. *)
LEMMA AnswerKeeps ==
  ASSUME Grows, PageInv, NEW kind \in {"services", "history"}, Answer(kind)
  PROVE  PageInv'
<1>1. UNCHANGED <<ran, rows, lost, history>>
  BY DEF Answer, streamVars, runVars, journalVars
<1>2. Claims(history)' BY <1>1, ClaimsStay DEF PageInv
<1>3. PICK f : f \in Answered(kind) /\ DOMAIN fetches' \subseteq DOMAIN fetches \cup {f}
  <2>1. PICK left : left = BagRemove(fetches, Asked(kind)) OBVIOUS
  <2>2. PICK f \in Answered(kind) : fetches' = BagAdd(left, f) BY <2>1 DEF Answer
  <2>3. DOMAIN fetches' = DOMAIN left \cup {f} BY <2>2, AddDomain
  <2>4. DOMAIN left \subseteq DOMAIN fetches BY <2>1, RemoveDomain
  <2> QED BY <2>2, <2>3, <2>4
<1>4. f.kind = "history" => Claims(f.history)
  <2>1. CASE kind = "services"
    <3>1. f.kind = "services" BY <1>3, <2>1 DEF Answered, Asked
    <3> QED BY <3>1
  <2>2. CASE kind = "history"
    <3>1. f.history =
            [r \in Ids |-> IF r \in DOMAIN rows /\ rows[r].service = Route
                           THEN entry(r) ELSE "absent"]
      BY <1>3, <2>2 DEF Answered, Asked
    <3>2. ASSUME NEW r \in Ids, f.history[r] \in Outcomes
          PROVE  Honest(r, f.history[r])
      BY <3>1, <3>2 DEF entry, Outcomes, Honest
    <3> QED BY <3>2 DEF Claims
  <2> QED BY <2>1, <2>2
<1>5. \A g \in DOMAIN fetches :
        g.kind = "history" /\ g # Asked("history") => Claims(g.history)'
  BY ClaimsStay DEF PageInv, FetchInv
<1>6. \A g \in DOMAIN fetches' :
        g.kind = "history" /\ g # Asked("history") => Claims(g.history)'
  BY <1>1, <1>3, <1>4, <1>5 DEF Claims, Honest
<1> QED BY <1>2, <1>6 DEF PageInv, FetchInv, Asked

(* However late a response arrives, what it says is still so. *)
LEMMA ReceiveKeeps ==
  ASSUME Grows, PageInv, NEW kind \in {"services", "history"}, Receive(kind)
  PROVE  PageInv'
<1>1. PICK f \in UnderWay(kind) \ {Asked(kind)} : Received(f) BY DEF Receive
<1>2. /\ UNCHANGED <<ran, rows, lost>> /\ f.kind = kind /\ f \in DOMAIN fetches
      /\ IF kind = "services"
           THEN setServices(f.services) /\ UNCHANGED history
           ELSE setHistory(f.history) /\ UNCHANGED active
      /\ fetches' = BagRemove(fetches, f)
  BY <1>1 DEF Received, UnderWay, streamVars, runVars, journalVars
<1>3. FetchInv' BY <1>2, RemoveDomain, FetchStays DEF PageInv
<1>4. Claims(history)'
  <2>1. CASE kind = "services" BY <1>2, <2>1, ClaimsStay DEF PageInv
  <2>2. CASE kind = "history"
    <3>1. Claims(f.history) BY <1>1, <1>2, <2>2 DEF PageInv, FetchInv
    <3>2. ASSUME NEW r \in Ids
          PROVE  history'[r] \in {f.history[r], history[r], "absent"}
      BY <1>2, <2>2, <3>2 DEF setHistory
    <3>3. Claims(history) BY DEF PageInv
    <3>4. ASSUME NEW r \in Ids, history'[r] \in Outcomes PROVE Honest(r, history'[r])
      <4>1. history'[r] \in {f.history[r], history[r]} BY <3>2, <3>4 DEF Outcomes
      <4> QED BY <3>1, <3>3, <3>4, <4>1 DEF Claims
    <3> QED BY <1>2, <3>4 DEF Claims, Honest
  <2> QED BY <2>1, <2>2
<1> QED BY <1>3, <1>4 DEF PageInv

LEMMA PageNext ==
  ASSUME StreamInv, PageInv, [Next]_vars
  PROVE  StreamInv' /\ PageInv'
<1>1. StreamInv' /\ Grows BY PageMoves, StreamMoveKeeps, StreamRests
<1>2. ASSUME UNCHANGED pageVars PROVE PageInv'
  BY <1>1, <1>2, ClaimsStay, FetchStays DEF PageInv, pageVars
<1>3. CASE Daemon /\ UNCHANGED pageVars BY <1>1, <1>2, <1>3
<1>4. CASE reconnect BY <1>1, <1>2, <1>4 DEF reconnect
<1>5. CASE onEvent BY <1>1, <1>5, EventKeeps
<1>6. ASSUME NEW kind \in {"services", "history"}, Request(kind) PROVE PageInv'
  <2>1. \A f \in DOMAIN fetches' : f \in DOMAIN fetches \/ f = Asked(kind)
    <3>1. PICK f : f = Asked(kind) OBVIOUS
    <3>2. fetches' = BagAdd(fetches, f) BY <1>6, <3>1 DEF Request
    <3>3. DOMAIN fetches' = DOMAIN fetches \cup {f} BY <3>2, AddDomain
    <3> QED BY <3>1, <3>3
  <2>2. \A f \in DOMAIN fetches :
          f.kind = "history" /\ f # Asked("history") => Claims(f.history)'
    BY <1>1, ClaimsStay DEF PageInv, FetchInv
  <2>3. Asked(kind).kind = kind BY DEF Asked
  <2>4. UNCHANGED history BY <1>6 DEF Request
  <2> QED BY <1>1, <2>1, <2>2, <2>3, <2>4, ClaimsStay DEF PageInv, FetchInv, Asked
<1>7. CASE refresh \/ loadHistory BY <1>1, <1>6, <1>7 DEF refresh, loadHistory
<1>8. CASE Fails
  <2>1. DOMAIN fetches' \subseteq DOMAIN fetches /\ UNCHANGED history
    BY <1>8, RemoveDomain DEF Fails
  <2> QED BY <1>1, <2>1, ClaimsStay, FetchStays DEF PageInv
<1>9. ASSUME NEW kind \in {"services", "history"}, Answer(kind) \/ Receive(kind)
      PROVE  PageInv'
  BY <1>1, <1>9, AnswerKeeps, ReceiveKeeps
<1>10. CASE UNCHANGED vars BY <1>1, <1>2, <1>10 DEF vars
<1> QED BY <1>1, <1>3, <1>4, <1>5, <1>7, <1>8, <1>9, <1>10 DEF Next

(* A receipt the page lists is the journal's, or how a run ended whose     *)
(* row lost a write: terminal frames and fetched lists agree with it when  *)
(* they are made, and neither changes afterwards, so the order they arrive *)
(* in does not matter (state.ts:149-161, App.svelte's fetches;             *)
(* engine.go:769).                                                         *)
THEOREM ReceiptsShownAreTrue == Spec => []ReceiptsAreTrue
<1>1. Init => StreamInv /\ PageInv
  <2> SUFFICES ASSUME Init PROVE StreamInv /\ PageInv OBVIOUS
  <2>1. StreamInv BY StreamInitInv DEF Init
  <2>2. Claims(history) BY DEF Init, Claims, Outcomes
  <2>3. FetchInv BY DEF Init, FetchInv, EmptyBag, SetToBag
  <2> QED BY <2>1, <2>2, <2>3 DEF PageInv
<1>2. PageInv => ReceiptsAreTrue BY DEF PageInv, Claims, Honest, ReceiptsAreTrue
<1> QED BY <1>1, <1>2, PageNext, PTL DEF Spec
=============================================================================

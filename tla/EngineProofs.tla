---------------------------- MODULE EngineProofs ----------------------------
(***************************************************************************)
(* Proofs, for every value of the constants, that the types of Engine      *)
(* hold, that its locks, join points and receipts are what its comments    *)
(* say, and that it implements Deploys.                                    *)
(*                                                                         *)
(* First the types.  TypeOK is inductive.  A step of a run is taken apart  *)
(* by the part of the state it may disturb: the repository, the world it   *)
(* mirrors and applies to, the queues, the daemon, the run's own request,  *)
(* and the journal.                                                        *)
(***************************************************************************)
EXTENDS EngineProperties, SequenceTheorems, TLAPS

-----------------------------------------------------------------------------
(* The configuration repository. *)

LEMMA ProposalFields ==
  ASSUME NEW p \in Proposal, NEW c \in Content
  PROVE  /\ [p EXCEPT !.behind = TRUE] \in Proposal
         /\ [p EXCEPT !.head = c] \in Proposal
         /\ [p EXCEPT !.head = c, !.state = "open"] \in Proposal
         /\ [p EXCEPT !.state = "closed"] \in Proposal
         /\ [p EXCEPT !.state = "merged"] \in Proposal
BY DEF Proposal

LEMMA MainBecomesTyped ==
  ASSUME RepoTypeOK, NEW s \in Services, NEW c \in Content,
         NEW ps \in Seq(Proposal), MainBecomes(s, c, ps)
  PROVE  /\ main' \in [Services -> Content]
         /\ landed' \in [Services -> SUBSET Content]
         /\ prs' \in Seq(Proposal)
<1>1. main' \in [Services -> Content] BY DEF MainBecomes, RepoTypeOK
<1>2. landed' \in [Services -> SUBSET Content] BY DEF MainBecomes, RepoTypeOK
<1>3. \A n \in DOMAIN ps : [ps[n] EXCEPT !.behind = TRUE] \in Proposal
  BY c \in Content, ElementOfSeq, LenProperties, ProposalFields
<1>4. prs' \in Seq(Proposal) BY <1>3 DEF MainBecomes
<1> QED BY <1>1, <1>2, <1>4

LEMMA OpenTyped ==
  ASSUME RepoTypeOK, NEW s \in Services, NEW c \in Content, NEW n \in Nat,
         OpenManifestPR(s, c, n)
  PROVE  RepoTypeOK'
<1>1. prs' \in Seq(Proposal)
  <2>1. CASE OpenOnNewBranch(s, c, n)
    <3>1. main[s] \in Content BY DEF RepoTypeOK
    <3>2. [service |-> s, want |-> c, base |-> main[s], head |-> c,
           behind |-> FALSE, state |-> "open"] \in Proposal
      BY <3>1 DEF Proposal
    <3> QED BY <2>1, <3>2 DEF OpenOnNewBranch, RepoTypeOK
  <2>2. CASE OpenOnOldBranch(s, c, n)
    <3>1. PICK m \in DOMAIN prs :
            prs' = Append(prs, [prs[m] EXCEPT !.head = c, !.state = "open"])
      BY <2>2 DEF OpenOnOldBranch, Newest, branchFor
    <3>2. prs[m] \in Proposal BY <3>1 DEF RepoTypeOK
    <3>3. [prs[m] EXCEPT !.head = c, !.state = "open"] \in Proposal
      BY <3>2 DEF Proposal
    <3> QED BY <3>1, <3>3 DEF RepoTypeOK
  <2>3. CASE AdoptOpen(s, c, n)
    <3>1. n \in DOMAIN prs /\ prs' = [prs EXCEPT ![n].head = c]
      BY <2>3 DEF AdoptOpen, Newest, branchFor
    <3>2. prs[n] \in Proposal BY <3>1 DEF RepoTypeOK
    <3>3. [prs[n] EXCEPT !.head = c] \in Proposal BY <3>2, ProposalFields
    <3> QED BY <3>1, <3>3 DEF RepoTypeOK
  <2> QED BY <2>1, <2>2, <2>3 DEF OpenManifestPR
<1> QED BY <1>1 DEF OpenManifestPR, RepoTypeOK

LEMMA MergeTyped ==
  ASSUME RepoTypeOK, NEW n \in Nat, Merge(n), n \in DOMAIN prs
  PROVE  RepoTypeOK'
<1>1. prs[n] \in Proposal BY DEF RepoTypeOK
<1>2. prs[n].service \in Services /\ prs[n].head \in Content BY <1>1 DEF Proposal
<1>3. [prs[n] EXCEPT !.state = "merged"] \in Proposal BY <1>1 DEF Proposal
<1>4. [prs EXCEPT ![n].state = "merged"] \in Seq(Proposal) BY <1>3 DEF RepoTypeOK
<1> QED BY <1>2, <1>4, MainBecomesTyped DEF Merge, RepoTypeOK

LEMMA UpdateTyped ==
  ASSUME RepoTypeOK, NEW n \in Nat, UpdateBranch(n), n \in DOMAIN prs
  PROVE  RepoTypeOK'
<1> DEFINE p == prs[n]
           m == main[p.service]
           head == [p.head EXCEPT
                      !.digest = Merged(p.base.digest, p.head.digest, m.digest),
                      !.rev = Merged(p.base.rev, p.head.rev, m.rev)]
<1>1. p \in Proposal BY DEF RepoTypeOK
<1>2. p.service \in Services /\ p.head \in Content /\ p.base \in Content
  BY <1>1 DEF Proposal
<1>3. m \in Content BY <1>2 DEF RepoTypeOK
<1>4. head \in Content
  <2>1. Merged(p.base.digest, p.head.digest, m.digest) \in Digests
    BY <1>2, <1>3 DEF Merged, Content
  <2>2. Merged(p.base.rev, p.head.rev, m.rev) \in Revs
    BY <1>2, <1>3 DEF Merged, Content
  <2> QED BY <1>2, <2>1, <2>2 DEF Content
<1>5. [p EXCEPT !.head = head, !.base = m, !.behind = FALSE] \in Proposal
  BY <1>1, <1>3, <1>4 DEF Proposal
<1>6. prs' = [prs EXCEPT ![n] = [p EXCEPT !.head = head, !.base = m, !.behind = FALSE]]
  BY <1>1 DEF UpdateBranch, Proposal, RepoTypeOK
<1>7. prs' \in Seq(Proposal) BY <1>5, <1>6 DEF RepoTypeOK
<1> QED BY <1>7 DEF UpdateBranch, RepoTypeOK

LEMMA CloseTyped ==
  ASSUME RepoTypeOK, NEW n \in Nat, ClosePR(n), n \in DOMAIN prs
  PROVE  RepoTypeOK'
<1>1. prs[n] \in Proposal BY DEF RepoTypeOK
<1>2. prs[n].head \in Content BY <1>1 DEF Proposal
<1>3. CASE prs[n].state = "open"
  <2>1. prs' = [prs EXCEPT ![n] = [prs[n] EXCEPT !.state = "closed"]]
    BY <1>3 DEF ClosePR
  <2>2. [prs[n] EXCEPT !.state = "closed"] \in Proposal
    BY <1>1, <1>2, ProposalFields
  <2>3. prs' \in Seq(Proposal) BY <2>1, <2>2 DEF RepoTypeOK
  <2> QED BY <2>3 DEF ClosePR, RepoTypeOK
<1>4. CASE prs[n].state # "open"
  <2>1. prs' = [prs EXCEPT ![n] = [prs[n] EXCEPT !.state = prs[n].state]]
    BY <1>4 DEF ClosePR
  <2>2. [prs[n] EXCEPT !.state = prs[n].state] = prs[n] BY <1>1 DEF Proposal
  <2>3. prs' = prs BY <2>1, <2>2 DEF RepoTypeOK
  <2> QED BY <2>3 DEF ClosePR, RepoTypeOK
<1> QED BY <1>3, <1>4

LEMMA PushTyped ==
  ASSUME RepoTypeOK, NEW s \in Services, Push(s)
  PROVE  RepoTypeOK'
<1>1. PICK d \in Digests, rev \in {main[s].rev, edits + 1} :
        MainBecomes(s, [digest |-> d, rev |-> rev], prs)
  BY DEF Push
<1>2. main[s].rev \in Revs BY DEF RepoTypeOK, Content
<1>3. edits' \in 0 .. MaxEdits /\ edits + 1 \in Revs
  BY RepoAssumption DEF Push, RepoTypeOK, Revs
<1>4. [digest |-> d, rev |-> rev] \in Content BY <1>2, <1>3 DEF Content
<1> QED BY <1>1, <1>3, <1>4, MainBecomesTyped DEF RepoTypeOK

-----------------------------------------------------------------------------
(* A run's request and its journal row. *)

(* What every step of a run keeps of its own bookkeeping. *)
RunKept ==
    /\ req' \in [Ids -> Request]
    /\ journal' \in Seq(Row) /\ Len(journal') = Len(journal)

LEMMA RequestRewritten ==
  ASSUME NEW q \in Request, NEW d \in Digests, NEW c \in Content, NEW w \in Content
  PROVE  /\ [q EXCEPT !.old = d, !.original = c, !.content = w] \in Request
         /\ [q EXCEPT !.old = d, !.new = d, !.content = c] \in Request
         /\ [q EXCEPT !.content = c] \in Request
BY DEF Request

LEMMA RequestBegun ==
  ASSUME NEW q \in Request, NEW old \in Digests, NEW new \in Digests,
         NEW c \in Content
  PROVE  [q EXCEPT !.old = old, !.new = new, !.original = c, !.content = c] \in Request
BY DEF Request

LEMMA RequestProposed ==
  ASSUME NEW q \in Request, NEW n \in Nat, NEW a \in 1 .. MergeAttempts
  PROVE  /\ [q EXCEPT !.pr = n, !.attempt = a] \in Request
         /\ [q EXCEPT !.attempt = a] \in Request
BY DEF Request

LEMMA SealedTyped ==
  ASSUME NEW row \in Row, NEW o \in Outcomes
  PROVE  Sealed(row, o) \in Row
<1>1. StateOf(o) \in States BY DEF StateOf, States, Terminal, Outcomes
<1> QED BY <1>1 DEF Row, Sealed

LEMMA RowConverged ==
  ASSUME NEW row \in Row, NEW old \in Digests, NEW new \in Digests
  PROVE  [row EXCEPT !.old = old, !.new = new, !.state = "reconciling"] \in Row
BY DEF Row, States

LEMMA JournalEntry ==
  ASSUME journal \in Seq(Row), NEW r \in DOMAIN journal, NEW row \in Row,
         journal' = [journal EXCEPT ![r] = row]
  PROVE  journal' \in Seq(Row) /\ Len(journal') = Len(journal)
OBVIOUS

LEMMA ProgressTyped ==
  ASSUME journal \in Seq(Row), NEW r \in DOMAIN journal, NEW x \in States,
         Progress(r, x)
  PROVE  journal' \in Seq(Row) /\ Len(journal') = Len(journal)
<1>1. journal[r] \in Row BY ElementOfSeq, LenProperties
<1>2. [journal[r] EXCEPT !.state = x] \in Row BY <1>1 DEF Row
<1>3. CASE Unsealed(r)
  <2>1. journal' = [journal EXCEPT ![r] = [journal[r] EXCEPT !.state = x]]
    BY <1>3 DEF Progress
  <2> QED BY <1>2, <2>1, JournalEntry
<1>4. CASE ~Unsealed(r) BY <1>4 DEF Progress
<1> QED BY <1>3, <1>4

LEMMA EndWithTyped ==
  ASSUME req \in [Ids -> Request], NEW r \in Ids, NEW o \in Outcomes, EndWith(r, o)
  PROVE  req' \in [Ids -> Request]
BY DEF EndWith, Request

(* A request is replaced by one of the same shape. *)
LEMMA RequestEntry ==
  ASSUME req \in [Ids -> Request], NEW r \in Ids, NEW q \in Request,
         req' = [req EXCEPT ![r] = q]
  PROVE  req' \in [Ids -> Request]
OBVIOUS

LEMMA RollBackTyped ==
  ASSUME req \in [Ids -> Request], journal \in Seq(Row),
         NEW r \in Ids, r \in DOMAIN journal, RollBack(r)
  PROVE  RunKept
<1>1. req[r] \in Request OBVIOUS
<1>2. req[r].original \in Content BY <1>1 DEF Request
<1>3. req' = [req EXCEPT ![r] =
                [req[r] EXCEPT !.mode = "restore", !.content = req[r].original]]
  BY DEF RollBack, Previous
<1>4. [req[r] EXCEPT !.mode = "restore", !.content = req[r].original] \in Request
  BY <1>1, <1>2 DEF Request
<1>5. req' \in [Ids -> Request] BY <1>3, <1>4
<1>6. Progress(r, "reconciling") BY DEF RollBack
<1>7. "reconciling" \in States BY DEF States
<1> QED BY <1>5, <1>6, <1>7, ProgressTyped DEF RunKept

LEMMA RevertAgainTyped ==
  ASSUME req \in [Ids -> Request], journal \in Seq(Row),
         NEW r \in Ids, r \in DOMAIN journal, RevertAgain(r)
  PROVE  RunKept
<1>1. req[r] \in Request OBVIOUS
<1>2. req[r].undo + 1 \in 1 .. RevertAttempts /\ 1 \in 1 .. MergeAttempts
  <2>1. req[r].undo \in 1 .. RevertAttempts BY <1>1 DEF Request
  <2>2. req[r].undo < RevertAttempts BY DEF RevertAgain
  <2> QED BY <2>1, <2>2, EngineAssumption
<1>3. req' = [req EXCEPT ![r] =
                [req[r] EXCEPT !.undo = req[r].undo + 1, !.attempt = 1, !.pr = 0]]
  BY DEF RevertAgain
<1>4. [req[r] EXCEPT !.undo = req[r].undo + 1, !.attempt = 1, !.pr = 0] \in Request
  BY <1>1, <1>2 DEF Request
<1>5. req' \in [Ids -> Request] BY <1>3, <1>4
<1>6. Progress(r, "reconciling") BY DEF RevertAgain
<1>7. "reconciling" \in States BY DEF States
<1> QED BY <1>5, <1>6, <1>7, ProgressTyped DEF RunKept

LEMMA RevertOverTyped ==
  ASSUME req \in [Ids -> Request], journal \in Seq(Row),
         NEW r \in Ids, RevertOver(r)
  PROVE  RunKept
<1>1. "main still pins" \in Outcomes BY DEF Outcomes
<1> QED BY <1>1, EndWithTyped DEF RunKept, RevertOver

LEMMA SpanFailsTyped ==
  ASSUME req \in [Ids -> Request], journal \in Seq(Row),
         NEW r \in Ids, r \in DOMAIN journal, SpanFails(r) \/ OpenFails(r)
  PROVE  RunKept
<1>1. CASE RevertAgain(r) BY <1>1, RevertAgainTyped
<1>2. CASE RevertOver(r) BY <1>2, RevertOverTyped
<1>3. CASE UNCHANGED <<req, journal>> BY <1>3 DEF RunKept
<1>4. CASE EndWith(r, "failed") /\ UNCHANGED journal
  <2>1. "failed" \in Outcomes BY DEF Outcomes
  <2> QED BY <1>4, <2>1, EndWithTyped DEF RunKept
<1> QED BY <1>1, <1>2, <1>3, <1>4 DEF SpanFails, OpenFails

LEMMA ApplyFailsTyped ==
  ASSUME req \in [Ids -> Request], journal \in Seq(Row),
         NEW r \in Ids, r \in DOMAIN journal, ApplyFails(r)
  PROVE  RunKept
<1>1. CASE RollBack(r) BY <1>1, RollBackTyped
<1>2. CASE \E o \in Outcomes : EndWith(r, o) /\ UNCHANGED journal
  BY <1>2, EndWithTyped DEF RunKept
<1>3. {"failed", "restore failed"} \subseteq Outcomes BY DEF Outcomes
<1> QED BY <1>1, <1>2, <1>3 DEF ApplyFails

LEMMA HealthyTyped ==
  ASSUME req \in [Ids -> Request], journal \in Seq(Row),
         NEW r \in Ids, r \in DOMAIN journal, Healthy(r)
  PROVE  RunKept
<1>1. CASE EndWith(r, "healthy") /\ UNCHANGED journal
  <2>1. "healthy" \in Outcomes BY DEF Outcomes
  <2> QED BY <1>1, <2>1, EndWithTyped DEF RunKept
<1>2. CASE /\ req' = [req EXCEPT ![r].mode = "revert", ![r].pr = 0]
           /\ Progress(r, "reconciling")
  <2>1. req[r] \in Request OBVIOUS
  <2>2. req' = [req EXCEPT ![r] = [req[r] EXCEPT !.mode = "revert", !.pr = 0]]
    BY <1>2
  <2>3. [req[r] EXCEPT !.mode = "revert", !.pr = 0] \in Request BY <2>1 DEF Request
  <2>4. "reconciling" \in States BY DEF States
  <2> QED BY <1>2, <2>2, <2>3, <2>4, ProgressTyped DEF RunKept
<1> QED BY <1>1, <1>2 DEF Healthy

(* Steps that end the run or leave its request alone, the journal untouched. *)
LEMMA EndingTyped ==
  ASSUME req \in [Ids -> Request], journal \in Seq(Row), NEW r \in Ids,
         journal' = journal,
         req' = req \/ \E o \in {"healthy", "failed", "main reverted",
                                 "main still pins"} : EndWith(r, o)
  PROVE  RunKept
<1>1. {"healthy", "failed", "main reverted", "main still pins"} \subseteq Outcomes
  BY DEF Outcomes
<1> QED BY <1>1, EndWithTyped DEF RunKept

LEMMA FrontTyped ==
  ASSUME RepoTypeOK, WorldTypeOK, RunTypeOK, JournalTypeOK, NEW r \in Ids, Front(r)
  PROVE  RunKept
<1>1. req \in [Ids -> Request] /\ journal \in Seq(Row) /\ journal' = journal
  BY DEF RunTypeOK, JournalTypeOK, Front
<1>2. CASE req' = req \/ EndWith(r, "failed") BY <1>1, <1>2, EndingTyped
<1>3. CASE /\ At(r, "front")
           /\ req' = [req EXCEPT ![r].old = mirror[Service(r)].digest,
                                 ![r].original = mirror[Service(r)],
                                 ![r].content = setDigest(mirror[Service(r)], req[r].new)]
  <2>1. r \in DOMAIN journal BY <1>3 DEF At, RunTypeOK
  <2>2. journal[r] \in Row BY <1>1, <2>1, ElementOfSeq, LenProperties
  <2>3. mirror[Service(r)] \in Content BY <2>2 DEF WorldTypeOK, Service, Row
  <2>4. req[r] \in Request BY <1>1
  <2>5. req[r].new \in Digests BY <2>4 DEF Request
  <2> DEFINE raw == mirror[Service(r)]
             written == setDigest(raw, req[r].new)
  <2>6. written \in Content /\ raw.digest \in Digests
    BY <2>3, <2>5 DEF setDigest, Content
  <2>7. req' = [req EXCEPT ![r] = [req[r] EXCEPT !.old = raw.digest, !.original = raw,
                                                 !.content = written]]
    BY <1>3
  <2>8. [req[r] EXCEPT !.old = raw.digest, !.original = raw, !.content = written]
          \in Request
    BY <2>3, <2>4, <2>6, RequestRewritten
  <2>9. req' \in [Ids -> Request]
    <3> HIDE DEF raw, written
    <3> QED BY <1>1, <2>7, <2>8
  <2> QED BY <1>1, <2>9 DEF RunKept
<1> QED BY <1>2, <1>3 DEF Front

LEMMA OpenKeeps ==
  ASSUME RepoTypeOK, RunTypeOK, JournalTypeOK, NEW r \in Ids, Open(r)
  PROVE  RunKept
<1>1. req \in [Ids -> Request] /\ journal \in Seq(Row) /\ r \in DOMAIN journal
  BY DEF RunTypeOK, JournalTypeOK, Open, At
<1>2. CASE OpenFails(r) BY <1>1, <1>2, SpanFailsTyped
<1>3. CASE \E n \in {Len(prs) + 1} \cup DOMAIN prs :
             /\ req' = [req EXCEPT ![r].pr = n, ![r].attempt = 1]
             /\ IF Reverting(r) THEN Progress(r, "checks") ELSE UNCHANGED journal
  <2>1. PICK n \in {Len(prs) + 1} \cup DOMAIN prs :
             /\ req' = [req EXCEPT ![r].pr = n, ![r].attempt = 1]
             /\ IF Reverting(r) THEN Progress(r, "checks") ELSE UNCHANGED journal
    BY <1>3
  <2>2. n \in Nat BY DEF RepoTypeOK
  <2>3. req[r] \in Request /\ 1 \in 1 .. MergeAttempts BY <1>1, EngineAssumption
  <2>4. [req[r] EXCEPT !.pr = n, !.attempt = 1] \in Request
    BY <2>2, <2>3, RequestProposed
  <2>5. req' = [req EXCEPT ![r] = [req[r] EXCEPT !.pr = n, !.attempt = 1]]
    BY <2>1
  <2>6. req' \in [Ids -> Request] BY <1>1, <2>4, <2>5
  <2>7. "checks" \in States BY DEF States
  <2>8. journal' \in Seq(Row) /\ Len(journal') = Len(journal)
    BY <1>1, <2>1, <2>7, ProgressTyped
  <2> QED BY <2>6, <2>8 DEF RunKept
<1> QED BY <1>2, <1>3 DEF Open

LEMMA RecordKeeps ==
  ASSUME RunTypeOK, JournalTypeOK, NEW r \in Ids, Record(r) \/ RecordMerge(r)
  PROVE  RunKept
<1>1. req \in [Ids -> Request] /\ journal \in Seq(Row) /\ r \in DOMAIN journal
  BY DEF RunTypeOK, JournalTypeOK, Record, RecordMerge, At
<1>2. CASE EndWith(r, "failed") /\ UNCHANGED journal BY <1>1, <1>2, EndingTyped
<1>3. journal[r] \in Row /\ req[r] \in Request BY <1>1, ElementOfSeq, LenProperties
<1>4. req[r].pr \in Nat BY <1>3 DEF Request
<1>5. CASE req' = req /\ journal' = [journal EXCEPT ![r].pr = req[r].pr,
                                                    ![r].state = "checks"]
  <2>1. [journal[r] EXCEPT !.pr = req[r].pr, !.state = "checks"] \in Row
    BY <1>3, <1>4 DEF Row, States
  <2>2. journal' = [journal EXCEPT ![r] =
                      [journal[r] EXCEPT !.pr = req[r].pr, !.state = "checks"]]
    BY <1>5
  <2> QED BY <1>1, <1>5, <2>1, <2>2, JournalEntry DEF RunKept
<1>6. CASE req' = req /\ journal' = [journal EXCEPT ![r].merged = TRUE,
                                                    ![r].state = "reconciling"]
  <2>1. [journal[r] EXCEPT !.merged = TRUE, !.state = "reconciling"] \in Row
    BY <1>3 DEF Row, States
  <2>2. journal' = [journal EXCEPT ![r] =
                      [journal[r] EXCEPT !.merged = TRUE, !.state = "reconciling"]]
    BY <1>6
  <2> QED BY <1>1, <1>6, <2>1, <2>2, JournalEntry DEF RunKept
<1> QED BY <1>2, <1>5, <1>6 DEF Record, RecordMerge

LEMMA UpdateKeeps ==
  ASSUME RunTypeOK, JournalTypeOK, NEW r \in Ids, Update(r)
  PROVE  RunKept
<1>1. req \in [Ids -> Request] /\ journal \in Seq(Row) /\ r \in DOMAIN journal
  BY DEF RunTypeOK, JournalTypeOK, Update, At
<1>2. CASE SpanFails(r) BY <1>1, <1>2, SpanFailsTyped
<1>3. CASE /\ ~LastAttempt(r)
           /\ req' = [req EXCEPT ![r].attempt = req[r].attempt + 1]
           /\ Progress(r, "checks")
  <2>1. req[r] \in Request BY <1>1
  <2>2. req[r].attempt \in 1 .. MergeAttempts BY <2>1 DEF Request
  <2>3. req[r].attempt # MergeAttempts BY <1>3 DEF LastAttempt
  <2>4. req[r].attempt + 1 \in 1 .. MergeAttempts BY <2>2, <2>3, EngineAssumption
  <2>5. [req[r] EXCEPT !.attempt = req[r].attempt + 1] \in Request
    BY <2>1, <2>4, RequestProposed
  <2>6. req' = [req EXCEPT ![r] = [req[r] EXCEPT !.attempt = req[r].attempt + 1]]
    BY <1>3
  <2>7. req' \in [Ids -> Request] BY <1>1, <2>5, <2>6
  <2>8. "checks" \in States BY DEF States
  <2> QED BY <1>1, <1>3, <2>7, <2>8, ProgressTyped DEF RunKept
<1> QED BY <1>2, <1>3 DEF Update

(* A converge takes the pin it finds. *)
LEMMA ConvergeReadKeeps ==
  ASSUME RepoTypeOK, WorldTypeOK, RunTypeOK, JournalTypeOK, NEW r \in Ids,
         ConvergeRead(r)
  PROVE  RunKept
<1> DEFINE raw == mirror[Service(r)]
           old == IF raw.digest = req[r].new THEN journal[r].old ELSE raw.digest
<1>1. req \in [Ids -> Request] /\ journal \in Seq(Row) /\ r \in DOMAIN journal
  BY DEF RunTypeOK, JournalTypeOK, ConvergeRead, At
<1>2. journal[r] \in Row /\ req[r] \in Request BY <1>1, ElementOfSeq, LenProperties
<1>3. raw \in Content BY <1>2 DEF WorldTypeOK, Service, Row
<1>4. raw.digest \in Digests BY <1>3 DEF Content
<1>5. old \in Digests BY <1>2, <1>4 DEF Row
<1>6. CASE EndWith(r, "failed") /\ UNCHANGED journal BY <1>1, <1>6, EndingTyped
<1>7. CASE /\ journal' = [journal EXCEPT ![r].old = old, ![r].new = raw.digest,
                                         ![r].state = "reconciling"]
           /\ req' = [req EXCEPT ![r].old = raw.digest, ![r].new = raw.digest,
                                 ![r].content = raw]
  <2>1. [req[r] EXCEPT !.old = raw.digest, !.new = raw.digest, !.content = raw]
          \in Request
    BY <1>2, <1>3, <1>4, RequestRewritten
  <2>2. req' = [req EXCEPT ![r] = [req[r] EXCEPT !.old = raw.digest,
                                    !.new = raw.digest, !.content = raw]]
    BY <1>7
  <2>3. req' \in [Ids -> Request] BY <1>1, <2>1, <2>2
  <2>4. [journal[r] EXCEPT !.old = old, !.new = raw.digest, !.state = "reconciling"]
          \in Row
    BY <1>2, <1>4, <1>5, RowConverged
  <2>5. journal' = [journal EXCEPT ![r] = [journal[r] EXCEPT !.old = old,
                      !.new = raw.digest, !.state = "reconciling"]]
    BY <1>7
  <2> QED BY <1>1, <2>3, <2>4, <2>5, JournalEntry DEF RunKept
<1> QED BY <1>6, <1>7 DEF ConvergeRead

LEMMA ApplyReadKeeps ==
  ASSUME RepoTypeOK, WorldTypeOK, RunTypeOK, JournalTypeOK, NEW r \in Ids,
         ApplyRead(r)
  PROVE  RunKept
<1>1. req \in [Ids -> Request] /\ journal \in Seq(Row) /\ r \in DOMAIN journal
  BY DEF RunTypeOK, JournalTypeOK, ApplyRead, At
<1>2. CASE RollBack(r) BY <1>1, <1>2, RollBackTyped
<1>3. CASE req' = [req EXCEPT ![r].content = Applied(r)] /\ UNCHANGED journal
  <2>1. journal[r] \in Row /\ req[r] \in Request
    BY <1>1, ElementOfSeq, LenProperties
  <2>2. Applied(r) \in Content BY <2>1 DEF WorldTypeOK, Service, Row, Applied
  <2>3. [req[r] EXCEPT !.content = Applied(r)] \in Request
    BY <2>1, <2>2 DEF Request
  <2>4. req' = [req EXCEPT ![r] = [req[r] EXCEPT !.content = Applied(r)]] BY <1>3
  <2>5. req' \in [Ids -> Request] BY <1>1, <2>3, <2>4
  <2> QED BY <1>1, <1>3, <2>5 DEF RunKept
<1> QED BY <1>2, <1>3 DEF ApplyRead

(* The steps that reach the host, and the end of the run. *)
LEMMA HostStepsKeep ==
  ASSUME RunTypeOK, JournalTypeOK, NEW r \in Ids,
         WriteUnit(r) \/ ReloadAndRestart(r) \/ Probe(r)
  PROVE  RunKept
<1>1. req \in [Ids -> Request] /\ journal \in Seq(Row) /\ r \in DOMAIN journal
  BY DEF RunTypeOK, JournalTypeOK, WriteUnit, ReloadAndRestart, Probe, At
<1>2. CASE ApplyFails(r) BY <1>1, <1>2, ApplyFailsTyped
<1>3. CASE Healthy(r) BY <1>1, <1>3, HealthyTyped
<1>4. CASE req' = req /\ (Progress(r, "reconciling") \/ Progress(r, "probing"))
  <2>1. {"reconciling", "probing"} \subseteq States BY DEF States
  <2> QED BY <1>1, <1>4, <2>1, ProgressTyped DEF RunKept
<1> QED BY <1>2, <1>3, <1>4 DEF WriteUnit, ReloadAndRestart, Probe

LEMMA FinishKeeps ==
  ASSUME RunTypeOK, JournalTypeOK, NEW r \in Ids, Finish(r)
  PROVE  RunKept
<1>1. req \in [Ids -> Request] /\ journal \in Seq(Row) /\ r \in DOMAIN journal
  BY DEF RunTypeOK, JournalTypeOK, Finish, At
<1>2. req' = req BY DEF Finish
<1>3. CASE journal' = journal BY <1>1, <1>2, <1>3 DEF RunKept
<1>4. CASE journal' = [journal EXCEPT ![r] = Sealed(journal[r], req[r].outcome)]
  <2>1. journal[r] \in Row BY <1>1, ElementOfSeq, LenProperties
  <2>2. req[r].outcome \in Outcomes BY DEF RunTypeOK, Finish, At
  <2>3. Sealed(journal[r], req[r].outcome) \in Row BY <2>1, <2>2, SealedTyped
  <2> QED BY <1>1, <1>2, <1>4, <2>3, JournalEntry DEF RunKept
<1> QED BY <1>3, <1>4 DEF Finish

LEMMA LeaveKeeps ==
  ASSUME RunTypeOK, JournalTypeOK, NEW r \in Ids, Leave(r)
  PROVE  RunKept
<1>1. req \in [Ids -> Request] /\ journal \in Seq(Row) /\ journal' = journal
  BY DEF RunTypeOK, JournalTypeOK, Leave
<1>2. NoRequest \in Request
  BY RepoAssumption, EngineAssumption DEF NoRequest, Request, Content, Revs, Outcomes
<1>3. req' = [req EXCEPT ![r] = NoRequest] BY DEF Leave
<1> QED BY <1>1, <1>2, <1>3 DEF RunKept

LEMMA RunKeepsRun ==
  ASSUME TypeOK, NEW r \in Ids, Run(r)
  PROVE  RunKept
<1>1. /\ RepoTypeOK /\ WorldTypeOK /\ RunTypeOK /\ JournalTypeOK
      /\ req \in [Ids -> Request] /\ journal \in Seq(Row)
  BY DEF TypeOK, RunTypeOK, JournalTypeOK
<1>2. pc[r] # "unused" => r \in DOMAIN journal BY <1>1 DEF RunTypeOK
<1>3. CASE \/ Launch(r) \/ PrologueSync(r) \/ TakeTurn(r) \/ AbandonTurn(r) \/ LockMergeQueue(r)
           \/ AbandonBackoff(r) \/ Abandon(r) \/ Release(r)
  <2>1. CASE UNCHANGED <<req, journal>> BY <1>1, <2>1 DEF RunKept
  <2>2. CASE UNCHANGED journal /\ (EndWith(r, "failed") \/ EndWith(r, "main still pins"))
    BY <1>1, <2>2, EndingTyped
  <2> QED
    BY <1>3, <2>1, <2>2 DEF Launch, PrologueSync, TakeTurn, AbandonTurn, LockMergeQueue,
       AbandonBackoff, Abandon, Release
<1>4. CASE Front(r) BY <1>1, <1>4, FrontTyped
<1>5. CASE Inspect(r)
  <2>1. CASE EndWith(r, "healthy") /\ UNCHANGED journal BY <1>1, <2>1, EndingTyped
  <2>2. CASE Progress(r, "reconciling") /\ UNCHANGED req
    <3>1. r \in DOMAIN journal BY <1>2, <1>5 DEF Inspect, At
    <3>2. "reconciling" \in States BY DEF States
    <3> QED BY <1>1, <2>2, <3>1, <3>2, ProgressTyped DEF RunKept
  <2> QED BY <1>5, <2>1, <2>2 DEF Inspect
<1>6. CASE Open(r) BY <1>1, <1>6, OpenKeeps
<1>7. CASE Record(r) \/ RecordMerge(r) BY <1>1, <1>7, RecordKeeps
<1>8. CASE WaitChecks(r) \/ MergePR(r)
  <2>1. CASE UNCHANGED <<req, journal>> BY <1>1, <2>1 DEF RunKept
  <2>2. CASE EndWith(r, "main reverted") /\ UNCHANGED journal
    BY <1>1, <2>2, EndingTyped
  <2>3. CASE SpanFails(r)
    <3>1. r \in DOMAIN journal BY <1>2, <1>8 DEF WaitChecks, MergePR, At
    <3> QED BY <1>1, <2>3, <3>1, SpanFailsTyped
  <2> QED BY <1>8, <2>1, <2>2, <2>3 DEF WaitChecks, MergePR
<1>9. CASE Update(r) BY <1>1, <1>9, UpdateKeeps
<1>10. CASE ConvergeSync(r) \/ ApplySync(r)
  <2>1. CASE UNCHANGED <<req, journal>> BY <1>1, <2>1 DEF RunKept
  <2>2. CASE EndWith(r, "failed") /\ UNCHANGED journal BY <1>1, <2>2, EndingTyped
  <2>3. CASE RollBack(r)
    <3>1. r \in DOMAIN journal
      BY <1>2, <1>10 DEF ConvergeSync, ApplySync, SyncThen, At
    <3> QED BY <1>1, <2>3, <3>1, RollBackTyped
  <2> QED BY <1>10, <2>1, <2>2, <2>3 DEF ConvergeSync, ApplySync, SyncThen
<1>11. CASE ConvergeRead(r) BY <1>1, <1>11, ConvergeReadKeeps
<1>12. CASE ApplyRead(r) BY <1>1, <1>12, ApplyReadKeeps
<1>13. CASE WriteUnit(r) \/ ReloadAndRestart(r) \/ Probe(r)
  BY <1>1, <1>13, HostStepsKeep
<1>14. CASE Finish(r) BY <1>1, <1>14, FinishKeeps
<1>15. CASE Leave(r) BY <1>1, <1>15, LeaveKeeps
<1> QED
  BY <1>3, <1>4, <1>5, <1>6, <1>7, <1>8, <1>9, <1>10, <1>11, <1>12, <1>13, <1>14,
     <1>15 DEF Run

-----------------------------------------------------------------------------
(* A step of a run and everything else. *)

RepoKept == RepoTypeOK' /\ DOMAIN prs \subseteq DOMAIN prs'

LEMMA RepoStill ==
  ASSUME RepoTypeOK, UNCHANGED repoVars
  PROVE  RepoKept
BY DEF RepoKept, RepoTypeOK, repoVars

LEMMA RepoOperations ==
  ASSUME RepoTypeOK, NEW n \in Nat
  PROVE  /\ \A s \in Services, c \in Content : OpenManifestPR(s, c, n) => RepoKept
         /\ n \in DOMAIN prs /\ (Merge(n) \/ UpdateBranch(n) \/ ClosePR(n)) => RepoKept
<1>1. ASSUME NEW s \in Services, NEW c \in Content, OpenManifestPR(s, c, n)
      PROVE  RepoKept
  <2>1. RepoTypeOK' BY <1>1, OpenTyped
  <2>2. \/ \E p : prs' = Append(prs, p)
        \/ \E p : prs' = [prs EXCEPT ![n] = p]
    BY <1>1 DEF OpenManifestPR, OpenOnNewBranch, OpenOnOldBranch, AdoptOpen
  <2>3. DOMAIN prs \subseteq DOMAIN prs'
    BY <2>1, <2>2 DEF RepoTypeOK
  <2> QED BY <2>1, <2>3 DEF RepoKept
<1>2. ASSUME n \in DOMAIN prs, Merge(n) \/ UpdateBranch(n) \/ ClosePR(n)
      PROVE  RepoKept
  <2>1. RepoTypeOK' BY <1>2, MergeTyped, UpdateTyped, CloseTyped
  <2>2. DOMAIN prs' = DOMAIN prs
    BY <1>2 DEF Merge, MainBecomes, UpdateBranch, ClosePR, RepoTypeOK
  <2> QED BY <2>1, <2>2 DEF RepoKept
<1> QED BY <1>1, <1>2

LEMMA RunKeepsRepo ==
  ASSUME TypeOK, NEW r \in Ids, Run(r)
  PROVE  RepoKept
<1>1. RepoTypeOK /\ RunTypeOK /\ JournalTypeOK /\ req \in [Ids -> Request]
  BY DEF TypeOK, RunTypeOK
<1>2. CASE UNCHANGED repoVars BY <1>1, <1>2, RepoStill
<1>3. CASE Open(r)
  <2>1. r \in DOMAIN journal BY <1>1, <1>3 DEF Open, At, RunTypeOK
  <2>2. journal[r] \in Row /\ req[r] \in Request
    BY <1>1, <2>1, ElementOfSeq, LenProperties DEF JournalTypeOK
  <2>3. Service(r) \in Services /\ Proposed(r) \in Content
    BY <2>2 DEF Service, Proposed, Row, Request
  <2>4. {Len(prs) + 1} \cup DOMAIN prs \subseteq Nat BY <1>1 DEF RepoTypeOK
  <2>5. CASE \E n \in {Len(prs) + 1} \cup DOMAIN prs :
                OpenManifestPR(Service(r), Proposed(r), n)
    BY <1>1, <2>3, <2>4, <2>5, RepoOperations
  <2> QED BY <1>2, <1>3, <2>5 DEF Open
<1>4. CASE MergePR(r) \/ Update(r) \/ Abandon(r)
  <2>1. pc[r] \in InSpan BY <1>4 DEF MergePR, Update, Abandon, At, InSpan
  <2>2. req[r].pr \in DOMAIN prs BY <1>1, <2>1 DEF RunTypeOK
  <2>3. req[r].pr \in Nat BY <1>1, <2>2 DEF RepoTypeOK
  <2>4. CASE Merge(req[r].pr) \/ UpdateBranch(req[r].pr) \/ ClosePR(req[r].pr)
    BY <1>1, <2>2, <2>3, <2>4, RepoOperations
  <2> QED BY <1>2, <1>4, <2>4 DEF MergePR, Update, Abandon
<1>5. \/ UNCHANGED repoVars \/ Open(r) \/ MergePR(r) \/ Update(r) \/ Abandon(r)
  BY DEF Run, Launch, PrologueSync, TakeTurn, AbandonTurn, LockMergeQueue, AbandonBackoff, Front,
     Inspect, Record, WaitChecks, RecordMerge, ConvergeSync, ConvergeRead, ApplySync,
     SyncThen, ApplyRead, WriteUnit, ReloadAndRestart, Probe, Finish, Release, Leave,
     worldVars
<1> QED BY <1>2, <1>3, <1>4, <1>5

LEMMA RunKeepsWorld ==
  ASSUME TypeOK, NEW r \in Ids, Run(r)
  PROVE  WorldTypeOK'
<1>1. /\ RepoTypeOK /\ WorldTypeOK /\ RunTypeOK /\ JournalTypeOK
      /\ req \in [Ids -> Request]
  BY DEF TypeOK, RunTypeOK
<1>2. CASE UNCHANGED <<mirror, synced, unit, running, probed>>
  BY <1>1, <1>2 DEF WorldTypeOK
<1>3. CASE Sync /\ UNCHANGED <<unit, running, probed>>
  BY <1>1, <1>3 DEF WorldTypeOK, Sync, RepoTypeOK
<1>4. CASE WriteUnit(r) \/ ReloadAndRestart(r) \/ Probe(r)
  <2>1. r \in DOMAIN journal
    BY <1>1, <1>4 DEF WriteUnit, ReloadAndRestart, Probe, At, RunTypeOK
  <2>2. journal[r] \in Row /\ req[r] \in Request
    BY <1>1, <2>1, ElementOfSeq, LenProperties DEF JournalTypeOK
  <2>3. Service(r) \in Services /\ req[r].content \in Content
    BY <2>2 DEF Service, Row, Request
  <2>4. CASE WriteUnit(r)
    <3>1. \/ unit' = unit \/ unit' = [unit EXCEPT ![Service(r)] = req[r].content]
      BY <2>4 DEF WriteUnit
    <3>2. unit' \in [Services -> Content] BY <1>1, <2>3, <3>1 DEF WorldTypeOK
    <3> QED BY <1>1, <2>4, <3>2 DEF WriteUnit, WorldTypeOK, mirrorVars, asideVars
  <2>5. CASE ReloadAndRestart(r)
    <3>1. \E c \in {running[Service(r)], unit[Service(r)], NoContent} :
             running' = [running EXCEPT ![Service(r)] = c]
      BY <2>5 DEF ReloadAndRestart, Started
    <3>2. running' \in [Services -> Content \cup {NoContent}]
      BY <1>1, <2>3, <3>1 DEF WorldTypeOK
    <3> QED BY <1>1, <2>5, <3>2 DEF ReloadAndRestart, WorldTypeOK, mirrorVars, asideVars
  <2>6. CASE Probe(r)
    <3>1. \/ probed' = probed
          \/ /\ running[Service(r)] # NoContent
             /\ probed' = probed \cup {<<Service(r), running[Service(r)].digest>>}
      BY <2>6 DEF Probe
    <3>2. running[Service(r)] \in Content \cup {NoContent}
      BY <1>1, <2>3 DEF WorldTypeOK
    <3>3. probed' \subseteq Services \X Digests
      BY <1>1, <2>3, <3>1, <3>2 DEF WorldTypeOK, Content
    <3> QED BY <1>1, <2>6, <3>3 DEF Probe, WorldTypeOK, worldVars, mirrorVars, hostVars
  <2> QED BY <1>4, <2>4, <2>5, <2>6
<1>5. \/ UNCHANGED <<mirror, synced, unit, running, probed>>
      \/ Sync /\ UNCHANGED <<unit, running, probed>>
      \/ WriteUnit(r) \/ ReloadAndRestart(r) \/ Probe(r)
  BY DEF Run, Launch, PrologueSync, TakeTurn, AbandonTurn, LockMergeQueue, AbandonBackoff, Front,
     Inspect, Open, Record, WaitChecks, MergePR, Update, Abandon, RecordMerge,
     ConvergeSync, ConvergeRead, ApplySync, SyncThen, ApplyRead, Finish, Release, Leave,
     worldVars, mirrorVars, hostVars, asideVars
<1> QED BY <1>2, <1>3, <1>4, <1>5

LEMMA RunKeepsQueues ==
  ASSUME TypeOK, NEW r \in Ids, Run(r)
  PROVE  QueueTypeOK'
<1>1. QueueTypeOK BY DEF TypeOK
<1>2. \/ UNCHANGED slot
      \/ slot' = [slot EXCEPT ![Service(r)] = r]
      \/ slot' = [slot EXCEPT ![Service(r)] = NoRun]
  BY DEF Run, Launch, PrologueSync, TakeTurn, AbandonTurn, LockMergeQueue, AbandonBackoff, Front,
     Inspect, Open, Record, WaitChecks, MergePR, Update, Abandon, RecordMerge,
     ConvergeSync, ConvergeRead, ApplySync, SyncThen, ApplyRead, WriteUnit,
     ReloadAndRestart, Probe, Finish, Release, Leave, queueVars
<1>3. mergeMu' \in {mergeMu, r, NoRun}
  BY DEF Run, Launch, PrologueSync, TakeTurn, AbandonTurn, LockMergeQueue, AbandonBackoff, Front,
     Inspect, Open, OpenFails, SpanFails, Record, WaitChecks, MergePR, Update, Abandon,
     RecordMerge, ConvergeSync, ConvergeRead, ApplySync, SyncThen, ApplyRead, WriteUnit,
     ReloadAndRestart, Probe, Finish, Release, Leave, queueVars, Unlock
<1>4. \/ UNCHANGED pending
      \/ pending' = [pending EXCEPT ![Service(r)] = NoPending]
  BY DEF Run, Launch, PrologueSync, TakeTurn, AbandonTurn, LockMergeQueue, AbandonBackoff, Front,
     Inspect, Open, Record, WaitChecks, MergePR, Update, Abandon, RecordMerge,
     ConvergeSync, ConvergeRead, ApplySync, SyncThen, ApplyRead, WriteUnit,
     ReloadAndRestart, Probe, Finish, Release, Leave, queueVars
<1> QED BY <1>1, <1>2, <1>3, <1>4 DEF QueueTypeOK

LEMMA RunKeepsDaemon ==
  ASSUME TypeOK, NEW r \in Ids, Run(r)
  PROVE  DaemonTypeOK'
<1>1. DaemonTypeOK BY DEF TypeOK
<1>2. UNCHANGED daemonVars
  BY DEF Run, Launch, PrologueSync, TakeTurn, AbandonTurn, LockMergeQueue, AbandonBackoff, Front,
     Inspect, Open, Record, WaitChecks, MergePR, Update, Abandon, RecordMerge,
     ConvergeSync, ConvergeRead, ApplySync, SyncThen, ApplyRead, WriteUnit,
     ReloadAndRestart, Probe, Finish, Release, Leave, asideVars
<1>3. \/ UNCHANGED faults
      \/ faults < MaxFaults /\ faults' = faults + 1
  BY DEF Run, Launch, PrologueSync, TakeTurn, AbandonTurn, LockMergeQueue, AbandonBackoff, Front,
     Inspect, Open, Record, WaitChecks, MergePR, Update, Abandon, RecordMerge,
     ConvergeSync, ConvergeRead, ApplySync, SyncThen, ApplyRead, WriteUnit,
     ReloadAndRestart, Probe, Finish, Release, Leave, Succeeds, CallFails, Fault, JournalFails
<1> QED BY <1>1, <1>2, <1>3, EngineAssumption DEF DaemonTypeOK, daemonVars

(* Where a step takes its run, and what the run then knows. *)
RunMoves(r) ==
    /\ pc[r] # "unused"
    /\ \E label \in Labels :
         /\ pc' = [pc EXCEPT ![r] = label]
         /\ label \in InSpan =>
              \/ pc[r] \in InSpan /\ req'[r].pr = req[r].pr
              \/ req'[r].pr \in DOMAIN prs'
         /\ label = "finish" => req'[r].outcome \in Outcomes
    /\ \A q \in Ids \ {r} : req'[q] = req[q]

LEMMA RewritesOneRequest ==
  ASSUME req \in [Ids -> Request], NEW r \in Ids, NEW x, NEW y, NEW z,
         \/ req' = [req EXCEPT ![r].old = x, ![r].original = y, ![r].content = z]
         \/ req' = [req EXCEPT ![r].old = x, ![r].new = y, ![r].content = z]
  PROVE  \A q \in Ids \ {r} : req'[q] = req[q]
<1> SUFFICES ASSUME NEW q \in Ids, q # r PROVE req'[q] = req[q]
  OBVIOUS
<1>1. CASE req' = [req EXCEPT ![r].old = x, ![r].original = y, ![r].content = z]
  BY <1>1
<1>2. CASE req' = [req EXCEPT ![r].old = x, ![r].new = y, ![r].content = z]
  BY <1>2
<1> QED BY <1>1, <1>2

LEMMA EndWithMoves ==
  ASSUME req \in [Ids -> Request], NEW r \in Ids, NEW o \in Outcomes,
         EndWith(r, o), pc[r] # "unused"
  PROVE  RunMoves(r)
<1>1. req'[r].outcome = o
  <2>1. req[r] \in Request OBVIOUS
  <2>2. req'[r] = [req[r] EXCEPT !.outcome = o] BY DEF EndWith
  <2> QED BY <2>1, <2>2 DEF Request
<1>2. \A q \in Ids \ {r} : req'[q] = req[q] BY DEF EndWith
<1>3. "finish" \in Labels /\ "finish" \notin InSpan BY DEF Labels, InSpan
<1> QED BY <1>1, <1>2, <1>3 DEF RunMoves, EndWith, Goto

(* Outside the span a request may change as it likes. *)
LEMMA GotoMoves ==
  ASSUME NEW r \in Ids, pc[r] # "unused",
         NEW label \in Labels \ (InSpan \cup {"finish"}), Goto(r, label),
         \A q \in Ids \ {r} : req'[q] = req[q]
  PROVE  RunMoves(r)
BY DEF RunMoves, Goto

LEMMA GotoInSpanMoves ==
  ASSUME NEW r \in Ids, pc[r] \in InSpan, NEW label \in InSpan, Goto(r, label),
         \A q \in Ids \ {r} : req'[q] = req[q], req'[r].pr = req[r].pr
  PROVE  RunMoves(r)
BY DEF RunMoves, Goto, Labels, InSpan

LEMMA RollBackMoves ==
  ASSUME req \in [Ids -> Request], NEW r \in Ids, pc[r] # "unused",
         RollBack(r) \/ RevertAgain(r)
  PROVE  RunMoves(r)
<1>1. \A q \in Ids \ {r} : req'[q] = req[q]
  <2>1. CASE RollBack(r) BY <2>1 DEF RollBack
  <2>2. CASE RevertAgain(r) BY <2>2 DEF RevertAgain
  <2> QED BY <2>1, <2>2
<1>2. \E label \in {"write", "merge queue"} : Goto(r, label)
  BY DEF RollBack, RevertAgain
<1>3. {"write", "merge queue"} \subseteq Labels \ (InSpan \cup {"finish"})
  BY DEF Labels, InSpan
<1> QED BY <1>1, <1>2, <1>3, GotoMoves

LEMMA SpanFailsMoves ==
  ASSUME req \in [Ids -> Request], NEW r \in Ids,
         \/ OpenFails(r) /\ pc[r] # "unused"
         \/ SpanFails(r) /\ pc[r] \in InSpan
  PROVE  RunMoves(r)
<1>1. pc[r] # "unused" BY DEF InSpan
<1>2. CASE RevertAgain(r) BY <1>1, <1>2, RollBackMoves
<1>3. CASE RevertOver(r)
  <2>1. "main still pins" \in Outcomes BY DEF Outcomes
  <2> QED BY <1>1, <1>3, <2>1, EndWithMoves DEF RevertOver
<1>4. CASE EndWith(r, "failed")
  <2>1. "failed" \in Outcomes BY DEF Outcomes
  <2> QED BY <1>1, <1>4, <2>1, EndWithMoves
<1>5. CASE pc[r] \in InSpan /\ Goto(r, "abandon") /\ UNCHANGED req
  BY <1>5, GotoInSpanMoves, "abandon" \in InSpan DEF InSpan
<1> QED BY <1>2, <1>3, <1>4, <1>5 DEF SpanFails, OpenFails

LEMMA ApplyFailsMoves ==
  ASSUME req \in [Ids -> Request], NEW r \in Ids, pc[r] # "unused",
         ApplyFails(r) \/ Healthy(r)
  PROVE  RunMoves(r)
<1>1. CASE RollBack(r) BY <1>1, RollBackMoves
<1>2. CASE \E o \in {"failed", "restore failed", "healthy"} : EndWith(r, o)
  <2>1. {"failed", "restore failed", "healthy"} \subseteq Outcomes BY DEF Outcomes
  <2> QED BY <1>2, <2>1, EndWithMoves
<1>3. CASE /\ Goto(r, "merge queue")
           /\ req' = [req EXCEPT ![r].mode = "revert", ![r].pr = 0]
  <2>1. "merge queue" \in Labels \ (InSpan \cup {"finish"}) BY DEF Labels, InSpan
  <2>2. \A q \in Ids \ {r} : req'[q] = req[q] BY <1>3
  <2> QED BY <1>3, <2>1, <2>2, GotoMoves
<1> QED BY <1>1, <1>2, <1>3 DEF ApplyFails, Healthy

LEMMA OpenMoves ==
  ASSUME RepoTypeOK, req \in [Ids -> Request], NEW r \in Ids, Open(r)
  PROVE  RunMoves(r)
<1>1. pc[r] # "unused" BY DEF Open, At
<1>2. CASE OpenFails(r) BY <1>1, <1>2, SpanFailsMoves
<1>3. CASE \E n \in {Len(prs) + 1} \cup DOMAIN prs :
             /\ OpenManifestPR(Service(r), Proposed(r), n)
             /\ req' = [req EXCEPT ![r].pr = n, ![r].attempt = 1]
             /\ Goto(r, IF Reverting(r) THEN "checks" ELSE "record")
  <2>1. PICK n \in {Len(prs) + 1} \cup DOMAIN prs :
             /\ OpenManifestPR(Service(r), Proposed(r), n)
             /\ req' = [req EXCEPT ![r].pr = n, ![r].attempt = 1]
             /\ Goto(r, IF Reverting(r) THEN "checks" ELSE "record")
    BY <1>3
  <2>2. \/ n = Len(prs) + 1 /\ \E p : prs' = Append(prs, p)
        \/ n \in DOMAIN prs /\ \E p : prs' = [prs EXCEPT ![n] = p]
    BY <2>1 DEF OpenManifestPR, OpenOnNewBranch, OpenOnOldBranch, AdoptOpen, Newest,
       branchFor
  <2>3. n \in DOMAIN prs' BY <2>2 DEF RepoTypeOK
  <2>4. req[r] \in Request BY <1>1
  <2>5. req'[r] = [req[r] EXCEPT !.pr = n, !.attempt = 1] BY <2>1
  <2>6. req'[r].pr = n BY <2>4, <2>5 DEF Request
  <2>7. \A q \in Ids \ {r} : req'[q] = req[q] BY <2>1
  <2>8. \E label \in {"checks", "record"} : Goto(r, label) BY <2>1
  <2>9. {"checks", "record"} \subseteq Labels \ {"finish"} BY DEF Labels
  <2> QED BY <1>1, <2>3, <2>6, <2>7, <2>8, <2>9 DEF RunMoves, Goto
<1> QED BY <1>2, <1>3 DEF Open

LEMMA UpdateMoves ==
  ASSUME req \in [Ids -> Request], NEW r \in Ids, Update(r)
  PROVE  RunMoves(r)
<1>1. pc[r] \in InSpan /\ "checks" \in InSpan BY DEF Update, At, InSpan
<1>2. CASE SpanFails(r) BY <1>1, <1>2, SpanFailsMoves
<1>3. CASE /\ req' = [req EXCEPT ![r].attempt = req[r].attempt + 1]
           /\ Goto(r, "checks")
  <2>1. req[r] \in Request OBVIOUS
  <2>2. req'[r] = [req[r] EXCEPT !.attempt = req[r].attempt + 1] BY <1>3
  <2>3. req'[r].pr = req[r].pr BY <2>1, <2>2 DEF Request
  <2>4. \A q \in Ids \ {r} : req'[q] = req[q] BY <1>3
  <2> QED BY <1>1, <1>3, <2>3, <2>4, GotoInSpanMoves
<1> QED BY <1>2, <1>3 DEF Update

LEMMA RunIsMove ==
  ASSUME TypeOK, NEW r \in Ids, Run(r)
  PROVE  RunMoves(r)
<1>1. /\ RepoTypeOK /\ RunTypeOK /\ req \in [Ids -> Request]
  BY DEF TypeOK, RunTypeOK
<1>2. {"healthy", "failed", "main reverted", "main still pins"} \subseteq Outcomes
  BY DEF Outcomes
<1>3. ASSUME NEW label \in Labels \ (InSpan \cup {"finish"}), pc[r] # "unused",
             Goto(r, label), \A q \in Ids \ {r} : req'[q] = req[q]
      PROVE  RunMoves(r)
  BY <1>3, GotoMoves
<1>4. ASSUME NEW o \in {"healthy", "failed", "main reverted", "main still pins"},
             pc[r] # "unused", EndWith(r, o)
      PROVE  RunMoves(r)
  BY <1>1, <1>2, <1>4, EndWithMoves
<1>5. CASE Launch(r) \/ PrologueSync(r) \/ TakeTurn(r) \/ AbandonTurn(r)
  <2>1. pc[r] # "unused" BY <1>5 DEF Launch, PrologueSync, TakeTurn, AbandonTurn, At
  <2>2. CASE EndWith(r, "failed") BY <1>4, <2>1, <2>2
  <2>3. CASE /\ \E label \in {"sync", "turn", "converge sync", "merge queue"} : Goto(r, label)
             /\ UNCHANGED req
    <3>1. {"sync", "turn", "converge sync", "merge queue"}
             \subseteq Labels \ (InSpan \cup {"finish"})
      BY DEF Labels, InSpan
    <3> QED BY <1>3, <2>1, <2>3, <3>1
  <2> QED BY <1>5, <2>2, <2>3 DEF Launch, PrologueSync, TakeTurn, AbandonTurn
<1>6. CASE LockMergeQueue(r) \/ AbandonBackoff(r) \/ Inspect(r)
  <2>1. pc[r] # "unused" BY <1>6 DEF LockMergeQueue, AbandonBackoff, Inspect, At
  <2>2. CASE EndWith(r, "main still pins") \/ EndWith(r, "healthy") BY <1>4, <2>1, <2>2
  <2>3. CASE /\ \E label \in {"open", "front", "apply sync"} : Goto(r, label)
             /\ UNCHANGED req
    <3>1. {"open", "front", "apply sync"} \subseteq Labels \ (InSpan \cup {"finish"})
      BY DEF Labels, InSpan
    <3> QED BY <1>3, <2>1, <2>3, <3>1
  <2> QED BY <1>6, <2>2, <2>3 DEF LockMergeQueue, AbandonBackoff, Inspect
<1>7. CASE Front(r)
  <2>1. pc[r] # "unused" BY <1>7 DEF Front, At
  <2>2. CASE EndWith(r, "failed") BY <1>4, <2>1, <2>2
  <2>3. CASE /\ \E label \in {"inspect", "open"} : Goto(r, label)
             /\ \A q \in Ids \ {r} : req'[q] = req[q]
    <3>1. {"inspect", "open"} \subseteq Labels \ (InSpan \cup {"finish"})
      BY DEF Labels, InSpan
    <3> QED BY <1>3, <2>1, <2>3, <3>1
  <2>4. \/ EndWith(r, "failed")
        \/ Goto(r, "inspect") /\ UNCHANGED req
        \/ /\ Goto(r, "open")
           /\ req' = [req EXCEPT ![r].old = mirror[Service(r)].digest,
                                 ![r].original = mirror[Service(r)],
                                 ![r].content = setDigest(mirror[Service(r)], req[r].new)]
    BY <1>7 DEF Front
  <2>5. ASSUME NEW old, NEW original, NEW content,
               req' = [req EXCEPT ![r].old = old, ![r].original = original,
                                  ![r].content = content]
        PROVE  \A q \in Ids \ {r} : req'[q] = req[q]
    BY <1>1, <2>5, RewritesOneRequest
  <2> QED BY <2>2, <2>3, <2>4, <2>5
<1>8. CASE Open(r) BY <1>1, <1>8, OpenMoves
<1>9. CASE Record(r) \/ WaitChecks(r) \/ MergePR(r) \/ Abandon(r)
  <2>1. pc[r] \in InSpan /\ pc[r] # "unused"
    BY <1>9 DEF Record, WaitChecks, MergePR, Abandon, At, InSpan
  <2>2. CASE EndWith(r, "failed") \/ EndWith(r, "main reverted") BY <1>4, <2>1, <2>2
  <2>3. CASE SpanFails(r) BY <1>1, <2>1, <2>3, SpanFailsMoves
  <2>4. CASE /\ \E label \in {"checks", "merge", "update"} : Goto(r, label)
             /\ UNCHANGED req
    <3>1. {"checks", "merge", "update"} \subseteq InSpan BY DEF InSpan
    <3> QED BY <2>1, <2>4, <3>1, GotoInSpanMoves
  <2>5. CASE Goto(r, "merged") /\ UNCHANGED req
    <3>1. "merged" \in Labels \ (InSpan \cup {"finish"}) BY DEF Labels, InSpan
    <3> QED BY <1>3, <2>1, <2>5, <3>1
  <2> QED
    BY <1>9, <2>2, <2>3, <2>4, <2>5 DEF Record, WaitChecks, MergePR, Abandon
<1>10. CASE Update(r) BY <1>1, <1>10, UpdateMoves
<1>11. CASE RecordMerge(r) \/ ConvergeSync(r) \/ ApplySync(r) \/ ConvergeRead(r)
            \/ ApplyRead(r)
  <2>1. pc[r] # "unused"
    BY <1>11 DEF RecordMerge, ConvergeSync, ApplySync, SyncThen, ConvergeRead, ApplyRead, At
  <2>2. CASE EndWith(r, "failed") BY <1>4, <2>1, <2>2
  <2>3. CASE RollBack(r) BY <1>1, <2>1, <2>3, RollBackMoves
  <2>4. CASE /\ \E label \in {"apply sync", "apply read", "converge read", "write"} :
                   Goto(r, label)
             /\ \A q \in Ids \ {r} : req'[q] = req[q]
    <3>1. {"apply sync", "apply read", "converge read", "write"}
             \subseteq Labels \ (InSpan \cup {"finish"})
      BY DEF Labels, InSpan
    <3> QED BY <1>3, <2>1, <2>4, <3>1
  <2>5. CASE RecordMerge(r) BY <2>2, <2>4, <2>5 DEF RecordMerge
  <2>6. CASE ConvergeSync(r) \/ ApplySync(r)
    BY <2>2, <2>3, <2>4, <2>6 DEF ConvergeSync, ApplySync, SyncThen
  <2>7. CASE ConvergeRead(r)
    <3>1. \/ EndWith(r, "failed")
          \/ /\ Goto(r, "write")
             /\ req' = [req EXCEPT ![r].old = mirror[Service(r)].digest,
                                   ![r].new = mirror[Service(r)].digest,
                                   ![r].content = mirror[Service(r)]]
      BY <2>7 DEF ConvergeRead
    <3>2. ASSUME NEW old, NEW new, NEW content,
                 req' = [req EXCEPT ![r].old = old, ![r].new = new,
                                    ![r].content = content]
          PROVE  \A q \in Ids \ {r} : req'[q] = req[q]
      BY <1>1, <3>2, RewritesOneRequest
    <3> QED BY <2>2, <2>4, <3>1, <3>2
  <2>8. CASE ApplyRead(r)
    <3>1. \/ RollBack(r)
          \/ Goto(r, "write") /\ req' = [req EXCEPT ![r].content = Applied(r)]
      BY <2>8 DEF ApplyRead
    <3>2. ASSUME NEW content, req' = [req EXCEPT ![r].content = content]
          PROVE  \A q \in Ids \ {r} : req'[q] = req[q]
      BY <3>2
    <3> QED BY <2>3, <2>4, <3>1, <3>2
  <2> QED BY <1>11, <2>5, <2>6, <2>7, <2>8
<1>12. CASE WriteUnit(r) \/ ReloadAndRestart(r) \/ Probe(r)
  <2>1. pc[r] # "unused" BY <1>12 DEF WriteUnit, ReloadAndRestart, Probe, At
  <2>2. CASE ApplyFails(r) \/ Healthy(r) BY <1>1, <2>1, <2>2, ApplyFailsMoves
  <2>3. CASE /\ \E label \in {"restart", "probe"} : Goto(r, label)
             /\ UNCHANGED req
    <3>1. {"restart", "probe"} \subseteq Labels \ (InSpan \cup {"finish"})
      BY DEF Labels, InSpan
    <3> QED BY <1>3, <2>1, <2>3, <3>1
  <2> QED BY <1>12, <2>2, <2>3 DEF WriteUnit, ReloadAndRestart, Probe
<1>13. CASE Finish(r) \/ Release(r) \/ Leave(r)
  <2>1. pc[r] # "unused" BY <1>13 DEF Finish, Release, Leave, At
  <2>2. /\ \E label \in {"release", "leave", "gone"} : Goto(r, label)
        /\ \A q \in Ids \ {r} : req'[q] = req[q]
    <3>1. CASE Finish(r) \/ Release(r) BY <3>1 DEF Finish, Release
    <3>2. CASE Leave(r) BY <3>2 DEF Leave
    <3> QED BY <1>13, <3>1, <3>2
  <2>3. {"release", "leave", "gone"} \subseteq Labels \ (InSpan \cup {"finish"})
    BY DEF Labels, InSpan
  <2> QED BY <1>3, <2>1, <2>2, <2>3
<1> QED
  BY <1>5, <1>6, <1>7, <1>8, <1>9, <1>10, <1>11, <1>12, <1>13 DEF Run

LEMMA RunKeepsTypes ==
  ASSUME TypeOK, NEW r \in Ids, Run(r)
  PROVE  TypeOK'
<1>1. RunTypeOK /\ JournalTypeOK /\ RepoTypeOK BY DEF TypeOK
<1>2. RunKept BY RunKeepsRun
<1>3. RunMoves(r) BY RunIsMove
<1>4. RepoKept BY RunKeepsRepo
<1>5. JournalTypeOK' BY <1>1, <1>2 DEF RunKept, JournalTypeOK
<1>6. DOMAIN journal' = DOMAIN journal BY <1>1, <1>2 DEF RunKept, JournalTypeOK
<1>7. RunTypeOK'
  <2>1. PICK label \in Labels :
           /\ pc' = [pc EXCEPT ![r] = label]
           /\ label \in InSpan =>
                \/ pc[r] \in InSpan /\ req'[r].pr = req[r].pr
                \/ req'[r].pr \in DOMAIN prs'
           /\ label = "finish" => req'[r].outcome \in Outcomes
    BY <1>3 DEF RunMoves
  <2>2. pc' \in [Ids -> Labels] /\ req' \in [Ids -> Request]
    BY <1>1, <1>2, <2>1 DEF RunTypeOK, RunKept
  <2>3. \A q \in Ids \ {r} : pc'[q] = pc[q] /\ req'[q] = req[q]
    BY <1>1, <1>3, <2>1 DEF RunMoves, RunTypeOK
  <2>4. pc'[r] = label BY <1>1, <2>1 DEF RunTypeOK
  <2>5. \A q \in Ids : pc'[q] # "unused" => q \in DOMAIN journal'
    BY <1>1, <1>3, <1>6, <2>3 DEF RunTypeOK, RunMoves
  <2>6. DOMAIN prs \subseteq DOMAIN prs' BY <1>4 DEF RepoKept
  <2>7. \A q \in Ids : pc'[q] \in InSpan => req'[q].pr \in DOMAIN prs'
    BY <1>1, <2>1, <2>3, <2>4, <2>6 DEF RunTypeOK
  <2>8. \A q \in Ids : pc'[q] = "finish" => req'[q].outcome \in Outcomes
    BY <1>1, <2>1, <2>3, <2>4 DEF RunTypeOK
  <2> QED BY <2>2, <2>5, <2>7, <2>8 DEF RunTypeOK
<1>8. RepoTypeOK' BY <1>4 DEF RepoKept
<1>9. WorldTypeOK' BY RunKeepsWorld
<1>10. QueueTypeOK' BY RunKeepsQueues
<1>11. DaemonTypeOK' BY RunKeepsDaemon
<1> QED BY <1>5, <1>7, <1>8, <1>9, <1>10, <1>11 DEF TypeOK

-----------------------------------------------------------------------------
(* Handlers, the daemon and the others. *)

LEMMA ResolvedIsDigest ==
  ASSUME RepoTypeOK, JournalTypeOK, NEW a \in Actions, NEW s \in Services,
         NEW current \in Digests
  PROVE  Resolve(a, s, current) \subseteq Digests
<1>1. \A r \in DOMAIN journal : journal[r].new \in Digests
  <2> SUFFICES ASSUME NEW r \in DOMAIN journal PROVE journal[r].new \in Digests
    OBVIOUS
  <2>1. journal[r] \in Row BY ElementOfSeq, LenProperties DEF JournalTypeOK
  <2> QED BY <2>1 DEF Row
<1>2. PreviousHealthyDigest(s, current) \subseteq Digests
  BY <1>1 DEF PreviousHealthyDigest, Newest
<1> QED BY <1>2, EngineAssumption DEF Resolve

LEMMA ReadClickTyped ==
  ASSUME TypeOK, NEW c \in Clients, ReadClick(c)
  PROVE  DaemonTypeOK'
<1>1. RepoTypeOK /\ WorldTypeOK /\ JournalTypeOK /\ DaemonTypeOK BY DEF TypeOK
<1>2. PICK s \in Services, a \in Actions :
        \E d \in Resolve(a, s, mirror[s].digest) :
           click' = [click EXCEPT ![c] =
             [service |-> s, action |-> a, digest |-> d, raw |-> mirror[s]]]
  BY DEF ReadClick
<1>3. mirror[s] \in Content BY <1>1 DEF WorldTypeOK
<1>4. mirror[s].digest \in Digests BY <1>3 DEF Content
<1>5. \A d \in Resolve(a, s, mirror[s].digest) :
        [service |-> s, action |-> a, digest |-> d, raw |-> mirror[s]] \in Handler
  BY <1>1, <1>3, <1>4, ResolvedIsDigest DEF Handler
<1>6. click' \in [Clients -> Handler \cup {NoClick}] BY <1>1, <1>2, <1>5 DEF DaemonTypeOK
<1> QED BY <1>1, <1>6 DEF ReadClick, DaemonTypeOK

(* A new run takes the next row and is typed wherever it is mentioned. *)
LEMMA BeginTyped ==
  ASSUME TypeOK, NEW c \in Clients, Begin(c)
  PROVE  JournalTypeOK' /\ QueueTypeOK' /\ RunTypeOK' /\ DaemonTypeOK'
<1> DEFINE k == click[c]
           s == k.service
           id == Len(journal) + 1
           row == [service |-> s, action |-> k.action, old |-> k.raw.digest,
                   new |-> k.digest, pr |-> 0, merged |-> FALSE,
                   state |-> "detected", detail |-> "none", finished |-> FALSE]
           entry == [action |-> k.action, digest |-> k.digest, id |-> id]
           request == [NoRequest EXCEPT !.old = k.raw.digest, !.new = k.digest,
                                        !.original = k.raw, !.content = k.raw]
<1>1. RunTypeOK /\ JournalTypeOK /\ QueueTypeOK /\ DaemonTypeOK BY DEF TypeOK
<1>2. k \in Handler BY <1>1 DEF Begin, DaemonTypeOK
<1>3. /\ s \in Services /\ k.action \in Actions /\ k.digest \in Digests
      /\ k.raw \in Content
  BY <1>2 DEF Handler
<1>4. k.raw.digest \in Digests BY <1>3 DEF Content
<1>5. id \in Ids BY DEF Begin
<1>6. row \in Row BY <1>3, <1>4 DEF Row, States
<1>7. entry \in PendingRun BY <1>3, <1>5 DEF PendingRun
<1>8. NoRequest \in Request
  BY RepoAssumption, EngineAssumption DEF NoRequest, Request, Content, Revs, Outcomes
<1>9. request \in Request BY <1>3, <1>4, <1>8, RequestBegun
<1>10. journal' = Append(journal, row) BY DEF Begin
<1>11. JournalTypeOK'
  <2>1. Len(journal') = Len(journal) + 1 /\ journal' \in Seq(Row)
    BY <1>1, <1>6, <1>10, AppendProperties DEF JournalTypeOK
  <2> QED BY <1>5, <2>1 DEF JournalTypeOK, Ids
<1>12. QueueTypeOK'
  <2>1. pending' = pending \/ pending' = [pending EXCEPT ![s] = entry]
    BY DEF Begin
  <2>2. UNCHANGED <<slot, mergeMu>> BY DEF Begin
  <2> QED BY <1>1, <1>7, <2>1, <2>2 DEF QueueTypeOK
<1>13. RunTypeOK'
  <2>1. pc' = [pc EXCEPT ![id] = "begun"] /\ UNCHANGED prs
    BY DEF Begin, Goto, worldVars, repoVars
  <2>2. req' = [req EXCEPT ![id] = request] BY DEF Begin
  <2>3. pc' \in [Ids -> Labels] /\ req' \in [Ids -> Request]
    BY <1>1, <1>5, <1>9, <2>1, <2>2 DEF RunTypeOK, Labels
  <2>4. \A q \in Ids : q # id => pc'[q] = pc[q] /\ req'[q] = req[q]
    BY <1>1, <2>1, <2>2 DEF RunTypeOK
  <2>5. pc'[id] = "begun" BY <1>1, <1>5, <2>1 DEF RunTypeOK
  <2>6. /\ DOMAIN journal' = 1 .. id /\ DOMAIN journal = 1 .. Len(journal)
        /\ Len(journal) \in Nat
    BY <1>1, <1>6, <1>10, AppendProperties, LenProperties DEF JournalTypeOK
  <2>7. \A q \in Ids : pc'[q] # "unused" => q \in DOMAIN journal'
    <3> SUFFICES ASSUME NEW q \in Ids, pc'[q] # "unused" PROVE q \in 1 .. id
      BY <2>6
    <3>1. CASE q = id BY <2>6, <3>1
    <3>2. CASE q # id BY <1>1, <2>4, <2>6, <3>2 DEF RunTypeOK
    <3> QED BY <3>1, <3>2
  <2>8. \A q \in Ids : pc'[q] \in InSpan => req'[q].pr \in DOMAIN prs'
    BY <1>1, <2>1, <2>4, <2>5 DEF RunTypeOK, InSpan
  <2>9. \A q \in Ids : pc'[q] = "finish" => req'[q].outcome \in Outcomes
    BY <1>1, <2>4, <2>5 DEF RunTypeOK
  <2> QED BY <2>3, <2>7, <2>8, <2>9 DEF RunTypeOK
<1>14. DaemonTypeOK' BY <1>1 DEF Begin, DaemonTypeOK
<1> QED BY <1>11, <1>12, <1>13, <1>14

LEMMA HandleKeepsTypes ==
  ASSUME TypeOK, NEW c \in Clients, Handle(c)
  PROVE  TypeOK'
<1>1. /\ RepoTypeOK /\ WorldTypeOK /\ JournalTypeOK /\ QueueTypeOK /\ RunTypeOK
      /\ DaemonTypeOK
  BY DEF TypeOK
<1>2. UNCHANGED <<worldVars, probed>>
  BY DEF Handle, ReadClick, Join, Begin, BeginFails
<1>3. RepoTypeOK' BY <1>1, <1>2 DEF RepoTypeOK, worldVars, repoVars
<1>4. WorldTypeOK' BY <1>1, <1>2 DEF WorldTypeOK, worldVars, mirrorVars, hostVars
<1>5. CASE Begin(c) BY <1>3, <1>4, <1>5, BeginTyped DEF TypeOK
<1>6. CASE ReadClick(c) \/ Join(c) \/ BeginFails(c)
  <2>1. UNCHANGED <<runVars, prs>>
    BY <1>2, <1>6 DEF ReadClick, Join, BeginFails, worldVars, repoVars
  <2>2. JournalTypeOK' BY <1>1, <2>1 DEF JournalTypeOK, runVars
  <2>3. QueueTypeOK' BY <1>1, <2>1 DEF QueueTypeOK, runVars, queueVars
  <2>4. RunTypeOK' BY <1>1, <2>1 DEF RunTypeOK, runVars
  <2>5. DaemonTypeOK'
    <3>1. CASE ReadClick(c) BY <3>1, ReadClickTyped
    <3>2. CASE Join(c) BY <1>1, <3>2 DEF Join, DaemonTypeOK
    <3>3. CASE BeginFails(c)
      BY <1>1, <3>3, EngineAssumption DEF BeginFails, DaemonTypeOK, Fault, JournalFails
    <3> QED BY <1>6, <3>1, <3>2, <3>3
  <2> QED BY <1>3, <1>4, <2>2, <2>3, <2>4, <2>5 DEF TypeOK
<1> QED BY <1>5, <1>6 DEF Handle

(* The daemon's memory is typed when it is fresh. *)
LEMMA MemoryLostTyped ==
  ASSUME TypeOK, MemoryLost, stops' \in 0 .. MaxStops
  PROVE  TypeOK'
<1>1. /\ RepoTypeOK /\ WorldTypeOK /\ JournalTypeOK /\ QueueTypeOK /\ RunTypeOK
      /\ DaemonTypeOK
  BY DEF TypeOK
<1>2. RepoTypeOK' BY <1>1 DEF MemoryLost, RepoTypeOK, repoVars
<1>3. WorldTypeOK' BY <1>1 DEF MemoryLost, WorldTypeOK, hostVars
<1>4. JournalTypeOK' BY <1>1 DEF MemoryLost, JournalTypeOK
<1>5. QueueTypeOK' BY <1>1 DEF MemoryLost, QueueTypeOK
<1>6. RunTypeOK'
  <2>1. NoRequest \in Request
    BY RepoAssumption, EngineAssumption DEF NoRequest, Request, Content, Revs, Outcomes
  <2>2. req' = [r \in Ids |-> NoRequest] BY DEF MemoryLost
  <2>3. req' \in [Ids -> Request] BY <2>1, <2>2
  <2>4. pc' = [r \in Ids |-> IF Live(r) THEN "gone" ELSE pc[r]] BY DEF MemoryLost
  <2>5. \A r \in Ids : pc'[r] \in {"unused", "gone"} BY <2>4 DEF Live
  <2>6. pc' \in [Ids -> Labels] BY <2>4, <2>5 DEF Labels
  <2>7. \A r \in Ids : pc'[r] # "unused" => pc[r] # "unused" BY <2>4 DEF Live
  <2>8. \A r \in Ids : pc'[r] # "unused" => r \in DOMAIN journal'
    BY <1>1, <2>7 DEF MemoryLost, RunTypeOK
  <2>9. \A r \in Ids : pc'[r] \notin InSpan /\ pc'[r] # "finish" BY <2>5 DEF InSpan
  <2> QED BY <2>3, <2>6, <2>8, <2>9 DEF RunTypeOK
<1>7. DaemonTypeOK' BY <1>1 DEF MemoryLost, DaemonTypeOK
<1> QED BY <1>2, <1>3, <1>4, <1>5, <1>6, <1>7 DEF TypeOK

LEMMA CloseOrphanTyped ==
  ASSUME TypeOK, CloseOrphan
  PROVE  TypeOK'
<1>1. /\ RepoTypeOK /\ WorldTypeOK /\ JournalTypeOK /\ QueueTypeOK /\ RunTypeOK
      /\ DaemonTypeOK
  BY DEF TypeOK
<1>2. PICK r \in DOMAIN journal :
        \/ /\ journal' = [journal EXCEPT ![r] = Sealed(journal[r], "failed")]
           /\ UNCHANGED <<daemon, faults>>
        \/ Fault("close orphan") /\ daemon' = "down" /\ UNCHANGED journal
  BY DEF CloseOrphan, Unfinished
<1>3. journal[r] \in Row /\ "failed" \in Outcomes
  BY <1>1, ElementOfSeq, LenProperties DEF JournalTypeOK, Outcomes
<1>4. Sealed(journal[r], "failed") \in Row BY <1>3, SealedTyped
<1>5. journal' \in Seq(Row) /\ Len(journal') = Len(journal)
  BY <1>1, <1>2, <1>4, JournalEntry DEF JournalTypeOK
<1>6. UNCHANGED <<worldVars, queueVars, pc, req, click, stops, probed>>
  BY DEF CloseOrphan
<1>7. RepoTypeOK' BY <1>1, <1>6 DEF RepoTypeOK, worldVars, repoVars
<1>8. WorldTypeOK' BY <1>1, <1>6 DEF WorldTypeOK, worldVars, mirrorVars, hostVars
<1>9. JournalTypeOK' BY <1>1, <1>5 DEF JournalTypeOK
<1>10. QueueTypeOK' BY <1>1, <1>6 DEF QueueTypeOK, queueVars
<1>11. DOMAIN journal' = DOMAIN journal BY <1>1, <1>5 DEF JournalTypeOK
<1>12. RunTypeOK' BY <1>1, <1>6, <1>11 DEF RunTypeOK, worldVars, repoVars
<1>13. DaemonTypeOK'
  <2>1. faults' \in 0 .. MaxFaults
    <3>1. CASE UNCHANGED <<daemon, faults>> BY <1>1, <3>1 DEF DaemonTypeOK
    <3>2. CASE Fault("close orphan")
      <4>1. faults < MaxFaults /\ faults' = faults + 1 BY <3>2 DEF Fault
      <4> QED BY <1>1, <4>1, EngineAssumption DEF DaemonTypeOK
    <3> QED BY <1>2, <3>1, <3>2
  <2>2. daemon' \in {"up", "stopping", "closing", "down", "booting"}
    BY <1>1, <1>2 DEF DaemonTypeOK
  <2> QED BY <1>1, <1>6, <2>1, <2>2 DEF DaemonTypeOK
<1> QED BY <1>7, <1>8, <1>9, <1>10, <1>12, <1>13 DEF TypeOK

LEMMA OthersKeepTypes ==
  ASSUME TypeOK,
         \/ \E s \in Services : Edit(s)
         \/ BackgroundSync \/ Boot \/ Serve \/ Stop \/ Wait
  PROVE  TypeOK'
<1>1. /\ RepoTypeOK /\ WorldTypeOK /\ JournalTypeOK /\ QueueTypeOK /\ RunTypeOK
      /\ DaemonTypeOK
  BY DEF TypeOK
<1>2. UNCHANGED <<runVars, click, hostVars, probed>>
  BY DEF Edit, BackgroundSync, Boot, Serve, Stop, Wait, asideVars, daemonVars, worldVars
<1>3. RepoKept
  <2>1. CASE \E s \in Services : Edit(s)
    <3>1. RepoTypeOK' BY <1>1, <2>1, PushTyped DEF Edit
    <3>2. DOMAIN prs' = DOMAIN prs
      BY <1>1, <2>1 DEF Edit, Push, MainBecomes, RepoTypeOK
    <3> QED BY <3>1, <3>2 DEF RepoKept
  <2>2. CASE BackgroundSync \/ Boot \/ Serve \/ Stop \/ Wait
    BY <1>1, <2>2, RepoStill DEF BackgroundSync, Boot, Serve, Stop, Wait, worldVars
  <2> QED BY <2>1, <2>2
<1>4. WorldTypeOK'
  <2>1. Sync \/ UNCHANGED mirrorVars
    BY DEF Edit, BackgroundSync, Boot, Serve, Stop, Wait, worldVars
  <2> QED BY <1>1, <1>2, <2>1 DEF WorldTypeOK, RepoTypeOK, Sync, mirrorVars, hostVars
<1>5. JournalTypeOK' BY <1>1, <1>2 DEF JournalTypeOK, runVars
<1>6. QueueTypeOK' BY <1>1, <1>2 DEF QueueTypeOK, runVars, queueVars
<1>7. RunTypeOK' BY <1>1, <1>2, <1>3 DEF RunTypeOK, RepoKept, runVars
<1>8. DaemonTypeOK'
  <2>1. daemon' \in {"up", "stopping", "closing", "down", "booting"}
    BY <1>1 DEF DaemonTypeOK, Edit, BackgroundSync, Boot, Serve, Stop, Wait, asideVars,
       daemonVars
  <2>2. faults' \in 0 .. MaxFaults
    BY <1>1, EngineAssumption DEF DaemonTypeOK, Edit, BackgroundSync, Boot, Serve, Stop, Wait,
       Fault
  <2>3. stops' \in 0 .. MaxStops
    BY <1>1, EngineAssumption DEF DaemonTypeOK, Edit, BackgroundSync, Boot, Serve, Stop, Wait,
       asideVars, daemonVars
  <2> QED BY <1>1, <1>2, <2>1, <2>2, <2>3 DEF DaemonTypeOK
<1> QED BY <1>3, <1>4, <1>5, <1>6, <1>7, <1>8 DEF TypeOK, RepoKept

-----------------------------------------------------------------------------
LEMMA TypesInit == Init => TypeOK
<1> SUFFICES ASSUME Init PROVE TypeOK
  OBVIOUS
<1>1. [digest |-> InitialPin, rev |-> 0] \in Content
  BY RepoAssumption DEF Content, Revs
<1>2. main \in [Services -> Content] /\ prs = <<>> BY <1>1 DEF Init, RepoInit
<1>3. RepoTypeOK
  <2>1. landed \in [Services -> SUBSET Content] BY <1>2 DEF Init, RepoInit
  <2> QED BY <1>2, <2>1, RepoAssumption, EmptySeq DEF Init, RepoInit, RepoTypeOK
<1>4. WorldTypeOK BY <1>2, RepoAssumption DEF Init, WorldTypeOK
<1>5. JournalTypeOK BY EngineAssumption, EmptySeq DEF Init, JournalTypeOK
<1>6. QueueTypeOK BY DEF Init, QueueTypeOK
<1>7. RunTypeOK
  <2>1. NoRequest \in Request
    BY RepoAssumption, EngineAssumption DEF NoRequest, Request, Content, Revs, Outcomes
  <2>2. req \in [Ids -> Request] BY <2>1 DEF Init
  <2>3. pc \in [Ids -> Labels] /\ \A r \in Ids : pc[r] = "unused" BY DEF Init, Labels
  <2> QED BY <2>2, <2>3 DEF RunTypeOK, InSpan
<1>8. DaemonTypeOK BY EngineAssumption DEF Init, DaemonTypeOK
<1> QED BY <1>3, <1>4, <1>5, <1>6, <1>7, <1>8 DEF TypeOK

LEMMA TypesNext == TypeOK /\ [Next]_vars => TypeOK'
<1> SUFFICES ASSUME TypeOK, [Next]_vars PROVE TypeOK'
  OBVIOUS
<1>1. CASE \E c \in Clients : Handle(c) BY <1>1, HandleKeepsTypes
<1>2. CASE \E r \in Ids : Run(r) BY <1>2, RunKeepsTypes
<1>3. CASE \/ \E s \in Services : Edit(s)
           \/ BackgroundSync \/ Boot \/ Serve \/ Stop \/ Wait
  BY <1>3, OthersKeepTypes
<1>4. CASE CloseOrphan BY <1>4, CloseOrphanTyped
<1>5. CASE Exit \/ Die
  <2>1. stops \in 0 .. MaxStops BY DEF TypeOK, DaemonTypeOK
  <2>2. MemoryLost /\ (stops' = stops \/ (stops < MaxStops /\ stops' = stops + 1))
    BY <1>5 DEF Exit, Die
  <2>3. stops' \in 0 .. MaxStops BY <2>1, <2>2, EngineAssumption
  <2> QED BY <2>2, <2>3, MemoryLostTyped
<1>6. CASE UNCHANGED vars
  <2>1. UNCHANGED <<main, prs, edits, landed, mirror, synced, unit, running, probed,
                    journal, pending, slot, mergeMu, pc, req, click, daemon, faults,
                    stops>>
    BY <1>6 DEF vars, worldVars, repoVars, mirrorVars, hostVars, runVars, queueVars,
       asideVars, daemonVars
  <2> QED
    BY <2>1 DEF TypeOK, RepoTypeOK, WorldTypeOK, JournalTypeOK, QueueTypeOK, RunTypeOK,
       DaemonTypeOK
<1> QED BY <1>1, <1>2, <1>3, <1>4, <1>5, <1>6 DEF Next, Startup

(* Every variable keeps the values its Go type and its use allow: only     *)
(* journalled runs run, a run past Open knows its pull request             *)
(* (engine.go:411-419), a run about to finish knows with what.             *)
THEOREM EngineIsTyped == Spec => []TypeOK
<1> QED BY TypesInit, TypesNext, PTL DEF Spec

-----------------------------------------------------------------------------
(* The merge queue.  The strengthening says whose the mutex is: a run      *)
(* inside the span holds it.                                               *)

SpanInv ==
    /\ pc \in [Ids -> Labels]
    /\ \A r \in Ids : pc[r] \in MergeSpan => mergeMu = r

LEMMA SpanInit == Init => SpanInv
  BY DEF Init, SpanInv, MergeSpan, Labels

LEMMA SpanHandle ==
  ASSUME SpanInv, NEW c \in Clients, Handle(c)
  PROVE  SpanInv'
<1>1. CASE ReadClick(c) BY <1>1 DEF SpanInv, ReadClick, runVars, queueVars
<1>2. CASE Join(c) BY <1>2 DEF SpanInv, Join, runVars, queueVars
<1>3. CASE Begin(c) BY <1>3 DEF SpanInv, Begin, Goto, MergeSpan, Labels
<1>4. CASE BeginFails(c) BY <1>4 DEF SpanInv, BeginFails, runVars, queueVars
<1> QED BY <1>1, <1>2, <1>3, <1>4 DEF Handle

(* Every step of a run keeps it outside the span, keeps it inside with the *)
(* mutex, enters with a free mutex, or leaves giving the mutex up.         *)
SpanStep(r) ==
    \E label \in Labels :
        /\ pc' = [pc EXCEPT ![r] = label]
        /\ \/ pc[r] \notin MergeSpan /\ label \notin MergeSpan /\ mergeMu' = mergeMu
           \/ pc[r] \in MergeSpan /\ label \in MergeSpan /\ mergeMu' = mergeMu
           \/ pc[r] \notin MergeSpan /\ mergeMu = NoRun /\ mergeMu' = r
           \/ pc[r] \in MergeSpan /\ label \notin MergeSpan /\ mergeMu' = NoRun

LEMMA SpanStepKeeps ==
  ASSUME SpanInv, NEW r \in Ids, SpanStep(r)
  PROVE  SpanInv'
<1>1. NoRun \notin Ids BY DEF Ids, NoRun
<1>2. PICK label \in Labels :
        /\ pc' = [pc EXCEPT ![r] = label]
        /\ \/ pc[r] \notin MergeSpan /\ label \notin MergeSpan /\ mergeMu' = mergeMu
           \/ pc[r] \in MergeSpan /\ label \in MergeSpan /\ mergeMu' = mergeMu
           \/ pc[r] \notin MergeSpan /\ mergeMu = NoRun /\ mergeMu' = r
           \/ pc[r] \in MergeSpan /\ label \notin MergeSpan /\ mergeMu' = NoRun
  BY DEF SpanStep
<1>3. pc' \in [Ids -> Labels] BY <1>2 DEF SpanInv
<1>4. ASSUME NEW q \in Ids, pc'[q] \in MergeSpan PROVE mergeMu' = q
  <2>1. CASE q = r BY <1>2, <1>4, <2>1 DEF SpanInv
  <2>2. CASE q # r BY <1>1, <1>2, <1>4, <2>2 DEF SpanInv
  <2> QED BY <2>1, <2>2
<1> QED BY <1>3, <1>4 DEF SpanInv

LEMMA RunIsSpanStep ==
  ASSUME SpanInv, NEW r \in Ids, Run(r)
  PROVE  SpanStep(r)
<1> USE DEF SpanStep, MergeSpan, Labels, At, Goto, EndWith, queueVars
<1>1. CASE Launch(r) \/ PrologueSync(r) BY <1>1 DEF Launch, PrologueSync
<1>2. CASE TakeTurn(r) BY <1>2 DEF TakeTurn
<1>3. CASE AbandonTurn(r) BY <1>3 DEF AbandonTurn
<1>4. CASE LockMergeQueue(r) BY <1>4 DEF LockMergeQueue, MergeQueueFree
<1>5. CASE AbandonBackoff(r) BY <1>5 DEF AbandonBackoff
<1>6. CASE Front(r) BY <1>6 DEF Front, Unlock
<1>7. CASE Inspect(r) BY <1>7 DEF Inspect, Unlock
<1>8. CASE Open(r)
  BY <1>8 DEF Open, OpenFails, RevertAgain, RevertOver, Unlock
<1>9. CASE Record(r) BY <1>9 DEF Record, Unlock
<1>10. CASE WaitChecks(r)
  BY <1>10 DEF WaitChecks, SpanFails, RevertAgain, RevertOver, Unlock
<1>11. CASE MergePR(r)
  BY <1>11 DEF MergePR, SpanFails, RevertAgain, RevertOver, Unlock
<1>12. CASE Update(r)
  BY <1>12 DEF Update, SpanFails, RevertAgain, RevertOver, Unlock
<1>13. CASE Abandon(r) BY <1>13 DEF Abandon
<1>14. CASE RecordMerge(r) BY <1>14 DEF RecordMerge
<1>15. CASE ConvergeSync(r) BY <1>15 DEF ConvergeSync, SyncThen
<1>16. CASE ConvergeRead(r) BY <1>16 DEF ConvergeRead
<1>17. CASE ApplySync(r) BY <1>17 DEF ApplySync, SyncThen, RollBack
<1>18. CASE ApplyRead(r) BY <1>18 DEF ApplyRead, RollBack
<1>19. CASE WriteUnit(r) BY <1>19 DEF WriteUnit, ApplyFails, RollBack
<1>20. CASE ReloadAndRestart(r) BY <1>20 DEF ReloadAndRestart, ApplyFails, RollBack
<1>21. CASE Probe(r) BY <1>21 DEF Probe, Healthy, ApplyFails, RollBack
<1>22. CASE Finish(r) BY <1>22 DEF Finish
<1>23. CASE Release(r) BY <1>23 DEF Release
<1>24. CASE Leave(r) BY <1>24 DEF Leave
<1> QED
  BY <1>1, <1>2, <1>3, <1>4, <1>5, <1>6, <1>7, <1>8, <1>9, <1>10, <1>11, <1>12,
     <1>13, <1>14, <1>15, <1>16, <1>17, <1>18, <1>19, <1>20, <1>21, <1>22, <1>23,
     <1>24 DEF Run

LEMMA SpanDaemon ==
  ASSUME SpanInv,
         \/ \E s \in Services : Edit(s)
         \/ BackgroundSync \/ Startup \/ Stop \/ Wait \/ Exit \/ Die
  PROVE  SpanInv'
<1>1. CASE \/ \E s \in Services : Edit(s)
           \/ BackgroundSync \/ Startup \/ Stop \/ Wait
  BY <1>1 DEF SpanInv, Edit, BackgroundSync, Startup, Boot, CloseOrphan, Serve, Stop, Wait,
     runVars, queueVars
<1>2. CASE Exit \/ Die
  BY <1>2 DEF SpanInv, Exit, Die, MemoryLost, Live, MergeSpan, Labels
<1> QED BY <1>1, <1>2

LEMMA SpanNext == SpanInv /\ [Next]_vars => SpanInv'
<1> SUFFICES ASSUME SpanInv, [Next]_vars PROVE SpanInv'
  OBVIOUS
<1>1. CASE \E c \in Clients : Handle(c) BY <1>1, SpanHandle
<1>2. CASE \E r \in Ids : Run(r) BY <1>2, RunIsSpanStep, SpanStepKeeps
<1>3. CASE \/ \E s \in Services : Edit(s)
           \/ BackgroundSync \/ Startup \/ Stop \/ Wait \/ Exit \/ Die
  BY <1>3, SpanDaemon
<1>4. CASE UNCHANGED vars BY <1>4 DEF SpanInv, vars, runVars, queueVars
<1> QED BY <1>1, <1>2, <1>3, <1>4 DEF Next

(* At most one run, over all services, is between its re-read of the       *)
(* manifest and its merge: mergeMu's promise (engine.go:109-116).          *)
THEOREM MergeSpanIsSerial == Spec => []MergeSpanSerial
<1>1. SpanInv => MergeSpanSerial BY DEF SpanInv, MergeSpanSerial
<1> QED BY <1>1, SpanInit, SpanNext, PTL DEF Spec

-----------------------------------------------------------------------------
(* Turns.  A run between taking its service's channel and releasing it is  *)
(* the one in the channel.  TypeOK is needed for the row that names the    *)
(* run's service, which no step changes.                                   *)

TurnInv == \A r \in Ids : pc[r] \in Turn => slot[Service(r)] = r

ServicesKept ==
    \A q \in DOMAIN journal : q \in DOMAIN journal' /\ journal'[q].service = journal[q].service

LEMMA RowRewriteKeepsServices ==
  ASSUME journal \in Seq(Row), NEW r \in DOMAIN journal, NEW row,
         row.service = journal[r].service, journal' = [journal EXCEPT ![r] = row]
  PROVE  ServicesKept
BY DEF ServicesKept

LEMMA ProgressKeepsServices ==
  ASSUME journal \in Seq(Row), NEW r \in DOMAIN journal, NEW x, Progress(r, x)
  PROVE  ServicesKept
<1>1. journal[r] \in Row BY ElementOfSeq, LenProperties
<1>2. CASE journal' = [journal EXCEPT ![r].state = x]
  <2>1. journal' = [journal EXCEPT ![r] = [journal[r] EXCEPT !.state = x]] BY <1>2
  <2>2. [journal[r] EXCEPT !.state = x].service = journal[r].service
    BY <1>1 DEF Row
  <2> QED BY <2>1, <2>2, RowRewriteKeepsServices
<1>3. CASE journal' = journal BY <1>3 DEF ServicesKept
<1> QED BY <1>2, <1>3 DEF Progress

LEMMA RecordKeepsServices ==
  ASSUME journal \in Seq(Row), NEW r \in DOMAIN journal,
         Record(r) \/ RecordMerge(r) \/ ConvergeRead(r) \/ Finish(r)
  PROVE  ServicesKept
<1>1. journal[r] \in Row BY ElementOfSeq, LenProperties
<1>2. CASE journal' = journal BY <1>2 DEF ServicesKept
<1>3. CASE Record(r)
  <2>1. CASE journal' = [journal EXCEPT ![r].pr = req[r].pr, ![r].state = "checks"]
    <3>1. journal' = [journal EXCEPT ![r] =
                        [journal[r] EXCEPT !.pr = req[r].pr, !.state = "checks"]]
      BY <2>1
    <3>2. [journal[r] EXCEPT !.pr = req[r].pr, !.state = "checks"].service
             = journal[r].service
      BY <1>1 DEF Row
    <3> QED BY <3>1, <3>2, RowRewriteKeepsServices
  <2> QED BY <1>2, <1>3, <2>1 DEF Record
<1>4. CASE RecordMerge(r)
  <2>1. CASE journal' = [journal EXCEPT ![r].merged = TRUE, ![r].state = "reconciling"]
    <3>1. journal' = [journal EXCEPT ![r] =
                        [journal[r] EXCEPT !.merged = TRUE, !.state = "reconciling"]]
      BY <2>1
    <3>2. [journal[r] EXCEPT !.merged = TRUE, !.state = "reconciling"].service
             = journal[r].service
      BY <1>1 DEF Row
    <3> QED BY <3>1, <3>2, RowRewriteKeepsServices
  <2> QED BY <1>2, <1>4, <2>1 DEF RecordMerge
<1>5. CASE ConvergeRead(r)
  <2> DEFINE new == mirror[Service(r)].digest
             old == IF new = req[r].new THEN journal[r].old ELSE new
  <2>1. CASE journal' = [journal EXCEPT ![r].old = old, ![r].new = new,
                                        ![r].state = "reconciling"]
    <3>1. journal' = [journal EXCEPT ![r] =
            [journal[r] EXCEPT !.old = old, !.new = new, !.state = "reconciling"]]
      BY <2>1
    <3> HIDE DEF old, new
    <3>2. [journal[r] EXCEPT !.old = old, !.new = new, !.state = "reconciling"].service
             = journal[r].service
      BY <1>1 DEF Row
    <3> QED BY <3>1, <3>2, RowRewriteKeepsServices
  <2> QED BY <1>2, <1>5, <2>1 DEF ConvergeRead
<1>6. CASE Finish(r)
  <2>1. CASE journal' = [journal EXCEPT ![r] = Sealed(journal[r], req[r].outcome)]
    <3>1. Sealed(journal[r], req[r].outcome).service = journal[r].service
      BY <1>1 DEF Row, Sealed
    <3> QED BY <2>1, <3>1, RowRewriteKeepsServices
  <2> QED BY <1>2, <1>6, <2>1 DEF Finish
<1> QED BY <1>3, <1>4, <1>5, <1>6

LEMMA RunKeepsServices ==
  ASSUME TypeOK, NEW r \in Ids, Run(r)
  PROVE  ServicesKept
<1>1. journal \in Seq(Row) BY DEF TypeOK, JournalTypeOK
<1>2. r \in DOMAIN journal BY RunIsMove DEF RunMoves, TypeOK, RunTypeOK
<1>3. CASE journal' = journal BY <1>3 DEF ServicesKept
<1>4. CASE \E x \in States : Progress(r, x) BY <1>1, <1>2, <1>4, ProgressKeepsServices
<1>5. CASE Record(r) \/ RecordMerge(r) \/ ConvergeRead(r) \/ Finish(r)
  BY <1>1, <1>2, <1>5, RecordKeepsServices
<1>6. {"checks", "reconciling", "probing"} \subseteq States BY DEF States
<1> QED
  BY <1>3, <1>4, <1>5, <1>6 DEF Run, Launch, PrologueSync, TakeTurn, AbandonTurn, LockMergeQueue,
     AbandonBackoff, Front, Inspect, Open, OpenFails, SpanFails, RevertAgain, RevertOver,
     WaitChecks, MergePR, Update, Abandon, ConvergeSync, ApplySync, SyncThen, RollBack,
     ApplyRead, ApplyFails, WriteUnit, ReloadAndRestart, Healthy, Probe, Release, Leave

(* A step of a run stays in its turn, takes a free turn, resumes one it    *)
(* still has, or gives it up.                                              *)
TurnStep(r) ==
    \E label \in Labels :
        /\ pc' = [pc EXCEPT ![r] = label]
        /\ \/ /\ slot' = slot
              /\ label \in Turn => pc[r] \in Turn \/ slot[Service(r)] = r
           \/ /\ slot[Service(r)] = NoRun
              /\ slot' = [slot EXCEPT ![Service(r)] = r]
           \/ /\ pc[r] \in Turn /\ label \notin Turn
              /\ slot' = [slot EXCEPT ![Service(r)] = NoRun]

LEMMA RunIsTurnStep ==
  ASSUME NEW r \in Ids, Run(r)
  PROVE  TurnStep(r)
<1> USE DEF TurnStep, Turn, Labels, At, Goto, EndWith, queueVars
<1>1. CASE Launch(r) \/ PrologueSync(r) BY <1>1 DEF Launch, PrologueSync
<1>2. CASE TakeTurn(r) BY <1>2 DEF TakeTurn, SlotFree
<1>3. CASE AbandonTurn(r) BY <1>3 DEF AbandonTurn
<1>4. CASE LockMergeQueue(r) BY <1>4 DEF LockMergeQueue
<1>5. CASE AbandonBackoff(r) BY <1>5 DEF AbandonBackoff
<1>6. CASE Front(r) BY <1>6 DEF Front
<1>7. CASE Inspect(r) BY <1>7 DEF Inspect
<1>8. CASE Open(r) BY <1>8 DEF Open, OpenFails, RevertAgain, RevertOver
<1>9. CASE Record(r) BY <1>9 DEF Record
<1>10. CASE WaitChecks(r) BY <1>10 DEF WaitChecks, SpanFails, RevertAgain, RevertOver
<1>11. CASE MergePR(r) BY <1>11 DEF MergePR, SpanFails, RevertAgain, RevertOver
<1>12. CASE Update(r) BY <1>12 DEF Update, SpanFails, RevertAgain, RevertOver
<1>13. CASE Abandon(r) BY <1>13 DEF Abandon
<1>14. CASE RecordMerge(r) BY <1>14 DEF RecordMerge
<1>15. CASE ConvergeSync(r) BY <1>15 DEF ConvergeSync, SyncThen
<1>16. CASE ConvergeRead(r) BY <1>16 DEF ConvergeRead
<1>17. CASE ApplySync(r) BY <1>17 DEF ApplySync, SyncThen, RollBack
<1>18. CASE ApplyRead(r) BY <1>18 DEF ApplyRead, RollBack
<1>19. CASE WriteUnit(r) BY <1>19 DEF WriteUnit, ApplyFails, RollBack
<1>20. CASE ReloadAndRestart(r) BY <1>20 DEF ReloadAndRestart, ApplyFails, RollBack
<1>21. CASE Probe(r) BY <1>21 DEF Probe, Healthy, ApplyFails, RollBack
<1>22. CASE Finish(r) BY <1>22 DEF Finish
<1>23. CASE Release(r) BY <1>23 DEF Release
<1>24. CASE Leave(r) BY <1>24 DEF Leave
<1> QED
  BY <1>1, <1>2, <1>3, <1>4, <1>5, <1>6, <1>7, <1>8, <1>9, <1>10, <1>11, <1>12,
     <1>13, <1>14, <1>15, <1>16, <1>17, <1>18, <1>19, <1>20, <1>21, <1>22, <1>23,
     <1>24 DEF Run

LEMMA TurnStepKeeps ==
  ASSUME TypeOK, TurnInv, NEW r \in Ids, Run(r)
  PROVE  TurnInv'
<1>1. PICK label \in Labels :
        /\ pc' = [pc EXCEPT ![r] = label]
        /\ \/ /\ slot' = slot
              /\ label \in Turn => pc[r] \in Turn \/ slot[Service(r)] = r
           \/ /\ slot[Service(r)] = NoRun
              /\ slot' = [slot EXCEPT ![Service(r)] = r]
           \/ /\ pc[r] \in Turn /\ label \notin Turn
              /\ slot' = [slot EXCEPT ![Service(r)] = NoRun]
  BY RunIsTurnStep DEF TurnStep
<1>2. /\ pc \in [Ids -> Labels] /\ slot \in [Services -> Ids \cup {NoRun}]
      /\ \A q \in Ids : pc[q] # "unused" => q \in DOMAIN journal
      /\ journal \in Seq(Row)
  BY DEF TypeOK, RunTypeOK, QueueTypeOK, JournalTypeOK
<1>3. NoRun \notin Ids /\ "unused" \notin Turn BY DEF Ids, NoRun, Turn
<1>4. pc[r] # "unused" BY RunIsMove DEF RunMoves
<1>5. \A q \in DOMAIN journal : Service(q) \in Services /\ Service(q)' = Service(q)
  <2>1. \A q \in DOMAIN journal : journal[q] \in Row BY <1>2, ElementOfSeq, LenProperties
  <2> QED BY <2>1, RunKeepsServices DEF ServicesKept, Service, Row
<1>6. ASSUME NEW q \in Ids, pc'[q] \in Turn PROVE slot'[Service(q)'] = q
  <2>1. CASE q = r
    <3>1. Service(r)' = Service(r) /\ Service(r) \in Services BY <1>2, <1>4, <1>5
    <3>2. label \in Turn BY <1>1, <1>2, <1>6, <2>1
    <3> QED BY <1>1, <1>2, <2>1, <3>1, <3>2 DEF TurnInv
  <2>2. CASE q # r
    <3>1. pc[q] \in Turn BY <1>1, <1>2, <1>6, <2>2
    <3>2. slot[Service(q)] = q BY <3>1 DEF TurnInv
    <3>3. Service(q)' = Service(q) /\ Service(q) \in Services
      BY <1>2, <1>3, <1>5, <3>1
    <3>4. CASE Service(q) # Service(r) \/ slot' = slot
      BY <1>1, <1>2, <3>2, <3>3, <3>4
    <3>5. CASE Service(q) = Service(r) /\ slot' # slot
      BY <1>1, <1>3, <2>2, <3>2, <3>5 DEF TurnInv
    <3> QED BY <3>4, <3>5
  <2> QED BY <2>1, <2>2
<1> QED BY <1>6 DEF TurnInv

LEMMA TurnOthers ==
  ASSUME TypeOK, TurnInv,
         \/ \E c \in Clients : Handle(c)
         \/ \E s \in Services : Edit(s)
         \/ BackgroundSync \/ Startup \/ Stop \/ Wait \/ Exit \/ Die \/ UNCHANGED vars
  PROVE  TurnInv'
<1>1. /\ journal \in Seq(Row) /\ pc \in [Ids -> Labels]
      /\ \A q \in Ids : pc[q] # "unused" => q \in DOMAIN journal
  BY DEF TypeOK, JournalTypeOK, RunTypeOK
<1>2. "unused" \notin Turn BY DEF Turn
<1>3. ASSUME ServicesKept, slot' = slot,
             \A q \in Ids : pc'[q] \in Turn => pc'[q] = pc[q]
      PROVE  TurnInv'
  <2>1. SUFFICES ASSUME NEW q \in Ids, pc'[q] \in Turn PROVE slot'[Service(q)'] = q
    BY DEF TurnInv
  <2>2. pc[q] \in Turn /\ q \in DOMAIN journal BY <1>1, <1>2, <1>3, <2>1
  <2>3. Service(q)' = Service(q) BY <1>3, <2>2 DEF ServicesKept, Service
  <2> QED BY <1>3, <2>2, <2>3 DEF TurnInv
<1>4. CASE \E c \in Clients : Begin(c)
  <2>1. ServicesKept BY <1>1, <1>4 DEF Begin, ServicesKept
  <2>2. \A q \in Ids : pc'[q] \in Turn => pc'[q] = pc[q]
    BY <1>1, <1>4 DEF Begin, Goto, Turn
  <2> QED BY <1>3, <1>4, <2>1, <2>2 DEF Begin
<1>5. CASE CloseOrphan
  <2>1. CASE journal' = journal
    BY <1>3, <1>5, <2>1 DEF CloseOrphan, ServicesKept, queueVars
  <2>2. CASE \E r \in DOMAIN journal :
                journal' = [journal EXCEPT ![r] = Sealed(journal[r], "failed")]
    <3>1. PICK r \in DOMAIN journal :
            journal' = [journal EXCEPT ![r] = Sealed(journal[r], "failed")]
      BY <2>2
    <3>2. journal[r] \in Row BY <1>1, ElementOfSeq, LenProperties
    <3>3. Sealed(journal[r], "failed").service = journal[r].service
      BY <3>2 DEF Row, Sealed
    <3>4. ServicesKept BY <1>1, <3>1, <3>3, RowRewriteKeepsServices
    <3> QED BY <1>3, <1>5, <3>4 DEF CloseOrphan, queueVars
  <2> QED BY <1>5, <2>1, <2>2 DEF CloseOrphan, Unfinished
<1>6. CASE Exit \/ Die
  <2>1. \A q \in Ids : pc'[q] \notin Turn
    BY <1>6 DEF Exit, Die, MemoryLost, Live, Turn
  <2> QED BY <2>1 DEF TurnInv
<1>7. CASE UNCHANGED <<journal, slot, pc>>
  BY <1>3, <1>7 DEF ServicesKept
<1> QED
  BY <1>4, <1>5, <1>6, <1>7 DEF Handle, ReadClick, Join, BeginFails, Edit,
     BackgroundSync, Startup, Boot, Serve, Stop, Wait, vars, runVars, queueVars

(* Two runs never write, restart or probe the same service at once: the    *)
(* per-service channel's promise (engine.go:740).                          *)
THEOREM OneApplier == Spec => []OneApplierPerService
<1>1. Init => TurnInv BY DEF Init, TurnInv, Turn
<1>2. TypeOK /\ TurnInv /\ [Next]_vars => TurnInv'
  BY TurnStepKeeps, TurnOthers DEF Next
<1>3. TurnInv => OneApplierPerService
  BY DEF TurnInv, OneApplierPerService, HostSteps, Turn, Labels
<1> QED BY <1>1, <1>2, <1>3, EngineIsTyped, PTL DEF Spec

-----------------------------------------------------------------------------
(* Runs and rows.  A step of a run moves that run alone, and what it does  *)
(* to the journal it does to that run's row.                               *)

RunMovesAlone(r) ==
    /\ pc[r] # "unused" /\ r \in DOMAIN journal
    /\ \E label \in Labels : pc' = [pc EXCEPT ![r] = label]
    /\ \A q \in Ids \ {r} : pc'[q] = pc[q] /\ req'[q] = req[q]

LEMMA RowsAreRuns ==
  ASSUME TypeOK
  PROVE  DOMAIN journal \subseteq Ids
<1>1. journal \in Seq(Row) /\ Len(journal) <= MaxRuns BY DEF TypeOK, JournalTypeOK
<1>2. DOMAIN journal = 1 .. Len(journal) /\ Len(journal) \in Nat
  BY <1>1, LenProperties
<1> QED BY <1>1, <1>2, EngineAssumption DEF Ids

LEMMA RunIsAlone ==
  ASSUME TypeOK, NEW r \in Ids, Run(r)
  PROVE  RunMovesAlone(r)
<1>1. RunMoves(r) BY RunIsMove
<1>2. pc \in [Ids -> Labels] /\ (pc[r] # "unused" => r \in DOMAIN journal)
  BY DEF TypeOK, RunTypeOK
<1> QED BY <1>1, <1>2 DEF RunMoves, RunMovesAlone

(* The row keeps its receipt, or the lack of one. *)
RowWorks(r) ==
    /\ DOMAIN journal' = DOMAIN journal
    /\ \A q \in DOMAIN journal \ {r} : journal'[q] = journal[q]
    /\ journal'[r].service = journal[r].service
    /\ journal'[r].action = journal[r].action
    /\ journal'[r].detail = journal[r].detail
    /\ journal'[r].finished = journal[r].finished

RowEnds(r, outcome) == journal' = [journal EXCEPT ![r] = Sealed(journal[r], outcome)]

LEMMA RowRewritten ==
  ASSUME journal \in Seq(Row), NEW r \in DOMAIN journal, NEW row,
         journal' = [journal EXCEPT ![r] = row], row.service = journal[r].service,
         row.action = journal[r].action, row.detail = journal[r].detail,
         row.finished = journal[r].finished
  PROVE  RowWorks(r)
<1>1. journal'[r] = row BY LenProperties
<1>2. \A q \in DOMAIN journal \ {r} : journal'[q] = journal[q] OBVIOUS
<1>3. DOMAIN journal' = DOMAIN journal OBVIOUS
<1> QED BY <1>1, <1>2, <1>3 DEF RowWorks

LEMMA RunWorksOrEnds ==
  ASSUME TypeOK, NEW r \in Ids, Run(r)
  PROVE  \/ RowWorks(r)
         \/ Finish(r) /\ Unsealed(r) /\ RowEnds(r, req[r].outcome)
<1>1. journal \in Seq(Row) BY DEF TypeOK, JournalTypeOK
<1>2. r \in DOMAIN journal BY RunIsAlone DEF RunMovesAlone
<1>3. journal[r] \in Row BY <1>1, <1>2, ElementOfSeq, LenProperties
<1>4. CASE journal' = journal BY <1>4 DEF RowWorks
<1>5. ASSUME NEW row, journal' = [journal EXCEPT ![r] = row],
             row.service = journal[r].service, row.action = journal[r].action,
             row.detail = journal[r].detail, row.finished = journal[r].finished
      PROVE  RowWorks(r)
  BY <1>1, <1>2, <1>5, RowRewritten
<1>6. CASE \E x : Progress(r, x)
  <2>1. PICK x : Progress(r, x) BY <1>6
  <2>2. \/ journal' = journal
        \/ journal' = [journal EXCEPT ![r] = [journal[r] EXCEPT !.state = x]]
    BY <2>1 DEF Progress
  <2>3. PICK row : row = [journal[r] EXCEPT !.state = x] OBVIOUS
  <2>4. /\ row.service = journal[r].service /\ row.action = journal[r].action
        /\ row.detail = journal[r].detail /\ row.finished = journal[r].finished
    BY <1>3, <2>3 DEF Row
  <2> QED BY <1>4, <1>5, <2>2, <2>3, <2>4
<1>7. CASE Record(r)
  <2>1. \/ journal' = journal
        \/ journal' = [journal EXCEPT ![r] =
                         [journal[r] EXCEPT !.pr = req[r].pr, !.state = "checks"]]
    BY <1>7 DEF Record
  <2>2. PICK row : row = [journal[r] EXCEPT !.pr = req[r].pr, !.state = "checks"] OBVIOUS
  <2>3. /\ row.service = journal[r].service /\ row.action = journal[r].action
        /\ row.detail = journal[r].detail /\ row.finished = journal[r].finished
    BY <1>3, <2>2 DEF Row
  <2> QED BY <1>4, <1>5, <2>1, <2>2, <2>3
<1>8. CASE RecordMerge(r)
  <2>1. \/ journal' = journal
        \/ journal' = [journal EXCEPT ![r] =
                         [journal[r] EXCEPT !.merged = TRUE, !.state = "reconciling"]]
    BY <1>8 DEF RecordMerge
  <2>2. PICK row : row = [journal[r] EXCEPT !.merged = TRUE, !.state = "reconciling"] OBVIOUS
  <2>3. /\ row.service = journal[r].service /\ row.action = journal[r].action
        /\ row.detail = journal[r].detail /\ row.finished = journal[r].finished
    BY <1>3, <2>2 DEF Row
  <2> QED BY <1>4, <1>5, <2>1, <2>2, <2>3
<1>9. CASE ConvergeRead(r)
  <2> DEFINE new == mirror[Service(r)].digest
             old == IF new = req[r].new THEN journal[r].old ELSE new
  <2>1. \/ journal' = journal
        \/ journal' = [journal EXCEPT ![r] =
             [journal[r] EXCEPT !.old = old, !.new = new, !.state = "reconciling"]]
    BY <1>9 DEF ConvergeRead
  <2> HIDE DEF old, new
  <2>2. PICK row : row = [journal[r] EXCEPT !.old = old, !.new = new,
                                            !.state = "reconciling"]
    OBVIOUS
  <2>3. /\ row.service = journal[r].service /\ row.action = journal[r].action
        /\ row.detail = journal[r].detail /\ row.finished = journal[r].finished
    BY <1>3, <2>2 DEF Row
  <2> QED BY <1>4, <1>5, <2>1, <2>2, <2>3
<1>10. CASE Finish(r)
  BY <1>4, <1>10 DEF Finish, RowEnds
<1> QED
  BY <1>4, <1>6, <1>7, <1>8, <1>9, <1>10 DEF Run, Launch, PrologueSync, TakeTurn, AbandonTurn,
     LockMergeQueue, AbandonBackoff, Front, Inspect, Open, OpenFails, SpanFails,
     RevertAgain, RevertOver, WaitChecks, MergePR, Update, Abandon, ConvergeSync,
     ApplySync, SyncThen, RollBack, ApplyRead, ApplyFails, WriteUnit, ReloadAndRestart,
     Healthy, Probe, Release, Leave

(* What the steps that are no run's do: they add a run, forget every run,  *)
(* close a row, or touch none of this.                                     *)
LEMMA OtherSteps ==
  ASSUME [Next]_vars
  PROVE  \/ \E r \in Ids : Run(r)
         \/ \E c \in Clients : Begin(c)
         \/ MemoryLost
         \/ CloseOrphan
         \/ UNCHANGED runVars
  BY DEF Next, Handle, ReadClick, Join, BeginFails, Edit, BackgroundSync, Startup, Boot,
     Serve, Stop, Wait, Exit, Die, vars

LEMMA OrphanKeepsServices ==
  ASSUME TypeOK, CloseOrphan
  PROVE  ServicesKept
<1>1. journal \in Seq(Row) BY DEF TypeOK, JournalTypeOK
<1>2. CASE journal' = journal BY <1>2 DEF ServicesKept
<1>3. CASE \E r \in DOMAIN journal : RowEnds(r, "failed")
  <2>1. PICK r \in DOMAIN journal : RowEnds(r, "failed") BY <1>3
  <2>2. journal[r] \in Row BY <1>1, ElementOfSeq, LenProperties
  <2>3. Sealed(journal[r], "failed").service = journal[r].service
    BY <2>2 DEF Row, Sealed
  <2> QED BY <1>1, <2>1, <2>3, RowRewriteKeepsServices DEF RowEnds
<1> QED BY <1>2, <1>3 DEF CloseOrphan, Unfinished, RowEnds

-----------------------------------------------------------------------------
(* Joining.  An entry of pending names a live run of that service: only    *)
(* that run's Leave deletes it, and nobody overwrites it.                  *)

PendingStep(r) ==
    \E label \in Labels :
        /\ pc' = [pc EXCEPT ![r] = label]
        /\ label \notin {"unused", "gone"} /\ pending' = pending

LEMMA RunIsPendingStep ==
  ASSUME NEW r \in Ids, Run(r)
  PROVE  PendingStep(r) \/ Leave(r)
<1> USE DEF PendingStep, Labels, At, Goto, EndWith, queueVars
<1>1. CASE Launch(r) \/ PrologueSync(r) BY <1>1 DEF Launch, PrologueSync
<1>2. CASE TakeTurn(r) BY <1>2 DEF TakeTurn
<1>3. CASE AbandonTurn(r) BY <1>3 DEF AbandonTurn
<1>4. CASE LockMergeQueue(r) BY <1>4 DEF LockMergeQueue
<1>5. CASE AbandonBackoff(r) BY <1>5 DEF AbandonBackoff
<1>6. CASE Front(r) BY <1>6 DEF Front
<1>7. CASE Inspect(r) BY <1>7 DEF Inspect
<1>8. CASE Open(r) BY <1>8 DEF Open, OpenFails, RevertAgain, RevertOver
<1>9. CASE Record(r) BY <1>9 DEF Record
<1>10. CASE WaitChecks(r) BY <1>10 DEF WaitChecks, SpanFails, RevertAgain, RevertOver
<1>11. CASE MergePR(r) BY <1>11 DEF MergePR, SpanFails, RevertAgain, RevertOver
<1>12. CASE Update(r) BY <1>12 DEF Update, SpanFails, RevertAgain, RevertOver
<1>13. CASE Abandon(r) BY <1>13 DEF Abandon
<1>14. CASE RecordMerge(r) BY <1>14 DEF RecordMerge
<1>15. CASE ConvergeSync(r) BY <1>15 DEF ConvergeSync, SyncThen
<1>16. CASE ConvergeRead(r) BY <1>16 DEF ConvergeRead
<1>17. CASE ApplySync(r) BY <1>17 DEF ApplySync, SyncThen, RollBack
<1>18. CASE ApplyRead(r) BY <1>18 DEF ApplyRead, RollBack
<1>19. CASE WriteUnit(r) BY <1>19 DEF WriteUnit, ApplyFails, RollBack
<1>20. CASE ReloadAndRestart(r) BY <1>20 DEF ReloadAndRestart, ApplyFails, RollBack
<1>21. CASE Probe(r) BY <1>21 DEF Probe, Healthy, ApplyFails, RollBack
<1>22. CASE Finish(r) BY <1>22 DEF Finish
<1>23. CASE Release(r) BY <1>23 DEF Release
<1> QED
  BY <1>1, <1>2, <1>3, <1>4, <1>5, <1>6, <1>7, <1>8, <1>9, <1>10, <1>11, <1>12,
     <1>13, <1>14, <1>15, <1>16, <1>17, <1>18, <1>19, <1>20, <1>21, <1>22, <1>23
  DEF Run

LEMMA RegisteredIs ==
  ASSUME TypeOK, NEW s \in Services, pending[s] # NoPending
  PROVE  pending[s].id \in Ids
<1>1. pending[s] \in PendingRun BY DEF TypeOK, QueueTypeOK
<1> QED BY <1>1 DEF PendingRun

LEMMA PendingRuns ==
  ASSUME TypeOK, PendingIsLive, NEW r \in Ids, Run(r)
  PROVE  /\ PendingIsLive'
         /\ \A s \in Services : pending[s] # NoPending /\ pending'[s] # pending[s]
                => pc'[pending[s].id] = "gone"
<1>1. /\ pc \in [Ids -> Labels] /\ RunMovesAlone(r) /\ ServicesKept
      /\ \A q \in Ids : pc[q] # "unused" => q \in DOMAIN journal
      /\ pending \in [Services -> PendingRun \cup {NoPending}]
  BY RunIsAlone, RunKeepsServices DEF TypeOK, RunTypeOK, QueueTypeOK
<1>2. ASSUME NEW s \in Services, pending[s] # NoPending
      PROVE  /\ pending[s].id \in Ids /\ Live(pending[s].id)
             /\ Service(pending[s].id) = s /\ journal'[pending[s].id].service = s
  <2>1. pending[s].id \in Ids BY <1>2, RegisteredIs
  <2>2. Live(pending[s].id) /\ Service(pending[s].id) = s BY <1>2 DEF PendingIsLive
  <2> QED BY <1>1, <2>1, <2>2 DEF Live, Service, ServicesKept
<1>3. CASE PendingStep(r)
  <2>1. pending' = pending /\ \A q \in Ids : Live(q) => Live(q)'
    BY <1>1, <1>3 DEF PendingStep, Live
  <2> QED BY <1>2, <2>1 DEF PendingIsLive, Service
<1>4. CASE Leave(r)
  <2>1. /\ pc' = [pc EXCEPT ![r] = "gone"]
        /\ pending' = IF pending[Service(r)].id = r
                      THEN [pending EXCEPT ![Service(r)] = NoPending] ELSE pending
    BY <1>4 DEF Leave, Goto, Owns
  <2>2. ASSUME NEW s \in Services, pending[s] # NoPending, pending[s].id = r
        PROVE  pending'[s] = NoPending /\ pc'[pending[s].id] = "gone"
    BY <1>1, <1>2, <2>1, <2>2
  <2>3. ASSUME NEW s \in Services, pending[s] # NoPending, pending[s].id # r
        PROVE  pending'[s] = pending[s] /\ pc'[pending[s].id] \notin {"unused", "gone"}
    <3>1. pc'[pending[s].id] \notin {"unused", "gone"}
      BY <1>1, <1>2, <2>1, <2>3 DEF Live
    <3>2. pending'[s] = pending[s] BY <1>1, <1>2, <2>1, <2>3
    <3> QED BY <3>1, <3>2
  <2>4. ASSUME NEW s \in Services, pending[s] = NoPending
        PROVE  pending'[s] = NoPending
    BY <1>1, <2>1, <2>4
  <2> QED BY <1>2, <2>2, <2>3, <2>4 DEF PendingIsLive, Live, Service
<1> QED BY <1>3, <1>4, RunIsPendingStep

LEMMA PendingBegins ==
  ASSUME TypeOK, PendingIsLive, NEW c \in Clients, Begin(c)
  PROVE  /\ PendingIsLive'
         /\ \A s \in Services : pending[s] # NoPending => pending'[s] = pending[s]
<1> DEFINE k == click[c]
<1> PICK id : id = Len(journal) + 1 OBVIOUS
<1> PICK entry : entry = [action |-> k.action, digest |-> k.digest, id |-> id] OBVIOUS
<1>1. /\ k \in Handler /\ id \in Ids /\ journal \in Seq(Row)
      /\ pc \in [Ids -> Labels] /\ pending \in [Services -> PendingRun \cup {NoPending}]
      /\ \A q \in Ids : pc[q] # "unused" => q \in DOMAIN journal
  BY DEF Begin, TypeOK, DaemonTypeOK, JournalTypeOK, RunTypeOK, QueueTypeOK
<1>2. k.service \in Services BY <1>1 DEF Handler
<1>3. /\ pc' = [pc EXCEPT ![id] = "begun"]
      /\ pending' = pending \/ /\ pending[k.service] = NoPending
                               /\ pending' = [pending EXCEPT ![k.service] = entry]
  BY DEF Begin, Registers, Goto
<1>4. PICK row : row.service = k.service /\ journal' = Append(journal, row)
  BY DEF Begin
<1>5. /\ \A q \in DOMAIN journal : Service(q)' = Service(q)
      /\ Service(id)' = k.service
  BY <1>1, <1>4, LenProperties DEF Service
<1>6. \A q \in Ids : Live(q) => Live(q)' BY <1>1, <1>3 DEF Live
<1>7. Live(id)' BY <1>1, <1>3 DEF Live
<1>8. \A s \in Services : pending[s] # NoPending => pending'[s] = pending[s]
  BY <1>1, <1>2, <1>3
<1>9. ASSUME NEW s \in Services, pending'[s] # NoPending
      PROVE  /\ pc'[pending'[s].id] \notin {"unused", "gone"}
             /\ journal'[pending'[s].id].service = s
  <2>1. CASE pending'[s] = pending[s]
    <3>1. pending[s].id \in Ids /\ Live(pending[s].id) /\ Service(pending[s].id) = s
      BY <1>9, <2>1, RegisteredIs DEF PendingIsLive
    <3>2. pending[s].id \in DOMAIN journal BY <1>1, <3>1 DEF Live
    <3> QED BY <1>5, <1>6, <2>1, <3>1, <3>2 DEF Live, Service
  <2>2. CASE pending'[s] # pending[s]
    <3>1. s = k.service /\ pending'[s] = entry BY <1>1, <1>2, <1>3, <2>2
    <3>2. pending'[s].id = id BY <3>1
    <3> QED BY <1>5, <1>7, <3>1, <3>2 DEF Live, Service
  <2> QED BY <2>1, <2>2
<1> QED BY <1>8, <1>9 DEF PendingIsLive, Live, Service

LEMMA JoinNext ==
  ASSUME TypeOK, PendingIsLive, [Next]_vars
  PROVE  /\ PendingIsLive'
         /\ \A s \in Services : pending[s] # NoPending /\ pending'[s] # pending[s]
                => pc'[pending[s].id] = "gone"
<1>1. CASE \E r \in Ids : Run(r) BY <1>1, PendingRuns
<1>2. CASE \E c \in Clients : Begin(c) BY <1>2, PendingBegins
<1>3. CASE MemoryLost
  <2>1. /\ pending' = [s \in Services |-> NoPending]
        /\ pc' = [r \in Ids |-> IF Live(r) THEN "gone" ELSE pc[r]]
    BY <1>3 DEF MemoryLost
  <2>2. ASSUME NEW s \in Services, pending[s] # NoPending
        PROVE  pc'[pending[s].id] = "gone"
    <3>1. pending[s].id \in Ids /\ Live(pending[s].id)
      BY <2>2, RegisteredIs DEF PendingIsLive
    <3> QED BY <2>1, <3>1
  <2> QED BY <2>1, <2>2 DEF PendingIsLive
<1>4. CASE CloseOrphan
  <2>1. UNCHANGED <<pending, pc>> BY <1>4 DEF CloseOrphan, queueVars
  <2>2. ServicesKept BY <1>4, OrphanKeepsServices
  <2>3. ASSUME NEW s \in Services, pending[s] # NoPending
        PROVE  journal'[pending[s].id].service = s
    <3>1. pending[s].id \in Ids /\ Live(pending[s].id) /\ Service(pending[s].id) = s
      BY <2>3, RegisteredIs DEF PendingIsLive
    <3>2. pending[s].id \in DOMAIN journal BY <3>1 DEF Live, TypeOK, RunTypeOK
    <3> QED BY <2>2, <3>1, <3>2 DEF ServicesKept, Service
  <2> QED BY <2>1, <2>3 DEF PendingIsLive, Live, Service
<1>5. CASE UNCHANGED runVars
  BY <1>5 DEF PendingIsLive, Live, Service, runVars, queueVars
<1> QED BY <1>1, <1>2, <1>3, <1>4, <1>5, OtherSteps

(* The run a click would join is live and of that service                  *)
(* (engine.go:229-235, 292).                                               *)
THEOREM JoinPointIsLive == Spec => []PendingIsLive
<1>1. Init => PendingIsLive BY DEF Init, PendingIsLive
<1>2. TypeOK /\ PendingIsLive /\ [Next]_vars => PendingIsLive' BY JoinNext
<1> QED BY <1>1, <1>2, EngineIsTyped, PTL DEF Spec

(* A registered run stays the join point for its digest until it has left: *)
(* no other run overwrites or deletes its entry (engine.go:261-266, 274).  *)
THEOREM JoinPointStays == Spec => JoinPointKept
<1>1. TypeOK /\ PendingIsLive /\ [Next]_vars
        => [\A s \in Services : pending[s] # NoPending /\ pending'[s] # pending[s]
                => pc'[pending[s].id] = "gone"]_vars
  BY JoinNext
<1> QED BY <1>1, JoinPointIsLive, EngineIsTyped, PTL DEF Spec, JoinPointKept

-----------------------------------------------------------------------------
(* Receipts.  A run's row has no receipt until its Finish wrote one, and a *)
(* daemon that is down or booting has neither runs nor clicks, so the rows *)
(* that CloseOrphan closes are nobody's.                                   *)

Quiet == {"unused", "release", "leave", "gone"}

ReceiptInv ==
    /\ \A r \in Ids : pc[r] \notin Quiet => ~journal[r].finished
    /\ daemon \in {"down", "booting"} =>
         /\ \A r \in Ids : ~Live(r)
         /\ \A c \in Clients : click[c] = NoClick

(* A step of a run goes on with the row open, or is one of the last three; *)
(* only the first leads to the wait for the turn.                          *)
Unended == Labels \ Quiet
Onward == Unended \ {"begun", "sync", "turn"}

GoesOnward(r) ==
    /\ pc[r] \in Unended \ {"begun", "sync", "finish"}
    /\ \E label \in Onward : pc' = [pc EXCEPT ![r] = label]

Works(r) ==
    /\ pc[r] \in Unended /\ pc[r] # "finish"
    /\ \E label \in Unended :
         /\ pc' = [pc EXCEPT ![r] = label]
         /\ label \in {"begun", "sync", "turn"} => pc[r] \in {"begun", "sync"}

LEMMA RunGoesOnward ==
  ASSUME NEW r \in Ids, Run(r)
  PROVE  Launch(r) \/ PrologueSync(r) \/ GoesOnward(r) \/ Finish(r) \/ Release(r) \/ Leave(r)
<1> USE DEF GoesOnward, Onward, Unended, Labels, Quiet, At, Goto, EndWith
<1>1. CASE TakeTurn(r)
  <2>1. Goto(r, "converge sync") \/ Goto(r, "merge queue") BY <1>1 DEF TakeTurn
  <2>2. pc[r] = "turn" BY <1>1 DEF TakeTurn
  <2> QED BY <2>1, <2>2
<1>2. CASE AbandonTurn(r) BY <1>2 DEF AbandonTurn
<1>3. CASE LockMergeQueue(r) BY <1>3 DEF LockMergeQueue
<1>4. CASE AbandonBackoff(r) BY <1>4 DEF AbandonBackoff
<1>5. CASE Front(r) BY <1>5 DEF Front
<1>6. CASE Inspect(r) BY <1>6 DEF Inspect
<1>7. CASE Open(r) BY <1>7 DEF Open, OpenFails, RevertAgain, RevertOver
<1>8. CASE Record(r) BY <1>8 DEF Record
<1>9. CASE WaitChecks(r) BY <1>9 DEF WaitChecks, SpanFails, RevertAgain, RevertOver
<1>10. CASE MergePR(r) BY <1>10 DEF MergePR, SpanFails, RevertAgain, RevertOver
<1>11. CASE Update(r) BY <1>11 DEF Update, SpanFails, RevertAgain, RevertOver
<1>12. CASE Abandon(r) BY <1>12 DEF Abandon
<1>13. CASE RecordMerge(r) BY <1>13 DEF RecordMerge
<1>14. CASE ConvergeSync(r) BY <1>14 DEF ConvergeSync, SyncThen
<1>15. CASE ConvergeRead(r) BY <1>15 DEF ConvergeRead
<1>16. CASE ApplySync(r) BY <1>16 DEF ApplySync, SyncThen, RollBack
<1>17. CASE ApplyRead(r) BY <1>17 DEF ApplyRead, RollBack
<1>18. CASE WriteUnit(r) BY <1>18 DEF WriteUnit, ApplyFails, RollBack
<1>19. CASE ReloadAndRestart(r) BY <1>19 DEF ReloadAndRestart, ApplyFails, RollBack
<1>20. CASE Probe(r) BY <1>20 DEF Probe, Healthy, ApplyFails, RollBack
<1> QED
  BY <1>1, <1>2, <1>3, <1>4, <1>5, <1>6, <1>7, <1>8, <1>9, <1>10, <1>11,
     <1>12, <1>13, <1>14, <1>15, <1>16, <1>17, <1>18, <1>19, <1>20
  DEF Run

LEMMA RunGoesOn ==
  ASSUME NEW r \in Ids, Run(r)
  PROVE  Works(r) \/ Finish(r) \/ Release(r) \/ Leave(r)
<1>1. CASE Launch(r) \/ PrologueSync(r)
  BY <1>1 DEF Launch, PrologueSync, Works, Unended, Labels, Quiet, At, Goto, EndWith
<1>2. CASE GoesOnward(r) BY <1>2 DEF GoesOnward, Works, Onward
<1> QED BY <1>1, <1>2, RunGoesOnward

LEMMA RunLeavesDaemon ==
  ASSUME NEW r \in Ids, Run(r)
  PROVE  UNCHANGED <<click, daemon, stops>>
BY DEF Run, Launch, PrologueSync, TakeTurn, AbandonTurn, LockMergeQueue, AbandonBackoff, Front,
   Inspect, Open, Record, WaitChecks, MergePR, Update, Abandon, RecordMerge,
   ConvergeSync, ConvergeRead, ApplySync, SyncThen, ApplyRead, WriteUnit,
   ReloadAndRestart, Probe, Finish, Release, Leave, asideVars, daemonVars

LEMMA ReceiptRuns ==
  ASSUME TypeOK, ReceiptInv, NEW r \in Ids, Run(r)
  PROVE  ReceiptInv'
<1>1. /\ RunMovesAlone(r)
      /\ pc \in [Ids -> Labels]
      /\ \A q \in Ids : pc[q] # "unused" => q \in DOMAIN journal
  BY RunIsAlone DEF TypeOK, RunTypeOK
<1>2. \/ Works(r)
      \/ \E label \in {"release", "leave", "gone"} : pc' = [pc EXCEPT ![r] = label]
  BY RunGoesOn DEF Finish, Release, Leave, Goto
<1>3. daemon' \notin {"down", "booting"}
  <2>1. Live(r) BY <1>1, RunGoesOn DEF Works, Unended, Quiet, Live, Finish, Release, Leave, At
  <2> QED BY <2>1, RunLeavesDaemon DEF ReceiptInv
<1>4. ASSUME NEW q \in Ids \ {r}, pc'[q] \notin Quiet
      PROVE  ~journal'[q].finished
  <2>1. pc[q] \notin Quiet /\ q \in DOMAIN journal
    BY <1>1, <1>4 DEF RunMovesAlone, Quiet
  <2>2. journal'[q] = journal[q]
    BY <2>1, RunWorksOrEnds DEF RowWorks, RowEnds
  <2> QED BY <2>1, <2>2 DEF ReceiptInv
<1>5. ASSUME pc'[r] \notin Quiet PROVE ~journal'[r].finished
  <2>1. Works(r) BY <1>1, <1>2, <1>5 DEF Quiet
  <2>2. pc[r] \notin Quiet \cup {"finish"} BY <2>1 DEF Works, Unended
  <2>3. RowWorks(r) BY <2>2, RunWorksOrEnds DEF Finish, At
  <2> QED BY <2>2, <2>3 DEF ReceiptInv, RowWorks
<1> QED BY <1>3, <1>4, <1>5 DEF ReceiptInv

LEMMA ReceiptBegins ==
  ASSUME TypeOK, ReceiptInv, NEW c \in Clients, Begin(c)
  PROVE  ReceiptInv'
<1> PICK id : id = Len(journal) + 1 OBVIOUS
<1>1. /\ id \in Ids /\ journal \in Seq(Row) /\ pc \in [Ids -> Labels]
      /\ \A q \in Ids : pc[q] # "unused" => q \in DOMAIN journal
  BY DEF Begin, TypeOK, JournalTypeOK, RunTypeOK
<1>2. click[c] # NoClick /\ pc' = [pc EXCEPT ![id] = "begun"] /\ daemon' = daemon
  BY DEF Begin, Goto
<1>3. PICK row : row.finished = FALSE /\ journal' = Append(journal, row)
  BY DEF Begin
<1>4. /\ \A q \in DOMAIN journal : journal'[q] = journal[q]
      /\ ~journal'[id].finished
  BY <1>1, <1>3, LenProperties
<1>5. \A q \in Ids : pc'[q] \notin Quiet => ~journal'[q].finished
  BY <1>1, <1>2, <1>4 DEF ReceiptInv, Quiet
<1>6. daemon' \notin {"down", "booting"} BY <1>2 DEF ReceiptInv
<1> QED BY <1>5, <1>6 DEF ReceiptInv

LEMMA ReceiptNext ==
  ASSUME TypeOK, ReceiptInv, [Next]_vars
  PROVE  ReceiptInv'
<1>1. CASE \E r \in Ids : Run(r) BY <1>1, ReceiptRuns
<1>2. CASE \E c \in Clients : Begin(c) BY <1>2, ReceiptBegins
<1>3. CASE MemoryLost
  BY <1>3 DEF MemoryLost, ReceiptInv, Live, Quiet
<1>4. CASE CloseOrphan
  <2>1. /\ UNCHANGED <<pc, click>> /\ daemon = "booting" /\ daemon' \in {"booting", "down"}
    BY <1>4 DEF CloseOrphan
  <2>2. \A q \in Ids : pc[q] \in Quiet BY <2>1 DEF ReceiptInv, Live, Quiet
  <2> QED BY <2>1, <2>2 DEF ReceiptInv, Live
<1>5. CASE UNCHANGED runVars /\ (daemon' \in {"down", "booting"} => daemon \in {"down", "booting"})
           /\ (daemon \in {"down", "booting"} => UNCHANGED click)
  BY <1>5 DEF ReceiptInv, Live, runVars
<1>6. \/ \E r \in Ids : Run(r)
      \/ \E c \in Clients : Begin(c)
      \/ MemoryLost \/ CloseOrphan
      \/ /\ UNCHANGED runVars
         /\ daemon' \in {"down", "booting"} => daemon \in {"down", "booting"}
         /\ daemon \in {"down", "booting"} => UNCHANGED click
  BY DEF ReceiptInv, Next, Handle, ReadClick, Join, BeginFails, Edit, BackgroundSync,
     Serving, Startup, Boot, Serve, Stop, Wait, Exit, Die, vars, asideVars, daemonVars
<1> QED BY <1>1, <1>2, <1>3, <1>4, <1>5, <1>6

LEMMA ReceiptHolds == Spec => []ReceiptInv
<1>1. Init => ReceiptInv BY DEF Init, ReceiptInv, Quiet
<1>2. TypeOK /\ ReceiptInv /\ [Next]_vars => ReceiptInv' BY ReceiptNext
<1> QED BY <1>1, <1>2, EngineIsTyped, PTL DEF Spec

(* While receipts can be written, and the journal is not yet being closed, *)
(* only a run that wrote its own is beyond Finish.                         *)
DrivenInv ==
    /\ UnfinishedIsDriven
    /\ daemon # "closing" =>
         \A r \in Ids : pc[r] \in {"release", "leave"} => journal[r].finished

LEMMA DrivenRuns ==
  ASSUME TypeOK, DrivenInv, "finish" \notin Faults, NEW r \in Ids, Run(r)
  PROVE  DrivenInv'
<1>1. /\ RunMovesAlone(r) /\ pc \in [Ids -> Labels] /\ journal \in Seq(Row)
      /\ \A q \in Ids : pc[q] # "unused" => q \in DOMAIN journal
      /\ DOMAIN journal \subseteq Ids
  BY RunIsAlone, RowsAreRuns DEF TypeOK, RunTypeOK, JournalTypeOK
<1>2. daemon' = daemon BY RunLeavesDaemon
<1>3. /\ DOMAIN journal' = DOMAIN journal
      /\ \A q \in DOMAIN journal \ {r} : journal'[q] = journal[q]
  BY RunWorksOrEnds DEF RowWorks, RowEnds
<1>4. \/ pc'[r] \notin {"unused", "gone", "release", "leave"}
      \/ pc'[r] # "unused" /\ journal'[r].finished
      \/ daemon = "closing"
  <2>1. CASE Works(r) BY <1>1, <2>1 DEF Works, Unended, Quiet
  <2>2. CASE Finish(r)
    <3> SUFFICES ASSUME daemon # "closing" PROVE pc'[r] # "unused" /\ journal'[r].finished
      OBVIOUS
    <3>1. pc'[r] \in {"release", "leave"} BY <1>1, <2>2 DEF Finish, Goto
    <3>3. journal' = IF Unsealed(r)
                     THEN [journal EXCEPT ![r] = Sealed(journal[r], req[r].outcome)]
                     ELSE journal
      BY <2>2 DEF Finish, Fault, JournalFails
    <3>4. journal[r] \in Row BY <1>1, ElementOfSeq, LenProperties DEF RunMovesAlone
    <3>5. Sealed(journal[r], req[r].outcome).finished BY <3>4 DEF Sealed, Row
    <3>6. journal'[r].finished
      BY <1>1, <3>3, <3>5 DEF Unsealed, RunMovesAlone
    <3> QED BY <3>1, <3>6
  <2>3. CASE Release(r) \/ Leave(r)
    <3>1. journal'[r].finished \/ daemon = "closing"
      BY <2>3 DEF Release, Leave, At, DrivenInv
    <3>2. pc'[r] \in {"leave", "gone"} BY <1>1, <2>3 DEF Release, Leave, Goto
    <3> QED BY <3>1, <3>2
  <2> QED BY <2>1, <2>2, <2>3, RunGoesOn
<1>5. ASSUME NEW q \in DOMAIN journal, daemon \in {"up", "stopping"}
      PROVE  journal'[q].finished \/ pc'[q] \notin {"unused", "gone"}
  <2>1. CASE q = r BY <1>4, <1>5, <2>1
  <2>2. CASE q # r
    BY <1>1, <1>3, <1>5, <2>2 DEF DrivenInv, UnfinishedIsDriven, Live, RunMovesAlone
  <2> QED BY <2>1, <2>2
<1>6. ASSUME daemon # "closing", NEW q \in Ids, pc'[q] \in {"release", "leave"}
      PROVE  journal'[q].finished
  <2>1. CASE q = r BY <1>4, <1>6, <2>1
  <2>2. CASE q # r BY <1>1, <1>3, <1>6, <2>2 DEF DrivenInv, RunMovesAlone
  <2> QED BY <2>1, <2>2
<1> QED BY <1>2, <1>3, <1>5, <1>6 DEF DrivenInv, UnfinishedIsDriven, Live

LEMMA DrivenBegins ==
  ASSUME TypeOK, DrivenInv, NEW c \in Clients, Begin(c)
  PROVE  DrivenInv'
<1> PICK id : id = Len(journal) + 1 OBVIOUS
<1>1. /\ id \in Ids /\ journal \in Seq(Row) /\ pc \in [Ids -> Labels]
      /\ \A q \in Ids : pc[q] # "unused" => q \in DOMAIN journal
      /\ DOMAIN journal \subseteq Ids
  BY RowsAreRuns DEF Begin, TypeOK, JournalTypeOK, RunTypeOK
<1>2. pc' = [pc EXCEPT ![id] = "begun"] /\ daemon' = daemon BY DEF Begin, Goto
<1>3. PICK row : journal' = Append(journal, row) BY DEF Begin
<1>4. /\ \A q \in DOMAIN journal : journal'[q] = journal[q] /\ q # id
      /\ DOMAIN journal' = DOMAIN journal \cup {id}
  BY <1>1, <1>3, LenProperties
<1>5. pc'[id] = "begun" /\ \A q \in Ids \ {id} : pc'[q] = pc[q] BY <1>1, <1>2
<1>6. \A q \in DOMAIN journal' : /\ q = id \/ (q \in DOMAIN journal /\ pc'[q] = pc[q])
  BY <1>1, <1>4, <1>5
<1>7. UnfinishedIsDriven'
  BY <1>2, <1>4, <1>5, <1>6 DEF DrivenInv, UnfinishedIsDriven, Live
<1>8. daemon # "closing" =>
        \A q \in Ids : pc'[q] \in {"release", "leave"} => journal'[q].finished
  BY <1>1, <1>4, <1>5 DEF DrivenInv
<1> QED BY <1>2, <1>7, <1>8 DEF DrivenInv

LEMMA DrivenNext ==
  ASSUME TypeOK, ReceiptInv, DrivenInv, "finish" \notin Faults, [Next]_vars
  PROVE  DrivenInv'
<1>1. CASE \E r \in Ids : Run(r) BY <1>1, DrivenRuns
<1>2. CASE \E c \in Clients : Begin(c) BY <1>2, DrivenBegins
<1>3. CASE MemoryLost
  BY <1>3 DEF MemoryLost, DrivenInv, UnfinishedIsDriven, Live
<1>4. CASE CloseOrphan
  <2>1. UNCHANGED pc /\ daemon = "booting" /\ daemon' \in {"booting", "down"}
    BY <1>4 DEF CloseOrphan
  <2>2. \A q \in Ids : pc[q] \notin {"release", "leave"}
    BY <2>1 DEF ReceiptInv, Live
  <2> QED BY <2>1, <2>2 DEF DrivenInv, UnfinishedIsDriven
<1>5. CASE Serve
  <2>1. \A q \in DOMAIN journal : journal[q].finished
    BY <1>5 DEF Serve, Unfinished
  <2> QED BY <1>5, <2>1 DEF Serve, DrivenInv, UnfinishedIsDriven, runVars
<1>6. CASE /\ UNCHANGED runVars
           /\ daemon' \in {"up", "stopping"} => daemon \in {"up", "stopping"}
           /\ daemon' # "closing" => daemon # "closing"
  BY <1>6 DEF DrivenInv, UnfinishedIsDriven, Live, runVars
<1>7. \/ \E r \in Ids : Run(r)
      \/ \E c \in Clients : Begin(c)
      \/ MemoryLost \/ CloseOrphan \/ Serve
      \/ /\ UNCHANGED runVars
         /\ daemon' \in {"up", "stopping"} => daemon \in {"up", "stopping"}
         /\ daemon' # "closing" => daemon # "closing"
  BY DEF Next, Handle, ReadClick, Join, BeginFails, Edit, BackgroundSync, Startup, Boot,
     Stop, Wait, Exit, Die, vars, asideVars, daemonVars
<1> QED BY <1>1, <1>2, <1>3, <1>4, <1>5, <1>6, <1>7

LEMMA DrivenHolds ==
  ASSUME "finish" \notin Faults
  PROVE  Spec => []DrivenInv
<1>1. Init => DrivenInv BY DEF Init, DrivenInv, UnfinishedIsDriven
<1>2. TypeOK /\ ReceiptInv /\ DrivenInv /\ [Next]_vars => DrivenInv' BY DrivenNext
<1> QED BY <1>1, <1>2, EngineIsTyped, ReceiptHolds, PTL DEF Spec

(* Once the daemon serves, every row without a receipt is a run it drives  *)
(* (main.go:223-226), as long as receipts can be written.                  *)
THEOREM RowsAreDriven ==
  ASSUME "finish" \notin Faults
  PROVE  Spec => []UnfinishedIsDriven
<1>1. DrivenInv => UnfinishedIsDriven BY DEF DrivenInv
<1> QED BY <1>1, DrivenHolds, PTL

(* Once the wait for the runs is over only runs that have not got past     *)
(* their first sync are left, and every row is finished or untouched.      *)
Early == {"begun", "sync"}
Late == Quiet \cup Early \cup {"finish"}

CloseInv ==
    /\ \A r \in Ids : pc[r] \in Early => Untouched(r)
    /\ daemon = "closing" =>
         /\ \A r \in Ids : pc[r] \in Late
         /\ \A r \in DOMAIN journal : journal[r].finished \/ Untouched(r)

LEMMA RunStaysLate ==
  ASSUME TypeOK, daemon = "closing", NEW r \in Ids, Run(r), pc[r] \in Late
  PROVE  /\ pc'[r] \in Late
         /\ Untouched(r) => journal'[r].finished \/ Untouched(r)'
<1>1. /\ RunMovesAlone(r) /\ pc \in [Ids -> Labels] /\ req \in [Ids -> Request]
      /\ r \in DOMAIN journal /\ journal \in Seq(Row)
  BY RunIsAlone DEF TypeOK, RunTypeOK, JournalTypeOK, RunMovesAlone
<1>2. ~GoesOnward(r) BY DEF GoesOnward, Unended, Late, Early, Quiet
<1>3. CASE Launch(r)
  BY <1>1, <1>3 DEF Launch, Goto, Late, Early, Untouched
<1>4. CASE PrologueSync(r)
  <2>1. EndWith(r, "failed") /\ UNCHANGED journal
    BY <1>4 DEF PrologueSync, Succeeds, Cancelled
  <2>2. pc'[r] \in Late BY <1>1, <2>1 DEF EndWith, Goto, Late
  <2>3. req'[r].pr = req[r].pr BY <1>1, <2>1 DEF EndWith, Request
  <2> QED BY <2>1, <2>2, <2>3 DEF Untouched
<1>5. CASE Finish(r)
  <2>1. pc'[r] \in Late BY <1>1, <1>5 DEF Finish, Goto, Late, Quiet
  <2>2. UNCHANGED req BY <1>5 DEF Finish
  <2>3. CASE UNCHANGED journal BY <2>1, <2>2, <2>3 DEF Untouched
  <2>4. CASE journal' = [journal EXCEPT ![r] = Sealed(journal[r], req[r].outcome)]
    <3>1. journal[r] \in Row BY <1>1, ElementOfSeq, LenProperties
    <3>2. Sealed(journal[r], req[r].outcome).finished BY <3>1 DEF Sealed, Row
    <3>3. journal'[r].finished BY <1>1, <2>4, <3>2
    <3> QED BY <2>1, <3>3
  <2> QED BY <1>5, <2>3, <2>4 DEF Finish
<1>6. CASE Release(r)
  BY <1>1, <1>6 DEF Release, Goto, Late, Quiet, Untouched
<1>7. CASE Leave(r)
  BY <1>1, <1>7 DEF Leave, Goto, Late, Quiet, Untouched, NoRequest
<1> QED BY <1>2, <1>3, <1>4, <1>5, <1>6, <1>7, RunGoesOnward

LEMMA CloseRuns ==
  ASSUME TypeOK, CloseInv, NEW r \in Ids, Run(r)
  PROVE  CloseInv'
<1>1. /\ RunMovesAlone(r) /\ pc \in [Ids -> Labels]
      /\ \A q \in Ids : pc[q] # "unused" => q \in DOMAIN journal
      /\ DOMAIN journal \subseteq Ids
  BY RunIsAlone, RowsAreRuns DEF TypeOK, RunTypeOK
<1>2. daemon' = daemon BY RunLeavesDaemon
<1>3. /\ DOMAIN journal' = DOMAIN journal
      /\ \A q \in DOMAIN journal \ {r} : journal'[q] = journal[q]
  BY RunWorksOrEnds DEF RowWorks, RowEnds
<1>4. \A q \in DOMAIN journal \ {r} :
        /\ pc'[q] = pc[q]
        /\ journal'[q].finished = journal[q].finished
        /\ Untouched(q) => Untouched(q)'
  BY <1>1, <1>3 DEF RunMovesAlone, Untouched
<1>5. ASSUME pc'[r] \in Early PROVE Untouched(r)'
  <2>1. Launch(r)
    <3>1. ~GoesOnward(r) BY <1>1, <1>5 DEF GoesOnward, Onward, Early
    <3>2. ~PrologueSync(r) BY <1>1, <1>5 DEF PrologueSync, EndWith, Goto, Early
    <3>3. ~Finish(r) /\ ~Release(r) /\ ~Leave(r)
      BY <1>1, <1>5 DEF Finish, Release, Leave, Goto, Early
    <3> QED BY <3>1, <3>2, <3>3, RunGoesOnward
  <2>2. pc[r] \in Early /\ UNCHANGED <<journal, req>> BY <2>1 DEF Launch, At, Early
  <2> QED BY <2>2 DEF CloseInv, Untouched
<1>6. \A q \in Ids : pc'[q] \in Early => Untouched(q)'
  <2>1. \A q \in Ids \ {r} : pc'[q] \in Early => Untouched(q)'
    BY <1>1, <1>4 DEF CloseInv, Early, RunMovesAlone
  <2> QED BY <1>5, <2>1
<1>7. ASSUME daemon = "closing"
      PROVE  /\ \A q \in Ids : pc'[q] \in Late
             /\ \A q \in DOMAIN journal : journal'[q].finished \/ Untouched(q)'
  <2>1. pc[r] \in Late BY <1>7 DEF CloseInv
  <2>2. pc'[r] \in Late /\ (Untouched(r) => journal'[r].finished \/ Untouched(r)')
    BY <1>7, <2>1, RunStaysLate
  <2>3. journal[r].finished => journal'[r].finished
    BY RunWorksOrEnds DEF RowWorks, Unsealed
  <2>4. \A q \in Ids : pc'[q] \in Late BY <1>1, <1>7, <2>2 DEF CloseInv, RunMovesAlone
  <2>5. journal'[r].finished \/ Untouched(r)'
    BY <1>1, <1>7, <2>2, <2>3 DEF CloseInv, RunMovesAlone
  <2>6. \A q \in DOMAIN journal \ {r} : journal'[q].finished \/ Untouched(q)'
    BY <1>4, <1>7 DEF CloseInv
  <2> QED BY <2>4, <2>5, <2>6
<1> QED BY <1>2, <1>3, <1>6, <1>7 DEF CloseInv

LEMMA CloseBegins ==
  ASSUME TypeOK, CloseInv, NEW c \in Clients, Begin(c)
  PROVE  CloseInv'
<1> PICK id : id = Len(journal) + 1 OBVIOUS
<1>1. /\ id \in Ids /\ journal \in Seq(Row) /\ pc \in [Ids -> Labels]
      /\ \A q \in Ids : pc[q] # "unused" => q \in DOMAIN journal
      /\ req \in [Ids -> Request] /\ DOMAIN journal \subseteq Ids
  BY RowsAreRuns DEF Begin, TypeOK, JournalTypeOK, RunTypeOK
<1>2. pc' = [pc EXCEPT ![id] = "begun"] /\ daemon' = daemon BY DEF Begin, Goto
<1>3. PICK row : row.state = "detected" /\ row.pr = 0 /\ journal' = Append(journal, row)
  BY DEF Begin
<1>4. /\ \A q \in DOMAIN journal : journal'[q] = journal[q] /\ q # id
      /\ DOMAIN journal' = DOMAIN journal \cup {id} /\ journal'[id] = row
  BY <1>1, <1>3, LenProperties
<1>5. PICK mine : mine.pr = 0 /\ req' = [req EXCEPT ![id] = mine]
  BY DEF Begin, NoRequest
<1>6. /\ pc'[id] = "begun" /\ req'[id] = mine
      /\ \A q \in Ids \ {id} : pc'[q] = pc[q] /\ req'[q] = req[q]
  BY <1>1, <1>2, <1>5
<1>7. Untouched(id)' BY <1>3, <1>4, <1>5, <1>6 DEF Untouched
<1>8. \A q \in DOMAIN journal :
        /\ journal'[q].finished = journal[q].finished
        /\ Untouched(q) => Untouched(q)'
  BY <1>1, <1>4, <1>6 DEF Untouched
<1>9. \A q \in Ids : pc'[q] \in Early => Untouched(q)'
  BY <1>1, <1>6, <1>7, <1>8 DEF CloseInv, Early
<1>10. daemon = "closing" => \A q \in Ids : pc'[q] \in Late
  BY <1>6 DEF CloseInv, Late, Early
<1>11. daemon = "closing" => \A q \in DOMAIN journal' : journal'[q].finished \/ Untouched(q)'
  BY <1>4, <1>7, <1>8 DEF CloseInv
<1> QED BY <1>2, <1>9, <1>10, <1>11 DEF CloseInv

LEMMA CloseWaits ==
  ASSUME TypeOK, DrivenInv, CloseInv, Wait
  PROVE  CloseInv'
<1>1. UNCHANGED <<journal, req, pc>> /\ daemon = "stopping" BY DEF Wait, runVars
<1>2. \A r \in Ids : pc[r] \in {"unused", "begun", "gone"} BY DEF Wait, Drained
<1>3. \A r \in DOMAIN journal : r \in Ids /\ (journal[r].finished \/ Live(r))
  BY <1>1, RowsAreRuns DEF DrivenInv, UnfinishedIsDriven
<1>4. \A r \in DOMAIN journal : journal[r].finished \/ pc[r] = "begun"
  BY <1>2, <1>3 DEF Live
<1>5. \A r \in DOMAIN journal : journal[r].finished \/ Untouched(r)
  BY <1>3, <1>4 DEF CloseInv, Early
<1> QED BY <1>1, <1>2, <1>5 DEF CloseInv, Untouched, Late, Early, Quiet

LEMMA CloseNext ==
  ASSUME TypeOK, ReceiptInv, DrivenInv, CloseInv, [Next]_vars
  PROVE  CloseInv'
<1>1. CASE \E r \in Ids : Run(r) BY <1>1, CloseRuns
<1>2. CASE \E c \in Clients : Begin(c) BY <1>2, CloseBegins
<1>3. CASE MemoryLost BY <1>3 DEF MemoryLost, CloseInv, Live, Early
<1>4. CASE CloseOrphan
  <2>1. UNCHANGED pc /\ daemon = "booting" /\ daemon' \in {"booting", "down"}
    BY <1>4 DEF CloseOrphan
  <2>2. \A q \in Ids : pc[q] \notin Early BY <2>1 DEF ReceiptInv, Live, Early
  <2> QED BY <2>1, <2>2 DEF CloseInv
<1>5. CASE Wait BY <1>5, CloseWaits
<1>6. CASE UNCHANGED runVars /\ (daemon' = "closing" => daemon = "closing")
  BY <1>6 DEF CloseInv, Untouched, runVars
<1>7. \/ \E r \in Ids : Run(r)
      \/ \E c \in Clients : Begin(c)
      \/ MemoryLost \/ CloseOrphan \/ Wait
      \/ UNCHANGED runVars /\ (daemon' = "closing" => daemon = "closing")
  BY DEF Next, Handle, ReadClick, Join, BeginFails, Edit, BackgroundSync, Startup, Boot,
     Serve, Stop, Exit, Die, vars, asideVars, daemonVars
<1> QED BY <1>1, <1>2, <1>3, <1>4, <1>5, <1>6, <1>7

LEMMA CloseHolds ==
  ASSUME "finish" \notin Faults
  PROVE  Spec => []CloseInv
<1>1. Init => CloseInv BY DEF Init, CloseInv, Early
<1>2. TypeOK /\ ReceiptInv /\ DrivenInv /\ CloseInv /\ [Next]_vars => CloseInv'
  BY CloseNext
<1> QED BY <1>1, <1>2, EngineIsTyped, ReceiptHolds, DrivenHolds, PTL DEF Spec

(* A row that a graceful stop leaves without a receipt is one whose run    *)
(* did nothing: no pull request, nothing on the host (main.go:90-95,       *)
(* 237-241, 271-279; engine.go:269), as long as receipts can be written    *)
(* until the journal is closed.                                            *)
THEOREM StopsClean ==
  ASSUME "finish" \notin Faults
  PROVE  Spec => StopLeavesNoOrphan
<1>1. CloseInv /\ [Next]_vars
        => [daemon = "closing" /\ daemon' = "down" /\ stops' = stops
            => \A r \in DOMAIN journal : journal[r].finished \/ Untouched(r)]_vars
  BY DEF CloseInv
<1> QED BY <1>1, CloseHolds, PTL DEF Spec, StopLeavesNoOrphan

-----------------------------------------------------------------------------
(* Refinement.  A service's channel holds a run that is in its turn, or    *)
(* about to write its receipt before it releases.                          *)

SlotInv ==
    \A s \in Services : slot[s] # NoRun =>
        /\ slot[s] \in Ids /\ pc[slot[s]] \in Turn \cup {"finish"}
        /\ Service(slot[s]) = s

LEMMA RunKeepsSlots ==
  ASSUME NEW r \in Ids, Run(r)
  PROVE  UNCHANGED slot \/ TakeTurn(r) \/ Release(r)
BY DEF Run, Launch, PrologueSync, AbandonTurn, LockMergeQueue, AbandonBackoff, Front, Inspect,
   Open, Record, WaitChecks, MergePR, Update, Abandon, RecordMerge, ConvergeSync,
   ConvergeRead, ApplySync, SyncThen, ApplyRead, WriteUnit, ReloadAndRestart, Probe,
   Finish, Leave, queueVars

LEMMA SlotRuns ==
  ASSUME TypeOK, SlotInv, NEW r \in Ids, Run(r)
  PROVE  SlotInv'
<1>1. /\ RunMovesAlone(r) /\ ServicesKept /\ pc \in [Ids -> Labels]
      /\ slot \in [Services -> Ids \cup {NoRun}]
      /\ \A q \in Ids : pc[q] # "unused" => q \in DOMAIN journal
  BY RunIsAlone, RunKeepsServices DEF TypeOK, RunTypeOK, QueueTypeOK
<1>2. Service(r) \in Services
  <2>1. journal[r] \in Row
    BY <1>1, ElementOfSeq, LenProperties DEF RunMovesAlone, TypeOK, JournalTypeOK
  <2> QED BY <2>1 DEF Service, Row
<1>3. ASSUME NEW q \in Ids, pc[q] \in Turn \cup {"finish"}
      PROVE  journal'[q].service = Service(q)
  BY <1>1, <1>3 DEF ServicesKept, Service, Turn
<1>4. ASSUME NEW s \in Services, slot[s] # NoRun, slot[s] # r
      PROVE  /\ slot[s] \in Ids /\ pc'[slot[s]] \in Turn \cup {"finish"}
             /\ journal'[slot[s]].service = s
  BY <1>1, <1>3, <1>4 DEF SlotInv, RunMovesAlone
<1>5. CASE TakeTurn(r)
  <2>1. /\ slot' = [slot EXCEPT ![Service(r)] = r]
        /\ pc'[r] \in Turn /\ journal'[r].service = Service(r)
    <3>1. pc'[r] \in Turn BY <1>1, <1>5 DEF TakeTurn, Goto, Turn, Labels
    <3>2. slot' = [slot EXCEPT ![Service(r)] = r] BY <1>5 DEF TakeTurn
    <3>3. journal' = journal BY <1>5 DEF TakeTurn
    <3> QED BY <3>1, <3>2, <3>3 DEF Service
  <2>2. ~(pc[r] \in Turn \cup {"finish"}) BY <1>5 DEF TakeTurn, At, Turn
  <2>3. \A s \in Services : slot[s] # NoRun => slot[s] # r BY <2>2 DEF SlotInv
  <2>4. ASSUME NEW s \in Services, slot'[s] # NoRun
        PROVE  /\ slot'[s] \in Ids /\ pc'[slot'[s]] \in Turn \cup {"finish"}
               /\ journal'[slot'[s]].service = s
    <3>1. CASE s = Service(r) BY <1>1, <1>2, <2>1, <3>1
    <3>2. CASE s # Service(r)
      <4>1. slot'[s] = slot[s] BY <1>1, <2>1, <3>2
      <4> QED BY <1>4, <2>3, <2>4, <4>1
    <3> QED BY <3>1, <3>2
  <2> QED BY <2>4 DEF SlotInv, Service, Turn
<1>6. CASE Release(r)
  <2>1. slot' = [slot EXCEPT ![Service(r)] = NoRun] BY <1>6 DEF Release
  <2>2. ASSUME NEW s \in Services, slot'[s] # NoRun
        PROVE  /\ slot'[s] \in Ids /\ pc'[slot'[s]] \in Turn \cup {"finish"}
               /\ journal'[slot'[s]].service = s
    <3>1. s # Service(r) /\ slot'[s] = slot[s] BY <1>1, <1>2, <2>1, <2>2
    <3>2. slot[s] # r BY <2>2, <3>1 DEF SlotInv
    <3> QED BY <1>4, <2>2, <3>1, <3>2
  <2> QED BY <2>2 DEF SlotInv, Service, Turn
<1>7. CASE UNCHANGED slot
  <2>1. ASSUME NEW s \in Services, slot[s] = r, r # NoRun
        PROVE  pc'[r] \in Turn \cup {"finish"} /\ journal'[r].service = s
    <3>1. Service(r) = s /\ pc[r] \in Turn \cup {"finish"} BY <2>1 DEF SlotInv
    <3>2. CASE Works(r)
      <4>1. PICK label \in Unended :
              /\ pc' = [pc EXCEPT ![r] = label]
              /\ label \in {"begun", "sync", "turn"} => pc[r] \in {"begun", "sync"}
        BY <3>2 DEF Works
      <4>2. pc[r] \notin {"begun", "sync"} BY <3>1 DEF Turn
      <4>3. label \in Turn \cup {"finish"} BY <4>1, <4>2 DEF Unended, Quiet, Turn
      <4> QED BY <1>1, <1>3, <3>1, <4>1, <4>3
    <3>3. CASE Finish(r)
      <4>1. pc' = [pc EXCEPT ![r] = "release"]
        BY <2>1, <3>1, <3>3 DEF Finish, Goto
      <4>2. "release" \in Turn BY DEF Turn, Labels
      <4> QED BY <1>1, <1>3, <3>1, <4>1, <4>2
    <3>4. CASE Release(r)
      <4>1. slot' = [slot EXCEPT ![s] = NoRun] BY <3>1, <3>4 DEF Release
      <4> QED BY <1>1, <1>7, <2>1, <4>1
    <3>5. ~Leave(r) BY <3>1 DEF Leave, At, Turn
    <3> QED BY <3>2, <3>3, <3>4, <3>5, RunGoesOn
  <2>2. ASSUME NEW s \in Services, slot'[s] # NoRun
        PROVE  /\ slot'[s] \in Ids /\ pc'[slot'[s]] \in Turn \cup {"finish"}
               /\ journal'[slot'[s]].service = s
    BY <1>1, <1>4, <1>7, <2>1, <2>2
  <2> QED BY <2>2 DEF SlotInv, Service, Turn
<1> QED BY <1>5, <1>6, <1>7, RunKeepsSlots

LEMMA SlotNext ==
  ASSUME TypeOK, SlotInv, [Next]_vars
  PROVE  SlotInv'
<1>1. \A q \in Ids : pc[q] # "unused" => q \in DOMAIN journal
  BY DEF TypeOK, RunTypeOK
<1>2. ASSUME ServicesKept, UNCHANGED slot, \A q \in DOMAIN journal : pc'[q] = pc[q]
      PROVE  SlotInv'
  <2>1. ASSUME NEW s \in Services, slot[s] # NoRun
        PROVE  /\ slot[s] \in Ids /\ pc'[slot[s]] \in Turn \cup {"finish"}
               /\ journal'[slot[s]].service = s
    BY <1>1, <1>2, <2>1 DEF SlotInv, ServicesKept, Service, Turn
  <2> QED BY <1>2, <2>1 DEF SlotInv, Service, Turn
<1>3. CASE \E r \in Ids : Run(r) BY <1>3, SlotRuns
<1>4. CASE \E c \in Clients : Begin(c)
  <2>1. PICK id : id = Len(journal) + 1 OBVIOUS
  <2>2. journal \in Seq(Row) /\ pc \in [Ids -> Labels] /\ id \in Ids
    BY <1>4, <2>1 DEF TypeOK, JournalTypeOK, RunTypeOK, Begin
  <2>3. UNCHANGED slot /\ pc' = [pc EXCEPT ![id] = "begun"]
    BY <1>4, <2>1 DEF Begin, Goto
  <2>4. PICK row : journal' = Append(journal, row) BY <1>4 DEF Begin
  <2>5. ServicesKept /\ \A q \in DOMAIN journal : q # id
    BY <2>1, <2>2, <2>4, LenProperties DEF ServicesKept
  <2> QED BY <1>2, <2>2, <2>3, <2>5, RowsAreRuns
<1>5. CASE MemoryLost BY <1>5 DEF MemoryLost, SlotInv
<1>6. CASE CloseOrphan
  BY <1>2, <1>6, OrphanKeepsServices DEF CloseOrphan, queueVars
<1>7. CASE UNCHANGED runVars BY <1>2, <1>7 DEF runVars, queueVars, ServicesKept
<1> QED BY <1>3, <1>4, <1>5, <1>6, <1>7, OtherSteps

(* The steps of Deploys, told by what the mapping sees of them.            *)
ReceiptsKept == \A q \in Ids : ReceiptOf(q)' = ReceiptOf(q)
ReceiptMoves(r, from, to) ==
    /\ ReceiptOf(r) = from /\ ReceiptOf(r)' = to
    /\ \A q \in Ids \ {r} : ReceiptOf(q)' = ReceiptOf(q)

LEMMA PromiseStutters ==
  ASSUME ReceiptsKept, UNCHANGED <<slot, unit, running>>
  PROVE  UNCHANGED Promise!vars
BY DEF ReceiptsKept, Promise!vars

LEMMA PromiseAccepts ==
  ASSUME NEW r \in Ids, ReceiptMoves(r, "none", "open"), UNCHANGED <<slot, unit, running>>
  PROVE  Promise!Next
<1>1. Promise!Accept(r) BY DEF ReceiptMoves, Promise!Accept
<1> QED BY <1>1 DEF Promise!Next

LEMMA PromiseTakes ==
  ASSUME NEW r \in Ids, NEW s \in Services, ReceiptsKept, UNCHANGED <<unit, running>>,
         ReceiptOf(r) = "open", slot[s] = NoRun, \A t \in Services : slot[t] # r,
         slot' = [slot EXCEPT ![s] = r]
  PROVE  Promise!Next
<1>1. Promise!Take(r, s) BY DEF ReceiptsKept, Promise!Take
<1> QED BY <1>1 DEF Promise!Next

LEMMA PromiseTouches ==
  ASSUME NEW r \in Ids, NEW s \in Services, ReceiptsKept, UNCHANGED slot,
         ReceiptOf(r) = "open", slot[s] = r,
         \A t \in Services \ {s} : unit'[t] = unit[t] /\ running'[t] = running[t]
  PROVE  Promise!Next
<1>1. Promise!Touch(r, s) BY DEF ReceiptsKept, Promise!Touch
<1> QED BY <1>1 DEF Promise!Next

LEMMA PromiseSeals ==
  ASSUME NEW r \in Ids, NEW outcome \in Terminal, ReceiptMoves(r, "open", outcome),
         UNCHANGED <<slot, unit, running>>
  PROVE  Promise!Next
<1>1. Promise!Seal(r) BY DEF ReceiptMoves, Promise!Seal, Promise!Sealed, Terminal
<1> QED BY <1>1 DEF Promise!Next

LEMMA PromiseYields ==
  ASSUME NEW s \in Services, ReceiptsKept, UNCHANGED <<unit, running>>,
         slot[s] # NoRun, slot' = [slot EXCEPT ![s] = NoRun]
  PROVE  Promise!Next
<1>1. Promise!Yield(s) BY DEF ReceiptsKept, Promise!Yield
<1> QED BY <1>1 DEF Promise!Next

LEMMA PromiseForgets ==
  ASSUME ReceiptsKept, UNCHANGED <<unit, running>>, slot' = [s \in Services |-> NoRun]
  PROVE  Promise!Next
<1>1. Promise!AllYield BY DEF ReceiptsKept, Promise!AllYield
<1> QED BY <1>1 DEF Promise!Next

LEMMA ReceiptsOfRun ==
  ASSUME TypeOK, ReceiptInv, NEW r \in Ids, Run(r)
  PROVE  \/ ReceiptsKept
         \/ Finish(r) /\ \E o \in Terminal : ReceiptMoves(r, "open", o)
<1>1. journal \in Seq(Row) /\ r \in DOMAIN journal
  BY RunIsAlone DEF RunMovesAlone, TypeOK, JournalTypeOK
<1>2. CASE RowWorks(r) /\ ~journal[r].finished
  BY <1>1, <1>2 DEF RowWorks, ReceiptsKept, ReceiptOf
<1>3. CASE UNCHANGED journal BY <1>3 DEF ReceiptsKept, ReceiptOf
<1>4. CASE Finish(r) /\ Unsealed(r) /\ RowEnds(r, req[r].outcome)
  <2>1. journal[r] \in Row BY <1>1, ElementOfSeq, LenProperties
  <2>2. req[r].outcome \in Outcomes
    BY <1>4 DEF Finish, At, TypeOK, RunTypeOK
  <2>3. /\ Sealed(journal[r], req[r].outcome).finished
        /\ Sealed(journal[r], req[r].outcome).state = StateOf(req[r].outcome)
    BY <2>1 DEF Sealed, Row
  <2>4. StateOf(req[r].outcome) \in Terminal BY <2>2 DEF StateOf, Terminal, Outcomes
  <2>5. /\ DOMAIN journal' = DOMAIN journal
        /\ journal'[r] = Sealed(journal[r], req[r].outcome)
        /\ \A q \in DOMAIN journal \ {r} : journal'[q] = journal[q]
    BY <1>1, <1>4 DEF RowEnds
  <2>6. ReceiptOf(r) = "open" BY <1>1, <1>4 DEF Unsealed, ReceiptOf
  <2>7. ReceiptOf(r)' = StateOf(req[r].outcome) BY <1>1, <2>3, <2>5 DEF ReceiptOf
  <2>8. \A q \in Ids \ {r} : ReceiptOf(q)' = ReceiptOf(q) BY <2>5 DEF ReceiptOf
  <2> QED BY <1>4, <2>4, <2>6, <2>7, <2>8 DEF ReceiptMoves
<1>5. CASE Works(r)
  <2>1. ~journal[r].finished BY <1>5 DEF Works, Unended, ReceiptInv
  <2> QED BY <1>2, <1>4, <2>1, RunWorksOrEnds
<1>6. CASE Finish(r) BY <1>3, <1>4, <1>6 DEF Finish, RowEnds
<1>7. CASE Release(r) \/ Leave(r) BY <1>3, <1>7 DEF Release, Leave
<1> QED BY <1>5, <1>6, <1>7, RunGoesOn

LEMMA RunTouches ==
  ASSUME TypeOK, NEW r \in Ids, Run(r)
  PROVE  \/ UNCHANGED <<unit, running>>
         \/ /\ WriteUnit(r) \/ ReloadAndRestart(r)
            /\ \A t \in Services \ {Service(r)} : unit'[t] = unit[t] /\ running'[t] = running[t]
<1>1. CASE WriteUnit(r)
  <2>1. UNCHANGED running
        /\ (unit' = unit \/ unit' = [unit EXCEPT ![Service(r)] = req[r].content])
    BY <1>1 DEF WriteUnit
  <2>2. unit \in [Services -> Content] BY DEF TypeOK, WorldTypeOK
  <2>3. \A t \in Services \ {Service(r)} : unit'[t] = unit[t] BY <2>1, <2>2
  <2> QED BY <1>1, <2>1, <2>3
<1>2. CASE ReloadAndRestart(r)
  <2>1. UNCHANGED unit
        /\ \E c \in {running[Service(r)], Started(r), NoContent} :
             running' = [running EXCEPT ![Service(r)] = c]
    BY <1>2 DEF ReloadAndRestart
  <2>2. running \in [Services -> Content \cup {NoContent}] BY DEF TypeOK, WorldTypeOK
  <2>3. \A t \in Services \ {Service(r)} : running'[t] = running[t] BY <2>1, <2>2
  <2> QED BY <1>2, <2>1, <2>3
<1>3. \/ UNCHANGED <<unit, running>> \/ WriteUnit(r) \/ ReloadAndRestart(r)
  BY DEF Run, Launch, PrologueSync, TakeTurn, AbandonTurn, LockMergeQueue, AbandonBackoff, Front,
     Inspect, Open, Record, WaitChecks, MergePR, Update, Abandon, RecordMerge,
     ConvergeSync, ConvergeRead, ApplySync, SyncThen, ApplyRead, Probe, Finish, Release,
     Leave, worldVars, hostVars
<1> QED BY <1>1, <1>2, <1>3

LEMMA RunImplements ==
  ASSUME TypeOK, ReceiptInv, TurnInv, SlotInv, NEW r \in Ids, Run(r)
  PROVE  [Promise!Next]_(Promise!vars)
<1>1. /\ journal \in Seq(Row) /\ r \in DOMAIN journal /\ NoRun \notin Ids
  BY RunIsAlone DEF RunMovesAlone, TypeOK, JournalTypeOK, Ids, NoRun
<1>2. Service(r) \in Services
  <2>1. journal[r] \in Row BY <1>1, ElementOfSeq, LenProperties
  <2> QED BY <2>1 DEF Service, Row
<1>3. pc[r] \notin Quiet => ReceiptOf(r) = "open"
  BY <1>1 DEF ReceiptInv, ReceiptOf
<1>4. CASE TakeTurn(r)
  <2>1. ReceiptOf(r) = "open" BY <1>3, <1>4 DEF TakeTurn, At, Quiet
  <2>2. \A t \in Services : slot[t] # r
    BY <1>1, <1>4 DEF SlotInv, TakeTurn, At, Turn
  <2>3. /\ UNCHANGED <<journal, unit, running>> /\ slot[Service(r)] = NoRun
        /\ slot' = [slot EXCEPT ![Service(r)] = r]
    BY <1>4 DEF TakeTurn, SlotFree, worldVars, hostVars
  <2>4. ReceiptsKept BY <2>3 DEF ReceiptsKept, ReceiptOf
  <2> QED BY <1>2, <2>1, <2>2, <2>3, <2>4, PromiseTakes
<1>5. CASE Release(r)
  <2>1. slot[Service(r)] = r BY <1>5 DEF TurnInv, Release, At, Turn, Labels
  <2>2. /\ UNCHANGED <<journal, unit, running>>
        /\ slot' = [slot EXCEPT ![Service(r)] = NoRun]
    BY <1>5 DEF Release, worldVars, hostVars
  <2>3. ReceiptsKept BY <2>2 DEF ReceiptsKept, ReceiptOf
  <2> QED BY <1>1, <1>2, <2>1, <2>2, <2>3, PromiseYields
<1>6. CASE WriteUnit(r) \/ ReloadAndRestart(r)
  <2>1. pc[r] \in {"write", "restart"} BY <1>6 DEF WriteUnit, ReloadAndRestart, At
  <2>2. slot[Service(r)] = r /\ ReceiptOf(r) = "open"
    BY <1>3, <2>1 DEF TurnInv, Turn, Labels, Quiet
  <2>3. UNCHANGED slot BY <1>6 DEF WriteUnit, ReloadAndRestart, queueVars
  <2>4. ReceiptsKept BY <2>1, ReceiptsOfRun DEF Finish, At
  <2>5. \A t \in Services \ {Service(r)} : unit'[t] = unit[t] /\ running'[t] = running[t]
    BY RunTouches
  <2> QED BY <1>2, <2>2, <2>3, <2>4, <2>5, PromiseTouches
<1>7. CASE UNCHANGED <<slot, unit, running>>
  <2>1. CASE ReceiptsKept BY <1>7, <2>1, PromiseStutters
  <2>2. CASE \E o \in Terminal : ReceiptMoves(r, "open", o)
    BY <1>7, <2>2, PromiseSeals
  <2> QED BY <2>1, <2>2, ReceiptsOfRun
<1> QED BY <1>4, <1>5, <1>6, <1>7, RunKeepsSlots, RunTouches

LEMMA NextImplements ==
  ASSUME TypeOK, ReceiptInv, TurnInv, SlotInv, [Next]_vars
  PROVE  [Promise!Next]_(Promise!vars)
<1>1. CASE \E r \in Ids : Run(r) BY <1>1, RunImplements
<1>2. CASE \E c \in Clients : Begin(c)
  <2>1. PICK id : id = Len(journal) + 1 OBVIOUS
  <2>2. PICK row : row.finished = FALSE /\ journal' = Append(journal, row)
    BY <1>2 DEF Begin
  <2>3. journal \in Seq(Row) /\ id \in Ids /\ UNCHANGED <<slot, unit, running>>
    BY <1>2, <2>1 DEF Begin, TypeOK, JournalTypeOK, worldVars, hostVars
  <2>4. /\ DOMAIN journal' = DOMAIN journal \cup {id} /\ id \notin DOMAIN journal
        /\ journal'[id] = row /\ \A q \in DOMAIN journal : journal'[q] = journal[q]
    BY <2>1, <2>2, <2>3, LenProperties
  <2>5. ReceiptMoves(id, "none", "open") BY <2>2, <2>4 DEF ReceiptMoves, ReceiptOf
  <2> QED BY <2>3, <2>5, PromiseAccepts
<1>3. CASE MemoryLost
  BY <1>3, PromiseForgets DEF MemoryLost, hostVars, ReceiptsKept, ReceiptOf
<1>4. CASE CloseOrphan
  <2>1. UNCHANGED <<slot, unit, running>>
    BY <1>4 DEF CloseOrphan, worldVars, hostVars, queueVars
  <2>2. PICK r \in Unfinished : RowEnds(r, "failed") \/ UNCHANGED journal
    BY <1>4 DEF CloseOrphan, RowEnds
  <2>3. CASE UNCHANGED journal
    BY <2>1, <2>3, PromiseStutters DEF ReceiptsKept, ReceiptOf
  <2>4. CASE RowEnds(r, "failed")
    <3>1. /\ r \in DOMAIN journal /\ ~journal[r].finished /\ r \in Ids
          /\ journal \in Seq(Row)
      BY <2>2, RowsAreRuns DEF Unfinished, TypeOK, JournalTypeOK
    <3>2. journal[r] \in Row BY <3>1, ElementOfSeq, LenProperties
    <3>3. /\ Sealed(journal[r], "failed").finished
          /\ Sealed(journal[r], "failed").state = "failed"
      BY <3>2 DEF Sealed, Row, StateOf
    <3>4. /\ DOMAIN journal' = DOMAIN journal
          /\ journal'[r] = Sealed(journal[r], "failed")
          /\ \A q \in DOMAIN journal \ {r} : journal'[q] = journal[q]
      BY <2>4, <3>1 DEF RowEnds
    <3>5. ReceiptMoves(r, "open", "failed")
      BY <3>1, <3>3, <3>4 DEF ReceiptMoves, ReceiptOf
    <3>6. "failed" \in Terminal BY DEF Terminal
    <3> QED BY <2>1, <3>1, <3>5, <3>6, PromiseSeals
  <2> QED BY <2>2, <2>3, <2>4
<1>5. CASE UNCHANGED <<journal, slot, unit, running>>
  BY <1>5, PromiseStutters DEF ReceiptsKept, ReceiptOf
<1> QED
  BY <1>1, <1>2, <1>3, <1>4, <1>5 DEF Next, Handle, ReadClick, Join, BeginFails, Edit,
     BackgroundSync, Startup, Boot, Serve, Stop, Wait, Exit, Die, vars, runVars, queueVars,
     worldVars, hostVars

(* Engine implements Deploys: the channel is the turn, the host changes    *)
(* only in the turn of a run whose receipt is open, and receipts are       *)
(* written once, whether by the run or by the next start.                  *)
THEOREM EngineImplementsDeploys == Spec => ImplementsDeploys
<1>1. Init => Promise!Init
  BY LenProperties DEF Init, Promise!Init, ReceiptOf
<1>2. Init => TurnInv /\ SlotInv BY DEF Init, TurnInv, SlotInv, Turn
<1>3. TypeOK /\ TurnInv /\ [Next]_vars => TurnInv'
  BY TurnStepKeeps, TurnOthers DEF Next
<1>4. TypeOK /\ SlotInv /\ [Next]_vars => SlotInv' BY SlotNext
<1>5. TypeOK /\ ReceiptInv /\ TurnInv /\ SlotInv /\ [Next]_vars
        => [Promise!Next]_(Promise!vars)
  BY NextImplements
<1> QED
  BY <1>1, <1>2, <1>3, <1>4, <1>5, EngineIsTyped, ReceiptHolds, PTL
  DEF Spec, ImplementsDeploys, Promise!Spec
=============================================================================

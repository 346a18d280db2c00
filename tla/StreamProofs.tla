---------------------------- MODULE StreamProofs ----------------------------
(***************************************************************************)
(* What the proofs about the stream's readers share: the moves the stream  *)
(* can make, its types, that a terminal event in flight is the receipt in  *)
(* the journal, and which events a reader still has ahead of it.           *)
(***************************************************************************)
EXTENDS Stream, SequenceTheorems, TLAPS

(* A reader takes the first frame off its wire. *)
Read(c) ==
    /\ wire[c] # <<>>
    /\ wire' = [wire EXCEPT ![c] = Tail(@)]
    /\ UNCHANGED <<runVars, connVars, cuts>>

Connection(c) ==
    \/ Accept(c) \/ Serve(c) \/ Disconnect(c) \/ Read(c)
    \/ Close(c) /\ wire' = [wire EXCEPT ![c] = <<>>] /\ UNCHANGED cuts

StreamMove ==
    \/ \E s \in Services : Begin(s)
    \/ Runs \/ Restart
    \/ \E c \in Conns : Connection(c)

-----------------------------------------------------------------------------
(* The journal: rows are added and, until they have a receipt, advanced;   *)
(* a row no write of which was lost says what its run did.                 *)

Journalled ==
    \A r \in DOMAIN rows :
        /\ rows[r].service = ran[r].service
        /\ rows[r].over # "no" => Over(r)
        /\ r \notin lost => rows[r] = ran[r]

RowsTyped ==
    /\ rows \in Seq(Row) /\ Len(rows) <= MaxRuns
    /\ ran \in Seq(Row) /\ Len(ran) = Len(rows)
    /\ told \in Seq(BOOLEAN) /\ Len(told) = Len(rows)
    /\ lost \subseteq DOMAIN rows
    /\ Journalled

LEMMA RowsAre ==
  ASSUME RowsTyped
  PROVE  /\ Len(rows) \in Nat /\ DOMAIN rows = 1 .. Len(rows) /\ DOMAIN rows \subseteq Ids
         /\ DOMAIN told = DOMAIN rows /\ DOMAIN ran = DOMAIN rows
         /\ \A r \in DOMAIN rows :
              /\ rows[r] \in Row /\ rows[r].service \in Services /\ rows[r].step \in Nat
              /\ rows[r].over \in Outcomes \cup {"no"}
              /\ ran[r] \in Row /\ ran[r].service = rows[r].service /\ ran[r].step \in Nat
              /\ ran[r].over \in Outcomes \cup {"no"}
<1>1. /\ Len(rows) \in Nat /\ DOMAIN rows = 1 .. Len(rows) /\ DOMAIN told = 1 .. Len(told)
      /\ DOMAIN ran = 1 .. Len(ran)
  BY LenProperties DEF RowsTyped
<1>2. DOMAIN rows \subseteq Ids BY <1>1, StreamAssumption DEF RowsTyped, Ids
<1>3. ASSUME NEW r \in DOMAIN rows PROVE rows[r] \in Row /\ ran[r] \in Row
  BY <1>1, ElementOfSeq DEF RowsTyped
<1>4. DOMAIN told = DOMAIN rows /\ DOMAIN ran = DOMAIN rows BY <1>1 DEF RowsTyped
<1> QED BY <1>1, <1>2, <1>3, <1>4 DEF RowsTyped, Journalled, Row

(* What a step leaves of the rows there are, and what it adds. *)
Grows ==
    /\ DOMAIN rows \subseteq DOMAIN rows' /\ lost \subseteq lost'
    /\ \A r \in DOMAIN rows : /\ rows'[r].service = rows[r].service
                              /\ rows[r].over # "no" => rows'[r] = rows[r]
                              /\ Over(r) => ran'[r] = ran[r]
    /\ \A r \in DOMAIN rows' \ DOMAIN rows :
         /\ r = Len(rows) + 1
         /\ rows'[r].over = "no" /\ ran'[r].step = 0 /\ ran'[r].over = "no"
         /\ told'[r] = TRUE

(* Two facts about any sequence. *)
LEMMA Appended ==
  ASSUME NEW S, NEW q \in Seq(S), NEW x \in S, NEW p, p = Append(q, x)
  PROVE  /\ p \in Seq(S) /\ Len(p) = Len(q) + 1 /\ p[Len(q) + 1] = x
         /\ \A i \in 1 .. Len(q) : p[i] = q[i]
BY AppendProperties

LEMMA Changed ==
  ASSUME NEW S, NEW q \in Seq(S), NEW i \in 1 .. Len(q), NEW x \in S,
         NEW p, p = [q EXCEPT ![i] = x]
  PROVE  /\ p \in Seq(S) /\ Len(p) = Len(q) /\ p[i] = x
         /\ \A j \in 1 .. Len(q) : j # i => p[j] = q[j]
<1>1. DOMAIN q = 1 .. Len(q) BY LenProperties
<1> QED BY <1>1, ExceptSeq, LenProperties

LEMMA BeginRows ==
  ASSUME RowsTyped, NEW s \in Services, Begin(s)
  PROVE  RowsTyped' /\ Grows /\ Len(rows') = Len(rows) + 1
         /\ \A r \in DOMAIN rows : rows'[r] = rows[r] /\ ran'[r] = ran[r] /\ told'[r] = told[r]
<1> PICK x : x = [service |-> s, step |-> 0, over |-> "no"] OBVIOUS
<1>1. x \in Row BY DEF Row
<1>2. x.service = s /\ x.step = 0 /\ x.over = "no" OBVIOUS
<1>3. /\ rows' = Append(rows, x) /\ ran' = Append(ran, x) /\ told' = Append(told, TRUE)
      /\ Len(rows) < MaxRuns /\ UNCHANGED lost
  BY DEF Begin
<1>4. /\ rows \in Seq(Row) /\ ran \in Seq(Row) /\ told \in Seq(BOOLEAN)
      /\ Len(ran) = Len(rows) /\ Len(told) = Len(rows) /\ Len(rows) \in Nat
      /\ DOMAIN rows = 1 .. Len(rows)
  BY LenProperties DEF RowsTyped
<1>5. /\ rows' \in Seq(Row) /\ Len(rows') = Len(rows) + 1 /\ rows'[Len(rows) + 1] = x
      /\ \A r \in 1 .. Len(rows) : rows'[r] = rows[r]
  BY <1>1, <1>3, <1>4, Appended
<1>6. /\ ran' \in Seq(Row) /\ Len(ran') = Len(ran) + 1 /\ ran'[Len(ran) + 1] = x
      /\ \A r \in 1 .. Len(ran) : ran'[r] = ran[r]
  BY <1>1, <1>3, <1>4, Appended
<1>7. /\ told' \in Seq(BOOLEAN) /\ Len(told') = Len(told) + 1 /\ told'[Len(told) + 1] = TRUE
      /\ \A r \in 1 .. Len(told) : told'[r] = told[r]
  <2>1. told' \in Seq(BOOLEAN) BY <1>3, <1>4, AppendProperties
  <2>2. Len(told') = Len(told) + 1 BY <1>3, <1>4, AppendProperties
  <2>3. told'[Len(told) + 1] = TRUE BY <1>3, <1>4, AppendProperties
  <2>4. ASSUME NEW r \in 1 .. Len(told) PROVE told'[r] = told[r]
    <3>1. TRUE \in BOOLEAN /\ told \in Seq(BOOLEAN) BY <1>4
    <3>2. Append(told, TRUE)[r] = told[r] BY <2>4, <3>1, AppendProperties
    <3> QED BY <1>3, <3>2
  <2> QED BY <2>1, <2>2, <2>3, <2>4
<1>8. DOMAIN rows' = 1 .. Len(rows) + 1 BY <1>5, LenProperties
<1>9. ASSUME NEW r \in DOMAIN rows
      PROVE  rows'[r] = rows[r] /\ ran'[r] = ran[r] /\ told'[r] = told[r]
  BY <1>4, <1>5, <1>6, <1>7
<1>10. ASSUME NEW r \in DOMAIN rows', r \notin DOMAIN rows
       PROVE  r = Len(rows) + 1 /\ rows'[r] = x /\ ran'[r] = x /\ told'[r] = TRUE
  <2>1. r = Len(rows) + 1 BY <1>4, <1>8, <1>10
  <2> QED BY <1>4, <1>5, <1>6, <1>7, <2>1
<1>11. Grows BY <1>2, <1>3, <1>4, <1>8, <1>9, <1>10 DEF Grows
<1>12. Journalled'
  <2> SUFFICES ASSUME NEW r \in DOMAIN rows'
               PROVE  /\ rows'[r].service = ran'[r].service
                      /\ rows'[r].over # "no" => ran'[r].over # "no"
                      /\ r \notin lost' => rows'[r] = ran'[r]
    BY DEF Journalled, Over
  <2>1. CASE r \in DOMAIN rows BY <1>3, <1>9, <2>1 DEF RowsTyped, Journalled, Over
  <2>2. CASE r \notin DOMAIN rows BY <1>2, <1>10, <2>2
  <2> QED BY <2>1, <2>2
<1>13. lost' \subseteq DOMAIN rows' BY <1>3, <1>4, <1>8 DEF RowsTyped
<1>14. Len(rows') <= MaxRuns BY <1>3, <1>4, <1>5, StreamAssumption
<1>15. RowsTyped' BY <1>4, <1>5, <1>6, <1>7, <1>12, <1>13, <1>14 DEF RowsTyped
<1> QED BY <1>5, <1>9, <1>11, <1>15

(* A step of a run moves its own row, and only while it has no receipt. *)
Moves(r) ==
    /\ RowsTyped' /\ Len(rows') = Len(rows)
    /\ \A q \in DOMAIN rows :
         q # r => rows'[q] = rows[q] /\ ran'[q] = ran[q] /\ told'[q] = told[q]

LEMMA TransitionRows ==
  ASSUME RowsTyped, NEW r \in DOMAIN rows, NEW row \in Row, row.service = ran[r].service,
         ~Over(r), Transition(r, row)
  PROVE  /\ Moves(r) /\ Grows /\ told'[r] = FALSE
<1>1. /\ rows \in Seq(Row) /\ ran \in Seq(Row) /\ told \in Seq(BOOLEAN)
      /\ Len(ran) = Len(rows) /\ Len(told) = Len(rows) /\ Len(rows) \in Nat
      /\ DOMAIN rows = 1 .. Len(rows)
  BY LenProperties DEF RowsTyped
<1>2. /\ ran' \in Seq(Row) /\ Len(ran') = Len(ran) /\ ran'[r] = row
      /\ \A q \in DOMAIN rows : q # r => ran'[q] = ran[q]
  <2>1. ran' = [ran EXCEPT ![r] = row] BY DEF Transition
  <2> QED BY <1>1, <2>1, Changed
<1>3. /\ told' \in Seq(BOOLEAN) /\ Len(told') = Len(told) /\ told'[r] = FALSE
      /\ \A q \in DOMAIN rows : q # r => told'[q] = told[q]
  <2>1. told' = [told EXCEPT ![r] = FALSE] /\ FALSE \in BOOLEAN BY DEF Transition
  <2> QED BY <1>1, <2>1, Changed
<1>4. /\ rows' \in Seq(Row) /\ Len(rows') = Len(rows) /\ lost \subseteq lost'
      /\ \A q \in DOMAIN rows : q # r => rows'[q] = rows[q]
      /\ rows'[r] = row \/ (rows'[r] = rows[r] /\ r \in lost')
      /\ lost' \subseteq lost \cup {r}
  <2>1. CASE Write(r, row)
    <3>1. rows' = [rows EXCEPT ![r] = row] /\ lost' = lost BY <2>1 DEF Write
    <3> QED BY <1>1, <3>1, Changed
  <2>2. CASE LoseWrite(r) BY <1>1, <2>2 DEF LoseWrite
  <2> QED BY <2>1, <2>2 DEF Transition
<1>5. DOMAIN rows' = DOMAIN rows BY <1>1, <1>4, LenProperties
<1>6. ran[r].over = "no" /\ rows[r].over = "no" /\ rows[r].service = ran[r].service
  BY DEF RowsTyped, Journalled, Over
<1>7. Grows BY <1>2, <1>4, <1>5, <1>6 DEF Grows, Over
<1>8. Journalled'
  <2> SUFFICES ASSUME NEW q \in DOMAIN rows
               PROVE  /\ rows'[q].service = ran'[q].service
                      /\ rows'[q].over # "no" => ran'[q].over # "no"
                      /\ q \notin lost' => rows'[q] = ran'[q]
    BY <1>5 DEF Journalled, Over
  <2>1. CASE q = r BY <1>2, <1>4, <1>6, <2>1
  <2>2. CASE q # r BY <1>2, <1>4, <2>2 DEF RowsTyped, Journalled, Over
  <2> QED BY <2>1, <2>2
<1>9. lost' \subseteq DOMAIN rows' BY <1>4, <1>5 DEF RowsTyped
<1>10. RowsTyped' BY <1>1, <1>2, <1>3, <1>4, <1>8, <1>9 DEF RowsTyped
<1> QED BY <1>2, <1>3, <1>4, <1>7, <1>10 DEF Moves

LEMMA EmitRows ==
  ASSUME RowsTyped, NEW r \in DOMAIN rows, emit(r)
  PROVE  Moves(r) /\ Grows /\ told'[r] = FALSE
<1> PICK x : x = [ran[r] EXCEPT !.step = @ + 1] OBVIOUS
<1>1. Transition(r, x) /\ ~Over(r) BY DEF emit
<1>2. x \in Row /\ x.service = ran[r].service BY RowsAre DEF Row
<1> QED BY <1>1, <1>2, TransitionRows

(* A row with its receipt. *)
Receipted(row, outcome) == [row EXCEPT !.step = @ + 1, !.over = outcome]

LEMMA ReceiptRow ==
  ASSUME NEW row \in Row, NEW outcome \in Outcomes
  PROVE  /\ Receipted(row, outcome) \in Row
         /\ Receipted(row, outcome).service = row.service
         /\ Receipted(row, outcome).over = outcome
<1>1. PICK moved : moved = [row EXCEPT !.step = @ + 1] OBVIOUS
<1>2. moved \in Row BY <1>1 DEF Row
<1>3. PICK x : x = [row EXCEPT !.step = @ + 1, !.over = outcome] OBVIOUS
<1>4. x = [moved EXCEPT !.over = outcome] BY <1>1, <1>3
<1>5. x \in Row BY <1>2, <1>4 DEF Row
<1>6. x.service = row.service /\ x.over = outcome
  BY <1>3 DEF Row
<1>7. x = Receipted(row, outcome) BY <1>3 DEF Receipted
<1> QED BY <1>5, <1>6, <1>7

LEMMA FinishRows ==
  ASSUME RowsTyped, NEW r \in DOMAIN rows, finish(r)
  PROVE  Moves(r) /\ Grows /\ told'[r] = FALSE
<1>1. PICK outcome \in Outcomes : Transition(r, Receipted(ran[r], outcome))
  BY DEF finish, Receipted
<1>2. ~Over(r) BY DEF finish
<1>3. ran[r] \in Row BY RowsAre
<1>4. PICK x : x = Receipted(ran[r], outcome) OBVIOUS
<1>5. x \in Row /\ x.service = ran[r].service BY <1>3, <1>4, ReceiptRow
<1>6. Transition(r, x) BY <1>1, <1>4
<1> QED BY <1>2, <1>5, <1>6, TransitionRows

LEMMA PublishRows ==
  ASSUME RowsTyped, NEW r \in DOMAIN rows, publish(r)
  PROVE  /\ RowsTyped' /\ UNCHANGED <<ran, rows, lost>> /\ told'[r] = TRUE
         /\ \A q \in DOMAIN rows : q # r => told'[q] = told[q]
<1>1. /\ told \in Seq(BOOLEAN) /\ r \in 1 .. Len(told) /\ DOMAIN told = 1 .. Len(told)
      /\ DOMAIN rows = DOMAIN told
  BY RowsAre, LenProperties DEF RowsTyped
<1>2. told' = [told EXCEPT ![r] = TRUE] /\ UNCHANGED <<ran, rows, lost>>
  BY DEF publish, journalVars
<1>3. told' \in Seq(BOOLEAN) /\ Len(told') = Len(told) BY <1>1, <1>2, ExceptSeq
<1> QED BY <1>1, <1>2, <1>3 DEF RowsTyped, Journalled, Over

(* Where the journal is left alone. *)
LEMMA RowsRest ==
  ASSUME RowsTyped, UNCHANGED <<ran, rows, lost>>
  PROVE  Grows /\ (UNCHANGED told => RowsTyped')
BY DEF RowsTyped, Journalled, Over, Grows

LEMMA SealedRow ==
  ASSUME NEW row \in Row
  PROVE  /\ Sealed(row) \in Row /\ Sealed(row).service = row.service
         /\ Sealed(row).over \in Outcomes
         /\ row.over # "no" => Sealed(row) = row
<1>1. CASE row.over # "no"
  <2>1. Sealed(row) = row BY <1>1 DEF Sealed
  <2>2. row.over \in Outcomes BY <1>1 DEF Row
  <2> QED BY <2>1, <2>2
<1>2. CASE row.over = "no"
  <2>1. PICK outcome \in Outcomes : outcome = "failed" BY DEF Outcomes
  <2>2. PICK x : x = Receipted(row, outcome) OBVIOUS
  <2>3. outcome \in Outcomes BY <2>1
  <2>4. x \in Row /\ x.service = row.service /\ x.over = outcome
    BY <2>2, <2>3, ReceiptRow
  <2>5. Sealed(row) = x BY <1>2, <2>1, <2>2 DEF Sealed, Receipted
  <2> QED BY <1>2, <2>3, <2>4, <2>5
<1> QED BY <1>1, <1>2

LEMMA RestartRows ==
  ASSUME RowsTyped, Restart
  PROVE  RowsTyped' /\ Grows /\ Len(rows') = Len(rows)
<1>1. /\ Len(rows) \in Nat /\ DOMAIN rows = 1 .. Len(rows) /\ DOMAIN told = DOMAIN rows
      /\ DOMAIN ran = DOMAIN rows
      /\ \A r \in DOMAIN rows : rows[r] \in Row /\ ran[r] \in Row
  BY RowsAre
<1>2. /\ rows' = [r \in DOMAIN rows |-> Sealed(rows[r])]
      /\ ran' = [r \in DOMAIN rows |-> Sealed(ran[r])]
      /\ told' = [r \in DOMAIN rows |-> TRUE] /\ UNCHANGED lost
  BY <1>1 DEF Restart
<1>3. ASSUME NEW r \in DOMAIN rows
      PROVE  /\ rows'[r] \in Row /\ rows'[r].service = rows[r].service
             /\ rows[r].over # "no" => rows'[r] = rows[r]
             /\ rows'[r] = Sealed(rows[r])
  <2>1. rows'[r] = Sealed(rows[r]) BY <1>2
  <2> QED BY <1>1, <2>1, SealedRow
<1>4. ASSUME NEW r \in DOMAIN rows
      PROVE  /\ ran'[r] \in Row /\ ran'[r].service = ran[r].service
             /\ ran'[r].over \in Outcomes
             /\ Over(r) => ran'[r] = ran[r]
             /\ ran'[r] = Sealed(ran[r])
  <2>1. ran'[r] = Sealed(ran[r]) BY <1>2
  <2> QED BY <1>1, <2>1, SealedRow DEF Over
<1>5. rows' \in Seq(Row) /\ Len(rows') = Len(rows) /\ DOMAIN rows' = DOMAIN rows
  <2>1. rows' \in [1 .. Len(rows) -> Row] BY <1>1, <1>2, <1>3
  <2> QED BY <1>1, <2>1
<1>6. ran' \in Seq(Row) /\ Len(ran') = Len(rows)
  <2>1. ran' \in [1 .. Len(rows) -> Row] BY <1>1, <1>2, <1>4
  <2> QED BY <1>1, <2>1
<1>7. told' \in Seq(BOOLEAN) /\ Len(told') = Len(rows)
  <2>1. told' \in [1 .. Len(rows) -> BOOLEAN] BY <1>1, <1>2
  <2> QED BY <1>1, <2>1
<1>8. Grows BY <1>2, <1>3, <1>4, <1>5 DEF Grows
<1>9. Journalled'
  <2> SUFFICES ASSUME NEW r \in DOMAIN rows
               PROVE  /\ rows'[r].service = ran'[r].service
                      /\ ran'[r].over # "no"
                      /\ r \notin lost => rows'[r] = ran'[r]
    BY <1>2, <1>5 DEF Journalled, Over
  <2>1. rows[r].service = ran[r].service /\ (r \notin lost => rows[r] = ran[r])
    BY DEF RowsTyped, Journalled
  <2>2. ran'[r].over # "no" BY <1>4 DEF Outcomes
  <2> QED BY <1>3, <1>4, <2>1, <2>2
<1>10. lost' \subseteq DOMAIN rows' BY <1>2, <1>5 DEF RowsTyped
<1>11. Len(rows') <= MaxRuns BY <1>5 DEF RowsTyped
<1>12. RowsTyped' BY <1>5, <1>6, <1>7, <1>9, <1>10, <1>11 DEF RowsTyped
<1> QED BY <1>5, <1>8, <1>12

-----------------------------------------------------------------------------
(* The queues.  Every frame on its way to a reader is about a run of the   *)
(* journal, and a terminal one says how the run ended.                     *)

Reported ==
    {ev \in Event : /\ ev.run \in DOMAIN rows
                    /\ ev.over # "no" => ev.over = ran[ev.run].over}

Handlers == {"closed", "accepted", "snapshot", "streaming"}

TurnsTyped ==
    /\ pending \in [Services -> {NoRun} \cup DOMAIN rows]
    /\ turn \in [Services -> {NoRun} \cup DOMAIN rows]

QueueInv ==
    /\ conn \in [Conns -> Handlers] /\ unread \in [Conns -> SUBSET Services]
    /\ out \in [Conns -> Seq(Reported)]
    /\ ch \in [Conns -> Seq(Reported)]
    /\ wire \in [Conns -> Seq(Reported)]
    /\ \A c \in Conns : /\ Len(ch[c]) <= Buffer /\ Len(wire[c]) <= WireBound
                        /\ conn[c] # "snapshot" => unread[c] = {}
                        /\ ~Subscribed(c) => ch[c] = <<>> /\ out[c] = <<>>
    /\ dropped \subseteq Conns /\ cuts \in 0 .. MaxCuts

StreamInv == RowsTyped /\ TurnsTyped /\ QueueInv

LEMMA StreamTyped == ASSUME StreamInv PROVE StreamTypeOK
<1>1. /\ DOMAIN rows = 1 .. Len(rows) /\ told \in Seq(BOOLEAN) /\ Len(told) = Len(rows)
  BY RowsAre DEF StreamInv, RowsTyped
<1>2. told \in [DOMAIN rows -> BOOLEAN] BY <1>1, LenProperties
<1>3. Reported \subseteq Event BY DEF Reported
<1>4. \A c \in Conns : /\ out[c] \in Seq(Event) /\ ch[c] \in Seq(Event)
                       /\ wire[c] \in Seq(Event)
  BY <1>3, SeqMonotonic DEF StreamInv, QueueInv
<1>5. \A r \in DOMAIN rows : rows[r].service = Service(r)
  BY DEF StreamInv, RowsTyped, Journalled, Service
<1> QED
  BY <1>2, <1>4, <1>5 DEF StreamInv, StreamTypeOK, RowsTyped, TurnsTyped, QueueInv, Handlers

LEMMA StreamInitInv == StreamInit => StreamInv
<1> SUFFICES ASSUME StreamInit PROVE StreamInv OBVIOUS
<1>1. RowsTyped BY EmptySeq, StreamAssumption DEF StreamInit, RowsTyped, Journalled
<1>2. TurnsTyped BY DEF StreamInit, TurnsTyped
<1>3. QueueInv
  BY EmptySeq, StreamAssumption DEF StreamInit, QueueInv, Handlers, Subscribed
<1> QED BY <1>1, <1>2, <1>3 DEF StreamInv

LEMMA ReportedGrows ==
  ASSUME Grows
  PROVE  Reported \subseteq Reported'
BY DEF Grows, Reported, Over

LEMMA EventReported ==
  ASSUME RowsTyped, NEW r \in DOMAIN rows
  PROVE  /\ event(r) \in Reported
         /\ event(r).run = r /\ event(r).step = ran[r].step /\ event(r).over = ran[r].over
<1>1. r \in Ids /\ ran[r].step \in Nat /\ ran[r].over \in Outcomes \cup {"no"} BY RowsAre
<1>2. event(r) \in Event BY <1>1 DEF event, EventOf, Event
<1>3. event(r).run = r /\ event(r).step = ran[r].step /\ event(r).over = ran[r].over
  BY DEF event, EventOf
<1> QED BY <1>2, <1>3 DEF Reported

(* A frame of the snapshot is about a row that was in flight. *)
LEMMA EntryReported ==
  ASSUME RowsTyped, NEW s, NEW r \in InFlight(s)
  PROVE  /\ r \in DOMAIN rows /\ rows[r].service = s
         /\ eventFromEntry(r) \in Reported /\ eventFromEntry(r).run = r
<1>1. r \in DOMAIN rows /\ rows[r].over = "no" /\ rows[r].service = s BY DEF InFlight, Newest
<1>2. r \in Ids /\ rows[r].step \in Nat BY <1>1, RowsAre
<1>3. eventFromEntry(r) \in Event /\ eventFromEntry(r).run = r /\ eventFromEntry(r).over = "no"
  BY <1>1, <1>2 DEF eventFromEntry, EventOf, Event
<1> QED BY <1>1, <1>3 DEF Reported

LEMMA QueuesStand ==
  ASSUME QueueInv, Grows, UNCHANGED <<connVars, wire, cuts>>
  PROVE  QueueInv'
<1>1. Reported \subseteq Reported' BY ReportedGrows
<1>2. UNCHANGED <<conn, unread, out, ch, dropped, wire, cuts>> BY DEF connVars
<1>3. ASSUME NEW q \in [Conns -> Seq(Reported)] PROVE q \in [Conns -> Seq(Reported')]
  BY <1>1, <1>3, SeqMonotonic
<1>4. /\ out' \in [Conns -> Seq(Reported')] /\ ch' \in [Conns -> Seq(Reported')]
      /\ wire' \in [Conns -> Seq(Reported')]
  BY <1>2, <1>3 DEF QueueInv
<1> QED BY <1>2, <1>4 DEF QueueInv, Subscribed

LEMMA PublishQueues ==
  ASSUME RowsTyped, QueueInv, NEW r \in DOMAIN rows, publish(r)
  PROVE  QueueInv'
<1>1. UNCHANGED <<ran, rows, conn, unread, out, wire, cuts>> BY DEF publish, journalVars
<1>2. Reported' = Reported BY <1>1 DEF Reported
<1>3. event(r) \in Reported BY EventReported
<1>4. ASSUME NEW c \in Conns
      PROVE  /\ ch'[c] \in Seq(Reported) /\ Len(ch'[c]) <= Buffer
             /\ ~Subscribed(c) => ch'[c] = <<>>
  <2>1. ch'[c] = IF Subscribed(c) /\ Room(c) THEN Append(ch[c], event(r)) ELSE ch[c]
    BY <1>4 DEF publish
  <2>2. ch[c] \in Seq(Reported) /\ Len(ch[c]) <= Buffer BY <1>4 DEF QueueInv
  <2>3. /\ Append(ch[c], event(r)) \in Seq(Reported)
        /\ Len(Append(ch[c], event(r))) = Len(ch[c]) + 1
    BY <1>3, <2>2, AppendProperties
  <2>4. Room(c) => Len(ch[c]) + 1 <= Buffer BY <2>2, StreamAssumption, LenProperties DEF Room
  <2>5. ~Subscribed(c) => ch[c] = <<>> BY <1>4 DEF QueueInv
  <2> QED BY <2>1, <2>2, <2>3, <2>4, <2>5
<1>5. ch' \in [Conns -> Seq(Reported)] BY <1>4 DEF publish
<1>6. dropped' \subseteq Conns BY DEF publish, QueueInv
<1> QED BY <1>1, <1>2, <1>4, <1>5, <1>6 DEF QueueInv, Subscribed

LEMMA CloseQueues ==
  ASSUME QueueInv, NEW c \in Conns, Close(c), cuts' \in 0 .. MaxCuts,
         UNCHANGED wire \/ wire' = [wire EXCEPT ![c] = <<>>]
  PROVE  QueueInv'
<1>1. UNCHANGED <<ran, rows>> BY DEF Close, runVars, journalVars
<1>2. Reported' = Reported BY <1>1 DEF Reported
<1>3. /\ conn' = [conn EXCEPT ![c] = "closed"] /\ unread' = [unread EXCEPT ![c] = {}]
      /\ out' = [out EXCEPT ![c] = <<>>] /\ ch' = [ch EXCEPT ![c] = <<>>]
      /\ dropped' = dropped \ {c}
  BY DEF Close
<1>4. <<>> \in Seq(Reported) /\ Len(<<>>) = 0 OBVIOUS
<1>5. wire' \in [Conns -> Seq(Reported)] /\ \A d \in Conns : Len(wire'[d]) <= WireBound
  <2>1. CASE UNCHANGED wire BY <2>1 DEF QueueInv
  <2>2. CASE wire' = [wire EXCEPT ![c] = <<>>]
    <3>1. 0 <= WireBound BY StreamAssumption
    <3> QED BY <1>4, <2>2, <3>1 DEF QueueInv
  <2> QED BY <2>1, <2>2
<1>6. \A d \in Conns : Len(ch'[d]) <= Buffer
  <2>1. 0 <= Buffer BY StreamAssumption
  <2> QED BY <1>3, <1>4, <2>1 DEF QueueInv
<1> QED BY <1>2, <1>3, <1>4, <1>5, <1>6 DEF QueueInv, Handlers, Subscribed

LEMMA RestartQueues ==
  ASSUME QueueInv, Grows, Restart
  PROVE  QueueInv'
<1>1. Reported \subseteq Reported' BY ReportedGrows
<1>2. wire' \in [Conns -> Seq(Reported')]
  BY <1>1, SeqMonotonic DEF QueueInv, Restart
<1>3. <<>> \in Seq(Reported') /\ Len(<<>>) = 0 OBVIOUS
<1>4. /\ conn' = [c \in Conns |-> "closed"] /\ unread' = [c \in Conns |-> {}]
      /\ out' = [c \in Conns |-> <<>>] /\ ch' = [c \in Conns |-> <<>>]
      /\ dropped' = {} /\ UNCHANGED wire
  BY DEF Restart
<1>5. cuts' \in 0 .. MaxCuts
  <2>1. cuts \in 0 .. MaxCuts /\ cuts < MaxCuts /\ cuts' = cuts + 1 BY DEF QueueInv, Restart
  <2> QED BY <2>1, StreamAssumption
<1>6. out' \in [Conns -> Seq(Reported')] /\ ch' \in [Conns -> Seq(Reported')]
  BY <1>3, <1>4
<1>7. \A c \in Conns : Len(ch'[c]) <= Buffer /\ Len(wire'[c]) <= WireBound
  BY <1>3, <1>4, StreamAssumption DEF QueueInv
<1> QED
  BY <1>2, <1>4, <1>5, <1>6, <1>7 DEF QueueInv, Handlers, Subscribed

LEMMA ReadQueues ==
  ASSUME QueueInv, NEW c \in Conns, Read(c)
  PROVE  QueueInv'
<1>1. UNCHANGED <<ran, rows, conn, unread, out, ch, dropped, cuts>>
  BY DEF Read, runVars, journalVars, connVars
<1>2. Reported' = Reported BY <1>1 DEF Reported
<1>3. wire[c] \in Seq(Reported) /\ wire[c] # <<>> /\ wire' = [wire EXCEPT ![c] = Tail(wire[c])]
  BY DEF QueueInv, Read
<1>4. Tail(wire[c]) \in Seq(Reported) /\ Len(Tail(wire[c])) = Len(wire[c]) - 1
  BY <1>3, HeadTailProperties
<1>5. Len(Tail(wire[c])) <= WireBound
  BY <1>3, <1>4, StreamAssumption, LenProperties DEF QueueInv
<1> QED BY <1>1, <1>2, <1>3, <1>4, <1>5 DEF QueueInv, Subscribed

LEMMA ServeQueues ==
  ASSUME RowsTyped, QueueInv, NEW c \in Conns, Serve(c)
  PROVE  QueueInv' /\ UNCHANGED <<runVars, dropped, cuts>>
<1>1. UNCHANGED <<runVars, dropped, cuts>>
  BY DEF Serve, subscribe, snapshotEvents, writeFrame
<1>2. Reported' = Reported BY <1>1 DEF Reported, runVars, journalVars
<1>3. CASE subscribe(c)
  BY <1>1, <1>2, <1>3 DEF QueueInv, Handlers, Subscribed, subscribe
<1>4. CASE snapshotEvents(c)
  <2>1. UNCHANGED <<ch, wire, cuts>> /\ conn[c] = "snapshot" BY <1>4 DEF snapshotEvents
  <2>2. CASE UNCHANGED <<unread, out>> /\ unread[c] = {} /\ conn' = [conn EXCEPT ![c] = "streaming"]
    BY <1>1, <1>2, <2>1, <2>2 DEF QueueInv, Handlers, Subscribed
  <2>3. ASSUME NEW s \in unread[c], unread' = [unread EXCEPT ![c] = @ \ {s}], UNCHANGED conn,
               \/ UNCHANGED out
               \/ \E r \in InFlight(s) : out' = [out EXCEPT ![c] = Append(@, eventFromEntry(r))]
        PROVE  QueueInv'
    <3>1. out' \in [Conns -> Seq(Reported)] /\ \A d \in Conns \ {c} : out'[d] = out[d]
      <4>1. CASE UNCHANGED out BY <4>1 DEF QueueInv
      <4>2. ASSUME NEW r \in InFlight(s), out' = [out EXCEPT ![c] = Append(@, eventFromEntry(r))]
            PROVE  out' \in [Conns -> Seq(Reported)] /\ \A d \in Conns \ {c} : out'[d] = out[d]
        <5>1. eventFromEntry(r) \in Reported BY <4>2, EntryReported
        <5>2. Append(out[c], eventFromEntry(r)) \in Seq(Reported)
          BY <5>1, AppendProperties DEF QueueInv
        <5> QED BY <4>2, <5>2 DEF QueueInv
      <4> QED BY <2>3, <4>1, <4>2
    <3>2. unread' \in [Conns -> SUBSET Services] /\ \A d \in Conns \ {c} : unread'[d] = unread[d]
      BY <2>3 DEF QueueInv
    <3> QED BY <1>1, <1>2, <2>1, <2>3, <3>1, <3>2 DEF QueueInv, Subscribed
  <2> QED BY <1>4, <2>2, <2>3 DEF snapshotEvents
<1>5. CASE writeFrame(c)
  <2>1. /\ UNCHANGED <<conn, unread, cuts>> /\ conn[c] = "streaming"
        /\ Len(wire[c]) < WireBound
    BY <1>5 DEF writeFrame
  <2>2. /\ out[c] \in Seq(Reported) /\ ch[c] \in Seq(Reported) /\ wire[c] \in Seq(Reported)
        /\ Len(ch[c]) <= Buffer /\ Len(ch[c]) \in Nat /\ Len(wire[c]) \in Nat
    BY LenProperties DEF QueueInv
  <2>3. ASSUME NEW ev \in Reported, wire' = [wire EXCEPT ![c] = Append(wire[c], ev)]
        PROVE  wire' \in [Conns -> Seq(Reported)] /\ \A d \in Conns : Len(wire'[d]) <= WireBound
    <3>1. Append(wire[c], ev) \in Seq(Reported) /\ Len(Append(wire[c], ev)) = Len(wire[c]) + 1
      BY <2>2, <2>3, AppendProperties
    <3>2. Len(Append(wire[c], ev)) <= WireBound BY <2>1, <2>2, <3>1, StreamAssumption
    <3> QED BY <2>3, <3>1, <3>2 DEF QueueInv
  <2>4. CASE /\ out[c] # <<>>
             /\ wire' = [wire EXCEPT ![c] = Append(@, Head(out[c]))]
             /\ out' = [out EXCEPT ![c] = Tail(@)] /\ UNCHANGED ch
    <3>1. Head(out[c]) \in Reported /\ Tail(out[c]) \in Seq(Reported)
      BY <2>2, <2>4, HeadTailProperties
    <3>2. out' \in [Conns -> Seq(Reported)] /\ \A d \in Conns \ {c} : out'[d] = out[d]
      BY <2>4, <3>1 DEF QueueInv
    <3>3. wire' \in [Conns -> Seq(Reported)] /\ \A d \in Conns : Len(wire'[d]) <= WireBound
      BY <2>3, <2>4, <3>1
    <3> QED BY <1>1, <1>2, <2>1, <2>4, <3>2, <3>3 DEF QueueInv, Subscribed
  <2>5. CASE /\ out[c] = <<>> /\ ch[c] # <<>>
             /\ wire' = [wire EXCEPT ![c] = Append(@, Head(ch[c]))]
             /\ ch' = [ch EXCEPT ![c] = Tail(@)] /\ UNCHANGED out
    <3>1. /\ Head(ch[c]) \in Reported /\ Tail(ch[c]) \in Seq(Reported)
          /\ Len(Tail(ch[c])) = Len(ch[c]) - 1
      BY <2>2, <2>5, HeadTailProperties
    <3>2. /\ ch' \in [Conns -> Seq(Reported)] /\ \A d \in Conns \ {c} : ch'[d] = ch[d]
          /\ ch'[c] = Tail(ch[c])
      BY <2>5, <3>1 DEF QueueInv
    <3>3. Len(ch'[c]) <= Buffer BY <2>2, <3>1, <3>2, StreamAssumption
    <3>4. wire' \in [Conns -> Seq(Reported)] /\ \A d \in Conns : Len(wire'[d]) <= WireBound
      BY <2>3, <2>5, <3>1
    <3> QED BY <1>1, <1>2, <2>1, <2>5, <3>2, <3>3, <3>4 DEF QueueInv, Subscribed
  <2> QED BY <1>5, <2>4, <2>5 DEF writeFrame
<1> QED BY <1>1, <1>3, <1>4, <1>5 DEF Serve

LEMMA ConnectionQueues ==
  ASSUME RowsTyped, QueueInv, NEW c \in Conns, Connection(c)
  PROVE  QueueInv' /\ UNCHANGED runVars
<1>1. CASE Accept(c)
  <2>1. /\ UNCHANGED <<runVars, unread, out, ch, dropped, wire, cuts>>
        /\ conn' = [conn EXCEPT ![c] = "accepted"] /\ conn[c] = "closed"
    BY <1>1 DEF Accept
  <2>2. Reported' = Reported BY <2>1 DEF Reported, runVars, journalVars
  <2> QED BY <2>1, <2>2 DEF QueueInv, Handlers, Subscribed
<1>2. CASE Serve(c) BY <1>2, ServeQueues
<1>3. CASE Disconnect(c)
  <2>1. cuts' \in 0 .. MaxCuts
    <3>1. cuts \in 0 .. MaxCuts /\ cuts < MaxCuts /\ cuts' = cuts + 1
      BY <1>3 DEF Disconnect, QueueInv
    <3> QED BY <3>1, StreamAssumption
  <2> QED BY <1>3, <2>1, CloseQueues DEF Disconnect, Close
<1>4. CASE Read(c) BY <1>4, ReadQueues DEF Read
<1>5. CASE Close(c) /\ wire' = [wire EXCEPT ![c] = <<>>] /\ UNCHANGED cuts
  <2>1. cuts' \in 0 .. MaxCuts BY <1>5 DEF QueueInv
  <2> QED BY <1>5, <2>1, CloseQueues DEF Close
<1> QED BY <1>1, <1>2, <1>3, <1>4, <1>5 DEF Connection

-----------------------------------------------------------------------------
(* Every move of the stream keeps all that, and lets the journal grow.     *)

LEMMA TurnsGrow ==
  ASSUME TurnsTyped, Grows,
         pending' \in [Services -> {NoRun} \cup DOMAIN rows'],
         turn' \in [Services -> {NoRun} \cup DOMAIN rows']
  PROVE  TurnsTyped'
BY DEF TurnsTyped

LEMMA RunKeeps ==
  ASSUME StreamInv, NEW r \in DOMAIN rows, Run(r)
  PROVE  StreamInv' /\ Grows /\ DOMAIN rows' = DOMAIN rows
<1>1. /\ RowsTyped /\ TurnsTyped /\ QueueInv /\ ran[r].service \in Services
      /\ DOMAIN rows = 1 .. Len(rows)
  BY RowsAre DEF StreamInv
<1>2. UNCHANGED <<pending, turn>> /\ DOMAIN rows' = DOMAIN rows => TurnsTyped'
  BY <1>1 DEF TurnsTyped
<1>3. UNCHANGED <<ran, rows, lost>> => Grows /\ (UNCHANGED told => RowsTyped')
  BY <1>1, RowsRest
<1>4. Moves(r) => DOMAIN rows' = DOMAIN rows
  BY <1>1, LenProperties DEF Moves, RowsTyped
<1>5. CASE TakeTurn(r)
  <2>1. /\ UNCHANGED <<ran, rows, lost, told, pending, connVars, wire, cuts>>
        /\ turn' = [turn EXCEPT ![ran[r].service] = r]
    BY <1>5 DEF TakeTurn, Service, journalVars
  <2>2. RowsTyped' BY <1>3, <2>1
  <2>3. TurnsTyped' BY <1>1, <2>1 DEF TurnsTyped
  <2> QED BY <1>1, <1>3, <2>1, <2>2, <2>3, QueuesStand DEF StreamInv
<1>6. CASE emit(r)
  <2>1. UNCHANGED <<pending, turn, connVars, wire, cuts>> BY <1>6 DEF emit, Transition
  <2>2. Moves(r) /\ Grows BY <1>1, <1>6, EmitRows
  <2> QED BY <1>1, <1>2, <1>4, <2>1, <2>2, QueuesStand DEF StreamInv, Moves
<1>7. CASE finish(r)
  <2>1. UNCHANGED <<pending, turn, connVars, wire, cuts>> BY <1>7 DEF finish, Transition
  <2>2. Moves(r) /\ Grows BY <1>1, <1>7, FinishRows
  <2> QED BY <1>1, <1>2, <1>4, <2>1, <2>2, QueuesStand DEF StreamInv, Moves
<1>8. CASE publish(r)
  <2>1. UNCHANGED <<ran, rows, lost, pending, turn>> BY <1>8 DEF publish, journalVars
  <2> QED BY <1>1, <1>2, <1>3, <1>8, <2>1, PublishRows, PublishQueues DEF StreamInv
<1>9. CASE Leave(r)
  <2>1. UNCHANGED <<ran, rows, lost, told, connVars, wire, cuts>>
    BY <1>9 DEF Leave, journalVars
  <2>2. RowsTyped' BY <1>3, <2>1
  <2>3. TurnsTyped' BY <1>1, <1>9, <2>1 DEF TurnsTyped, Leave, Service
  <2> QED BY <1>1, <1>3, <2>1, <2>2, <2>3, QueuesStand DEF StreamInv
<1> QED BY <1>5, <1>6, <1>7, <1>8, <1>9 DEF Run

LEMMA BeginKeeps ==
  ASSUME StreamInv, NEW s \in Services, Begin(s)
  PROVE  StreamInv' /\ Grows
<1>1. RowsTyped /\ TurnsTyped /\ QueueInv BY DEF StreamInv
<1>2. /\ UNCHANGED <<turn, connVars, wire, cuts>>
      /\ pending' = IF pending[s] = NoRun
                    THEN [pending EXCEPT ![s] = Len(rows) + 1] ELSE pending
  BY DEF Begin
<1>3. RowsTyped' /\ Grows /\ Len(rows') = Len(rows) + 1 BY <1>1, BeginRows
<1>4. /\ DOMAIN rows = 1 .. Len(rows) /\ DOMAIN rows' = 1 .. Len(rows')
      /\ Len(rows) \in Nat
  BY <1>1, <1>3, LenProperties DEF RowsTyped
<1>5. Len(rows) + 1 \in DOMAIN rows' /\ DOMAIN rows \subseteq DOMAIN rows' BY <1>3, <1>4
<1>6. TurnsTyped' BY <1>1, <1>2, <1>5 DEF TurnsTyped
<1> QED BY <1>1, <1>2, <1>3, <1>6, QueuesStand DEF StreamInv

LEMMA RestartKeeps ==
  ASSUME StreamInv, Restart
  PROVE  StreamInv' /\ Grows
<1>1. RowsTyped /\ QueueInv BY DEF StreamInv
<1>2. RowsTyped' /\ Grows BY <1>1, RestartRows
<1>3. TurnsTyped' BY DEF Restart, TurnsTyped
<1> QED BY <1>1, <1>2, <1>3, RestartQueues DEF StreamInv

LEMMA ConnectionKeeps ==
  ASSUME StreamInv, NEW c \in Conns, Connection(c)
  PROVE  StreamInv' /\ Grows
<1>1. RowsTyped /\ TurnsTyped /\ QueueInv BY DEF StreamInv
<1>2. QueueInv' /\ UNCHANGED <<ran, rows, lost, told, pending, turn>>
  BY <1>1, ConnectionQueues DEF runVars, journalVars
<1>3. Grows /\ RowsTyped' BY <1>1, <1>2, RowsRest
<1> QED BY <1>1, <1>2, <1>3 DEF StreamInv, TurnsTyped

LEMMA StreamMoveKeeps ==
  ASSUME StreamInv, StreamMove
  PROVE  StreamInv' /\ Grows
BY RunKeeps, BeginKeeps, RestartKeeps, ConnectionKeeps DEF StreamMove, Runs

LEMMA StreamRests ==
  ASSUME StreamInv, UNCHANGED streamVars
  PROVE  StreamInv' /\ Grows
<1>1. UNCHANGED <<ran, rows, lost, told, pending, turn>> /\ UNCHANGED <<connVars, wire, cuts>>
  BY DEF streamVars, runVars, journalVars
<1>2. Grows BY <1>1, RowsRest DEF StreamInv
<1>3. RowsTyped' /\ TurnsTyped' BY <1>1, RowsRest DEF StreamInv, TurnsTyped
<1> QED BY <1>1, <1>2, <1>3, QueuesStand DEF StreamInv

-----------------------------------------------------------------------------
(* What a reader still has ahead of it.  Silent: nothing about a run.      *)
(* LastSays: the last frame about it, if there is one, names this step.    *)
(* EndsIn: a frame says it is over.                                        *)

Silent(q, r) == \A i \in DOMAIN q : q[i].run # r
LastSays(q, r, step) ==
    \A i \in DOMAIN q :
        q[i].run = r /\ (\A j \in DOMAIN q : j > i => q[j].run # r) => q[i].step = step
EndsIn(q, r) == \E i \in DOMAIN q : q[i].run = r /\ q[i].over # "no"

LEMMA EmptySays ==
  ASSUME NEW r, NEW step
  PROVE  Silent(<<>>, r) /\ LastSays(<<>>, r, step) /\ ~EndsIn(<<>>, r)
BY DEF Silent, LastSays, EndsIn

LEMMA SilentSays ==
  ASSUME NEW q, NEW r, NEW step, Silent(q, r)
  PROVE  LastSays(q, r, step)
BY DEF Silent, LastSays

LEMMA AppendTells ==
  ASSUME NEW S, NEW q \in Seq(S), NEW ev \in S, NEW r
  PROVE  /\ Silent(Append(q, ev), r) => Silent(q, r) /\ ev.run # r
         /\ EndsIn(q, r) => EndsIn(Append(q, ev), r)
         /\ ev.run = r /\ ev.over # "no" => EndsIn(Append(q, ev), r)
<1> PICK p : p = Append(q, ev) OBVIOUS
<1>1. /\ DOMAIN q = 1 .. Len(q) /\ Len(q) \in Nat /\ DOMAIN p = 1 .. Len(q) + 1
      /\ p[Len(q) + 1] = ev /\ \A i \in 1 .. Len(q) : p[i] = q[i]
  BY AppendProperties, LenProperties
<1>2. Silent(p, r) => Silent(q, r) /\ ev.run # r BY <1>1 DEF Silent
<1>3. EndsIn(q, r) => EndsIn(p, r) BY <1>1 DEF EndsIn
<1>4. ev.run = r /\ ev.over # "no" => EndsIn(p, r) BY <1>1 DEF EndsIn
<1> QED BY <1>2, <1>3, <1>4

LEMMA AppendSays ==
  ASSUME NEW S, NEW q \in Seq(S), NEW ev \in S, NEW r, NEW step
  PROVE  /\ ev.run = r /\ ev.step = step => LastSays(Append(q, ev), r, step)
         /\ ev.run # r /\ LastSays(q, r, step) => LastSays(Append(q, ev), r, step)
<1> PICK p : p = Append(q, ev) OBVIOUS
<1>1. /\ DOMAIN q = 1 .. Len(q) /\ Len(q) \in Nat /\ DOMAIN p = 1 .. Len(q) + 1
      /\ p[Len(q) + 1] = ev /\ \A i \in 1 .. Len(q) : p[i] = q[i]
  BY AppendProperties, LenProperties
<1>2. ASSUME ev.run = r, ev.step = step PROVE LastSays(p, r, step)
  <2> SUFFICES ASSUME NEW i \in DOMAIN p, p[i].run = r,
                      \A j \in DOMAIN p : j > i => p[j].run # r
               PROVE  p[i].step = step
    BY DEF LastSays
  <2>1. ~(Len(q) + 1 > i) BY <1>1, <1>2
  <2>2. i = Len(q) + 1 BY <1>1, <2>1
  <2> QED BY <1>1, <1>2, <2>2
<1>3. ASSUME ev.run # r, LastSays(q, r, step) PROVE LastSays(p, r, step)
  <2> SUFFICES ASSUME NEW i \in DOMAIN p, p[i].run = r,
                      \A j \in DOMAIN p : j > i => p[j].run # r
               PROVE  p[i].step = step
    BY DEF LastSays
  <2>1. i \in DOMAIN q /\ p[i] = q[i] BY <1>1, <1>3
  <2>2. \A j \in DOMAIN q : j > i => q[j].run # r BY <1>1
  <2> QED BY <1>3, <2>1, <2>2 DEF LastSays
<1> QED BY <1>2, <1>3

LEMMA TailTells ==
  ASSUME NEW S, NEW q \in Seq(S), q # <<>>, NEW r
  PROVE  /\ Silent(Tail(q), r) /\ Head(q).run # r => Silent(q, r)
         /\ EndsIn(q, r) => EndsIn(Tail(q), r) \/ (Head(q).run = r /\ Head(q).over # "no")
<1> PICK p : p = Tail(q) OBVIOUS
<1>1. /\ DOMAIN q = 1 .. Len(q) /\ Len(q) \in Nat \ {0} /\ DOMAIN p = 1 .. Len(q) - 1
      /\ Head(q) = q[1] /\ \A i \in 1 .. Len(q) - 1 : p[i] = q[i + 1]
  BY HeadTailProperties, LenProperties, EmptySeq
<1>2. \A i \in DOMAIN q : i = 1 \/ (i - 1 \in DOMAIN p /\ p[i - 1] = q[i]) BY <1>1
<1>3. Silent(p, r) /\ Head(q).run # r => Silent(q, r) BY <1>1, <1>2 DEF Silent
<1>4. EndsIn(q, r) => EndsIn(p, r) \/ (Head(q).run = r /\ Head(q).over # "no")
  BY <1>1, <1>2 DEF EndsIn
<1> QED BY <1>3, <1>4

LEMMA TailSays ==
  ASSUME NEW S, NEW q \in Seq(S), q # <<>>, NEW r, NEW step
  PROVE  LastSays(q, r, step) => LastSays(Tail(q), r, step)
<1> PICK p : p = Tail(q) OBVIOUS
<1>1. /\ DOMAIN q = 1 .. Len(q) /\ Len(q) \in Nat \ {0} /\ DOMAIN p = 1 .. Len(q) - 1
      /\ Head(q) = q[1] /\ \A i \in 1 .. Len(q) - 1 : p[i] = q[i + 1]
  BY HeadTailProperties, LenProperties, EmptySeq
<1>2. \A i \in DOMAIN q : i = 1 \/ (i - 1 \in DOMAIN p /\ p[i - 1] = q[i]) BY <1>1
<1>3. ASSUME LastSays(q, r, step) PROVE LastSays(p, r, step)
  <2> SUFFICES ASSUME NEW i \in DOMAIN p, p[i].run = r,
                      \A j \in DOMAIN p : j > i => p[j].run # r
               PROVE  p[i].step = step
    BY DEF LastSays
  <2>1. i + 1 \in DOMAIN q /\ q[i + 1] = p[i] BY <1>1
  <2>2. ASSUME NEW j \in DOMAIN q, j > i + 1 PROVE q[j].run # r
    <3>1. j - 1 \in DOMAIN p /\ p[j - 1] = q[j] /\ j - 1 > i BY <1>1, <1>2, <2>2
    <3> QED BY <3>1
  <2> QED BY <1>3, <2>1, <2>2 DEF LastSays
<1> QED BY <1>3

(* A frame of a run that none of the run's follows is the newest. *)
LEMMA HeadSays ==
  ASSUME NEW S, NEW q \in Seq(S), q # <<>>, NEW r, NEW step,
         Silent(Tail(q), r), Head(q).run = r, LastSays(q, r, step)
  PROVE  Head(q).step = step
<1> PICK p : p = Tail(q) OBVIOUS
<1>1. /\ DOMAIN q = 1 .. Len(q) /\ Len(q) \in Nat \ {0} /\ DOMAIN p = 1 .. Len(q) - 1
      /\ Head(q) = q[1] /\ \A i \in 1 .. Len(q) - 1 : p[i] = q[i + 1]
  BY HeadTailProperties, LenProperties, EmptySeq
<1>2. \A i \in DOMAIN q : i = 1 \/ (i - 1 \in DOMAIN p /\ p[i - 1] = q[i]) BY <1>1
<1>3. ASSUME NEW j \in DOMAIN q, j > 1 PROVE q[j].run # r
  <2>1. j - 1 \in DOMAIN p /\ p[j - 1] = q[j] BY <1>1, <1>2, <1>3
  <2> QED BY <2>1 DEF Silent
<1> QED BY <1>1, <1>3 DEF LastSays
=============================================================================

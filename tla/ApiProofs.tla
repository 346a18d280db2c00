----------------------------- MODULE ApiProofs -----------------------------
(***************************************************************************)
(* Proofs of safety properties of the HTTP API: first of authorization,    *)
(* which is a matter of one request and one file, then of what is answered *)
(* for want of a copy of main.                                             *)
(***************************************************************************)
EXTENDS Api, TLAPS

-----------------------------------------------------------------------------
(* Authorization, over all files of up to two lines and all requests.      *)

LEMMA FilesHaveLines ==
  ASSUME NEW file \in Files, file.there
  PROVE  /\ DOMAIN file.lines \subseteq 1 .. 2
         /\ \A i \in DOMAIN file.lines : file.lines[i] \in Lines
<1>1. file \in [there : {TRUE}, lines : SeqOf(Lines, 2)] BY DEF Files
<1>2. PICK m \in 0 .. 2 : file.lines \in [1 .. m -> Lines] BY <1>1 DEF SeqOf
<1> QED BY <1>2

(* The first of some lines among two is one of them. *)
LEMMA MinIsIn ==
  ASSUME NEW S, S \subseteq 1 .. 2, S # {}
  PROVE  Min(S) \in S
<1>1. \E x \in S : \A y \in S : x =< y
  <2>1. CASE 1 \in S BY <2>1
  <2>2. CASE 1 \notin S
    <3>1. \A x \in S : x = 2 BY <2>2
    <3>2. PICK x \in S : TRUE OBVIOUS
    <3> QED BY <3>1, <3>2
  <2> QED BY <2>1, <2>2
<1> QED BY <1>1 DEF Min

(* A line that parses allows what it was meant to allow, and no more,      *)
(* unless it was meant to scope and has no field that looks so.            *)
Unmarked(line) == ~line.meant.any /\ \A i \in DOMAIN line.fields : line.fields[i].looks = "label"
LEMMA LineIsMeant ==
  ASSUME NEW line \in Lines, WellFormed(line), NEW action \in knownActions,
         allows(parseTokenLine(line), action)
  PROVE  allows(line.meant, action) \/ Unmarked(line)
<1>1. CASE line.meant = Unscoped BY <1>1 DEF Unscoped, allows
<1>2. ASSUME NEW actions \in SUBSET knownActions,
             line.fields \in Typed(actions), line.meant = Only(actions)
      PROVE  allows(line.meant, action) \/ Unmarked(line)
  <2>1. CASE line.fields \in {<<ScopeField(actions)>>, <<Label, ScopeField(actions)>>}
    <3>1. line.fields # <<>> /\ Last(line.fields) = ScopeField(actions)
      BY <2>1 DEF Last
    <3>2. parseTokenLine(line) = Only(actions)
      BY <3>1 DEF parseTokenLine, ScopeField, parseScope
    <3> QED BY <1>2, <3>2
  <2>2. CASE line.fields = <<ScopeField(actions), Label>>
    BY <2>2 DEF WellFormed, ScopeField
  <2>3. CASE line.fields \in {<<Near>>, <<Near, Label>>, <<Label, Near>>}
    BY <2>3 DEF WellFormed, Near, Label
  <2>4. ASSUME NEW a \in actions, line.fields = <<ScopeField((actions \ {a}) \cup {Typo})>>
        PROVE  FALSE
    <3>1. 1 \in DOMAIN line.fields /\ line.fields[1] = ScopeField((actions \ {a}) \cup {Typo})
      BY <2>4
    <3>2. parseScope((actions \ {a}) \cup {Typo}).ok
      BY <3>1 DEF WellFormed, ScopeField
    <3> QED BY <3>2, AccessAssumption DEF parseScope
  <2>5. CASE line.fields \in Unnoticed
    BY <1>2, <2>5 DEF Unnoticed, Unmarked, Label, Only
  <2> QED BY <1>2, <2>1, <2>2, <2>3, <2>4, <2>5 DEF Typed, Noticed
<1>3. \/ line.meant = Unscoped
      \/ \E actions \in SUBSET knownActions :
            line.fields \in Typed(actions) /\ line.meant = Only(actions)
  BY DEF Lines, knownActions
<1> QED BY <1>1, <1>2, <1>3

(* A bearer the file lets act was meant to, or its line slipped. *)
LEMMA BearerIsMeant ==
  ASSUME NEW file \in Files, NEW token, NEW action \in knownActions,
         matchToken(file, token).ok, allows(matchToken(file, token).scope, action)
  PROVE  \/ \E i \in DOMAIN file.lines :
               file.lines[i].token = token /\ allows(file.lines[i].meant, action)
         \/ LinesOf(file, token) # {} /\ Unmarked(LineOf(file, token))
<1> DEFINE its == LinesOf(file, token)
<1>1. ~Refused.ok BY DEF Refused
<1>2. /\ parseTokenHashFile(file).ok /\ its # {}
      /\ matchToken(file, token) = Admitted(parseTokenLine(LineOf(file, token)))
  BY <1>1 DEF matchToken
<1>3. file.there /\ \A i \in DOMAIN file.lines : WellFormed(file.lines[i])
  BY <1>2 DEF parseTokenHashFile
<1>4. Min(its) \in its
  <2>1. its \subseteq 1 .. 2 BY <1>3, FilesHaveLines DEF LinesOf
  <2> QED BY <1>2, <2>1, MinIsIn
<1>5. matchToken(file, token).scope = parseTokenLine(LineOf(file, token))
  BY <1>2 DEF Admitted
<1>6. Min(its) \in DOMAIN file.lines /\ LineOf(file, token).token = token
  BY <1>4 DEF LinesOf, LineOf
<1>7. LineOf(file, token) \in Lines /\ WellFormed(LineOf(file, token))
  BY <1>3, <1>6, FilesHaveLines DEF LineOf
<1>8. allows(parseTokenLine(LineOf(file, token)), action) BY <1>5
<1>9. allows(LineOf(file, token).meant, action) \/ Unmarked(LineOf(file, token))
  BY <1>7, <1>8, LineIsMeant
<1> QED BY <1>2, <1>6, <1>9 DEF LineOf

(* Nobody has the browser's identity but whom the proxy let in. *)
LEMMA IdentityIsVouched ==
  ASSUME NEW r \in Requests
  PROVE  identity(r) <=> r.proxied /\ r.listed
BY DEF identity, Requests

LEMMA AdmittedAllows ==
  /\ ~Refused.ok
  /\ \A action : Authorised(Admitted(Unscoped), action)
  /\ Admitted(Unscoped).ok
BY DEF Refused, Admitted, Unscoped, allows, Authorised

(* Whoever may act was meant to, or has a line that slipped. *)
LEMMA AuthorisedIsMeant ==
  ASSUME NEW r \in Requests, NEW file \in Files, NEW proxy, NEW action \in knownActions,
         actor(r, file, proxy).ok, allows(actor(r, file, proxy).scope, action)
  PROVE  Meant(r, file, action) \/ Slipped(r, file)
<1>1. CASE r.bearer # "none"
  <2>1. actor(r, file, proxy) = matchToken(file, r.bearer) BY <1>1 DEF actor
  <2>2. matchToken(file, r.bearer).ok /\ allows(matchToken(file, r.bearer).scope, action)
    BY <2>1
  <2>3. \/ \E i \in DOMAIN file.lines :
               file.lines[i].token = r.bearer /\ allows(file.lines[i].meant, action)
        \/ LinesOf(file, r.bearer) # {} /\ Unmarked(LineOf(file, r.bearer))
    BY <2>2, BearerIsMeant
  <2> QED BY <1>1, <2>3 DEF Meant, Slipped, Unmarked
<1>2. CASE r.bearer = "none"
  <2>1. actor(r, file, proxy) = IF proxy = "open" /\ identity(r) THEN Admitted(Unscoped) ELSE Refused
    BY <1>2 DEF actor
  <2>2. identity(r) BY <2>1, AdmittedAllows
  <2> QED BY <1>2, <2>2, IdentityIsVouched DEF Meant
<1> QED BY <1>1, <1>2

(* Whom the proxy vouches for may do everything. *)
LEMMA VouchedIsAllowed ==
  ASSUME NEW r \in Requests, NEW file, NEW proxy, NEW action, Vouched(r, proxy)
  PROVE  /\ actor(r, file, proxy).ok
         /\ Authorised(actor(r, file, proxy), action)
<1>1. proxy = "open" /\ r.bearer = "none" /\ identity(r)
  BY IdentityIsVouched DEF Vouched
<1>2. actor(r, file, proxy) = Admitted(Unscoped) BY <1>1 DEF actor
<1> QED BY <1>2, AdmittedAllows

LEMMA VerdictsAreRight ==
  \A v \in Verdicts : /\ v.allowed => v.meant \/ v.slipped
                      /\ v.vouched => v.known /\ v.allowed
<1> SUFFICES ASSUME NEW v \in Verdicts
             PROVE  /\ v.allowed => v.meant \/ v.slipped
                    /\ v.vouched => v.known /\ v.allowed
  OBVIOUS
<1>1. PICK r \in Requests : v \in VerdictsOn(r) BY DEF Verdicts
<1>2. PICK c \in Circumstances : v = Verdict(r, c[1], c[2], c[3]) BY <1>1 DEF VerdictsOn
<1>3. PICK file \in Files, proxy \in {"open", "closed"}, action \in knownActions \cup {"no action"} :
        v = Verdict(r, file, proxy, action)
  BY <1>2 DEF Circumstances
<1> DEFINE judged == actor(r, file, proxy)
<1>4. /\ v.known = judged.ok
      /\ v.allowed = Authorised(judged, action)
      /\ v.meant = (action = "no action" \/ Meant(r, file, action))
      /\ v.slipped = (action # "no action" /\ ~Meant(r, file, action) /\ Slipped(r, file))
      /\ v.vouched = Vouched(r, proxy)
  BY <1>3, Zenon DEF Verdict
<1>5. Authorised(judged, action) =>
        action = "no action" \/ Meant(r, file, action) \/ Slipped(r, file)
  BY AuthorisedIsMeant, Zenon DEF Authorised
<1>6. Vouched(r, proxy) => judged.ok /\ Authorised(judged, action)
  BY VouchedIsAllowed, Zenon
<1> QED BY <1>4, <1>5, <1>6, Zenon

-----------------------------------------------------------------------------
(* The request under way.  It is a record whose fields change a few at a   *)
(* time, and so is its row.                                                *)

RowShape(row) ==
    row = [service |-> row.service, manifest |-> row.manifest, running |-> row.running,
           latest |-> row.latest, poll |-> row.poll, flight |-> row.flight, seen |-> row.seen]
Shape ==
    /\ request = [at |-> request.at, ask |-> request.ask, service |-> request.service,
                  action |-> request.action, digest |-> request.digest,
                  meant |-> request.meant, slipped |-> request.slipped,
                  vouched |-> request.vouched, read |-> request.read,
                  names |-> request.names, row |-> request.row,
                  failed |-> request.failed, code |-> request.code]
    /\ RowShape(request.row)

RowInv ==
    /\ Shape
    /\ request.names \subseteq Services
    /\ request.at = "row" => request.row.service \in Services
    /\ request.row.latest # 0 => request.row.service \in Services

AuthInv ==
    /\ request.at = "gate" => request.meant \/ request.slipped
    /\ request.at = "answered" /\ request.vouched => request.code \notin {401, 403}

(* Main's lack of a manifest is on record and so is the mirror's, unless a *)
(* sync tore it; who is past the gate or was served had a mirror that was  *)
(* read, and the answers follow.                                           *)
Known404 ==
    \A s \in Services :
        /\ ~Readable(main[s]) => s \in lacked
        /\ ~Readable(mirror[s]) => s \in lacked \cup torn
ReadyInv ==
    /\ served => synced
    /\ request.at \in Past => synced
    /\ request.at \in {"gate", "lookup", "look", "click"} => request.service \in Services
    /\ request.at \in {"gate", "lookup"} => request.ask \in {"look", "click"}
    /\ request.at = "answered" /\ request.code = 404 =>
        request.service \in lacked \cup torn \/ "manifest" \in request.failed
    /\ request.at = "answered" /\ request.code = 503 => ~served

ApiInv == RowInv /\ AuthInv /\ Known404 /\ ReadyInv

LEMMA NoRequestShape == ASSUME request' = NoRequest PROVE RowInv' /\ AuthInv'
  BY DEF NoRequest, NoRow, Blank, RowOf, RowInv, Shape, RowShape, AuthInv

LEMMA GotoGives ==
  ASSUME Shape, NEW label, Goto(label)
  PROVE  /\ Shape'
         /\ request'.at = label
         /\ request'.service = request.service /\ request'.ask = request.ask
         /\ request'.names = request.names /\ request'.row = request.row
  BY DEF Goto, Shape

LEMMA GotoKeeps ==
  ASSUME RowInv, NEW label, label \notin {"gate", "row", "answered"}, Goto(label)
  PROVE  RowInv' /\ AuthInv'
<1>1. Shape BY DEF RowInv
<1> QED BY <1>1, GotoGives DEF RowInv, AuthInv

LEMMA AnswerGives ==
  ASSUME Shape, NEW failed, NEW code, AnswerFor(failed, code)
  PROVE  /\ Shape'
         /\ request'.at = "answered" /\ request'.code = code /\ request'.names = {}
         /\ request'.service = request.service /\ request'.row = request.row
         /\ request'.failed = failed
  BY DEF AnswerFor, Shape, NoRequest

LEMMA AnswerKeeps ==
  ASSUME RowInv, NEW failed, NEW code, code \notin {401, 403}, AnswerFor(failed, code)
  PROVE  RowInv' /\ AuthInv'
<1>1. Shape BY DEF RowInv
<1> QED BY <1>1, AnswerGives DEF RowInv, AuthInv

(* What ReadyInv asks of a request that went on, or was answered.          *)
LEMMA GotoReady ==
  ASSUME ApiInv, NEW label, Goto(label), label \notin {"gate", "answered"},
         label \in {"lookup", "look", "click"} => request.service \in Services,
         label = "lookup" => request.ask \in {"look", "click"},
         label \in Past => synced', served' => synced'
  PROVE  ReadyInv'
<1>1. Shape BY DEF ApiInv, RowInv
<1>2. /\ request'.at = label
      /\ request'.service = request.service /\ request'.ask = request.ask
  BY <1>1, GotoGives
<1> QED BY <1>2 DEF ReadyInv

LEMMA AnswerReady ==
  ASSUME ApiInv, NEW failed, NEW code, AnswerFor(failed, code), served' => synced',
         code = 404 => request.service \in (lacked \cup torn)' \/ "manifest" \in failed,
         code = 503 => ~served'
  PROVE  ReadyInv'
<1>1. Shape BY DEF ApiInv, RowInv
<1>2. /\ request'.at = "answered" /\ request'.code = code
      /\ request'.service = request.service /\ request'.failed = failed
  BY <1>1, AnswerGives
<1> QED BY <1>2 DEF ReadyInv, Past

(* A request as it is judged. *)
AskedFor(ask, s, action, digest, v) ==
    [NoRequest EXCEPT !.ask = ask, !.service = s, !.action = action, !.digest = digest,
                      !.meant = v.meant, !.slipped = v.slipped, !.vouched = v.vouched]

LEMMA AskedIs ==
  ASSUME NEW ask, NEW s, NEW action, NEW digest, NEW v, NEW asked,
         asked = AskedFor(ask, s, action, digest, v)
  PROVE  /\ asked = [at |-> asked.at, ask |-> asked.ask, service |-> asked.service,
                     action |-> asked.action, digest |-> asked.digest,
                     meant |-> asked.meant, slipped |-> asked.slipped,
                     vouched |-> asked.vouched, read |-> asked.read,
                     names |-> asked.names, row |-> asked.row,
                     failed |-> asked.failed, code |-> asked.code]
         /\ asked.ask = ask /\ asked.service = s /\ asked.names = {} /\ asked.row = NoRow
         /\ asked.meant = v.meant /\ asked.slipped = v.slipped /\ asked.vouched = v.vouched
  BY DEF AskedFor, NoRequest

LEMMA JudgedGives ==
  ASSUME NEW ask, NEW s, NEW action, NEW digest, Judged(ask, s, action, digest)
  PROVE  /\ Shape'
         /\ request'.row = NoRow /\ request'.names = {}
         /\ request'.service = s /\ request'.ask = ask
         /\ request'.at \in {"answered", "list", "gate"}
         /\ request'.at = "answered" => request'.code \in {401, 403} /\ ~request'.vouched
         /\ request'.at = "list" => ask = "list"
         /\ request'.at = "gate" => (request'.meant \/ request'.slipped) /\ ask # "list"
<1>1. PICK v \in Verdicts :
        LET asked == AskedFor(ask, s, action, digest, v) IN
        request' = IF ~v.known THEN [asked EXCEPT !.at = "answered", !.code = 401]
                   ELSE IF ~v.allowed THEN [asked EXCEPT !.at = "answered", !.code = 403]
                   ELSE [asked EXCEPT !.at = IF ask = "list" THEN "list" ELSE "gate"]
  BY Zenon DEF Judged, AskedFor
<1>2. PICK asked : asked = AskedFor(ask, s, action, digest, v) OBVIOUS
<1>3. /\ asked = [at |-> asked.at, ask |-> asked.ask, service |-> asked.service,
                  action |-> asked.action, digest |-> asked.digest,
                  meant |-> asked.meant, slipped |-> asked.slipped,
                  vouched |-> asked.vouched, read |-> asked.read,
                  names |-> asked.names, row |-> asked.row,
                  failed |-> asked.failed, code |-> asked.code]
      /\ asked.ask = ask /\ asked.service = s /\ asked.names = {} /\ asked.row = NoRow
      /\ asked.meant = v.meant /\ asked.slipped = v.slipped /\ asked.vouched = v.vouched
  BY <1>2, AskedIs
<1>4. RowShape(NoRow) BY DEF RowShape, NoRow, Blank, RowOf
<1>5. (v.allowed => v.meant \/ v.slipped) /\ (v.vouched => v.known /\ v.allowed)
  BY VerdictsAreRight
<1>6. CASE ~v.known
  <2>1. request' = [asked EXCEPT !.at = "answered", !.code = 401] BY <1>2, <1>1, <1>6
  <2>2. /\ request'.at = "answered" /\ request'.code = 401
        /\ request'.row = NoRow /\ request'.names = {}
        /\ request'.service = s /\ request'.ask = ask
    BY <1>3, <2>1
  <2>3. request'.vouched = v.vouched BY <1>3, <2>1
  <2>4. Shape' BY <1>3, <1>4, <2>1 DEF Shape
  <2> QED BY <1>5, <1>6, <2>2, <2>3, <2>4
<1>7. CASE v.known /\ ~v.allowed
  <2>1. request' = [asked EXCEPT !.at = "answered", !.code = 403] BY <1>2, <1>1, <1>7
  <2>2. /\ request'.at = "answered" /\ request'.code = 403
        /\ request'.row = NoRow /\ request'.names = {}
        /\ request'.service = s /\ request'.ask = ask
    BY <1>3, <2>1
  <2>3. request'.vouched = v.vouched BY <1>3, <2>1
  <2>4. Shape' BY <1>3, <1>4, <2>1 DEF Shape
  <2> QED BY <1>5, <1>7, <2>2, <2>3, <2>4
<1>8. CASE v.known /\ v.allowed
  <2>1. request' = [asked EXCEPT !.at = IF ask = "list" THEN "list" ELSE "gate"]
    BY <1>2, <1>1, <1>8
  <2> QED BY <1>3, <1>4, <1>5, <1>8, <2>1 DEF Shape
<1> QED BY <1>6, <1>7, <1>8

-----------------------------------------------------------------------------
(* The steps. *)

LEMMA ApiInitInv == ApiInit => ApiInv
<1> SUFFICES ASSUME ApiInit PROVE ApiInv OBVIOUS
<1>1. RowInv /\ AuthInv BY DEF ApiInit, NoRequest, NoRow, Blank, RowOf, RowInv, Shape, RowShape, AuthInv
<1>2. \A s \in Services : Readable(main[s])
  BY CatalogAssumption DEF ApiInit, Init, Readable, Pin, Versions
<1>3. mirror = main BY DEF ApiInit, Init
<1> QED BY <1>1, <1>2, <1>3 DEF ApiInv, ApiInit, NoRequest, Known404, ReadyInv, Past

(* A request that arrives is answered on the spot or has somewhere to go. *)
LEMMA JudgedKeeps ==
  ASSUME ApiInv, NEW ask, NEW s, NEW action, NEW digest, Judged(ask, s, action, digest),
         ask = "list" \/ (ask \in {"look", "click"} /\ s \in Services),
         UNCHANGED <<main, mirror, synced, torn, lacked, served>>
  PROVE  ApiInv'
<1>1. RowInv' BY JudgedGives DEF RowInv, NoRow, Blank, RowOf
<1>2. AuthInv' BY JudgedGives DEF AuthInv
<1>3. Known404' BY DEF ApiInv, Known404
<1>4. ReadyInv'
  <2>1. /\ request'.at \in {"answered", "list", "gate"}
        /\ request'.at = "answered" => request'.code \in {401, 403}
        /\ request'.at = "gate" => ask # "list"
        /\ request'.service = s /\ request'.ask = ask
    BY JudgedGives
  <2>2. served => synced BY DEF ApiInv, ReadyInv
  <2>3. served' => synced' BY <2>2
  <2>4. request'.at = "gate" => ask \in {"look", "click"} /\ s \in Services BY <2>1
  <2>5. request'.at \notin Past \cup {"lookup", "look", "click"} BY <2>1 DEF Past
  <2>6. request'.code \in {401, 403} => request'.code \notin {404, 503} OBVIOUS
  <2> QED BY <2>1, <2>3, <2>4, <2>5, <2>6 DEF ReadyInv
<1> QED BY <1>1, <1>2, <1>3, <1>4 DEF ApiInv

(* A mirror that is read stays read while the daemon lives, and what it    *)
(* lacks main has lacked.                                                  *)
LEMMA SyncKeeps ==
  ASSUME Known404, SyncSucceeds \/ SyncFails, UNCHANGED <<main, lacked>>
  PROVE  Known404' /\ (synced => synced')
<1>1. CASE SyncSucceeds BY <1>1 DEF SyncSucceeds, Known404
<1>2. CASE SyncFails
  <2>1. synced' = synced BY <1>2 DEF SyncFails, StillSynced
  <2>2. /\ torn \subseteq torn'
        /\ \A s \in Services : mirror'[s] \in {mirror[s], main[s]} \/ s \in torn'
    BY <1>2 DEF SyncFails
  <2> QED BY <2>1, <2>2 DEF Known404
<1> QED BY <1>1, <1>2

(* A row begins: seen, absent from the mirror, or unread. *)
RowBegins(s) ==
    \/ /\ Reads(s)
       /\ request' = [request EXCEPT !.names = @ \ {s}, !.at = "row", !.read = 1,
                                     !.row = Seen(s), !.failed = {}]
    \/ \E failed \in {{}, {"manifest"}} :
         /\ failed = {} => ~Reads(s)
         /\ request' = [request EXCEPT !.names = @ \ {s}, !.at = "row done",
                                       !.row = Blank(s), !.failed = failed]

LEMMA ManifestBegins ==
  ASSUME StatusManifest
  PROVE  \E s \in request.names : RowBegins(s)
  BY DEF StatusManifest, RowBegins

LEMMA RowBegun ==
  ASSUME Shape, NEW s, RowBegins(s)
  PROVE  /\ Shape'
         /\ request'.names = request.names \ {s} /\ request'.row.service = s
         /\ \/ /\ Reads(s) /\ request'.at = "row" /\ request'.read = 1
               /\ request'.row = Seen(s) /\ request'.failed = {}
            \/ /\ request'.at = "row done" /\ request'.row = Blank(s)
               /\ request'.failed = {} => ~Reads(s)
               /\ request'.failed \in {{}, {"manifest"}}
<1>1. /\ RowShape(Seen(s)) /\ Seen(s).service = s
      /\ RowShape(Blank(s)) /\ Blank(s).service = s
  <2>1. Blank(s) = [service |-> s, manifest |-> Absent, running |-> Absent, latest |-> 0,
                    poll |-> "never", flight |-> FALSE, seen |-> FALSE]
    BY DEF Blank, RowOf
  <2>2. Seen(s) = [service |-> s, manifest |-> mirror[s], running |-> Absent, latest |-> 0,
                   poll |-> "never", flight |-> FALSE, seen |-> TRUE]
    BY DEF Seen, RowOf
  <2>3. RowShape(Blank(s)) /\ Blank(s).service = s BY <2>1 DEF RowShape
  <2>4. RowShape(Seen(s)) /\ Seen(s).service = s BY <2>2 DEF RowShape
  <2> QED BY <2>3, <2>4
<1>3. CASE Reads(s) /\ request' = [request EXCEPT !.names = @ \ {s}, !.at = "row", !.read = 1,
                                                 !.row = Seen(s), !.failed = {}]
  BY <1>1, <1>3 DEF Shape
<1>4. ASSUME NEW failed \in {{}, {"manifest"}}, failed = {} => ~Reads(s),
             request' = [request EXCEPT !.names = @ \ {s}, !.at = "row done",
                                        !.row = Blank(s), !.failed = failed]
      PROVE  /\ Shape'
             /\ request'.names = request.names \ {s} /\ request'.row.service = s
             /\ request'.at = "row done" /\ request'.row = Blank(s)
             /\ request'.failed = failed
  BY <1>1, <1>4 DEF Shape
<1> QED BY <1>3, <1>4 DEF RowBegins

LEMMA ListKeeps ==
  ASSUME ApiInv, List
  PROVE  ApiInv'
<1> USE DEF Past
<1>1. CASE ListSync
  <2>1. UNCHANGED <<main, lacked, served>> BY <1>1 DEF ListSync, WorldStands, worldVars
  <2>2. CASE ListSyncs /\ Goto("names")
    <3>1. SyncSucceeds /\ synced' BY <2>2 DEF ListSyncs, SyncSucceeds
    <3>2. Known404' BY <2>1, <3>1, SyncKeeps DEF ApiInv
    <3>3. RowInv' /\ AuthInv' BY <2>2, GotoKeeps DEF ApiInv
    <3>4. ReadyInv' BY <2>2, <3>1, GotoReady
    <3> QED BY <3>2, <3>3, <3>4 DEF ApiInv
  <2>3. CASE SyncFails /\ Goto("list failed")
    <3>2. Known404' /\ (synced => synced') BY <2>1, <2>3, SyncKeeps DEF ApiInv
    <3>3. RowInv' /\ AuthInv' BY <2>3, GotoKeeps DEF ApiInv
    <3>4. served' => synced' BY <2>1, <3>2 DEF ApiInv, ReadyInv
    <3>5. ReadyInv' BY <2>3, <3>4, GotoReady
    <3> QED BY <3>2, <3>3, <3>5 DEF ApiInv
  <2> QED BY <1>1, <2>2, <2>3 DEF ListSync
<1>2. CASE ListFailed \/ Listed
  <2>1. UNCHANGED <<main, mirror, synced, torn, lacked>>
    BY <1>2 DEF ListFailed, Listed, Reading, WorldStands, worldVars, mirrorVars
  <2>2. Known404' BY <2>1 DEF ApiInv, Known404
  <2>3. CASE ListFailed
    <3>1. UNCHANGED served BY <2>3 DEF ListFailed, Reading
    <3>2. \/ synced /\ AnswerFor({}, 502)
          \/ ~synced /\ AnswerFor({}, 503)
      <4>1. AnswerFor({}, IF synced THEN 502 ELSE 503) BY <2>3 DEF ListFailed, Unavailable, Answer
      <4> QED BY <4>1
    <3>3. RowInv' /\ AuthInv' BY <3>2, AnswerKeeps DEF ApiInv
    <3>5. served' => synced' BY <2>1, <3>1 DEF ApiInv, ReadyInv
    <3>6. ~synced => ~served' BY <2>1, <3>5
    <3>4. ReadyInv' BY <3>2, <3>5, <3>6, AnswerReady
    <3> QED BY <2>2, <3>3, <3>4 DEF ApiInv
  <2>4. CASE Listed
    <3>1. AnswerFor({}, 200) /\ synced BY <2>4 DEF Listed, ApiInv, ReadyInv, Answer
    <3>3. RowInv' /\ AuthInv' BY <3>1, AnswerKeeps DEF ApiInv
    <3>4. ReadyInv' BY <2>1, <3>1, AnswerReady
    <3> QED BY <2>2, <3>3, <3>4 DEF ApiInv
  <2> QED BY <1>2, <2>3, <2>4
<1>3. CASE ListNames \/ StatusManifest \/ StatusRead
  <2>1. UNCHANGED <<main, mirror, synced, torn, lacked, served>>
    BY <1>3 DEF ListNames, StatusManifest, StatusRead, Reading, WorldStands, worldVars, mirrorVars
  <2>2. Known404' BY <2>1 DEF ApiInv, Known404
  <2>3. synced BY <1>3 DEF ApiInv, ReadyInv, ListNames, StatusManifest, StatusRead, At
  <2>5. CASE AnswerFor({}, 502)
    <3>1. RowInv' /\ AuthInv' BY <2>5, AnswerKeeps DEF ApiInv
    <3>2. ReadyInv' BY <2>1, <2>3, <2>5, AnswerReady
    <3> QED BY <2>2, <3>1, <3>2 DEF ApiInv
  <2>6. ASSUME RowInv', request'.at \in {"rows", "row", "row done"} PROVE ApiInv'
    <3>1. AuthInv' BY <2>6 DEF AuthInv
    <3>2. ReadyInv' BY <2>1, <2>3, <2>6 DEF ApiInv, ReadyInv
    <3> QED BY <2>2, <2>6, <3>1, <3>2 DEF ApiInv
  <2>7. CASE ListNames
    <3>1. CASE request' = [request EXCEPT !.at = "rows", !.names = Known]
      <4>1. Known \subseteq Services BY DEF Known
      <4> QED BY <2>6, <3>1, <4>1 DEF ApiInv, RowInv, Shape
    <3> QED BY <2>5, <2>7, <3>1 DEF ListNames, Answer
  <2>8. CASE StatusManifest
    <3>1. PICK s \in request.names : RowBegins(s) BY <2>8, ManifestBegins
    <3>2. s \in Services BY DEF ApiInv, RowInv
    <3>3. Shape BY DEF ApiInv, RowInv
    <3> QED BY <2>6, <3>1, <3>2, <3>3, RowBegun DEF ApiInv, RowInv
  <2>9. CASE StatusRead
    <3>1. PICK row \in {Filled(request.row), request.row}, failed \in {request.failed,
                 request.failed \cup {statusReads[request.read]}} : Then(row, failed)
      BY <2>9 DEF StatusRead
    <3>2. RowShape(request.row) /\ request.row.service \in Services
      BY <2>9 DEF StatusRead, At, ApiInv, RowInv, Shape
    <3>3. RowShape(Filled(request.row)) /\ Filled(request.row).service = request.row.service
      BY <3>2 DEF Filled, RowShape
    <3>4. RowShape(row) /\ row.service \in Services BY <3>1, <3>2, <3>3
    <3>5. RowInv' /\ request'.at \in {"row", "row done"}
      BY <3>1, <3>4 DEF Then, ApiInv, RowInv, Shape
    <3> QED BY <2>6, <3>5
  <2> QED BY <1>3, <2>7, <2>8, <2>9
<1> QED BY <1>1, <1>2, <1>3 DEF List

LEMMA ServiceKeeps ==
  ASSUME ApiInv, GateReady \/ GateLookup \/ Look \/ Click
  PROVE  ApiInv'
<1> USE DEF Past, At
<1>1. UNCHANGED <<main, mirror, synced, torn, lacked>>
  BY DEF GateReady, GateLookup, Look, Click, Reading, WorldStands, worldVars, mirrorVars
<1>2. Known404' BY <1>1 DEF ApiInv, Known404
<1>3. request.service \in Services
  BY DEF GateReady, GateLookup, Look, Click, ApiInv, ReadyInv
<1>4. ~Reads(request.service) /\ synced => request.service \in lacked \cup torn
  BY <1>3 DEF Reads, ApiInv, Known404
<1>9. ASSUME NotFound, synced
      PROVE  \E failed : /\ AnswerFor(failed, 404)
                         /\ request.service \in lacked \cup torn \/ "manifest" \in failed
  BY <1>4, <1>9 DEF NotFound, Answer
<1>5. CASE GateReady
  <2>1. UNCHANGED served BY <1>5 DEF GateReady, Reading
  <2>2. \/ synced /\ Goto("lookup")
        \/ ~synced /\ AnswerFor({}, 503)
    <3>1. IF synced THEN Goto("lookup") ELSE AnswerFor({}, IF synced THEN 502 ELSE 503)
      BY <1>5 DEF GateReady, Ready, Unavailable, Answer
    <3> QED BY <3>1
  <2>3. RowInv' /\ AuthInv' BY <2>2, GotoKeeps, AnswerKeeps DEF ApiInv
  <2>4. request.ask \in {"look", "click"} BY <1>5 DEF ApiInv, ReadyInv, GateReady
  <2>5. (served' => synced') /\ (~synced => ~served') BY <1>1, <2>1 DEF ApiInv, ReadyInv
  <2>6. synced /\ Goto("lookup") => ReadyInv' BY <1>1, <1>3, <2>4, <2>5, GotoReady
  <2>7. ~synced /\ AnswerFor({}, 503) => ReadyInv' BY <2>5, AnswerReady
  <2>8. ReadyInv' BY <2>2, <2>6, <2>7
  <2> QED BY <1>2, <2>3, <2>8 DEF ApiInv
<1>6. CASE GateLookup
  <2>1. synced /\ UNCHANGED served BY <1>6 DEF GateLookup, Reading, ApiInv, ReadyInv
  <2>3. request.ask \in {"look", "click"} BY <1>6 DEF ApiInv, ReadyInv, GateLookup
  <2>4. CASE Goto(request.ask)
    <3>1. RowInv' /\ AuthInv' BY <2>3, <2>4, GotoKeeps DEF ApiInv
    <3>2. ReadyInv' BY <1>1, <1>3, <2>1, <2>3, <2>4, GotoReady
    <3> QED BY <1>2, <3>1, <3>2 DEF ApiInv
  <2>5. CASE NotFound
    <3>1. PICK failed : /\ AnswerFor(failed, 404)
                        /\ request.service \in lacked \cup torn \/ "manifest" \in failed
      BY <1>9, <2>1, <2>5
    <3>2. RowInv' /\ AuthInv' BY <3>1, AnswerKeeps DEF ApiInv
    <3>3. ReadyInv' BY <1>1, <2>1, <3>1, AnswerReady
    <3> QED BY <1>2, <3>2, <3>3 DEF ApiInv
  <2> QED BY <1>6, <2>4, <2>5 DEF GateLookup
<1>7. CASE Look \/ Click
  <2>1. synced BY <1>7 DEF Look, Click, ApiInv, ReadyInv
  <2>2. \E failed, code : /\ AnswerFor(failed, code) /\ code \in {200, 202, 400, 404, 500}
                          /\ code = 404 => \/ request.service \in lacked \cup torn
                                           \/ "manifest" \in failed
    <3>1. ASSUME NEW code \in {200, 202, 400, 500}, Answer(code) PROVE AnswerFor({}, code)
      BY <3>1 DEF Answer
    <3>2. CASE NotFound BY <1>9, <2>1, <3>2
    <3> QED BY <1>7, <3>1, <3>2 DEF Look, Click
  <2>3. PICK failed, code : /\ AnswerFor(failed, code) /\ code \in {200, 202, 400, 404, 500}
                            /\ code = 404 => \/ request.service \in lacked \cup torn
                                             \/ "manifest" \in failed
    BY <2>2
  <2>4. RowInv' /\ AuthInv' BY <2>3, AnswerKeeps DEF ApiInv
  <2>5. ReadyInv' BY <1>1, <2>1, <2>3, AnswerReady
  <2> QED BY <1>2, <2>4, <2>5 DEF ApiInv
<1> QED BY <1>5, <1>6, <1>7

LEMMA OthersKeep ==
  ASSUME ApiInv, Others
  PROVE  ApiInv'
<1>1. UNCHANGED <<request, served>> /\ lacked' = lacked \cup Lacks BY DEF Others
<1>2. Known404' /\ (synced => synced')
  <2>1. \A s \in Services : ~Readable(main'[s]) => s \in lacked' BY <1>1 DEF Lacks
  <2>2. CASE World \/ Watch
    <3>1. UNCHANGED <<mirror, synced, torn>>
      BY <2>2 DEF World, Push, HostChanges, TagMoves, Changes, Watch, Tick, Resolve, Store, mirrorVars
    <3> QED BY <1>1, <2>1, <3>1 DEF ApiInv, Known404
  <2>3. CASE OthersSync
    <3>1. UNCHANGED main /\ ((SyncSucceeds /\ UNCHANGED torn) \/ SyncFails)
      BY <2>3 DEF OthersSync, worldVars
    <3>2. synced => synced' BY <3>1 DEF SyncSucceeds, SyncFails, StillSynced
    <3>3. /\ torn \subseteq torn'
          /\ \A s \in Services : mirror'[s] \in {mirror[s], main[s]} \/ s \in torn'
      BY <3>1 DEF SyncSucceeds, SyncFails
    <3> QED BY <1>1, <3>1, <3>2, <3>3 DEF ApiInv, Known404
  <2> QED BY <2>2, <2>3 DEF Others
<1>5. torn \subseteq torn'
  <2>1. CASE World \/ Watch
    BY <2>1 DEF World, Push, HostChanges, TagMoves, Changes, Watch, Tick, Resolve, Store, mirrorVars
  <2>2. CASE OthersSync BY <2>2 DEF OthersSync, SyncFails
  <2> QED BY <2>1, <2>2 DEF Others
<1>3. RowInv' /\ AuthInv' BY <1>1 DEF ApiInv, RowInv, Shape, AuthInv
<1>4. ReadyInv' BY <1>1, <1>2, <1>5 DEF ApiInv, ReadyInv
<1> QED BY <1>2, <1>3, <1>4 DEF ApiInv

LEMMA ApiNextInv ==
  ASSUME ApiInv, [ApiNext]_allVars
  PROVE  ApiInv'
<1>1. CASE Arrive
  <2>1. UNCHANGED <<main, mirror, synced, torn, lacked, served>>
    BY <1>1 DEF Arrive, ArrivalKeeps, worldVars, mirrorVars
  <2>2. CASE Judged("list", "none", "no action", 0) BY <2>1, <2>2, JudgedKeeps
  <2>3. CASE \E s \in Services : Judged("look", s, "no action", 0)
    BY <2>1, <2>3, JudgedKeeps
  <2>4. CASE \E s \in Services, action \in knownActions, d \in Versions :
               Judged("click", s, action, d)
    BY <2>1, <2>4, JudgedKeeps
  <2> QED BY <1>1, <2>2, <2>3, <2>4 DEF Arrive
<1>2. CASE BareDeploy
  <2>1. UNCHANGED <<main, mirror, synced, torn, lacked, served>>
    BY <1>2 DEF BareDeploy, ArrivalKeeps, worldVars, mirrorVars
  <2>2. Judged("click", request.row.service, "deploy", latestFor) BY <1>2 DEF BareDeploy
  <2>3. request.row.service \in Services BY <1>2 DEF BareDeploy, latestFor, ApiInv, RowInv
  <2> QED BY <2>1, <2>2, <2>3, JudgedKeeps
<1>3. CASE Leave
  <2>1. /\ request' = NoRequest
        /\ UNCHANGED <<main, mirror, synced, torn, lacked, served>>
    BY <1>3 DEF Leave, Reading, WorldStands, worldVars, mirrorVars
  <2>2. Known404' /\ ReadyInv' BY <2>1 DEF ApiInv, Known404, ReadyInv, NoRequest, Past
  <2> QED BY <2>1, <2>2, NoRequestShape DEF ApiInv
<1>4. CASE List BY <1>4, ListKeeps
<1>5. CASE GateReady \/ GateLookup \/ Look \/ Click BY <1>5, ServiceKeeps
<1>6. CASE RunEnds \/ UNCHANGED allVars
  <2>1. UNCHANGED <<request, main, mirror, synced, torn, lacked, served>>
    BY <1>6 DEF RunEnds, allVars, apiVars, vars, worldVars, mirrorVars
  <2> QED BY <2>1 DEF ApiInv, RowInv, Shape, AuthInv, Known404, ReadyInv
<1>7. CASE Others BY <1>7, OthersKeep
<1>8. CASE Reboot
  <2>1. request' = NoRequest /\ ~served' /\ UNCHANGED <<main, torn, lacked>>
    BY <1>8 DEF Reboot, Restart, Boot, worldVars
  <2>2. mirror' = mirror \/ mirror' = main BY <1>8 DEF Reboot, Restart, Boot
  <2>3. Known404' /\ ReadyInv' BY <2>1, <2>2 DEF ApiInv, Known404, ReadyInv, NoRequest, Past
  <2> QED BY <2>1, <2>3, NoRequestShape DEF ApiInv
<1> QED BY <1>1, <1>2, <1>3, <1>4, <1>5, <1>6, <1>7, <1>8 DEF ApiNext

LEMMA ApiInvHolds == ApiSpec => []ApiInv
  BY ApiInitInv, ApiNextInv, PTL DEF ApiSpec

(* 404 is answered for what main has lacked, what a failed sync tore or    *)
(* what could not be read just now, never for want of a copy of main       *)
(* (api.go:500-503, 514-516, 548-550).                                     *)
THEOREM NotFoundIsTrue == ApiSpec => []NotFoundIsKnown
<1>1. ApiInv => NotFoundIsKnown BY DEF ApiInv, ReadyInv, NotFoundIsKnown, At
<1> QED BY <1>1, ApiInvHolds, PTL

(* Who was answered once is not told that the mirror was never populated   *)
(* before a restart, whatever fails (api.go:540-543).                      *)
THEOREM ServedStaysServed == ApiSpec => []OnceReadStaysServed
<1>1. ApiInv => OnceReadStaysServed BY DEF ApiInv, ReadyInv, OnceReadStaysServed, At
<1> QED BY <1>1, ApiInvHolds, PTL

(* A request that gets past authorization to act was meant to, or a line   *)
(* of the token file that was meant to scope its token has no field that   *)
(* begins with "scope" (auth.go:91-95, 153-160, 194).                      *)
THEOREM NobodyWidened == ApiSpec => []NeverWidened
<1>1. ApiInv => NeverWidened BY DEF ApiInv, AuthInv, NeverWidened, At
<1> QED BY <1>1, ApiInvHolds, PTL

(* The proxy path works whatever the token file has become                 *)
(* (auth.go:94-95).                                                        *)
THEOREM BrowserIsLetIn == ApiSpec => []BrowserKeepsWorking
<1>1. ApiInv => BrowserKeepsWorking BY DEF ApiInv, AuthInv, BrowserKeepsWorking, At
<1> QED BY <1>1, ApiInvHolds, PTL

-----------------------------------------------------------------------------
(* The row being filled in: a digest that was read had a verdict by then,  *)
(* and no verdict is taken back while the daemon lives.                    *)

WatchInv ==
    /\ latest = [r \in Repositories |-> latest[r]]
    /\ polls = [r \in Repositories |-> polls[r]]
    /\ \A r \in Repositories : latest[r] # 0 => polls[r] # "never"

Row == request.row
FillInv ==
    /\ request.at = "row" =>
        /\ request.read \in 1 .. 4
        /\ Row.manifest.repository \in Repositories
        /\ request.read \in {1, 2} => Row.latest = 0
        /\ request.read = 3 /\ Row.latest # 0 => polls[Row.manifest.repository] # "never"
    /\ request.at = "row done" \/ (request.at = "row" /\ request.read = 4) =>
        (Row.latest # 0 => Row.poll # "never")

VerdictInv == WatchInv /\ FillInv

LEMMA VerdictInit == ApiInit => VerdictInv
<1> SUFFICES ASSUME ApiInit PROVE VerdictInv OBVIOUS
<1>1. /\ latest = [r \in Repositories |-> 0] /\ polls = [r \in Repositories |-> "never"]
      /\ request.at = "idle"
  BY DEF ApiInit, Init, NoRequest
<1>2. WatchInv BY <1>1 DEF WatchInv
<1>3. FillInv BY <1>1 DEF FillInv
<1> QED BY <1>2, <1>3 DEF VerdictInv

(* A tag read by the watcher comes with its verdict. *)
LEMMA WatchKeeps ==
  ASSUME WatchInv, Watch \/ UNCHANGED <<latest, polls>>
  PROVE  /\ WatchInv'
         /\ \A r \in Repositories : polls[r] # "never" => polls'[r] # "never"
<1>1. CASE UNCHANGED <<latest, polls>> BY <1>1 DEF WatchInv
<1>2. CASE Tick \/ Resolve
  <2>1. UNCHANGED <<latest, polls>> BY <1>2 DEF Tick, Resolve
  <2> QED BY <2>1 DEF WatchInv
<1>3. CASE Store
  <2> DEFINE r == poll.answer.repository
  <2>1. PICK how \in {"ok", "error"} : polls' = [polls EXCEPT ![r] = how]
    BY <1>3 DEF Store
  <2>2. PICK v : latest' = [latest EXCEPT ![r] = v] BY <1>3 DEF Store
  <2> HIDE DEF r
  <2> QED BY <2>1, <2>2 DEF WatchInv
<1> QED BY <1>1, <1>2, <1>3 DEF Watch

LEMMA ReadKeeps ==
  ASSUME RowInv, VerdictInv, StatusRead
  PROVE  FillInv'
<1>1. request.at = "row" /\ UNCHANGED polls BY DEF StatusRead, At, Reading, WorldStands
<1>2. /\ request.read \in 1 .. 4
      /\ Row.manifest.repository \in Repositories
      /\ request.read \in {1, 2} => Row.latest = 0
      /\ request.read = 3 /\ Row.latest # 0 => polls[Row.manifest.repository] # "never"
      /\ request.read = 4 /\ Row.latest # 0 => Row.poll # "never"
  BY <1>1 DEF VerdictInv, FillInv
<1>3. /\ statusReads[1] = "running" /\ statusReads[2] = "latest"
      /\ statusReads[3] = "poll" /\ statusReads[4] = "recent" /\ Len(statusReads) = 4
  BY DEF statusReads
<1>4. ASSUME NEW row, NEW failed, Then(row, failed),
             row.manifest.repository \in Repositories,
             request.read = 1 => row.latest = 0,
             request.read = 2 /\ row.latest # 0 => polls[row.manifest.repository] # "never",
             request.read \in {3, 4} /\ row.latest # 0 => row.poll # "never"
      PROVE  FillInv'
  <2>1. /\ request'.row = row
        /\ request'.at = IF request.read = 4 THEN "row done" ELSE "row"
        /\ request'.read = IF request.read = 4 THEN 0 ELSE request.read + 1
    BY <1>3, <1>4 DEF Then, RowInv, Shape
  <2>2. CASE request.read = 4
    <3>1. request'.at = "row done" BY <2>1, <2>2
    <3> QED BY <1>4, <2>1, <2>2, <3>1 DEF FillInv, Row
  <2>3. CASE request.read = 1
    <3>1. request'.at = "row" /\ request'.read = 2 BY <2>1, <2>3
    <3> QED BY <1>4, <2>1, <2>3, <3>1 DEF FillInv, Row
  <2>4. CASE request.read = 2
    <3>1. request'.at = "row" /\ request'.read = 3 BY <2>1, <2>4
    <3> QED BY <1>1, <1>4, <2>1, <2>4, <3>1 DEF FillInv, Row
  <2>5. CASE request.read = 3
    <3>1. request'.at = "row" /\ request'.read = 4 BY <2>1, <2>5
    <3> QED BY <1>4, <2>1, <2>5, <3>1 DEF FillInv, Row
  <2> QED BY <1>2, <2>2, <2>3, <2>4, <2>5
<1>5. CASE Then(Filled(request.row), request.failed)
  <2> DEFINE row == Filled(Row)
             q == Row.manifest.repository
  <2>1. CASE request.read = 1
    <3>1. row.manifest = Row.manifest /\ row.latest = Row.latest
      BY <1>3, <2>1 DEF Filled, Row, RowInv, Shape, RowShape
    <3> QED BY <1>2, <1>4, <1>5, <2>1, <3>1 DEF Row
  <2>2. CASE request.read = 2
    <3>1. row.manifest = Row.manifest /\ row.latest = latest[q]
      BY <1>3, <2>2 DEF Filled, Row, RowInv, Shape, RowShape
    <3>2. latest[q] # 0 => polls[q] # "never" BY <1>2 DEF VerdictInv, WatchInv
    <3> QED BY <1>2, <1>4, <1>5, <2>2, <3>1, <3>2 DEF Row
  <2>3. CASE request.read = 3
    <3>1. row.manifest = Row.manifest /\ row.latest = Row.latest /\ row.poll = polls[q]
      BY <1>3, <2>3 DEF Filled, Row, RowInv, Shape, RowShape
    <3> QED BY <1>2, <1>4, <1>5, <2>3, <3>1 DEF Row
  <2>4. CASE request.read = 4
    <3>1. row.manifest = Row.manifest /\ row.latest = Row.latest /\ row.poll = Row.poll
      BY <1>3, <2>4 DEF Filled, Row, RowInv, Shape, RowShape
    <3> QED BY <1>2, <1>4, <1>5, <2>4, <3>1 DEF Row
  <2> QED BY <1>2, <2>1, <2>2, <2>3, <2>4
<1>6. CASE /\ statusReads[request.read] \in {"running", "recent"}
           /\ Then(request.row, request.failed \cup {statusReads[request.read]})
  <2>1. request.read \in {1, 4} BY <1>2, <1>3, <1>6
  <2> QED BY <1>2, <1>4, <1>6, <2>1 DEF Row
<1> QED BY <1>5, <1>6 DEF StatusRead

LEMMA ManifestFills ==
  ASSUME RowInv, VerdictInv, StatusManifest
  PROVE  FillInv'
<1>1. PICK s \in request.names : RowBegins(s) BY ManifestBegins
<1>2. Shape BY DEF RowInv
<1>3. CASE /\ Reads(s) /\ request'.at = "row" /\ request'.read = 1
           /\ request'.row = Seen(s)
  <2>1. Seen(s).manifest = mirror[s] /\ Seen(s).latest = 0 BY DEF Seen, RowOf
  <2>2. mirror[s].repository \in Repositories BY <1>3 DEF Reads, Readable, Pin
  <2> QED BY <1>3, <2>1, <2>2 DEF FillInv, Row
<1>4. CASE request'.at = "row done" /\ request'.row = Blank(s)
  <2>1. Blank(s).latest = 0 BY DEF Blank, RowOf
  <2> QED BY <1>4, <2>1 DEF FillInv, Row
<1> QED BY <1>1, <1>2, <1>3, <1>4, RowBegun

(* The steps that leave no list being written. *)
Unlisting ==
    \/ Arrive \/ BareDeploy \/ Leave \/ ListFailed \/ Listed
    \/ GateReady \/ GateLookup \/ Look \/ Click

LEMMA UnlistingGives ==
  ASSUME ApiInv, Unlisting
  PROVE  request'.at \notin {"names", "rows", "row", "row done"}
<1>1. Shape BY DEF ApiInv, RowInv
<1>2. CASE Arrive \/ BareDeploy
  <2>1. \E ask, s, action, digest : Judged(ask, s, action, digest)
    <3>1. CASE Arrive BY <3>1 DEF Arrive
    <3>2. CASE BareDeploy BY <3>2 DEF BareDeploy
    <3> QED BY <1>2, <3>1, <3>2
  <2> QED BY <2>1, JudgedGives
<1>3. CASE Leave BY <1>3 DEF Leave, NoRequest
<1>4. ASSUME NEW failed, NEW code, AnswerFor(failed, code) PROVE request'.at = "answered"
  BY <1>1, <1>4, AnswerGives
<1>5. ASSUME NEW label, Goto(label) PROVE request'.at = label
  BY <1>1, <1>5, GotoGives
<1>6. CASE ListFailed
  <2>1. \E code : AnswerFor({}, code) BY <1>6 DEF ListFailed, Unavailable, Answer
  <2>2. request'.at = "answered" BY <1>4, <2>1
  <2> QED BY <2>2
<1>7. CASE Listed \/ Look \/ Click
  <2>1. CASE Listed BY <1>4, <2>1 DEF Listed, Answer
  <2>2. CASE Look
    <3>1. \E failed, code : AnswerFor(failed, code) BY <2>2 DEF Look, NotFound, Answer
    <3> QED BY <1>4, <3>1
  <2>3. CASE Click
    <3>1. \E code : AnswerFor({}, code) BY <2>3 DEF Click, Answer
    <3> QED BY <1>4, <3>1
  <2> QED BY <1>7, <2>1, <2>2, <2>3
<1>8. CASE GateReady
  <2>1. Goto("lookup") \/ \E code : AnswerFor({}, code) BY <1>8 DEF GateReady, Unavailable, Answer
  <2> QED BY <1>4, <1>5, <2>1
<1>9. CASE GateLookup
  <2>1. request.ask \in {"look", "click"} BY <1>9 DEF GateLookup, At, ApiInv, ReadyInv
  <2>2. CASE Goto(request.ask)
    <3>1. request'.at = request.ask BY <1>5, <2>2
    <3> QED BY <2>1, <3>1
  <2>3. CASE NotFound
    <3>1. AnswerFor({}, 404) => request'.at = "answered" BY <1>4
    <3>2. AnswerFor({"manifest"}, 404) => request'.at = "answered" BY <1>4
    <3>3. request'.at = "answered" BY <2>3, <3>1, <3>2 DEF NotFound, Answer
    <3> QED BY <3>3
  <2> QED BY <1>9, <2>2, <2>3 DEF GateLookup
<1> QED BY <1>2, <1>3, <1>6, <1>7, <1>8, <1>9 DEF Unlisting

LEMMA VerdictNext ==
  ASSUME ApiInv, VerdictInv, [ApiNext]_allVars
  PROVE  VerdictInv'
<1>1. CASE Reboot
  <2>1. /\ request' = NoRequest
        /\ latest' = [r \in Repositories |-> 0] /\ polls' = [r \in Repositories |-> "never"]
    BY <1>1 DEF Reboot, Restart, Boot
  <2> QED BY <2>1 DEF VerdictInv, WatchInv, FillInv, NoRequest
<1>2. CASE Others \/ RunEnds \/ UNCHANGED allVars
  <2>1. UNCHANGED request BY <1>2 DEF Others, RunEnds, allVars, apiVars
  <2>2. Watch \/ UNCHANGED <<latest, polls>>
    BY <1>2 DEF Others, World, Push, HostChanges, TagMoves, Changes, OthersSync, RunEnds,
       watchVars, allVars, vars
  <2>3. /\ WatchInv'
        /\ \A r \in Repositories : polls[r] # "never" => polls'[r] # "never"
    BY <2>2, WatchKeeps DEF VerdictInv
  <2> QED BY <2>1, <2>3 DEF VerdictInv, FillInv, Row
<1>3. ASSUME UNCHANGED <<latest, polls>>, FillInv' PROVE VerdictInv'
  BY <1>3, WatchKeeps DEF VerdictInv
<1>4. CASE StatusManifest
  BY <1>3, <1>4, ManifestFills DEF StatusManifest, Reading, WorldStands, ApiInv
<1>5. CASE StatusRead
  BY <1>3, <1>5, ReadKeeps DEF StatusRead, Reading, WorldStands, ApiInv
<1>6. ASSUME UNCHANGED <<latest, polls>>, request'.at \notin {"row", "row done"}
      PROVE  VerdictInv'
  BY <1>3, <1>6 DEF FillInv
<1>7. CASE Unlisting
  <2>1. UNCHANGED <<latest, polls>>
    BY <1>7 DEF Unlisting, Arrive, BareDeploy, ArrivalKeeps, Leave, ListFailed, Listed,
       GateReady, GateLookup, Look, Click, Reading, WorldStands, watchVars
  <2> QED BY <1>6, <1>7, <2>1, UnlistingGives
<1>8. CASE ListSync \/ ListNames
  <2>1. UNCHANGED <<latest, polls>>
    BY <1>8 DEF ListSync, ListNames, Reading, WorldStands
  <2>2. Shape BY DEF ApiInv, RowInv
  <2>3. CASE ListSync
    <3>1. PICK label \in {"names", "list failed"} : Goto(label) BY <2>3 DEF ListSync
    <3>2. request'.at = label BY <2>2, <3>1, GotoGives
    <3> QED BY <1>6, <2>1, <3>1, <3>2
  <2>4. CASE ListNames
    <3>1. request'.at \in {"rows", "answered"}
      <4>1. CASE Answer(502) BY <2>2, <4>1, AnswerGives DEF Answer
      <4>2. CASE request' = [request EXCEPT !.at = "rows", !.names = Known]
        BY <2>2, <4>2 DEF Shape
      <4> QED BY <2>4, <4>1, <4>2 DEF ListNames
    <3> QED BY <1>6, <2>1, <3>1
  <2> QED BY <1>8, <2>3, <2>4
<1> QED BY <1>1, <1>2, <1>4, <1>5, <1>7, <1>8 DEF ApiNext, List, Unlisting

(* A digest is offered with how its last poll went, never without          *)
(* (registry.go:102-104).                                                  *)
THEOREM OffersHaveVerdicts == ApiSpec => []OfferHasVerdict
<1>1. VerdictInv => OfferHasVerdict
  BY DEF VerdictInv, FillInv, Row, OfferHasVerdict, At
<1> QED BY <1>1, ApiInvHolds, VerdictInit, VerdictNext, PTL DEF ApiSpec

-----------------------------------------------------------------------------
(* The state printed.  After the list's own sync the mirror agrees with    *)
(* main about every service that held still, so do the parts of the row    *)
(* read so far, and the journal is read last.                              *)

Listing == {"names", "rows", "row", "row done"}
InRow == request.at \in {"row", "row done"}

Still == (Services \cap steady) \ torn
Unread(what) == what \in request.failed

RowIsTrue ==
    LET s == Row.service IN
    /\ Readable(main[s]) /\ ~Unread("manifest")
    /\ Row.seen /\ Row.manifest = main[s]
    /\ request.at = "row" /\ request.read = 1 => Row.running = Absent /\ ~Unread("running")
    /\ request.at = "row done" \/ request.read # 1 =>
        Row.running = IF Unread("running") THEN Absent ELSE running[s]
    /\ request.at = "row" => ~Row.flight /\ ~Unread("recent")
    /\ request.at = "row done" => (Row.flight <=> s \in newest /\ ~Unread("recent"))

RowIsBlank ==
    /\ request.at = "row done" /\ ~Row.seen /\ ~Row.flight
    /\ ~Readable(main[Row.service]) \/ Unread("manifest")

StillTrue ==
    /\ DOMAIN main = Services /\ DOMAIN running = Services
    /\ request.at \in Listing => \A s \in Still : mirror[s] = main[s]

StatusInv ==
    /\ StillTrue
    /\ request.at = "row" => request.read \in 1 .. 4
    /\ InRow => Row.service \in Services
    /\ InRow /\ Row.service \in Still => RowIsTrue \/ RowIsBlank

LEMMA StatusInit == ApiInit => StatusInv
<1> SUFFICES ASSUME ApiInit PROVE StatusInv OBVIOUS
<1>1. /\ main \in [Services -> {[repository |-> r, version |-> 1] : r \in Repositories}]
      /\ running = main
  BY DEF ApiInit, Init
<1>2. DOMAIN main = Services /\ DOMAIN running = Services BY <1>1
<1>3. request.at = "idle" BY DEF ApiInit, NoRequest
<1> QED BY <1>2, <1>3 DEF StatusInv, StillTrue, Listing, InRow

(* Away from a row there is little to keep. *)
LEMMA NoRowStatus ==
  ASSUME StatusInv, UNCHANGED <<main, running>>, request'.at \notin Listing
  PROVE  StatusInv'
BY DEF StatusInv, StillTrue, Listing, InRow

(* What others do, they do to services that are steady no more, or tear. *)
LEMMA StatusStands ==
  ASSUME StatusInv, UNCHANGED request,
         DOMAIN main' = DOMAIN main, DOMAIN running' = DOMAIN running,
         Still' \subseteq Still,
         \A s \in Still' :
            /\ main'[s] = main[s] /\ running'[s] = running[s]
            /\ mirror'[s] \in {mirror[s], main[s]}
            /\ s \in newest' <=> s \in newest
  PROVE  StatusInv'
<1>1. StillTrue' BY DEF StatusInv, StillTrue
<1>2. /\ request'.at = "row" => request'.read \in 1 .. 4
      /\ InRow' => Row'.service \in Services
  BY DEF StatusInv, InRow, Row
<1>3. ASSUME InRow', Row'.service \in Still'
      PROVE  RowIsTrue' \/ RowIsBlank'
  <2> PICK s : s = Row.service OBVIOUS
  <2>1. InRow /\ Row' = Row /\ s \in Still /\ s \in Still'
    BY <1>3 DEF InRow, Row
  <2>2. /\ main'[s] = main[s] /\ running'[s] = running[s]
        /\ s \in newest' <=> s \in newest
    BY <2>1
  <2>3. RowIsTrue \/ RowIsBlank BY <2>1 DEF StatusInv
  <2>4. CASE RowIsTrue BY <2>1, <2>2, <2>4 DEF RowIsTrue, Unread
  <2>5. CASE RowIsBlank BY <2>1, <2>2, <2>5 DEF RowIsBlank, Unread
  <2> QED BY <2>3, <2>4, <2>5
<1> QED BY <1>1, <1>2, <1>3 DEF StatusInv

LEMMA OthersStatus ==
  ASSUME StatusInv, Others \/ RunEnds \/ UNCHANGED allVars
  PROVE  StatusInv'
<1>1. UNCHANGED request BY DEF Others, RunEnds, allVars, apiVars
<1>2. CASE RunEnds
  <2>1. PICK s \in Services : newest' \in {newest, newest \ {s}} /\ steady' = steady \ {s}
    BY <1>2 DEF RunEnds
  <2>2. UNCHANGED <<main, running, mirror, torn>> BY <1>2 DEF RunEnds, worldVars, mirrorVars
  <2>3. Still' = Still \ {s} BY <2>1, <2>2 DEF Still
  <2> QED BY <1>1, <2>1, <2>2, <2>3, StatusStands
<1>3. CASE UNCHANGED allVars
  <2>1. UNCHANGED <<main, running, mirror, torn, newest, steady>>
    BY <1>3 DEF allVars, apiVars, vars, worldVars, mirrorVars, driftVars
  <2> QED BY <1>1, <2>1, StatusStands DEF Still
<1>4. CASE Others /\ World
  <2>1. UNCHANGED <<mirror, torn, newest>>
    BY <1>4 DEF Others, World, Push, HostChanges, TagMoves, Changes, mirrorVars
  <2>2. CASE \E r \in Repositories : TagMoves(r)
    <3>1. UNCHANGED <<main, running>> /\ steady' \subseteq steady BY <2>2 DEF TagMoves, Changes
    <3> QED BY <1>1, <2>1, <3>1, StatusStands DEF Still
  <2>3. ASSUME NEW s \in Services, Push(s) PROVE StatusInv'
    <3>1. /\ UNCHANGED running /\ steady' = steady \ {s} /\ DOMAIN main' = DOMAIN main
          /\ \A q \in DOMAIN main \ {s} : main'[q] = main[q]
      BY <2>3 DEF Push, Changes
    <3>2. DOMAIN main = Services BY DEF StatusInv, StillTrue
    <3>3. Still' = Still \ {s} BY <2>1, <3>1 DEF Still
    <3>4. \A q \in Still' : main'[q] = main[q] BY <3>1, <3>2, <3>3 DEF Still
    <3> QED BY <1>1, <2>1, <3>1, <3>3, <3>4, StatusStands
  <2>4. ASSUME NEW s \in Services, HostChanges(s) PROVE StatusInv'
    <3>1. /\ UNCHANGED main /\ steady' = steady \ {s} /\ DOMAIN running' = DOMAIN running
          /\ \A q \in DOMAIN running \ {s} : running'[q] = running[q]
      BY <2>4 DEF HostChanges, Changes
    <3>2. DOMAIN running = Services BY DEF StatusInv, StillTrue
    <3>3. Still' = Still \ {s} BY <2>1, <3>1 DEF Still
    <3>4. \A q \in Still' : running'[q] = running[q] BY <3>1, <3>2, <3>3 DEF Still
    <3> QED BY <1>1, <2>1, <3>1, <3>3, <3>4, StatusStands
  <2> QED BY <1>4, <2>2, <2>3, <2>4 DEF World
<1>5. CASE Others /\ Watch
  <2>1. UNCHANGED <<main, running, mirror, torn, newest, steady>>
    BY <1>5 DEF Others, Watch, Tick, Resolve, Store, worldVars, mirrorVars, driftVars
  <2> QED BY <1>1, <2>1, StatusStands DEF Still
<1>6. CASE Others /\ OthersSync
  <2>1. UNCHANGED <<main, running, newest, steady>>
    BY <1>6 DEF Others, OthersSync, worldVars, driftVars
  <2>2. /\ torn \subseteq torn'
        /\ \A s \in Services : mirror'[s] \in {mirror[s], main[s]} \/ s \in torn'
    BY <1>6 DEF OthersSync, SyncSucceeds, SyncFails
  <2>3. Still' \subseteq Still BY <2>1, <2>2 DEF Still
  <2>4. \A s \in Still' : mirror'[s] \in {mirror[s], main[s]} BY <2>2 DEF Still
  <2> QED BY <1>1, <2>1, <2>3, <2>4, StatusStands
<1> QED BY <1>2, <1>3, <1>4, <1>5, <1>6 DEF Others

(* The request's own steps. *)
LEMMA ListSyncStatus ==
  ASSUME Shape, StatusInv, ListSync
  PROVE  StatusInv'
<1>1. UNCHANGED <<main, running, steady>> BY DEF ListSync, WorldStands, worldVars, driftVars
<1>2. CASE Goto("list failed")
  <2>1. request'.at = "list failed" BY <1>2, GotoGives
  <2> QED BY <1>1, <2>1, NoRowStatus DEF Listing
<1>3. CASE SyncSucceeds /\ Goto("names")
  <2>1. mirror' = main BY <1>3 DEF SyncSucceeds
  <2>2. request'.at = "names" BY <1>3, GotoGives
  <2> QED BY <1>1, <2>1, <2>2 DEF StatusInv, StillTrue, InRow
<1> QED BY <1>2, <1>3 DEF ListSync, ListSyncs

LEMMA ListNamesStatus ==
  ASSUME Shape, StatusInv, ListNames
  PROVE  StatusInv'
<1>1. UNCHANGED <<main, running, mirror, torn, steady>>
  BY DEF ListNames, Reading, WorldStands, worldVars, mirrorVars, driftVars
<1>2. CASE Answer(502)
  <2>1. request'.at = "answered" BY <1>2, AnswerGives DEF Answer
  <2> QED BY <1>1, <2>1, NoRowStatus DEF Listing
<1>3. CASE request' = [request EXCEPT !.at = "rows", !.names = Known]
  <2>1. request.at \in Listing /\ request'.at = "rows"
    BY <1>3 DEF ListNames, At, Shape, Listing
  <2> QED BY <1>1, <2>1 DEF StatusInv, StillTrue, InRow, Still
<1> QED BY <1>2, <1>3 DEF ListNames

LEMMA ManifestStatus ==
  ASSUME Shape, StatusInv, synced, request.names \subseteq Services, StatusManifest
  PROVE  StatusInv'
<1>1. UNCHANGED <<main, running, mirror, torn, steady, newest>> /\ request.at \in Listing
  BY DEF StatusManifest, Reading, WorldStands, worldVars, mirrorVars, driftVars, Listing
<1>2. PICK s \in request.names : RowBegins(s) BY ManifestBegins
<1>3. s \in Services /\ Row'.service = s BY <1>2, RowBegun DEF Row
<1>4. StillTrue' BY <1>1 DEF StatusInv, StillTrue, Still
<1>5. s \in Still => mirror[s] = main[s] BY <1>1 DEF StatusInv, StillTrue
<1>6. CASE /\ Reads(s) /\ request'.at = "row" /\ request'.read = 1
           /\ request'.row = Seen(s) /\ request'.failed = {}
  <2>1. /\ Seen(s).manifest = mirror[s] /\ Seen(s).running = Absent
        /\ Seen(s).service = s
    BY DEF Seen, RowOf
  <2>2. Seen(s).seen /\ ~Seen(s).flight BY DEF Seen, RowOf
  <2>3. s \in Still => Readable(main[s]) BY <1>5, <1>6 DEF Reads
  <2>4. s \in Still' => RowIsTrue'
    <3>1. s \in Still' => s \in Still BY <1>1 DEF Still
    <3>2. /\ ~Unread("manifest")' /\ ~Unread("running")' /\ ~Unread("recent")'
      BY <1>6 DEF Unread
    <3> QED BY <1>1, <1>3, <1>5, <1>6, <2>1, <2>2, <2>3, <3>1, <3>2 DEF RowIsTrue, Row
  <2>5. request'.at = "row" => request'.read \in 1 .. 4 BY <1>6
  <2> QED BY <1>3, <1>4, <2>4, <2>5 DEF StatusInv
<1>7. CASE /\ request'.at = "row done" /\ request'.row = Blank(s)
           /\ request'.failed = {} => ~Reads(s)
           /\ request'.failed \in {{}, {"manifest"}}
  <2>1. ~Blank(s).seen /\ ~Blank(s).flight BY DEF Blank, RowOf
  <2>2. s \in Still' => ~Readable(main'[s]) \/ Unread("manifest")'
    BY <1>1, <1>5, <1>7 DEF Reads, Unread, Still
  <2>3. s \in Still' => RowIsBlank' BY <1>3, <1>7, <2>1, <2>2 DEF RowIsBlank, Row
  <2>4. request'.at # "row" BY <1>7
  <2> QED BY <1>3, <1>4, <2>3, <2>4 DEF StatusInv
<1> QED BY <1>2, <1>6, <1>7, RowBegun

(* What each read leaves of the row, and what it fills in. *)
LEMMA FilledGives ==
  ASSUME RowShape(Row), request.read \in 1 .. 4
  PROVE  LET row == Filled(Row) IN
         /\ row.service = Row.service /\ row.manifest = Row.manifest
         /\ row.seen = Row.seen
         /\ row.running = IF request.read = 1 THEN running[Row.service] ELSE Row.running
         /\ row.flight = IF request.read = 4 THEN Row.service \in newest ELSE Row.flight
<1>1. /\ statusReads[1] = "running" /\ statusReads[2] = "latest"
      /\ statusReads[3] = "poll" /\ statusReads[4] = "recent"
  BY DEF statusReads
<1>2. CASE request.read = 1 BY <1>1, <1>2 DEF Filled, RowShape
<1>3. CASE request.read = 2 BY <1>1, <1>3 DEF Filled, RowShape
<1>4. CASE request.read = 3 BY <1>1, <1>4 DEF Filled, RowShape
<1>5. CASE request.read = 4 BY <1>1, <1>5 DEF Filled, RowShape
<1> QED BY <1>2, <1>3, <1>4, <1>5

LEMMA ReadStatus ==
  ASSUME Shape, StatusInv, StatusRead
  PROVE  StatusInv'
<1>1. /\ request.at = "row" /\ UNCHANGED <<main, running, mirror, torn, newest, steady>>
      /\ request.read \in 1 .. 4 /\ Row.service \in Services
  BY DEF StatusRead, At, Reading, WorldStands, worldVars, mirrorVars, driftVars, StatusInv, InRow
<1>2. RowShape(Row) BY DEF Shape, Row
<1>3. /\ statusReads[1] = "running" /\ statusReads[2] = "latest"
      /\ statusReads[3] = "poll" /\ statusReads[4] = "recent" /\ Len(statusReads) = 4
  BY DEF statusReads
<1>4. PICK row, failed :
        /\ Then(row, failed)
        /\ \/ row = Filled(Row) /\ failed = request.failed
           \/ /\ request.read \in {1, 4} /\ row = Row
              /\ failed = request.failed \cup {statusReads[request.read]}
  <2>1. statusReads[request.read] \in {"running", "recent"} => request.read \in {1, 4}
    BY <1>1, <1>3
  <2> QED BY <2>1 DEF StatusRead, Row
<1>5. /\ Row' = row /\ request'.failed = failed
      /\ request'.at = IF request.read = 4 THEN "row done" ELSE "row"
      /\ request'.read = IF request.read = 4 THEN 0 ELSE request.read + 1
  BY <1>3, <1>4 DEF Then, Shape, Row
<1>6. /\ request'.at \in Listing /\ request.at \in Listing
      /\ request'.at = "row" => request'.read \in 1 .. 4
  <2>1. CASE request.read = 4
    <3>1. request'.at = "row done" BY <1>5, <2>1
    <3> QED BY <1>1, <3>1 DEF Listing
  <2>2. CASE request.read # 4
    <3>1. request'.at = "row" /\ request'.read = request.read + 1 BY <1>5, <2>2
    <3>2. request'.read \in 1 .. 4 BY <1>1, <2>2, <3>1
    <3> QED BY <1>1, <3>1, <3>2 DEF Listing
  <2> QED BY <2>1, <2>2
<1>7. StillTrue' BY <1>1, <1>6 DEF StatusInv, StillTrue, Still
<1>8. /\ Filled(Row).service = Row.service /\ Filled(Row).manifest = Row.manifest
      /\ Filled(Row).seen = Row.seen
      /\ Filled(Row).running = IF request.read = 1 THEN running[Row.service] ELSE Row.running
      /\ Filled(Row).flight = IF request.read = 4 THEN Row.service \in newest ELSE Row.flight
  BY <1>1, <1>2, FilledGives
<1>9. /\ row.service = Row.service /\ row.manifest = Row.manifest /\ row.seen = Row.seen
  BY <1>4, <1>8
<1>10. ASSUME Row'.service \in Still'
       PROVE  RowIsTrue'
  <2> PICK s : s = Row.service OBVIOUS
  <2>1. s \in Still BY <1>1, <1>5, <1>9, <1>10 DEF Still
  <2>2. RowIsTrue BY <1>1, <2>1 DEF StatusInv, InRow, RowIsBlank
  <2>3. /\ Readable(main[s]) /\ "manifest" \notin request.failed /\ Row.manifest = main[s]
        /\ request.read = 1 => Row.running = Absent /\ "running" \notin request.failed
        /\ request.read # 1 =>
             Row.running = IF "running" \in request.failed THEN Absent ELSE running[s]
        /\ "recent" \notin request.failed
    BY <1>1, <2>2 DEF RowIsTrue, Unread
  <2>4. Row.seen /\ ~Row.flight BY <1>1, <2>2 DEF RowIsTrue
  <2>5. /\ Readable(main'[Row'.service]) /\ Row'.manifest = main'[Row'.service]
        /\ "manifest" \notin request'.failed
    BY <1>1, <1>3, <1>4, <1>5, <1>9, <2>3
  <2>6. Row'.seen BY <1>5, <1>9, <2>4
  <2>7. Row'.running = IF "running" \in request'.failed THEN Absent ELSE running'[Row'.service]
    <3>1. CASE request.read = 1 BY <1>1, <1>3, <1>4, <1>5, <1>8, <1>9, <2>3, <3>1
    <3>2. CASE request.read # 1
      <4>1. "running" \in failed <=> "running" \in request.failed
        BY <1>1, <1>3, <1>4, <3>2
      <4> QED BY <1>1, <1>4, <1>5, <1>8, <1>9, <2>3, <3>2, <4>1
    <3> QED BY <3>1, <3>2
  <2>8. CASE request.read = 4
    <3>1. request'.at = "row done" BY <1>5, <2>8
    <3>2. CASE row = Filled(Row) /\ failed = request.failed
      <4>1. Row'.flight <=> s \in newest BY <1>5, <1>8, <2>8, <3>2
      <4>2. "recent" \notin request'.failed BY <1>5, <2>3, <3>2
      <4> QED BY <1>1, <1>5, <1>9, <2>5, <2>6, <2>7, <3>1, <4>1, <4>2 DEF RowIsTrue, Unread
    <3>3. CASE row = Row /\ failed = request.failed \cup {statusReads[request.read]}
      <4>1. ~Row'.flight BY <1>5, <2>4, <3>3
      <4>2. "recent" \in request'.failed BY <1>3, <1>5, <2>8, <3>3
      <4> QED BY <1>1, <1>5, <1>9, <2>5, <2>6, <2>7, <3>1, <4>1, <4>2 DEF RowIsTrue, Unread
    <3> QED BY <1>4, <3>2, <3>3
  <2>9. CASE request.read # 4
    <3>1. request'.at = "row" /\ request'.read # 1 BY <1>1, <1>5, <2>9
    <3>2. ~Row'.flight
      <4>1. row.flight = Row.flight BY <1>4, <1>8, <2>9
      <4> QED BY <1>5, <2>4, <4>1
    <3>3. "recent" \notin request'.failed BY <1>1, <1>3, <1>4, <1>5, <2>3, <2>9
    <3> QED BY <2>5, <2>6, <2>7, <3>1, <3>2, <3>3 DEF RowIsTrue, Unread
  <2> QED BY <2>8, <2>9
<1>11. InRow' => Row'.service \in Services BY <1>1, <1>5, <1>9
<1> QED BY <1>6, <1>7, <1>10, <1>11 DEF StatusInv

LEMMA StatusNext ==
  ASSUME ApiInv, StatusInv, [ApiNext]_allVars
  PROVE  StatusInv'
<1>1. Shape /\ request.names \subseteq Services BY DEF ApiInv, RowInv
<1>2. CASE Others \/ RunEnds \/ UNCHANGED allVars BY <1>2, OthersStatus
<1>3. CASE ListSync BY <1>1, <1>3, ListSyncStatus
<1>4. CASE ListNames BY <1>1, <1>4, ListNamesStatus
<1>5. CASE StatusManifest
  <2>1. synced BY <1>5 DEF StatusManifest, ApiInv, ReadyInv, Past
  <2> QED BY <1>1, <1>5, <2>1, ManifestStatus
<1>6. CASE StatusRead BY <1>1, <1>6, ReadStatus
<1>7. CASE Unlisting
  <2>1. UNCHANGED <<main, running>>
    BY <1>7 DEF Unlisting, Arrive, BareDeploy, ArrivalKeeps, Leave, ListFailed, Listed,
       GateReady, GateLookup, Look, Click, Reading, WorldStands, worldVars
  <2> QED BY <1>7, <2>1, UnlistingGives, NoRowStatus DEF Listing
<1>8. CASE Reboot
  <2>1. UNCHANGED <<main, running>> /\ request'.at = "idle"
    BY <1>8 DEF Reboot, Restart, worldVars, NoRequest
  <2> QED BY <2>1, NoRowStatus DEF Listing
<1> QED
  BY <1>2, <1>3, <1>4, <1>5, <1>6, <1>7, <1>8 DEF ApiNext, List, Unlisting

(* The state printed of a service that held still under the request and    *)
(* that no failed sync tore is its state: a run in flight, if its row is   *)
(* the newest, outranks drift, drift an update                             *)
(* (cmd/snowdeploy/main.go:157-166); and what a failed read leaves of it   *)
(* (api.go:281-306).  It takes the list's own sync: without one the row is *)
(* of whichever main was fetched last.                                     *)
THEOREM StatusPrintedIsTrue == ApiSpec => []StatusIsTrue
<1>1. StatusInv => StatusIsTrue
  <2> SUFFICES ASSUME StatusInv, At("row done"), Row.service \in steady \ torn
               PROVE  IF ~Readable(main[Row.service]) \/ Unread("manifest")
                      THEN state(Row) = "in sync"
                      ELSE IF Row.service \in newest /\ ~Unread("recent")
                      THEN state(Row) = "in flight"
                      ELSE IF ~InStep(Row.service) \/ Unread("running")
                      THEN state(Row) = "DRIFTED"
                      ELSE state(Row) \in {"in sync", "update available"}
    BY DEF StatusIsTrue, Row, Unread
  <2>1. request.at = "row done" /\ (RowIsTrue \/ RowIsBlank)
    BY DEF StatusInv, InRow, At, Still
  <2>2. CASE RowIsBlank
    <3>1. ~Row.seen /\ ~Row.flight BY <2>2 DEF RowIsBlank
    <3>2. state(Row) = "in sync" BY <3>1 DEF state
    <3>3. ~Readable(main[Row.service]) \/ Unread("manifest") BY <2>2 DEF RowIsBlank
    <3> QED BY <3>2, <3>3
  <2>3. CASE RowIsTrue
    <3>1. /\ Readable(main[Row.service]) /\ ~Unread("manifest")
          /\ Row.manifest = main[Row.service]
          /\ Row.running = IF Unread("running") THEN Absent ELSE running[Row.service]
      BY <2>1, <2>3 DEF RowIsTrue
    <3>2. Row.seen /\ (Row.flight <=> Row.service \in newest /\ ~Unread("recent"))
      BY <2>1, <2>3 DEF RowIsTrue
    <3>3. main[Row.service] # Absent BY <3>1, CatalogAssumption DEF Readable
    <3>4. CASE Row.flight BY <3>1, <3>2, <3>4 DEF state
    <3>5. CASE ~Row.flight
      <4>1. Row.running # Row.manifest <=> ~InStep(Row.service) \/ Unread("running")
        BY <3>1, <3>3 DEF InStep
      <4> QED BY <3>1, <3>2, <3>5, <4>1 DEF state
    <3> QED BY <3>4, <3>5
  <2> QED BY <2>1, <2>2, <2>3
<1> QED BY <1>1, ApiInvHolds, StatusInit, StatusNext, PTL DEF ApiSpec
=============================================================================

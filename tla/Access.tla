------------------------------- MODULE Access -------------------------------
(***************************************************************************)
(* Who may do what: the bearer tokens of the CLI with their hash file      *)
(* (internal/api/auth.go) and the browser's way in through the fronting    *)
(* proxy (internal/api/proxy.go).  The file is read again on every request *)
(* and anyone on the host can talk to the listener, so a request is judged *)
(* from itself, the file at that moment and the configuration alone.       *)
(***************************************************************************)
EXTENDS Sequences, Integers, SequencesExt

CONSTANTS
    Tokens,  \* bearer tokens; a line names one by its hash
    Typo     \* a name that is no action

knownActions == {"deploy", "rollback", "converge"}

ASSUME AccessAssumption == Typo \notin knownActions

(* A scope; the nil scope allows every action. *)
Unscoped == [any |-> TRUE, of |-> {}]
Only(actions) == [any |-> FALSE, of |-> actions]
allows(scope, action) == scope.any \/ action \in scope.of

-----------------------------------------------------------------------------
(* The token hash file.  A field of a line after the hash begins with      *)
(* "scope" in any case, and then it is a scope field or nearly one, or it  *)
(* is a word of the label.                                                 *)

Label == [looks |-> "label", names |-> {}]
Near == [looks |-> "near", names |-> {}]
ScopeField(names) == [looks |-> "scope", names |-> names]

parseScope(names) == [ok |-> names \subseteq knownActions, scope |-> Only(names)]

(* Every field of the line that looks like a scope field is one, is the    *)
(* last, and names actions.                                                *)
NearIsLabel(line) ==
    \A i \in DOMAIN line.fields :
        line.fields[i].looks = "scope" => i = Len(line.fields) /\ parseScope(line.fields[i].names).ok
WellFormed(line) ==
    \A i \in DOMAIN line.fields : line.fields[i].looks # "label" =>
        /\ i = Len(line.fields)
        /\ line.fields[i].looks = "scope"
        /\ parseScope(line.fields[i].names).ok

parseTokenLine(line) ==
    LET f == line.fields IN
    IF f # <<>> /\ Last(f).looks = "scope" THEN parseScope(Last(f).names).scope ELSE Unscoped

(* A file that cannot be read is one that is not there. *)
parseTokenHashFile(file) ==
    [ok |-> file.there /\ \A i \in DOMAIN file.lines : WellFormed(file.lines[i])]

Refused == [ok |-> FALSE, scope |-> Only({})]
Admitted(scope) == [ok |-> TRUE, scope |-> scope]

(* The first line that names a token is the one that counts. *)
LinesOf(file, token) == {i \in DOMAIN file.lines : file.lines[i].token = token}
LineOf(file, token) == file.lines[Min(LinesOf(file, token))]

matchToken(file, token) ==
    IF parseTokenHashFile(file).ok /\ LinesOf(file, token) # {}
    THEN Admitted(parseTokenLine(LineOf(file, token))) ELSE Refused

-----------------------------------------------------------------------------
(* A request carries a bearer token or "none", and the two headers of the  *)
(* proxy some number of times each.                                        *)

identity(r) == r.secrets = 1 /\ r.right /\ r.users = 1 /\ r.listed

(* A bearer is judged alone.  Without a proxy configured the browser path  *)
(* is closed.                                                              *)
FileFirst(r, file, proxy) ==
    IF ~parseTokenHashFile(file).ok THEN Refused
    ELSE IF r.bearer # "none" THEN matchToken(file, r.bearer)
    ELSE IF proxy = "open" /\ identity(r) THEN Admitted(Unscoped) ELSE Refused
actor(r, file, proxy) ==
    IF r.bearer # "none" THEN matchToken(file, r.bearer)
    ELSE IF proxy = "open" /\ identity(r) THEN Admitted(Unscoped) ELSE Refused

-----------------------------------------------------------------------------
(* What administrators write, and what is sent.                            *)

(* A line meant to scope a token, as it may be typed: correctly, with or   *)
(* without a label; with a slip that the grammar notices; or with one that *)
(* leaves no field that begins with "scope": another word ("scop=",        *)
(* "actions="), a field in quotes, the field on a line of its own.         *)
Noticed(actions) ==
    {<<ScopeField(actions), Label>>, <<Near>>, <<Near, Label>>, <<Label, Near>>}
        \cup {<<ScopeField((actions \ {a}) \cup {Typo})>> : a \in actions}
Unnoticed == {<<>>, <<Label>>, <<Label, Label>>}
Typed(actions) ==
    {<<ScopeField(actions)>>, <<Label, ScopeField(actions)>>} \cup Noticed(actions) \cup Unnoticed

Lines == [token : Tokens, fields : {<<>>, <<Label>>}, meant : {Unscoped}]
            \cup UNION {[token : Tokens, fields : Typed(actions), meant : {Only(actions)}] :
                        actions \in {{}, {"converge"}, {"deploy", "rollback"}}}

Files == [there : {FALSE}, lines : {<<>>}] \cup [there : {TRUE}, lines : SeqOf(Lines, 2)]

(* The proxy sets both headers itself, each once.  A request that did not  *)
(* come through it lacks the secret, or came by a hop that appended.       *)
Requests ==
    {r \in [bearer : Tokens \cup {"none"}, proxied : BOOLEAN, users : 0 .. 2,
            listed : BOOLEAN, secrets : 0 .. 2, right : BOOLEAN] :
        IF r.proxied THEN r.users = 1 /\ r.secrets = 1 /\ r.right
                     ELSE r.right => r.users = 2 \/ r.secrets = 2}

(* An action is meant for a token if a line of it was meant to allow it,   *)
(* and for the browser of someone on the list.                             *)
Meant(r, file, action) ==
    IF r.bearer # "none"
    THEN \E i \in DOMAIN file.lines :
            file.lines[i].token = r.bearer /\ allows(file.lines[i].meant, action)
    ELSE r.proxied /\ r.listed

(* The line that counts was meant to scope the token, and nothing in it    *)
(* looks like a scope field.                                               *)
Slipped(r, file) ==
    /\ r.bearer # "none" /\ LinesOf(file, r.bearer) # {}
    /\ ~LineOf(file, r.bearer).meant.any
    /\ \A i \in DOMAIN LineOf(file, r.bearer).fields :
          LineOf(file, r.bearer).fields[i].looks = "label"

Vouched(r, proxy) == proxy = "open" /\ r.bearer = "none" /\ r.proxied /\ r.listed

(* How a request for an action can be judged; "no action" is a read.       *)
Authorised(judged, action) == judged.ok /\ (action = "no action" \/ allows(judged.scope, action))

Verdict(r, file, proxy, action) ==
    LET judged == actor(r, file, proxy) IN
    [action |-> action, known |-> judged.ok, allowed |-> Authorised(judged, action),
     meant |-> action = "no action" \/ Meant(r, file, action),
     slipped |-> action # "no action" /\ ~Meant(r, file, action) /\ Slipped(r, file),
     vouched |-> Vouched(r, proxy)]

Circumstances == Files \X {"open", "closed"} \X (knownActions \cup {"no action"})
VerdictsOn(r) == {Verdict(r, c[1], c[2], c[3]) : c \in Circumstances}
Verdicts == UNION {VerdictsOn(r) : r \in Requests}
=============================================================================

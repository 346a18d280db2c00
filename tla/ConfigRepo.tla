----------------------------- MODULE ConfigRepo -----------------------------
(***************************************************************************)
(* The configuration repository as GitHub holds it: the manifests on the   *)
(* default branch, the branches and pull requests the daemon opens against *)
(* it, and the people who push to it.  The operations are the calls of     *)
(* internal/gitops/github.go; what GitHub does with each is external and   *)
(* modelled from how that file and internal/deploy/engine.go use it.       *)
(***************************************************************************)
EXTENDS Integers, Sequences, FiniteSets

CONSTANTS
    Services,            \* services with a manifest on main
    Digests,             \* image digests a manifest can pin
    InitialPin,          \* the digest every service starts on
    MaxEdits,            \* bound on the pushes people make to main
    Mentions,            \* <<rev, digest>>: text whose comments repeat the digest
    KeepMergedBranches   \* whether GitHub leaves a merged head branch behind

ASSUME RepoAssumption ==
    /\ InitialPin \in Digests
    /\ MaxEdits \in Nat
    /\ Mentions \subseteq (0 .. MaxEdits) \X Digests
    /\ KeepMergedBranches \in BOOLEAN

VARIABLES
    main,     \* per service, the manifest the default branch holds
    prs,      \* pull requests by number, with the head branch of each
    edits,    \* pushes made so far
    landed    \* history: every manifest main has held, per service

repoVars == <<main, prs, edits, landed>>

-----------------------------------------------------------------------------
(* A manifest's bytes are its image pin and the revision of all its other  *)
(* text.  setDigest rewrites the pin only when the old digest occurs once. *)

Revs == 0 .. MaxEdits
Content == [digest : Digests, rev : Revs]

OccursOnce(raw) == <<raw.rev, raw.digest>> \notin Mentions
setDigest(raw, digest) == [raw EXCEPT !.digest = digest]

-----------------------------------------------------------------------------
(* A pull request and its head branch.  want names the branch, which is    *)
(* derived from the content proposed; base is the service's manifest at    *)
(* the merge base, head the one on the branch; behind says that main has   *)
(* commits the branch lacks.                                               *)

Proposal == [service : Services, want : Content, base : Content, head : Content,
             behind : BOOLEAN, state : {"open", "merged", "closed"}]

branchFor(s, content) ==
    {n \in DOMAIN prs : /\ prs[n].service = s
                        /\ prs[n].want = content
                        /\ prs[n].state = "merged" => KeepMergedBranches}

Newest(ns) == {n \in ns : \A m \in ns : m <= n}

(* A commit on main leaves every branch behind it. *)
MainBecomes(s, content, proposals) ==
    /\ main' = [main EXCEPT ![s] = content]
    /\ landed' = [landed EXCEPT ![s] = @ \cup {content}]
    /\ prs' = [n \in DOMAIN proposals |-> [proposals[n] EXCEPT !.behind = TRUE]]

(* A field takes whichever side changed it; both sides changing it to      *)
(* different values is a conflict.                                         *)
Merges(base, ours, theirs) == base = ours \/ base = theirs \/ ours = theirs
Merged(base, ours, theirs) == IF ours = base THEN theirs ELSE ours

MergesCleanly(p, theirs) ==
    /\ Merges(p.base.digest, p.head.digest, theirs.digest)
    /\ Merges(p.base.rev, p.head.rev, theirs.rev)

-----------------------------------------------------------------------------
(* OpenManifestPR returns the number n.  A new branch starts at main's     *)
(* head, and an empty change is refused.  An existing branch is never      *)
(* moved: the manifest is written on top of whatever base it has, and its  *)
(* pull request is adopted when it is still open.                          *)
OpenOnNewBranch(s, content, n) ==
    /\ branchFor(s, content) = {}
    /\ content # main[s]
    /\ n = Len(prs) + 1
    /\ prs' = Append(prs, [service |-> s, want |-> content, base |-> main[s],
                           head |-> content, behind |-> FALSE, state |-> "open"])

OpenOnOldBranch(s, content, n) ==
    \E m \in Newest(branchFor(s, content)) :
        /\ prs[m].state # "open"
        /\ n = Len(prs) + 1
        /\ prs' = Append(prs, [prs[m] EXCEPT !.head = content, !.state = "open"])

AdoptOpen(s, content, n) ==
    /\ n \in Newest(branchFor(s, content))
    /\ prs[n].state = "open"
    /\ prs' = [prs EXCEPT ![n].head = content]

OpenManifestPR(s, content, n) ==
    /\ \/ OpenOnNewBranch(s, content, n)
       \/ OpenOnOldBranch(s, content, n)
       \/ AdoptOpen(s, content, n)
    /\ UNCHANGED <<main, edits, landed>>

RefusedAsEmpty(s, content) == branchFor(s, content) = {} /\ content = main[s]

(* Merge squashes.  Branch protection refuses a branch that is behind.     *)
CanMerge(n) == prs[n].state = "open" /\ ~prs[n].behind

Merge(n) ==
    /\ CanMerge(n)
    /\ MainBecomes(prs[n].service, prs[n].head, [prs EXCEPT ![n].state = "merged"])
    /\ UNCHANGED edits

(* UpdateBranch merges main into the head branch; a branch that is already *)
(* current counts as success.                                              *)
CanUpdate(n) ==
    prs[n].state = "open" /\ MergesCleanly(prs[n], main[prs[n].service])

UpdateBranch(n) ==
    LET p == prs[n]
        m == main[p.service]
    IN /\ CanUpdate(n)
       /\ prs' = [prs EXCEPT ![n] =
            [p EXCEPT !.head.digest = Merged(p.base.digest, p.head.digest, m.digest),
                      !.head.rev = Merged(p.base.rev, p.head.rev, m.rev),
                      !.base = m,
                      !.behind = FALSE]]
       /\ UNCHANGED <<main, edits, landed>>

ForgetPR(n) == UNCHANGED repoVars

ClosePR(n) ==
    /\ prs' = [prs EXCEPT ![n].state = IF @ = "open" THEN "closed" ELSE @]
    /\ UNCHANGED <<main, edits, landed>>

(* Someone pushes an edit of a manifest: of its pin, its other text, both. *)
Push(s) ==
    /\ edits < MaxEdits
    /\ edits' = edits + 1
    /\ \E d \in Digests, rev \in {main[s].rev, edits + 1} :
         /\ [digest |-> d, rev |-> rev] # main[s]
         /\ MainBecomes(s, [digest |-> d, rev |-> rev], prs)

-----------------------------------------------------------------------------
RepoInit ==
    /\ main = [s \in Services |-> [digest |-> InitialPin, rev |-> 0]]
    /\ prs = <<>>
    /\ edits = 0
    /\ landed = [s \in Services |-> {main[s]}]

RepoTypeOK ==
    /\ main \in [Services -> Content]
    /\ prs \in Seq(Proposal)
    /\ edits \in 0 .. MaxEdits
    /\ landed \in [Services -> SUBSET Content]
=============================================================================

------------------------------ MODULE Deploys -------------------------------
(***************************************************************************)
(* What an operator is promised of deploys (docs/architecture.md): one     *)
(* deploy at a time has a service's turn, only the one whose turn it is    *)
(* touches that service on the host and only while its receipt is open,    *)
(* and a receipt is written once.  Engine implements it.                   *)
(***************************************************************************)
EXTENDS Integers

CONSTANTS Services, Ids, NoRun

VARIABLES
    receipt,   \* per run: "none" before the click, "open", then its outcome
    turn,      \* per service, the run whose turn it is
    host       \* per service, unit file and container

vars == <<receipt, turn, host>>

Sealed == {"healthy", "rolled-back", "failed"}

Accept(r) ==
    /\ receipt[r] = "none"
    /\ receipt' = [receipt EXCEPT ![r] = "open"]
    /\ UNCHANGED <<turn, host>>

Take(r, s) ==
    /\ receipt[r] = "open"
    /\ turn[s] = NoRun
    /\ \A t \in Services : turn[t] # r
    /\ turn' = [turn EXCEPT ![s] = r]
    /\ UNCHANGED <<receipt, host>>

Touch(r, s) ==
    /\ turn[s] = r
    /\ receipt[r] = "open"
    /\ \A t \in Services \ {s} : host'[t] = host[t]
    /\ UNCHANGED <<receipt, turn>>

Seal(r) ==
    /\ receipt[r] = "open"
    /\ \E outcome \in Sealed : receipt' = [receipt EXCEPT ![r] = outcome]
    /\ UNCHANGED <<turn, host>>

Yield(s) ==
    /\ turn[s] # NoRun
    /\ turn' = [turn EXCEPT ![s] = NoRun]
    /\ UNCHANGED <<receipt, host>>

(* The daemon is gone, and every turn with it. *)
AllYield ==
    /\ turn' = [s \in Services |-> NoRun]
    /\ UNCHANGED <<receipt, host>>

Init ==
    /\ receipt = [r \in Ids |-> "none"]
    /\ turn = [s \in Services |-> NoRun]

Next ==
    \/ \E r \in Ids : Accept(r) \/ Seal(r)
    \/ \E r \in Ids, s \in Services : Take(r, s) \/ Touch(r, s)
    \/ \E s \in Services : Yield(s)
    \/ AllYield

Spec == Init /\ [][Next]_vars
=============================================================================

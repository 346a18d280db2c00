------------------------------ MODULE MCEngine ------------------------------
(* Small instances of Engine for TLC. *)
EXTENDS EngineProperties, TLC

(* The text of the first push repeats the digest the service starts on. *)
MentionInitialPin == {<<1, InitialPin>>}

Symmetry == Permutations(Digests \ {InitialPin})
=============================================================================

----------------------------- MODULE MCConnectorDb -----------------------------
(* Small instances of ConnectorDb for TLC. *)
EXTENDS ConnectorDb, TLC

Symmetry == Permutations(Worker) \cup Permutations(Handle)
=============================================================================

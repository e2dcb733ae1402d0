------------------------------- MODULE MCServer -------------------------------
(* Small instances of Server for TLC, from the sets of MCSqlKit. *)
EXTENDS Server, MCSqlKit
=============================================================================

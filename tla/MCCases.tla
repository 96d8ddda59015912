------------------------------- MODULE MCCases -------------------------------
(* Small instances of Cases for TLC. *)
EXTENDS Cases

CONSTANTS v1, v2     \* two answers of the model
MCPredictions == {v1, v2}
=============================================================================

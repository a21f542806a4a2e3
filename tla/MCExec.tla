------------------------------- MODULE MCExec -------------------------------
(* A small instance of Exec for TLC. *)
EXTENDS Exec

CONSTANTS main, pump1, pump2, rest

MCPumpOf == <<pump1, pump2>>
=============================================================================

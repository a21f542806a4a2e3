------------------------------- MODULE MCShim -------------------------------
(* A small instance of Shim for TLC. *)
EXTENDS Shim

CONSTANTS c1

Load(reset, secrets, command) ==
  [reset |-> reset, secrets |-> secrets, command |-> command]

\* One payload that brings secrets, one that keeps the workspace and brings a
\* command, and one that resets it and brings a command.
MCPayloads ==
  {Load("unset", TRUE, FALSE), Load("false", FALSE, TRUE),
   Load("unset", FALSE, TRUE)}
=============================================================================

-------------------------- MODULE MCCommandChannel --------------------------
(* A small instance of CommandChannel for TLC. *)
EXTENDS CommandChannel

CONSTANT c3

\* c3 was sent while the Agent was away.
OneLeft == <<c3>>
=============================================================================

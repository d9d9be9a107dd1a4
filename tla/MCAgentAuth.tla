---------------------------- MODULE MCAgentAuth -----------------------------
(* Small instances of AgentAuth for TLC. *)
EXTENDS AgentAuth, TLC

\* Clocks that are right, and wrong by as much as the window tolerates.
ClockOffsets == {-Window, 0, Window}

Symmetry == Permutations(Requests) \cup Permutations(Handlers)
=============================================================================

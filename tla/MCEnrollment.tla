---------------------------- MODULE MCEnrollment ----------------------------
(* Small instances of Enrollment for TLC. *)
EXTENDS Enrollment, TLC

CONSTANTS m1, m2

\* Machines with different names or host names.
OwnNames == [m \in Machines |-> m]

Symmetry ==
    Permutations(Machines) \cup Permutations(NodeIds) \cup Permutations(OneTimeTokens)
=============================================================================

--------------------------- MODULE MCLeaderElection ---------------------------
(* Model-checking instances of LeaderElection. *)
EXTENDS LeaderElection, TLC

CONSTANTS p1, p2

MCPods == {p1, p2}

Symmetry == Permutations(MCPods)

=============================================================================

------------------------------ MODULE MCCluster ------------------------------
(* Two pods; p2 is the preferred owner of every flow while it is a peer. *)
EXTENDS Cluster

MCScore == [f \in Flows |-> [p \in Peers |-> IF p = "p2" THEN 1 ELSE 0]]

=============================================================================

--------------------------- MODULE MCClusterState --------------------------
(* Instances of ClusterState for TLC. *)
EXTENDS ClusterState

CONSTANTS p1, p2, n1, n2

\* Unequal requests, so that no two sets of pods have the same load.
MCRequest == [p \in Pods |-> IF p = p1 THEN 1 ELSE 2]
============================================================================

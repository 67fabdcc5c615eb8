------------------------- MODULE MCNodeProvisioner -------------------------
(* Instances of NodeProvisioner for TLC. *)
EXTENDS NodeProvisioner

CONSTANTS n1, n2
============================================================================

--------------------------- MODULE MCNodeRemoval ---------------------------
(* Instances of NodeRemoval for TLC. *)
EXTENDS NodeRemoval

CONSTANTS n1, n2, web, dns, agent

\* A workload pod, a kube-system pod and, where it is listed, a daemon.
MCClass == [p \in Pods |-> CASE p = web -> "workload" [] p = dns -> "system" [] OTHER -> "daemon"]

AnyUtil == [n \in Nodes |-> BOOLEAN]
LowUtil == [n \in Nodes |-> {TRUE}]
============================================================================

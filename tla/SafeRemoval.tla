---------------------------- MODULE SafeRemoval ----------------------------
(***************************************************************************)
(* What the scale-down pipeline of the autoscaler promises, without its    *)
(* steps.  A node leaves the cluster only by the road                      *)
(*                                                                         *)
(*     cordoned, then found empty, then found annotated,                   *)
(*     then its Node object is deleted, then its container is gone         *)
(*                                                                         *)
(* in one removal, and one removal goes on at a time.  The promise is of   *)
(* what was established, each time by a look at the cluster, and in this   *)
(* order.  Guests of a node, that is pods bound to it while it was in      *)
(* service, come only to a node in service: so a node that is found empty  *)
(* stays so until it is deleted, unless an operator uncordons it, and its  *)
(* annotation stays unless an operator takes it away.  Nothing is promised *)
(* against those two.  NodeRemoval implements this specification.          *)
(***************************************************************************)
CONSTANTS Nodes, Pods

VARIABLES
    stage,      \* [Nodes -> Stage]
    vetted,     \* [Nodes -> Vetted], what the removal under way has established
    guests,     \* [Nodes -> SUBSET Pods]
    managed     \* the nodes that carry the managed-by annotation

vars == <<stage, vetted, guests, managed>>

Stage == {"inService", "cordoned", "deleted", "gone"}

Vetted == {"no", "sealed", "empty", "cleared"}

\* A cluster as the autoscaler finds it: nothing deleted yet.
Init ==
    /\ stage \in [Nodes -> {"inService", "cordoned"}]
    /\ vetted = [n \in Nodes |-> "no"]
    /\ guests \in [Nodes -> SUBSET Pods]
    /\ managed \in SUBSET Nodes

Advance(n, from, to) ==
    /\ vetted[n] = from
    /\ vetted' = [vetted EXCEPT ![n] = to]

----------------------------------------------------------------------------
(* The removal of a node *)

\* The node is cordoned, or found so.
Seal(n) ==
    /\ \A m \in Nodes : vetted[m] = "no"
    /\ stage[n] \in {"inService", "cordoned"}
    /\ stage' = [stage EXCEPT ![n] = "cordoned"]
    /\ Advance(n, "no", "sealed")
    /\ UNCHANGED <<guests, managed>>

FindEmpty(n) ==
    /\ guests[n] = {}
    /\ Advance(n, "sealed", "empty")
    /\ UNCHANGED <<stage, guests, managed>>

FindManaged(n) ==
    /\ n \in managed
    /\ Advance(n, "empty", "cleared")
    /\ UNCHANGED <<stage, guests, managed>>

Delete(n) ==
    /\ Advance(n, "cleared", "no")
    /\ stage' = [stage EXCEPT ![n] = "deleted"]
    /\ UNCHANGED <<guests, managed>>

\* A removal may be given up at any point, also by a crash.
GiveUp(n) ==
    /\ vetted' = [vetted EXCEPT ![n] = "no"]
    /\ UNCHANGED <<stage, guests, managed>>

Terminate(n) ==
    /\ stage[n] = "deleted"
    /\ stage' = [stage EXCEPT ![n] = "gone"]
    /\ UNCHANGED <<vetted, guests, managed>>

----------------------------------------------------------------------------
(* The cluster around it *)

\* Guests come only to a node in service; they may leave at any time.
Arrive(n, p) ==
    /\ stage[n] = "inService"
    /\ guests' = [guests EXCEPT ![n] = @ \cup {p}]
    /\ UNCHANGED <<stage, vetted, managed>>

Leave(n, p) ==
    /\ p \in guests[n]
    /\ guests' = [guests EXCEPT ![n] = @ \ {p}]
    /\ UNCHANGED <<stage, vetted, managed>>

\* An operator cordons the node, or a removal does that is then given up.
Cordon(n) ==
    /\ stage[n] = "inService"
    /\ stage' = [stage EXCEPT ![n] = "cordoned"]
    /\ UNCHANGED <<vetted, guests, managed>>

\* An operator returns the node to service; pods that slipped onto it while
\* it was cordoned count as guests from now on.
Uncordon(n) ==
    /\ stage[n] = "cordoned"
    /\ stage' = [stage EXCEPT ![n] = "inService"]
    /\ \E G \in SUBSET Pods :
        /\ guests[n] \subseteq G
        /\ guests' = [guests EXCEPT ![n] = G]
    /\ UNCHANGED <<vetted, managed>>

Reannotate(n) ==
    /\ stage[n] \in {"inService", "cordoned"}
    /\ managed' \in {managed \cup {n}, managed \ {n}}
    /\ UNCHANGED <<stage, vetted, guests>>

Next ==
    \E n \in Nodes :
        \/ Seal(n) \/ FindEmpty(n) \/ FindManaged(n) \/ Delete(n) \/ GiveUp(n) \/ Terminate(n)
        \/ Cordon(n) \/ Uncordon(n) \/ Reannotate(n)
        \/ \E p \in Pods : Arrive(n, p) \/ Leave(n, p)

Spec == Init /\ [][Next]_vars
============================================================================

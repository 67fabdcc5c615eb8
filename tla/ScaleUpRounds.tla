--------------------------- MODULE ScaleUpRounds ---------------------------
(***************************************************************************)
(* Detector, estimator, policy and handleScaleUp put together, round after *)
(* round, with pods and nodes that have sizes: what the controller creates *)
(* is what the scheduler, which does not follow the estimator's packing,   *)
(* may use, and what it leaves waiting is the input of the next round.     *)
(* AutoscalerController has the lock, the cooldowns and the lag of the     *)
(* informers, with pods as large as nodes; here one goroutine runs, reads  *)
(* ClusterState as it is at each read, and rounds follow one another.  A   *)
(* container that CreateNode gave up waiting for may register later.       *)
(***************************************************************************)
EXTENDS ResourceEstimator

CONSTANTS
    AtStart,        \* the nodes of the cluster at the start
    ReadyAtStart,   \* those of them that are Ready then
    Capacity,       \* [Names -> Resources], allocatable less the load of other pods
    Absent, Waiting,    \* a pod that is not submitted, or not bound
    MaxFailures     \* bound on the CreateNode calls that fail

\* The names never run out: CreateNode makes them from the time.
ASSUME RoundsAssumption ==
    /\ ReadyAtStart \subseteq AtStart /\ AtStart \subseteq Names /\ Cardinality(AtStart) <= MaxNodes
    /\ Cardinality(Names) >= MaxNodes + MaxFailures
    /\ {Absent, Waiting} \cap Names = {}
    /\ Capacity \in [Names -> Resources]
    /\ MaxFailures \in Nat

VARIABLES
    \* The cluster.
    nodes, ready,   \* Node objects, and those that are Ready
    place,          \* [Pods -> Names \cup {Absent, Waiting}]
    failures,       \* how many calls of CreateNode have failed
    abandoned,      \* containers that CreateNode gave up before they had a Node
    \* The round.
    pc,
    unschedulable,  \* what the detector found
    count,          \* dec.Count, then toProvision
    left            \* turns of the CreateNode loop to go

cluster == <<nodes, ready, place, failures, abandoned>>
round   == <<unschedulable, count, left>>
vars    == <<cluster, pc, round, estimate>>

Steps == {"idle", "estimate", "pack", "decide", "scaleUp", "create"}

\* Every variable stays in its domain; no bin of the packing has a negative
\* rest.
TypeOK ==
    /\ nodes \subseteq Names /\ ready \subseteq nodes
    /\ place \in [Pods -> nodes \cup {Absent, Waiting}]
    /\ failures \in 0..MaxFailures
    /\ abandoned \subseteq Names
    /\ pc \in Steps
    /\ unschedulable \subseteq Pods
    /\ count \in Nat
    /\ left \in 0..count
    /\ feasible \subseteq unschedulable
    /\ DOMAIN existing \subseteq nodes
    /\ \A n \in DOMAIN existing : existing[n] \in Resources
    /\ openNewNodes \in Seq(Resources)
    /\ \A e \in packed : e[1] \in unschedulable
    /\ placedPods \cup infeasiblePods \subseteq NamesOf(unschedulable)

\* The requests of the pods in S.
SumOf(S) == SumOver(Request, S)

On(n) == {p \in Pods : place[p] = n}
WaitingPods == On(Waiting)

\* Allocatable less used as ClusterState has it, and never below zero.
FreeOn(n) == LargerOf(Minus(Capacity[n], SumOf(On(n))), Nothing)

Init ==
    /\ nodes = AtStart
    /\ ready = ReadyAtStart
    /\ place \in [Pods -> {Absent, Waiting}]
    /\ failures = 0
    /\ abandoned = {}
    /\ pc = "idle"
    /\ unschedulable = {}
    /\ count = 0
    /\ left = 0
    /\ NoEstimate

----------------------------------------------------------------------------
(* The scheduler *)

\* What the scheduler asks of labels, tolerations and resources.
Tolerates(tol, taint) ==
    /\ tol.key \in {"", taint.key}
    /\ tol.effect \in {"", taint.effect}
    /\ \/ tol.operator = "Exists"
       \/ tol.operator \in {"Equal", ""} /\ tol.value = taint.value

Admits(n, p) ==
    /\ NodeSelector[p] \subseteq Labels[n]
    /\ \A t \in Blocking(Taints[n]) : \E tol \in Tolerations[p] : Tolerates(tol, t)

\* What it takes a pod to request, and a node to have left.
Needs == [p \in Pods |-> SchedulerRequests(SpecOf[p])]

HasRoom(n, p) == Covers(Minus(Capacity[n], SumOver(Needs, On(n))), Needs[p])

\* The condition of a waiting pod names a shortage: a Ready node that would
\* admit it has no room.  A pod that has got room since then still has the
\* condition that was set before.
isResourceUnschedulable(p) == place[p] = Waiting /\ \E n \in ready : Admits(n, p)

----------------------------------------------------------------------------
(* A round of reconcile, branch A *)

\* reconcile returns; its locals and the report are gone.
Return ==
    /\ pc' = "idle"
    /\ unschedulable' = {}
    /\ count' = 0
    /\ left' = 0
    /\ DropEstimate

DetectUnschedulablePods ==
    /\ pc = "idle"
    /\ unschedulable' = {p \in Pods : isResourceUnschedulable(p)}
    /\ unschedulable' # {}
    /\ pc' = "estimate"
    /\ UNCHANGED <<cluster, count, left, estimate>>

\* The nodes are read later than the pods: a pod may be in both by now.
EstimateDetailed ==
    /\ pc = "estimate"
    /\ StartEstimate(unschedulable, [n \in ready |-> FreeOn(n)])
    /\ pc' = "pack"
    /\ UNCHANGED <<cluster, round>>

Pack ==
    /\ pc = "pack"
    /\ \E p \in Pods : Place(p)
    /\ UNCHANGED <<cluster, pc, round>>

Estimated ==
    /\ pc = "pack"
    /\ feasible = {}
    /\ IF NodesNeeded = 0
       THEN Return
       ELSE pc' = "decide" /\ UNCHANGED <<round, estimate>>
    /\ UNCHANGED cluster

\* The policy's count, unless the estimator needs fewer nodes; the report is not
\* read again.
Decide ==
    LET dec == Evaluate(Delta, Cardinality(nodes))
    IN  /\ pc = "decide"
        /\ IF dec.ScaleUp
           THEN /\ count' = Smaller(dec.Count, NodesNeeded)
                /\ pc' = "scaleUp"
                /\ DropEstimate
                /\ UNCHANGED <<unschedulable, left>>
           ELSE Return
        /\ UNCHANGED cluster

\* Mutant: Ready nodes count as capacity on its way as well.
LessAllNodes == count - Cardinality(nodes)

ToProvision == count - Cardinality(nodes \ ready)

handleScaleUp ==
    /\ pc = "scaleUp"
    /\ IF ToProvision > 0
       THEN /\ count' = ToProvision
            /\ left' = ToProvision
            /\ pc' = "create"
            /\ UNCHANGED <<unschedulable, estimate>>
       ELSE Return
    /\ UNCHANGED cluster

\* Names that are not in use are as good as each other.
FreshName == CHOOSE n \in Names : n \notin nodes \cup abandoned

CreateNode ==
    /\ pc = "create"
    /\ left > 0
    /\ nodes' = nodes \cup {FreshName}
    /\ ready' = ready \cup {FreshName}
    /\ left' = left - 1
    /\ UNCHANGED <<place, failures, abandoned, pc, unschedulable, count, estimate>>

\* What is left behind is nothing, a container without a Node, which is step 5 or
\* a clean-up that failed, or a Node that is not Ready and may be so for ever.
CreateNodeFails ==
    /\ pc = "create"
    /\ left > 0
    /\ failures < MaxFailures
    /\ failures' = failures + 1
    /\ \/ UNCHANGED <<nodes, abandoned>>
       \/ nodes' = nodes \cup {FreshName} /\ UNCHANGED abandoned
       \/ abandoned' = abandoned \cup {FreshName} /\ UNCHANGED nodes
    /\ left' = left - 1
    /\ UNCHANGED <<ready, place, pc, unschedulable, count, estimate>>

EndScaleUp ==
    /\ pc = "create"
    /\ left = 0
    /\ Return
    /\ UNCHANGED cluster

Reconcile ==
    \/ DetectUnschedulablePods \/ EstimateDetailed \/ Pack \/ Estimated
    \/ Decide \/ handleScaleUp \/ CreateNode \/ CreateNodeFails \/ EndScaleUp

----------------------------------------------------------------------------
(* The environment; the packing takes it no time *)

Schedule ==
    /\ pc # "pack"
    /\ \E p \in WaitingPods \ Unsupported : \E n \in ready :
        /\ Admits(n, p)
        /\ HasRoom(n, p)
        /\ place' = [place EXCEPT ![p] = n]
    /\ UNCHANGED <<nodes, ready, failures, abandoned, pc, round, estimate>>

\* The round reads what waits once, at its beginning: a pod that comes later is
\* as good as one that comes after the round.
Submit(p) ==
    /\ pc = "idle"
    /\ place[p] = Absent
    /\ place' = [place EXCEPT ![p] = Waiting]
    /\ UNCHANGED <<nodes, ready, failures, abandoned, pc, round, estimate>>

\* The kubelet of a container that was given up has taken its time.
Register(n) ==
    /\ pc # "pack"
    /\ n \in abandoned \ nodes
    /\ nodes' = nodes \cup {n}
    /\ UNCHANGED <<ready, place, failures, abandoned, pc, round, estimate>>

GetReady(n) ==
    /\ pc # "pack"
    /\ n \in nodes \ ready
    /\ ready' = ready \cup {n}
    /\ UNCHANGED <<nodes, place, failures, abandoned, pc, round, estimate>>

Next ==
    \/ Reconcile \/ Schedule
    \/ \E p \in Pods : Submit(p)
    \/ \E n \in Names : Register(n) \/ GetReady(n)

Spec == Init /\ [][Next]_vars

\* Ticks come and calls return; the scheduler binds what fits.
FairSpec == Spec /\ WF_vars(Reconcile) /\ WF_vars(Schedule)

----------------------------------------------------------------------------
(* Properties of an estimate *)

PlacedOn(node) == {p \in Pods : <<p, node>> \in packed}
Placements(p) == {e \in packed : e[1] = p}

\* The pods that have had their turn, and what the loop made of them.
Placed == {p \in unschedulable \ (feasible \cup Unsupported) :
              p \in ZeroRequest \/ Placements(p) # {}}
Refused == unschedulable \ (feasible \cup Placed)

\* The loop puts no pod on two nodes and refuses one only if no node of the
\* finished packing and no template node would hold it; the report has the name
\* of every pod in the map for what became of it, so that a name is in both maps
\* only if pods of two namespaces have it.
EstimateComplete ==
    pc \in {"pack", "decide"} =>
        /\ \A p \in unschedulable : \A e, f \in Placements(p) : e = f
        /\ \A p \in Refused : p \in Unsupported \/ (FitsNowhere(p) /\ ~FitsTemplate(p))
        /\ placedPods = NamesOf(Placed)
        /\ infeasiblePods = NamesOf(Refused)

\* Each template node that is opened is needed: one of its pods fits neither
\* on an existing node nor on one that was opened before.
NoNodeForNothing ==
    \A i \in DOMAIN openNewNodes : \E p \in PlacedOn(i) :
        FitExisting(p) = {} /\ \A j \in FitOpened(p) : j >= i

\* The bookkeeping of the bins is exact: the free share and the pods placed
\* make up what there was, on an existing node and on a template node.
BinsAccounted ==
    pc = "pack" =>
        /\ \A n \in DOMAIN existing : Minus(FreeOn(n), SumOf(PlacedOn(n))) = existing[n]
        /\ \A i \in DOMAIN openNewNodes :
            Minus(TemplateSize, SumOf(PlacedOn(i))) = openNewNodes[i]

\* The policy's recount from the sums never exceeds what the packing opened,
\* and Delta of an opened node is never zero: the two modules agree on the
\* template, and no estimate leads to more nodes than it has bins.
RecountWithinBins ==
    pc \in {"pack", "decide"} => NeededFor(Delta) \in (IF NodesNeeded = 0 THEN 0 ELSE 1)..NodesNeeded

\* A pod that says what it wants in full: no label with an empty value, no
\* toleration without an operator, no init container that needs more than the
\* sidecars before it leave.  Others are taken by the estimator to fit on nodes
\* that the scheduler refuses.
Explicit(p) ==
    /\ Needs[p] = Request[p]
    /\ \A s \in NodeSelector[p] : s[2] # ""
    /\ \A tol \in Tolerations[p] : tol.operator # ""

\* "Exact label key/value matching", "validates taints against tolerations":
\* an explicit pod is never taken care of by a node it cannot run on.
PlacedWhereSchedulable ==
    \A p \in Pods : \A n \in Names : <<p, n>> \in packed /\ Explicit(p) => Admits(n, p)

\* "Matching kube-scheduler / kubelet accounting", on the side that matters for the
\* number of nodes: where the scheduler may bind a waiting pod, an estimate that
\* starts now has the pod fit as well, so that the cluster does not grow for it.
RoomIsSeen ==
    \A p \in WaitingPods \ Unsupported : \A n \in ready :
        Admits(n, p) /\ HasRoom(n, p) =>
            canPodFitConstraints(p, Labels[n], Taints[n]) /\ Covers(FreeOn(n), Request[p])

----------------------------------------------------------------------------
(* Properties of the rounds *)

\* "Hard upper bound on worker nodes", over all rounds: whatever fails, the nodes
\* that CreateNode has not given up before they registered are no more than
\* MaxNodes.
NodesWithinMax == Cardinality(nodes \ abandoned) <= MaxNodes

\* "No endless scale-up": a container is started only in a round that found a pod
\* which the template can hold.
NodesForFeasiblePods ==
    [][nodes' \cup abandoned' # nodes \cup abandoned
        => \E p \in unschedulable \ Unsupported : FitsTemplate(p)]_vars

\* The pods of a node take no more than the estimator counts for them.
CountedInFull(n) == \A q \in On(n) : Needs[q] = Request[q]

\* The waiting pods for which there must be a new node, as far as the detector
\* lets the controller know and podEffectiveRequests lets the estimator see: an
\* init container beside sidecars, of the pod or of one on a node that would
\* admit it, may hide that there is no room.
Unserved ==
    {p \in WaitingPods \ Unsupported :
        /\ Explicit(p) /\ FitsTemplate(p)
        /\ isResourceUnschedulable(p)
        /\ \A n \in ready : Admits(n, p) => ~HasRoom(n, p) /\ CountedInFull(n)}

\* While there is room below MaxNodes and every node is Ready, what waits for a
\* new node does not stay above the thresholds for ever, whatever order the
\* scheduler binds pods in and however few nodes a round creates.
ShortfallServed ==
    []<>(Cardinality(nodes) >= MaxNodes \/ nodes # ready \/ ~Exceeds(SumOf(Unserved)))
============================================================================

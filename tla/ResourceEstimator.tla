------------------------- MODULE ResourceEstimator -------------------------
(***************************************************************************)
(* EstimateDetailed: the unschedulable pods are placed one by one, best    *)
(* fit decreasing, on what is free on existing nodes, then on the template *)
(* nodes opened so far, and a new one is opened only for a pod that fits   *)
(* nowhere else.  Each turn of the loop is an action; the order of equally *)
(* large pods (sort.Slice is not stable) and of equally good nodes is left *)
(* open.  Memory is in MiB, the unit in which the code weighs it against   *)
(* millicores.  The report knows pods by name, without the namespace.      *)
(***************************************************************************)
EXTENDS ScalingPolicy, FiniteSets

CONSTANTS
    Pods,
    NameOf,         \* [Pods -> names of pods]; namespaces may share a name
    SpecOf,         \* [Pods -> PodSpec]
    NodeSelector,   \* the labels that a pod asks for
    Tolerations,    \* [Pods -> sets of tolerations]
    Unsupported,    \* pods with constraints the estimator does not know
    Names,          \* node names
    Labels,         \* the labels of a node
    Taints,         \* [Names -> sets of taints]
    TemplateLabels, TemplateTaints

\* A label is a pair of key and value.
Label == STRING \X STRING

ASSUME EstimatorAssumption ==
    /\ IsFiniteSet(Pods) /\ IsFiniteSet(Names)
    /\ SpecOf \in [Pods -> PodSpec]
    /\ Unsupported \subseteq Pods
    /\ NodeSelector \in [Pods -> SUBSET Label] /\ Labels \in [Names -> SUBSET Label]
    /\ \A n \in Names : \A l, m \in Labels[n] : l[1] = m[1] => l = m

\* Template nodes are numbered.
ASSUME NamesAssumption == Names \cap Nat = {}

VARIABLES
    feasible,       \* pods still to be placed
    existing,       \* what is free on each candidate node
    openNewNodes,   \* what is free on each template node, in order of opening
    packed,         \* history: pairs of pod and node, as the loop put them
    placedPods,     \* the names that have an entry in PlacedPods
    infeasiblePods  \* and in InfeasiblePods

\* What PodInfo says that a pod requests.
Request == [p \in Pods |-> podEffectiveRequests(SpecOf[p])]

estimate == <<feasible, existing, openNewNodes, packed, placedPods, infeasiblePods>>

----------------------------------------------------------------------------
(* Scheduling constraints *)

\* A missing label reads as the empty string.
LabelValue(labels, key) ==
    IF \E l \in labels : l[1] = key THEN (CHOOSE l \in labels : l[1] = key)[2] ELSE ""

\* An empty key matches every taint, an empty operator counts as Exists.
toleratesTaint(tol, taint) ==
    /\ tol.key \in {"", taint.key}
    /\ tol.effect \in {"", taint.effect}
    /\ \/ tol.operator \in {"Exists", ""}
       \/ tol.operator = "Equal" /\ tol.value = taint.value

Blocking(taints) == {t \in taints : t.effect \in {"NoSchedule", "NoExecute"}}

\* Mutant: taints do not matter.
FitsSelector(p, labels, taints) == \A s \in NodeSelector[p] : LabelValue(labels, s[1]) = s[2]

\* A node without labels, whose map is nil, is refused to a pod that asks for any.
canPodFitConstraints(p, labels, taints) ==
    /\ NodeSelector[p] # {} => labels # {}
    /\ \A s \in NodeSelector[p] : LabelValue(labels, s[1]) = s[2]
    /\ \A t \in Blocking(taints) : \E tol \in Tolerations[p] : toleratesTaint(tol, t)

----------------------------------------------------------------------------
(* Resources *)

\* Mutant: memory does not matter.
CoversCPU(free, r) == r.cpu <= free.cpu

Covers(free, r) == r.cpu <= free.cpu /\ r.mem <= free.mem

Minus(free, r) == [cpu |-> free.cpu - r.cpu, mem |-> free.mem - r.mem]

\* What placing a pod would leave, in millicores plus MiB.
Remaining(free, r) == (free.cpu - r.cpu) + (free.mem - r.mem)

TemplateSize == [cpu |-> NodeCPUCapacity, mem |-> NodeMemoryCapacity]

\* Pods are ordered by max(CPU/templateCPU, memory/templateMemory), here
\* multiplied by both capacities.
Score(p) == Larger(Request[p].cpu * NodeMemoryCapacity, Request[p].mem * NodeCPUCapacity)

\* The existing nodes a pod fits on, the opened ones, and the template.
FitExisting(p) ==
    {n \in DOMAIN existing : /\ canPodFitConstraints(p, Labels[n], Taints[n])
                             /\ Covers(existing[n], Request[p])}

FitOpened(p) ==
    {i \in DOMAIN openNewNodes : /\ canPodFitConstraints(p, TemplateLabels, TemplateTaints)
                                 /\ Covers(openNewNodes[i], Request[p])}

FitsTemplate(p) ==
    /\ Covers(TemplateSize, Request[p])
    /\ canPodFitConstraints(p, TemplateLabels, TemplateTaints)

\* The nodes of S that the pod would leave least on.
BestFit(p, S, free) ==
    {b \in S : \A c \in S : Remaining(free[b], Request[p]) <= Remaining(free[c], Request[p])}

----------------------------------------------------------------------------
(* The loop *)

NoEstimate ==
    /\ feasible = {}
    /\ existing = <<>>
    /\ openNewNodes = <<>>
    /\ packed = {}
    /\ placedPods = {}
    /\ infeasiblePods = {}

DropEstimate ==
    /\ feasible' = {}
    /\ existing' = <<>>
    /\ openNewNodes' = <<>>
    /\ packed' = {}
    /\ placedPods' = {}
    /\ infeasiblePods' = {}

ZeroRequest == {p \in Pods : Request[p] = Nothing}

NamesOf(S) == {NameOf[p] : p \in S}

\* free: what is free on the Ready, schedulable nodes of ClusterState.
StartEstimate(unschedulable, free) ==
    /\ infeasiblePods' = NamesOf(unschedulable \cap Unsupported)
    /\ placedPods' = NamesOf((unschedulable \cap ZeroRequest) \ Unsupported)
    /\ feasible' = unschedulable \ (Unsupported \cup ZeroRequest)
    /\ existing' = free
    /\ openNewNodes' = <<>>
    /\ packed' = {}

\* It is p's turn: no pod that is left is larger.
Turn(p) ==
    /\ p \in feasible
    /\ \A q \in feasible : Score(q) <= Score(p)
    /\ feasible' = feasible \ {p}

\* An entry that the name has already is overwritten.
Record(p, node) ==
    /\ packed' = packed \cup {<<p, node>>}
    /\ placedPods' = placedPods \cup {NameOf[p]}

\* Mutant: what is placed on an existing node is not taken off.
PlaceForFree(p) ==
    /\ Turn(p)
    /\ \E n \in BestFit(p, FitExisting(p), existing) : Record(p, n)
    /\ UNCHANGED <<existing, openNewNodes, infeasiblePods>>

PlaceOnExisting(p) ==
    /\ Turn(p)
    /\ \E n \in BestFit(p, FitExisting(p), existing) :
        /\ existing' = [existing EXCEPT ![n] = Minus(@, Request[p])]
        /\ Record(p, n)
    /\ UNCHANGED <<openNewNodes, infeasiblePods>>

\* Of equally good nodes the first one opened is taken.
PlaceOnOpened(p) ==
    /\ Turn(p)
    /\ FitExisting(p) = {}
    /\ \E i \in BestFit(p, FitOpened(p), openNewNodes) :
        /\ \A j \in BestFit(p, FitOpened(p), openNewNodes) : i <= j
        /\ openNewNodes' = [openNewNodes EXCEPT ![i] = Minus(@, Request[p])]
        /\ Record(p, i)
    /\ UNCHANGED <<existing, infeasiblePods>>

FitsNowhere(p) == FitExisting(p) = {} /\ FitOpened(p) = {}

\* Mutant: a pod is given up before a template node is considered.
RejectUnasked(p) ==
    /\ Turn(p)
    /\ FitsNowhere(p)
    /\ infeasiblePods' = infeasiblePods \cup {NameOf[p]}
    /\ UNCHANGED <<existing, openNewNodes, packed, placedPods>>

Reject(p) ==
    /\ Turn(p)
    /\ FitsNowhere(p)
    /\ ~FitsTemplate(p)
    /\ infeasiblePods' = infeasiblePods \cup {NameOf[p]}
    /\ UNCHANGED <<existing, openNewNodes, packed, placedPods>>

\* Mutant: nodes that are open already are not looked at.
OpenNodeAnyway(p) ==
    /\ Turn(p)
    /\ FitExisting(p) = {}
    /\ FitsTemplate(p)
    /\ openNewNodes' = Append(openNewNodes, Minus(TemplateSize, Request[p]))
    /\ Record(p, Len(openNewNodes) + 1)
    /\ UNCHANGED <<existing, infeasiblePods>>

\* Mutant: whether a template node would do is not asked.
OpenNodeUnchecked(p) ==
    /\ Turn(p)
    /\ FitsNowhere(p)
    /\ openNewNodes' = Append(openNewNodes, Minus(TemplateSize, Request[p]))
    /\ Record(p, Len(openNewNodes) + 1)
    /\ UNCHANGED <<existing, infeasiblePods>>

OpenNode(p) ==
    /\ Turn(p)
    /\ FitsNowhere(p)
    /\ FitsTemplate(p)
    /\ openNewNodes' = Append(openNewNodes, Minus(TemplateSize, Request[p]))
    /\ Record(p, Len(openNewNodes) + 1)
    /\ UNCHANGED <<existing, infeasiblePods>>

Place(p) == PlaceOnExisting(p) \/ PlaceOnOpened(p) \/ Reject(p) \/ OpenNode(p)

----------------------------------------------------------------------------
(* The report *)

NodesNeeded == Len(openNewNodes)

\* What the opened nodes have given away.
Delta ==
    LET given == [i \in DOMAIN openNewNodes |-> Minus(TemplateSize, openNewNodes[i])]
    IN  SumOver(given, DOMAIN given)
============================================================================

---------------------------- MODULE ClusterState ---------------------------
(***************************************************************************)
(* The in-memory picture of the cluster (monitor.ClusterState) and the two *)
(* informers that paint it, PodWatcher and NodeWatcher.  Each informer     *)
(* follows the API server at its own pace, so pods and nodes arrive in any *)
(* relative order: a pod may be known to run on a node that is not known   *)
(* yet, and a node may outlive its pods or the other way round.            *)
(*                                                                         *)
(* An informer delivers the current state of one object at a time.  States *)
(* that the object went through while the informer lagged are skipped, as  *)
(* a re-list skips them.                                                   *)
(***************************************************************************)
EXTENDS Integers, FiniteSets, Functions

CONSTANTS
    Pods,           \* names of pods
    Nodes,          \* names of nodes
    NoNode,         \* the empty spec.nodeName
    Request,        \* the effective CPU request of each pod
    Absent,         \* an object that does not exist
    NoLists,        \* PodWatcher is not inside sync
    MaxChanges      \* bound on the number of changes to the API's objects

ASSUME ConstantsAssumption ==
    /\ IsFiniteSet(Pods)
    /\ NoNode \notin Nodes
    /\ Request \in [Pods -> Nat]
    /\ MaxChanges \in Nat

PodObject == [node : Nodes \cup {NoNode}, phase : {"Pending", "Running", "Done"}]
\* What nodeToInfo keeps of a Node: Ready and schedulable, or not.
NodeObject == {"open", "closed"}
Lists == [pending : SUBSET Pods, scheduled : SUBSET (Pods \X Nodes)]

ASSUME MarkersAssumption ==
    /\ Absent \notin PodObject \cup NodeObject
    /\ NoLists \notin Lists

VARIABLES
    podObj,     \* the pods in the API server
    nodeObj,    \* the nodes in the API server
    changes,    \* how many times they have changed
    podStore,   \* PodWatcher.store
    syncing,    \* the lists built by PodWatcher.sync, before SetPods
    PendingPods,
    ScheduledPods,
    status,     \* per node the Ready/Unschedulable entry, Absent if not in Nodes
    used        \* per node UsedCPU (memory is accounted the same way)

api   == <<podObj, nodeObj, changes>>
lists == <<PendingPods, ScheduledPods>>
vars  == <<api, podStore, syncing, lists, status, used>>

\* Every variable stays in its domain.
TypeOK ==
    /\ podObj \in [Pods -> PodObject \cup {Absent}]
    /\ nodeObj \in [Nodes -> NodeObject \cup {Absent}]
    /\ changes \in 0..MaxChanges
    /\ podStore \in [Pods -> PodObject \cup {Absent}]
    /\ syncing \in Lists \cup {NoLists}
    /\ PendingPods \subseteq Pods
    /\ ScheduledPods \subseteq Pods \X Nodes
    /\ status \in [Nodes -> NodeObject \cup {Absent}]
    /\ used \in [Nodes -> Nat]

----------------------------------------------------------------------------
(* The accounting *)

\* What the pods of P request together.
Total(P) == SumFunctionOnSet(Request, P)

\* The pods of S on node n and the sum of their requests.
OnNode(S, n) == {p \in Pods : <<p, n>> \in S}
Load(S, n) == Total(OnNode(S, n))

Known(n) == status[n] # Absent

\* The usage of every known node after recomputeNodeUsageLocked; a node that
\* is not in the list has none.  With no scheduled pod it returns early.
recomputeNodeUsageLocked(S, st, u) ==
    IF S = {} THEN u
    ELSE [n \in Nodes |-> IF st[n] # Absent THEN Load(S, n) ELSE u[n]]

\* Mutant: pods without a node are taken for scheduled ones.
ListsOfUnbound(store) ==
    [pending   |-> {p \in Pods : store[p] # Absent /\ store[p].phase = "Pending"},
     scheduled |-> {pn \in Pods \X (Nodes \cup {NoNode}) :
                        /\ store[pn[1]] # Absent
                        /\ store[pn[1]].node = pn[2]
                        /\ store[pn[1]].phase # "Done"}]

\* Mutant: finished pods still count.
ListsOfAll(store) ==
    [pending   |-> {p \in Pods : store[p] # Absent /\ store[p].phase = "Pending"},
     scheduled |-> {pn \in Pods \X Nodes : store[pn[1]] # Absent /\ store[pn[1]].node = pn[2]}]

\* The two lists PodWatcher.sync builds from the store.
ListsOf(store) ==
    [pending   |-> {p \in Pods : store[p] # Absent /\ store[p].phase = "Pending"},
     scheduled |-> {pn \in Pods \X Nodes :
                        /\ store[pn[1]] # Absent
                        /\ store[pn[1]].node = pn[2]
                        /\ store[pn[1]].phase # "Done"}]

----------------------------------------------------------------------------
\* The controller starts in a running cluster with empty caches.
Init ==
    /\ podObj \in [Pods -> {o \in PodObject : o.node = NoNode => o.phase = "Pending"} \cup {Absent}]
    /\ nodeObj \in [Nodes -> NodeObject \cup {Absent}]
    /\ changes = 0
    /\ podStore = [p \in Pods |-> Absent]
    /\ syncing = NoLists
    /\ PendingPods = {}
    /\ ScheduledPods = {}
    /\ status = [n \in Nodes |-> Absent]
    /\ used = [n \in Nodes |-> 0]

(* PodWatcher *)

\* An informer callback: the store has taken the pod's current state, and
\* sync has listed the store.  There is one informer goroutine.
sync(p) ==
    /\ syncing = NoLists
    /\ podStore[p] # podObj[p]
    /\ podStore' = [podStore EXCEPT ![p] = podObj[p]]
    /\ syncing' = ListsOf(podStore')
    /\ UNCHANGED <<api, lists, status, used>>

SetPods ==
    /\ syncing # NoLists
    /\ PendingPods' = syncing.pending
    /\ ScheduledPods' = syncing.scheduled
    /\ used' = recomputeNodeUsageLocked(syncing.scheduled, status, used)
    /\ syncing' = NoLists
    /\ UNCHANGED <<api, podStore, status>>

(* NodeWatcher; its handlers take the lock once, so each is one step. *)

\* Mutant: a new node waits for the next pod event to get its usage.
UpdateNodeRecomputesKnown(n) ==
    /\ nodeObj[n] # Absent
    /\ status[n] # nodeObj[n]
    /\ status' = [status EXCEPT ![n] = nodeObj[n]]
    /\ used' = IF Known(n) THEN recomputeNodeUsageLocked(ScheduledPods, status', used)
               ELSE [used EXCEPT ![n] = 0]
    /\ UNCHANGED <<api, podStore, syncing, lists>>

\* nodeToInfo reports no usage: UpdateNode keeps the usage of a known entry,
\* appends an unknown one with zero, and recomputes unless no pod is scheduled.
UpdateNode(n) ==
    /\ nodeObj[n] # Absent
    /\ status[n] # nodeObj[n]
    /\ status' = [status EXCEPT ![n] = nodeObj[n]]
    /\ used' = recomputeNodeUsageLocked(ScheduledPods, status',
                   IF Known(n) THEN used ELSE [used EXCEPT ![n] = 0])
    /\ UNCHANGED <<api, podStore, syncing, lists>>

\* Mutant: the tombstone of a missed deletion is not understood.
RemoveNodeIgnored(n) == nodeObj[n] = Absent /\ Known(n) /\ UNCHANGED vars

RemoveNode(n) ==
    /\ nodeObj[n] = Absent
    /\ Known(n)
    /\ status' = [status EXCEPT ![n] = Absent]
    /\ used' = [used EXCEPT ![n] = 0]
    /\ UNCHANGED <<api, podStore, syncing, lists>>

Watchers ==
    \/ SetPods
    \/ \E p \in Pods : sync(p)
    \/ \E n \in Nodes : UpdateNode(n) \/ RemoveNode(n)

(* The cluster: at most MaxChanges changes are explored. *)

Change ==
    /\ changes < MaxChanges
    /\ changes' = changes + 1
    /\ UNCHANGED <<podStore, syncing, lists, status, used>>

\* A pod is created, bound, started, finished or deleted.
PodSteps(o) ==
    IF o = Absent THEN {[node |-> NoNode, phase |-> "Pending"]}
    ELSE {Absent}
         \cup {[node |-> n, phase |-> o.phase] : n \in {m \in Nodes : o.node = NoNode}}
         \cup {[node |-> o.node, phase |-> s] :
                  s \in CASE o.phase = "Pending" /\ o.node # NoNode -> {"Running", "Done"}
                          [] o.phase = "Running" -> {"Done"}
                          [] OTHER -> {}}

PodChanges(p) ==
    /\ Change
    /\ \E o \in PodSteps(podObj[p]) : podObj' = [podObj EXCEPT ![p] = o]
    /\ UNCHANGED nodeObj

NodeChanges(n) ==
    /\ Change
    /\ \E o \in (NodeObject \cup {Absent}) \ {nodeObj[n]} : nodeObj' = [nodeObj EXCEPT ![n] = o]
    /\ UNCHANGED podObj

Cluster == (\E p \in Pods : PodChanges(p)) \/ (\E n \in Nodes : NodeChanges(n))

Next == Watchers \/ Cluster

Spec == Init /\ [][Next]_vars

\* The informers keep delivering what differs and their handlers return.
Fairness ==
    /\ WF_vars(SetPods)
    /\ \A p \in Pods : WF_vars(sync(p))
    /\ \A n \in Nodes : WF_vars(UpdateNode(n)) /\ WF_vars(RemoveNode(n))

FairSpec == Spec /\ Fairness

----------------------------------------------------------------------------
(* Properties *)

\* While any pod is scheduled, the usage of every node the controller knows is
\* the sum of the requests of the scheduled pods it knows there, in whatever
\* order the two informers delivered them.
UsageMatchesScheduled ==
    ScheduledPods # {} => \A n \in Nodes : Known(n) => used[n] = Load(ScheduledPods, n)

\* Between two callbacks of PodWatcher the usage agrees with its store: each
\* bound pod that has not finished is charged to its node, no other pod is.
Charged(n) == {p \in Pods : /\ podStore[p] # Absent
                            /\ podStore[p].node = n
                            /\ podStore[p].phase # "Done"}

UsageMatchesStore ==
    /\ syncing = NoLists
    /\ \E n \in Nodes : Charged(n) # {}
    => \A n \in Nodes : Known(n) => used[n] = Total(Charged(n))

\* Once the cluster stops changing, the picture becomes right and stays so: the
\* nodes and the pending pods are those of the API server, the list has every
\* pod on the node it runs on, and the usage of each node is what its pods
\* request.  The last only while any pod runs at all: without one the usage
\* keeps its last value for ever, see UsageIsSum.
RunningOn(n) == {p \in Pods : podObj[p] # Absent /\ podObj[p].node = n /\ podObj[p].phase # "Done"}

Caught ==
    /\ status = nodeObj
    /\ PendingPods = {p \in Pods : podObj[p] # Absent /\ podObj[p].phase = "Pending"}
    /\ \A n \in Nodes : OnNode(ScheduledPods, n) = RunningOn(n)
    /\ (\E n \in Nodes : RunningOn(n) # {})
         => \A n \in Nodes : Known(n) => used[n] = Total(RunningOn(n))

CacheConverges == <>[]Caught

\* "UsedCPU is the sum of CPU requests of all pods running on this node"
\* (cluster_state.go:56), also when the last of them has gone.
UsageIsSum == \A n \in Nodes : Known(n) => used[n] = Load(ScheduledPods, n)
============================================================================

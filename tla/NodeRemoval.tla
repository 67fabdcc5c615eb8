---------------------------- MODULE NodeRemoval ----------------------------
(***************************************************************************)
(* Scale-down: one tick of the controller that finds no unschedulable pod  *)
(* (branch B of reconcile), from the scan for idle nodes to the removal of *)
(* the node's container:                                                   *)
(*                                                                         *)
(*   FindIdleNodes -> handleScaleDown -> RemoveNode                        *)
(*     (cordon -> Drain -> Cleanup -> provider hook -> docker rm)          *)
(*                                                                         *)
(* Every call to the API server or to docker is a step of its own, because *)
(* the scheduler, the kubelets, the disruption budgets, the operators and  *)
(* a crash of the controller all act between two such calls.               *)
(***************************************************************************)
CONSTANTS
    Nodes,          \* names of the cluster's nodes
    Pods,           \* names of its pods
    NoNode,         \* "no node"
    Class,          \* the class of each pod, see PodClass
    Stubborn,       \* pods a disruption budget may protect, or slow to stop
    UtilLow,        \* per node, the verdicts the cached CPU test may give
    ApiFaults,      \* may calls to the API server and to docker fail?
    Operators,      \* do operators and kubelets write to Node objects?
    Shortages,      \* may the detector report unschedulable pods?
    Crashes         \* may the controller crash and restart?

\* kube-system or a system-critical priority class is "system"; the other
\* three classes are tested in the order static, daemon, system, workload.
PodClass == {"workload", "system", "daemon", "static"}

Phase == {"Absent", "Pending", "Assumed", "Running", "Terminating", "Finished"}

ASSUME ConstantsAssumption ==
    /\ NoNode \notin Nodes
    /\ Class \in [Pods -> PodClass]
    /\ Stubborn \subseteq Pods
    /\ UtilLow \in [Nodes -> SUBSET BOOLEAN]
    /\ ApiFaults \in BOOLEAN
    /\ Operators \in BOOLEAN
    /\ Shortages \in BOOLEAN
    /\ Crashes \in BOOLEAN

VARIABLES
    \* The cluster.
    nodes,          \* nodes that have a Node object
    cordoned,       \* those with spec.unschedulable
    notReady,       \* those whose Ready condition is not True
    managed,        \* those that carry the managed-by annotation
    containers,     \* nodes whose container runs
    phase,          \* the life of each pod
    host,           \* where it is, or is about to be, bound
    late,           \* history: pods bound to a node that was out of service
    shortage,       \* would the detector report an unschedulable pod now?
    \* The informer's cache.
    open,           \* nodes it shows as Ready and schedulable
    \* The reconcile goroutine.
    pc,
    scan,           \* nodes FindIdleNodes has yet to examine
    target,         \* idle[0]
    copyFresh,      \* is the Node read by cordon still the stored one?
    evicting,       \* listed pods Drain has yet to evict
    raced,          \* history: pods bound since target passed the idle test
    uncordoned,     \* history: an operator has lifted the cordon of this removal
    cooling         \* is lastScaleDown less than the cooldown ago?

objects == <<nodes, cordoned, managed>>
status  == <<notReady, shortage>>
pods    == <<phase, host, late>>
locals  == <<pc, scan, target, copyFresh, evicting>>
history == <<raced, uncordoned>>
vars    == <<objects, status, containers, pods, open, locals, history, cooling>>

Steps == {"idle", "scan", "cordonGet", "cordonUpdate", "drainList", "drain",
          "cleanupGet", "delete", "hook", "dockerRm"}

\* The steps from the end of the cordon to the deletion.
Sealed == {"drainList", "drain", "cleanupGet", "delete"}

\* Every variable stays in its domain; RemoveNode runs for a node, only Drain
\* has pods to evict, and nothing is left of a tick that has ended.
TypeOK ==
    /\ nodes \subseteq Nodes
    /\ cordoned \subseteq nodes
    /\ notReady \subseteq Nodes
    /\ managed \subseteq Nodes
    /\ shortage \in BOOLEAN
    /\ containers \subseteq Nodes
    /\ phase \in [Pods -> Phase]
    /\ host \in [Pods -> Nodes \cup {NoNode}]
    /\ late \subseteq Pods
    /\ open \subseteq Nodes
    /\ pc \in Steps
    /\ scan \subseteq Nodes
    /\ target \in Nodes \cup {NoNode}
    /\ copyFresh \in BOOLEAN
    /\ evicting \subseteq Pods
    /\ raced \subseteq Pods
    /\ uncordoned \in BOOLEAN
    /\ cooling \in BOOLEAN
    /\ pc = "idle" => target = NoNode
    /\ pc \notin {"idle", "scan"} => target \in Nodes
    /\ evicting # {} => pc = "drain"

----------------------------------------------------------------------------
(* Pods as the lifecycle package sees them. *)

Pinned == {p \in Pods : Class[p] \in {"daemon", "static"}}

Workload == {p \in Pods : Class[p] = "workload"}

\* List with the field selector spec.nodeName=n: a pod that the scheduler has
\* only assumed there is not returned, one that is terminating still is.
Listed(n) == {p \in Pods : host[p] = n /\ phase[p] \in {"Running", "Terminating", "Finished"}}

shouldSkip(p) == phase[p] = "Finished" \/ p \in Pinned

\* The pods Drain must evict and wait for.
Evictable(n) == {p \in Listed(n) : ~shouldSkip(p)}

\* Mutant: pods that are being deleted no longer count.
nodeHasRunningWorkloadPods(n) == \E p \in Listed(n) : phase[p] = "Running" /\ p \in Workload

nodeHasWorkloadPods(n) == \E p \in Listed(n) : phase[p] # "Finished" /\ p \in Workload

InService(n) == n \in nodes /\ n \notin cordoned

----------------------------------------------------------------------------
Init ==
    /\ nodes = Nodes
    /\ cordoned = {}
    /\ notReady = {}
    /\ managed \in SUBSET Nodes
    /\ containers = Nodes
    /\ host \in {h \in [Pods -> Nodes \cup {NoNode}] : \A p \in Pinned : h[p] # NoNode}
    /\ phase = [p \in Pods |-> IF host[p] = NoNode THEN "Pending" ELSE "Running"]
    /\ late = {}
    /\ shortage = FALSE
    /\ open = Nodes
    /\ pc = "idle"
    /\ scan = {}
    /\ target = NoNode
    /\ copyFresh = FALSE
    /\ evicting = {}
    /\ raced = {}
    /\ uncordoned = FALSE
    /\ cooling = FALSE

----------------------------------------------------------------------------
(* FindIdleNodes and handleScaleDown *)

\* The goroutine returns (by success, by an error or by a crash).
Return ==
    /\ pc' = "idle"
    /\ scan' = {}
    /\ target' = NoNode
    /\ copyFresh' = FALSE
    /\ evicting' = {}
    /\ raced' = {}
    /\ uncordoned' = FALSE

\* Mutant: cordoned nodes are candidates like any other.
CandidatesCordonedToo == open \cup cordoned

\* The nodes of state.GetNodes() that are Ready and not cordoned.
Candidates == open

\* A tick with an unschedulable pod takes branch A, whatever comes of it; any
\* other reads the node list once.
StartScan ==
    /\ pc = "idle"
    /\ ~shortage
    /\ pc' = "scan"
    /\ scan' = Candidates
    /\ UNCHANGED <<objects, status, containers, pods, open, target,
                   copyFresh, evicting, history, cooling>>

\* n passes both idle criteria.  All nodes are examined, the first wins.
FoundIdle(n) ==
    /\ pc = "scan"
    /\ n \in scan
    /\ TRUE \in UtilLow[n]
    /\ ~nodeHasWorkloadPods(n)
    /\ scan' = scan \ {n}
    /\ target' = IF target = NoNode THEN n ELSE target
    /\ raced' = IF target = NoNode THEN {} ELSE raced
    /\ UNCHANGED <<objects, status, containers, pods, open, pc,
                   copyFresh, evicting, uncordoned, cooling>>

\* n is busy, carries a workload pod, or its pods cannot be listed.
PassOver(n) ==
    /\ pc = "scan"
    /\ n \in scan
    /\ FALSE \in UtilLow[n] \/ nodeHasWorkloadPods(n) \/ ApiFaults
    /\ scan' = scan \ {n}
    /\ UNCHANGED <<objects, status, containers, pods, open, pc, target,
                   copyFresh, evicting, history, cooling>>

SkipScaleDown ==
    /\ pc = "scan"
    /\ scan = {}
    /\ target = NoNode \/ cooling
    /\ Return
    /\ UNCHANGED <<objects, status, containers, pods, open, cooling>>

\* Mutant: the list of idle nodes is not tested for being empty.
ScaleDownUntested ==
    /\ pc = "scan"
    /\ scan = {}
    /\ ~cooling
    /\ pc' = "cordonGet"
    /\ UNCHANGED <<objects, status, containers, pods, open, scan, target,
                   copyFresh, evicting, history, cooling>>

handleScaleDown ==
    /\ pc = "scan"
    /\ scan = {}
    /\ target # NoNode
    /\ ~cooling
    /\ pc' = "cordonGet"
    /\ UNCHANGED <<objects, status, containers, pods, open, scan, target,
                   copyFresh, evicting, history, cooling>>

----------------------------------------------------------------------------
(* RemoveNode: cordon *)

\* An API call that fails ends RemoveNode with an error and leaves the
\* cluster as it is.  A call on a Node that is gone fails in any case.
Fail(step) ==
    /\ pc = step
    /\ ApiFaults \/ target \notin nodes
    /\ Return
    /\ UNCHANGED <<objects, status, containers, pods, open, cooling>>

CordonGet ==
    /\ pc = "cordonGet"
    /\ target \in nodes
    /\ IF target \in cordoned
       THEN pc' = "drainList" /\ UNCHANGED copyFresh
       ELSE pc' = "cordonUpdate" /\ copyFresh' = TRUE
    /\ UNCHANGED <<objects, status, containers, pods, open, scan, target,
                   evicting, history, cooling>>

CordonUpdate ==
    /\ pc = "cordonUpdate"
    /\ target \in nodes
    /\ copyFresh
    /\ cordoned' = cordoned \cup {target}
    /\ pc' = "drainList"
    /\ UNCHANGED <<nodes, managed, status, containers, pods, open, scan,
                   target, copyFresh, evicting, history, cooling>>

\* The API server refuses the Update of an outdated copy.
CordonConflict ==
    /\ pc = "cordonUpdate"
    /\ ~copyFresh
    /\ Return
    /\ UNCHANGED <<objects, status, containers, pods, open, cooling>>

\* The Update is stored but its reply is lost: RemoveNode sees an error.
CordonReplyLost ==
    /\ ApiFaults
    /\ pc = "cordonUpdate"
    /\ target \in nodes
    /\ copyFresh
    /\ cordoned' = cordoned \cup {target}
    /\ Return
    /\ UNCHANGED <<nodes, managed, status, containers, pods, open, cooling>>

----------------------------------------------------------------------------
(* RemoveNode: Drain *)

DrainList ==
    /\ pc = "drainList"
    /\ pc' = "drain"
    /\ evicting' = Evictable(target)
    /\ UNCHANGED <<objects, status, containers, pods, open, scan, target,
                   copyFresh, history, cooling>>

DrainListFails ==
    /\ ApiFaults
    /\ pc = "drainList"
    /\ Return
    /\ UNCHANGED <<objects, status, containers, pods, open, cooling>>

\* What the API server does on an Eviction of the pod named p: a running pod
\* starts to terminate, a pod without a running container goes at once.
\* The pod is addressed by its name, wherever it is by now.
EvictV1(p) ==
    \/ /\ phase[p] = "Running"
       /\ phase' = [phase EXCEPT ![p] = "Terminating"]
       /\ UNCHANGED <<host, late>>
    \/ /\ phase[p] \in {"Pending", "Assumed", "Finished"}
       /\ phase' = [phase EXCEPT ![p] = "Absent"]
       /\ host' = [host EXCEPT ![p] = NoNode]
       /\ late' = late \ {p}
    \/ phase[p] \in {"Absent", "Terminating"} /\ UNCHANGED pods

\* One eviction.  Whatever it answers, Drain goes on with the next pod: a
\* disruption budget (429) or any other error leaves the pod where it is.
evictPod(p) ==
    /\ pc = "drain"
    /\ p \in evicting
    /\ evicting' = evicting \ {p}
    /\ EvictV1(p) \/ ((p \in Stubborn \/ ApiFaults) /\ UNCHANGED pods)
    /\ UNCHANGED <<objects, status, containers, open, pc, scan, target,
                   copyFresh, history, cooling>>

\* Mutant: the drain is over once every eviction has been sent.
AllEvicted == evicting = {}

PodsGone == evicting = {} /\ Evictable(target) = {}

\* A poll of waitForPodsGone that finds no evictable pod.  The other polls,
\* and those whose List fails, change nothing.
waitForPodsGone ==
    /\ pc = "drain"
    /\ PodsGone
    /\ pc' = "cleanupGet"
    /\ UNCHANGED <<objects, status, containers, pods, open, scan, target,
                   copyFresh, evicting, history, cooling>>

\* Mutant: the poll has no deadline.
NoDrainTimeout == FALSE

\* The drain timeout expires.  It is far longer than a pod takes to stop, so
\* it expires only for a reason: a stubborn pod, one that nobody evicted, or
\* an API server that cannot be reached.
DrainTimeout ==
    /\ pc = "drain"
    /\ evicting = {}
    /\ \/ ApiFaults
       \/ \E p \in Evictable(target) : p \in Stubborn \/ phase[p] = "Running"
    /\ Return
    /\ UNCHANGED <<objects, status, containers, pods, open, cooling>>

----------------------------------------------------------------------------
(* RemoveNode: Cleanup and the removal of the container *)

\* Mutant: every node passes the guard.
AnyNodePasses == target \in Nodes

\* The guard on the managed-by annotation of the Node just read.
ManagedByUs == target \in managed

CleanupGet ==
    /\ pc = "cleanupGet"
    /\ target \in nodes
    /\ ManagedByUs
    /\ pc' = "delete"
    /\ UNCHANGED <<objects, status, containers, pods, open, scan, target,
                   copyFresh, evicting, history, cooling>>

CleanupRefuses ==
    /\ pc = "cleanupGet"
    /\ target \in nodes
    /\ ~ManagedByUs
    /\ Return
    /\ UNCHANGED <<objects, status, containers, pods, open, cooling>>

DeleteNode ==
    /\ nodes' = nodes \ {target}
    /\ cordoned' = cordoned \ {target}
    /\ UNCHANGED managed

Delete ==
    /\ pc = "delete"
    /\ target \in nodes
    /\ DeleteNode
    /\ pc' = "hook"
    /\ UNCHANGED <<status, containers, pods, open, scan, target, copyFresh,
                   evicting, history, cooling>>

\* The Node is deleted, the reply lost: nobody removes the container.
DeleteReplyLost ==
    /\ ApiFaults
    /\ pc = "delete"
    /\ target \in nodes
    /\ DeleteNode
    /\ Return
    /\ UNCHANGED <<status, containers, pods, open, cooling>>

\* Mutant: the container is never found.
RemoveNothing == UNCHANGED containers

\* docker rm -f; neither caller acts on its failure.
RemoveContainer ==
    \/ containers' = containers \ {target}
    \/ ApiFaults /\ UNCHANGED containers

\* ProviderCleanupHook, which the controller sets to TerminateNode.
ProviderCleanupHook ==
    /\ pc = "hook"
    /\ RemoveContainer
    /\ pc' = "dockerRm"
    /\ UNCHANGED <<objects, status, pods, open, scan, target, copyFresh,
                   evicting, history, cooling>>

\* removeKindContainer; then RemoveNode succeeds and the cooldown starts.
removeKindContainer ==
    /\ pc = "dockerRm"
    /\ RemoveContainer
    /\ Return
    /\ cooling' = TRUE
    /\ UNCHANGED <<objects, status, pods, open>>

RemoveNode ==
    \/ Fail("cordonGet") \/ CordonGet
    \/ Fail("cordonUpdate") \/ CordonUpdate \/ CordonConflict \/ CordonReplyLost
    \/ DrainList \/ DrainListFails \/ (\E p \in Pods : evictPod(p))
    \/ waitForPodsGone \/ DrainTimeout
    \/ Fail("cleanupGet") \/ CleanupGet \/ CleanupRefuses
    \/ Fail("delete") \/ Delete \/ DeleteReplyLost
    \/ ProviderCleanupHook \/ removeKindContainer

Reconcile ==
    \/ StartScan
    \/ \E n \in Nodes : FoundIdle(n) \/ PassOver(n)
    \/ SkipScaleDown \/ handleScaleDown
    \/ RemoveNode

----------------------------------------------------------------------------
(* The environment *)

\* The controller dies and starts again: it forgets the cooldown and the
\* removal it was in, and its cache is listed afresh before the first tick.
Crash ==
    /\ Crashes
    /\ Return
    /\ cooling' = FALSE
    /\ open' = nodes \ (cordoned \cup notReady)
    /\ UNCHANGED <<objects, status, containers, pods>>

\* The informer delivers the current state of node n.
NodeEvent(n) ==
    /\ open' = IF InService(n) /\ n \notin notReady THEN open \cup {n} ELSE open \ {n}
    /\ UNCHANGED <<objects, status, containers, pods, locals, history, cooling>>

\* Any write to the Node that cordon has read makes its copy outdated.
Written(n) == copyFresh' = (copyFresh /\ n # target)

ReadyChanges(n) ==
    /\ Operators
    /\ n \in nodes
    /\ notReady' = IF n \in notReady THEN notReady \ {n} ELSE notReady \cup {n}
    /\ Written(n)
    /\ UNCHANGED <<objects, shortage, containers, pods, open, pc, scan, target,
                   evicting, history, cooling>>

\* Operators cordon and uncordon any node, the one under removal included.
\* What slipped onto a node counts as bound to it once it is in service again.
SetUnschedulable(n) ==
    /\ Operators
    /\ n \in nodes
    /\ \/ /\ n \in cordoned
          /\ cordoned' = cordoned \ {n}
          /\ late' = {p \in late : host[p] # n}
          /\ uncordoned' = (uncordoned \/ (n = target /\ pc \in Sealed))
       \/ /\ n \notin cordoned
          /\ cordoned' = cordoned \cup {n}
          /\ UNCHANGED <<late, uncordoned>>
    /\ Written(n)
    /\ UNCHANGED <<nodes, managed, status, containers, phase, host, open, pc,
                   scan, target, evicting, raced, cooling>>

EditAnnotation(n) ==
    /\ Operators
    /\ n \in nodes
    /\ managed' = IF n \in managed THEN managed \ {n} ELSE managed \cup {n}
    /\ Written(n)
    /\ UNCHANGED <<nodes, cordoned, status, containers, pods, open, pc, scan,
                   target, evicting, history, cooling>>

\* Pods begin or cease to wait for capacity that no node has.
ShortageChanges ==
    /\ Shortages
    /\ shortage' = ~shortage
    /\ UNCHANGED <<objects, notReady, containers, pods, open, locals, history,
                   cooling>>

\* A pod with this name is created (again).
Create(p) ==
    /\ p \notin Pinned
    /\ phase[p] = "Absent"
    /\ phase' = [phase EXCEPT ![p] = "Pending"]
    /\ UNCHANGED <<objects, status, containers, host, late, open, locals,
                   history, cooling>>

\* The scheduler decides for a node in service ...
Pick(p, n) ==
    /\ phase[p] = "Pending"
    /\ InService(n)
    /\ phase' = [phase EXCEPT ![p] = "Assumed"]
    /\ host' = [host EXCEPT ![p] = n]
    /\ UNCHANGED <<objects, status, containers, late, open, locals, history,
                   cooling>>

\* ... and the binding is stored later, whatever became of the node.
Bind(p) ==
    /\ phase[p] = "Assumed"
    /\ phase' = [phase EXCEPT ![p] = "Running"]
    /\ late' = IF InService(host[p]) THEN late ELSE late \cup {p}
    /\ raced' = IF target = NoNode THEN raced ELSE raced \cup {p}
    /\ UNCHANGED <<objects, status, containers, host, open, locals, uncordoned,
                   cooling>>

Finish(p) ==
    /\ p \notin Pinned
    /\ phase[p] = "Running"
    /\ phase' = [phase EXCEPT ![p] = "Finished"]
    /\ UNCHANGED <<objects, status, containers, host, late, open, locals,
                   history, cooling>>

\* A pod object goes: its containers have stopped, or its node is gone.
Reap(p) ==
    /\ \/ phase[p] \in {"Terminating", "Finished"}
       \/ phase[p] \in {"Assumed", "Running"} /\ host[p] \notin nodes
    /\ phase' = [phase EXCEPT ![p] = "Absent"]
    /\ host' = [host EXCEPT ![p] = NoNode]
    /\ late' = late \ {p}
    /\ UNCHANGED <<objects, status, containers, open, locals, history, cooling>>

\* A cooldown period has passed since the last successful scale-down.
CooldownElapses ==
    /\ cooling
    /\ cooling' = FALSE
    /\ UNCHANGED <<objects, status, containers, pods, open, locals, history>>

Environment ==
    \/ Crash \/ CooldownElapses \/ ShortageChanges
    \/ \E n \in Nodes :
        NodeEvent(n) \/ ReadyChanges(n) \/ SetUnschedulable(n) \/ EditAnnotation(n)
    \/ \E p \in Pods :
        Create(p) \/ Bind(p) \/ Finish(p) \/ Reap(p) \/ (\E n \in Nodes : Pick(p, n))

Next == Reconcile \/ Environment

Spec == Init /\ [][Next]_vars

\* The goroutine is sequential and its calls return, so its next step is not
\* put off for ever; kubelets stop pods, informers deliver, time passes.
Fairness ==
    /\ WF_vars(Reconcile)
    /\ WF_vars(CooldownElapses)
    /\ \A p \in Pods : WF_vars(Reap(p))
    /\ \A n \in Nodes : WF_vars(NodeEvent(n))

FairSpec == Spec /\ Fairness

----------------------------------------------------------------------------
(* What the pipeline guarantees *)

\* A node is deleted only after its drain was verified: from the poll that
\* found it empty to the Delete, unless an operator lifts the cordon, the only
\* evictable pods on it are those whose binding, decided before the cordon, was
\* stored after it.
DrainVerified ==
    pc \in {"cleanupGet", "delete"} /\ ~uncordoned => Evictable(target) \subseteq late

\* The idle test protects workloads: a workload pod is evicted only if it was
\* bound after the test that found the node free of workloads.
OnlyRacedWorkloadEvicted == evicting \cap Workload \subseteq raced

\* The pipeline implements the contract of SafeRemoval, whatever fails, races
\* with it or crashes and whatever operators do to the node meanwhile: a node
\* loses its Node object only after one removal has cordoned it, then found it
\* without pods, then found it annotated, and its container only after that.
\* What holds at the Delete, which has no precondition, is as much of this as
\* operators have not undone since.
stage == [n \in Nodes |-> IF n \in cordoned THEN "cordoned"
                          ELSE IF n \in nodes THEN "inService"
                          ELSE IF n \in containers THEN "deleted" ELSE "gone"]
vetted == [n \in Nodes |-> IF n # target THEN "no"
                           ELSE IF pc \in {"drainList", "drain"} THEN "sealed"
                           ELSE IF pc = "cleanupGet" THEN "empty"
                           ELSE IF pc = "delete" THEN "cleared" ELSE "no"]
guests == [n \in Nodes |-> Evictable(n) \ late]

Abstract == INSTANCE SafeRemoval WITH stage <- stage, vetted <- vetted, guests <- guests

ImplementsSafeRemoval == Abstract!Spec

\* Every removal that starts comes to an end, even when a disruption budget
\* never lets a pod go: no tick is skipped for ever.
RemovalEnds == pc # "idle" ~> pc = "idle"

IdleAndOpen(n) == InService(n) /\ n \notin notReady /\ ~nodeHasWorkloadPods(n)

\* A node that stays idle is taken out of service in the end, unless there is
\* an unschedulable pod again and again (one that no node will ever suit keeps
\* every tick in branch A): neither nodes the autoscaler may not delete nor
\* nodes it failed to drain hold it up.
IdleNodeTakenOut == \A n \in Nodes : IdleAndOpen(n) ~> (~IdleAndOpen(n) \/ shortage)

\* A node whose Node object was deleted loses its container too.
DeletedNodeTerminated == \A n \in Nodes : n \notin nodes ~> n \notin containers

----------------------------------------------------------------------------
(* What the documents say and the code does not do; see the README *)

\* "Evicts remaining non-critical pods": no system pod is ever evicted.
CriticalPodsStay ==
    [][\A p \in Pods : Class[p] = "system" /\ phase[p] = "Running"
                            => phase'[p] # "Terminating"]_vars
============================================================================

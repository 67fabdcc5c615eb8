# Formal models of the Kubto autoscaler

Kubto is a cluster autoscaler for Kubernetes clusters in Kind (Kubernetes in
Docker). One process watches pods and nodes, estimates how many nodes the
unschedulable pods need, creates them with `docker run` and `kubeadm join`, and
drains and deletes nodes that are idle. The code is under `src/autoscaler`; this
directory holds TLA+ models of its core, the TLC configurations that check
them, and TLAPS proofs about them.

- [Components of the system](#components-of-the-system)
- [Modules](#modules)
- [Runs](#runs)
- [Fairness](#fairness)
- [Theorems and proofs](#theorems-and-proofs)
- [Where documents and code disagree](#where-documents-and-code-disagree)
- [Hazards](#hazards)
- [Not modelled, and why](#not-modelled-and-why)
- [Plan](#plan)
- [How to run](#how-to-run)

## Components of the system

Paths are relative to `src/autoscaler/pkg`.

### Controller — `controller/autoscaler_controller.go`

*State*: `reconcileMu`, `inFlightProvisioning` (under `inFlightMu`),
`scaleUpFailures`, `lastScaleUp`, `lastScaleDown`.
*Operations*: `Run` (ticker; each tick starts `reconcile` in a goroutine),
`reconcile` (TryLock; branch A: detector → estimator → policy →
`handleScaleUp`; branch B: `FindIdleNodes` → `handleScaleDown`),
`handleScaleUp`, `handleScaleDown`.
*Interaction*: reads ClusterState, calls the provisioner and the lifecycle
manager and holds the lock for as long as they take, which may be minutes.
*Hard*: overlapping ticks, stale reads, partial failure of a round, cooldowns
and backoff, loss of all state in a restart.
*Correct when*: one reconcile works at a time; reservations are released
exactly; the cluster stays within its bounds; failures are paused for, and do
not stop later rounds; pods that need a node get one.

### ClusterState and its watchers — `monitor/`

*State*: `Nodes`, `PendingPods`, `ScheduledPods` under one RWMutex; the
informers' stores.
*Operations*: `SetPods`, `UpdateNode`, `RemoveNode`,
`recomputeNodeUsageLocked`, the getters; `PodWatcher.sync`, the handlers of
`NodeWatcher`.
*Interaction*: two informer goroutines write, the reconcile goroutine reads.
*Hard*: the informers are not ordered with respect to each other; `sync` lists
its store before it takes the lock; deletions may arrive as tombstones.
*Correct when*: the usage of a node is the sum of the requests of its pods in
whatever order the events arrive; the picture converges to the cluster.

### Node lifecycle — `lifecycle/`

*State*: none of its own; the steps of a removal are its program counter. It
changes Node objects, pods and containers.
*Operations*: `FindIdleNodes`, `nodeHasWorkloadPods`, `RemoveNode` = `cordon`
→ `Drain` → `Cleanup` (with the provider's hook) → `removeKindContainer`.
*Interaction*: called by the controller; talks to the API server and docker.
*Hard*: scheduler, kubelets, disruption budgets, operators and crashes act
between any two calls; a call may fail, or succeed with its reply lost.
*Correct when*: a node loses its Node object only in a removal that cordoned it,
then found it drained, then found it annotated `managed-by`, and its container
only after that; a workload is evicted only through the race the code accepts; a
removal ends; idle nodes go.

### Node provisioner — `provisioner/node_provisioner.go`

*State*: the kubeadm join command of the last `CreateNode`.
*Operations*: `CreateNode` (token, container, join, wait for registration, wait
for Ready, annotate), `TerminateNode`, `CordonNode` (no caller),
`WaitForNodeReady`.
*Hard*: six steps, each of which may fail; a node that joins after the deadline;
a node that got Ready but was not annotated.
*Correct when*: what a failed `CreateNode` leaves behind is known, is never
annotated, and is never counted as a success; a call returns, however late the
kubelet; a created node is annotated or its lack of annotation is in the log.

### Resource estimator — `estimator/resource_estimator.go`, `monitor/pod_resources.go`

Stateless. `podEffectiveRequests` computes what a pod asks for; `EstimateDetailed`
filters pods with constraints it does not know, sorts the others and places the pods, best fit decreasing, first on
free capacity of existing nodes, then on template nodes; `NodesNeeded` is the
number of the latter. *Correct when*: no node is filled beyond its capacity, no
feasible pod is left out, and no node is opened for nothing.

### Decision engine and policy — `decision/`

Stateless. `ThresholdPolicy.Evaluate`: limits, headroom, shortfall thresholds
and an (unused) scale-down half. *Correct when*: a decision to scale up never
exceeds the headroom below `MaxNodes` or what the estimator opened, and what is
above the thresholds is acted on.

### Unschedulable detector — `detector/unschedulable_detector.go`

Stateless. Keeps the pending pods of ClusterState whose condition names a
shortage of resources. *Hard*: a pod that is refused for another reason is
invisible to the controller, and so is one whose condition is out of date.

### The rest

Metrics and health endpoints, constants, the entry point, a fake provisioner
for tests, deployment manifests: no state that a decision depends on.
`PROJECT.json` lists every part with its status.

## Modules

| Module | Role |
|---|---|
| `SafeRemoval` | abstract specification of scale-down: what one removal establishes of its node, in order: cordoned, found empty, found annotated, deleted, gone |
| `NodeRemoval` | branch B: `FindIdleNodes`, `handleScaleDown`, `RemoveNode`, each call to the API server or docker one step |
| `NodeRemovalProofs` | its inductive invariants, three theorems |
| `NodeRemovalRefinement` | proof that `NodeRemoval` implements `SafeRemoval` |
| `NodeCreation` | abstract specification of `CreateNode`: fresh → underway → created, failed or lost |
| `NodeProvisioner` | `CreateNode` and `TerminateNode`, each call to docker or the API server one step |
| `NodeProvisionerProofs` | its inductive invariant, five theorems, and the refinement of `NodeCreation` |
| `ClusterState` | the cache, `PodWatcher` and `NodeWatcher` |
| `ClusterStateProofs` | types and the usage accounting, three theorems |
| `AutoscalerController` | ticks, lock, branches A and B, cooldowns, backoff, in-flight counter |
| `AutoscalerControllerProofs` | types, lock and counter, backoff, scale-down cooldown, four theorems |
| `AutoscalerBoundsProofs` | the bound on the number of nodes, one theorem |
| `PodResources` | `podEffectiveRequests`, and the scheduler's sum beside it |
| `ScalingPolicy` | the scale-up half of `Evaluate` |
| `ResourceEstimator` | `EstimateDetailed`, each turn of its loop an action |
| `ScaleUpRounds` | detector, estimator, policy, `handleScaleUp` and the scheduler, round after round |
| `ScaleUpRoundsProofs` | types, limit, packing and recount, nine theorems |
| `SumProofs` | what sums and maxima over finite sets are, lemmas for the two modules above |
| `MC…` | model values and definitions of the constants for TLC |

`ScaleUpRounds` EXTENDS `ResourceEstimator`, which EXTENDS `ScalingPolicy` and
`PodResources`. The other models are joined by contracts: `AutoscalerController`
uses the outcomes of `RemoveNode` and `CreateNode` that `NodeRemoval` and
`NodeProvisioner` have step by step, `ScaleUpRounds` those of `CreateNode`.

### NodeRemoval

The API's objects are sets: `nodes` (Node objects), `cordoned`, `notReady`,
`managed` (annotation), `containers`; `phase` and `host` give each pod's life.
`shortage` says whether the detector would report an unschedulable pod: a tick
takes branch B only without one, and an infeasible pod keeps it out for as long
as it waits. `open` is what ClusterState shows as Ready and schedulable. `pc`,
`scan`, `target`, `copyFresh` (is the Node that `cordon` read still the stored
version?) and `evicting` are the goroutine's locals. Three history variables
serve the properties: `late` (pods whose binding was stored when their node was
out of service), `raced` (pods bound after the idle test of the target) and
`uncordoned` (an operator has lifted the cordon of the removal under way).

Actions carry the names of the code: `StartScan`, `FoundIdle` and `PassOver`
are the loop of `FindIdleNodes`; `CordonGet`, `CordonUpdate` and its conflict
are `cordon`; `DrainList`, `evictPod`, `waitForPodsGone` and `DrainTimeout` are
`Drain`; `CleanupGet`, `CleanupRefuses` and `Delete` are `Cleanup`;
`ProviderCleanupHook` and `removeKindContainer` remove the container, twice, as
the code does. `Fail(step)` is a call that fails with no effect,
`…ReplyLost` one that has its effect and is reported as failed.

The environment is the scheduler (`Pick` decides, `Bind` stores the binding
later: a cordon in between does not stop it), the kubelets, controllers that
re-create pods under the same name, the informer, and operators, who cordon,
uncordon and annotate any node at any time, the one under removal included.

`SafeRemoval` therefore promises what a removal has *established*, and in which
order: `Seal` (the node is cordoned, or found so), `FindEmpty`, `FindManaged`,
`Delete`. The Delete of the code has no precondition (`node_cleanup.go:43-50`): an
operator who uncordons the node or withdraws the annotation after the look is
not heard, and the contract says no more than that. `DrainVerified` is about the
state at the Delete, and excepts the removals whose cordon an operator lifted.

Abstractions:
- The CPU test of `FindIdleNodes` reads a cache that may be stale; `UtilLow`
  gives the verdicts it may return for a node.
- The pod classes are `workload`, `system` (kube-system namespace or critical
  priority), `daemon` and `static`.
- Branch A is the rounds of the other models: here a tick that takes it does
  nothing, and `ShortageChanges` is free to come and go.
- A deleted Node is not registered again by its kubelet: the container goes
  within seconds, or for good with a lost reply.
- The drain timeout expires only for a reason (a stubborn pod, a pod nobody
  evicted, an unreachable API server): it is minutes long, and pods stop faster.

### ClusterState

`podObj` and `nodeObj` are the API's objects, `podStore` the pod informer's
store, `syncing` the two lists that `sync` has built and not yet handed to
`SetPods`, `status` and `used` the entries of `ClusterState.Nodes`. The node
handlers take the lock once and are one step each; `sync` and `SetPods` are two.
An informer brings an object to its current state and may skip the states in
between. Memory is accounted like CPU and is left out. Requests are integers.

### NodeProvisioner

`containers`, `joining` (containers whose kubelet is configured and has no Node
yet), `nodes`, `ready` and `managed` are docker's and the API server's state;
`pc`, `name` and `copyFresh` (is the Node that `annotateNode` read still the
stored version?) are locals of `CreateNode`; `call` records what became of each
call and `warned` which names have a warning in the log.

The actions follow the six steps: `getKubeadmJoinCommand`,
`createNodeContainer`, `execKubeadmJoin` with the removal of the container when
it fails, `waitForNodeRegistration`, `WaitForNodeReady`, `annotateGet` and
`annotateUpdate`. Each has its failure; `docker run`, `kubeadm join`, `docker rm`
and the Update may also have their effect and be reported as failed. Kubelets `Register` and
`ReportReady` when they like, also after the call has given up; other
controllers write the Node (`Touch`), which makes the Update of the annotation
fail as out of date. On a signal the process ends without waiting for the
goroutine, and a docker command that it started outlives it: `Crash` has the
call in flight carried out (`CarriedOut`) or not. A call that dies in the clean-up
after a failed join is `unclean`: if the kubelet had registered and the
`docker rm` is carried out, a Node without a container stays although no failure
was ever reported.

`NodeCreation` says what a caller may rely on, without the steps. The refinement
maps its `stage` to `call`, its `machine` to `containers` and its `member` to
`nodes`; an `unclean` call is a failed one.

Abstractions: a name is used once, as `time.Now().UnixNano()` makes it; the
retries of docker and of the API client are inside a call; `Cleanup` stands for
the whole of `NodeRemoval`, which deletes annotated nodes only and holds the
same lock; operators do not delete nodes. The deadlines of the two waits expire
whenever they like.

### ScaleUpRounds, ResourceEstimator, ScalingPolicy, PodResources

One goroutine goes round: `DetectUnschedulablePods`, `EstimateDetailed`, `Pack`
for each pod (`PlaceOnExisting`, `PlaceOnOpened`, `OpenNode`, `Reject`),
`Estimated`, `Decide`, `handleScaleUp`, `CreateNode` or `CreateNodeFails` for each
turn. A failed call leaves nothing, a Node that is not Ready, or a container
(`abandoned`) whose kubelet may `Register` in any later round. Pods have
containers, init containers, sidecars, overhead, selectors, tolerations; nodes
have capacity, labels and taints. `feasible`, `existing`, `openNewNodes`,
`placedPods` and `infeasiblePods` are the locals of `EstimateDetailed`. The
report's two maps are keyed by the pod's name without its namespace
(`resource_estimator.go:174, 181, 235`), so `placedPods` and `infeasiblePods` hold
names (`NameOf`), and two pods of one name share an entry. The history variable
`packed` has the placements by pod.

The scheduler is the adversary: it follows its own rules (`Admits`, `HasRoom`,
`SchedulerRequests`), binds any pod that fits to any node that has room, and
does so between any two reads of a round.

Abstractions:
- Memory is in whole MiB, the unit in which the code adds it to millicores.
- The order of equally large pods and the choice between equally good existing
  nodes are open: `sort.Slice` is not stable and the nodes come from a map.
  Equally good opened nodes are taken in the order of opening, as in the code.
- The packing takes no time: nothing happens to the cluster between its turns.
  It reads ClusterState once, so this loses no behaviour.
- Pods are submitted between rounds: a round reads what waits once.
- A new node has the template's capacity and labels. Real nodes have more
  labels, which the estimator's template does not know. A node without labels has a nil map,
  which `canPodFitConstraints` refuses to any selector; a map that is empty but
  not nil, which the API does not deliver, is not told from it.
- The detector's condition is that a Ready node which would admit the pod has no
  room, or had none when the condition was set: a pod that has got room since
  then is still found. A pod that every node refuses for another reason is not.
- Pods that request nothing are in the module but not in the instance.
- Informers do not lag, cooldowns are over when a round starts, nodes are not
  removed: `AutoscalerController` has those.
- Names of new nodes are picked by CHOOSE: they differ in nothing else.

### AutoscalerController

Goroutines (`Routines`) start by `Tick`, contend for `reconcileMu`, and walk
through `detect`, `estimate`, `decide`, `scaleUp`, `create`/`creating`, or
`findIdle`, `scaleDown`, `remove`. Each reads the shared state once, as the
code takes the RLock once per getter, so that informer events fall in between.

Abstractions:
- A pod is as large as a node: it needs a node of its own and no other. So
  `NodesNeeded` is the number of waiting pods less the free Ready nodes, and the
  shortfall is always over the thresholds of the policy (500m, 256 MiB).
- `CreateNode` is its outcomes: it fails in steps 1, 2 or 4 (`StartFails`), starts
  a container and gives up waiting for it (`NodeTimesOut`: the node may join
  after all), or succeeds. `StartFails` leaves nothing that is ever a node (a
  container of step 2 never gets a kubelet), a `ghost` (a Node that registered
  before its container was removed, and is never Ready), or, when that removal
  failed too, a container that goes on to join. The kubelet's side is `Join`. A
  name that is in use is never generated again: `StartNode` takes an unused one.
- `RemoveNode` is its outcomes: success, an error after the Node was deleted
  (`RemoveReplyLost`, only with `RepliesLost`), an error after the cordon, which
  leaves the node cordoned for ever, an error before it.
- Cooldowns are "running" or "over", the scale-up one with its length in
  seconds, so that the backoff can be told from it. `Prompt` says that informer
  lag and the time of a decision are short compared with a cooldown.
- `recent` is a history variable: a node was deleted less than a cooldown ago.
- `abandoned` is a history variable: the nodes whose `CreateNode` gave up or was
  cut off by a crash, as long as they are in the cluster.

## Runs

The runs of this table finish with no error; the others end in a counterexample
and are listed with the disagreements below.

| Run | Question | Bounds |
|---|---|---|
| `removal_safety` | does the pipeline implement `SafeRemoval` under failing calls, lost replies, crashes and operators, and which pods can be evicted? (`TypeOK`, `DrainVerified`, `OnlyRacedWorkloadEvicted`, `ImplementsSafeRemoval`) | 2 nodes, a stubborn workload pod and a DaemonSet pod; operators act on any node |
| `removal_progress` | do removals end, idle nodes go, deleted nodes lose their container? (`RemovalEnds`, `IdleNodeTakenOut`, `DeletedNodeTerminated`) | 2 nodes, a stubborn workload pod, pods short of resources now and then, no API faults |
| `cache_usage` | is the usage of a node the sum of its pods in every order of events, and does the picture become right once the cluster rests? (`TypeOK`, `UsageMatchesScheduled`, `UsageMatchesStore`, `CacheConverges`) | 2 pods, 2 nodes, 2 changes from any initial cluster |
| `provision_faults` | what do calls of `CreateNode` leave behind, who is annotated, do calls return, and do they implement `NodeCreation`? (`TypeOK`, `FailureLeaves`, `GhostsFromFailedJoin`, `FailedNodesUnmanaged`, `UnmanagedNodesLogged`, `CreateNodeReturns`, `ImplementsNodeCreation`) | 2 names, crashes, all faults |
| `scaleup_rounds` | is the packing sound and complete, is no node created for nothing, for a pod that cannot use it or for one that the scheduler has room for, does the limit hold over all rounds, and is a reported shortfall served? (`TypeOK`, `NoNodeForNothing`, `EstimateComplete`, `BinsAccounted`, `RecountWithinBins`, `PlacedWhereSchedulable`, `RoomIsSeen`, `NodesWithinMax`, `NodesForFeasiblePods`, `ShortfallServed`) | 6 pods, a node at the start and 3 more names, `MaxNodes` 3, 1 failure, late registrations |
| `control_bounds` | is there one reconcile at a time, is the counter exact, and is `MaxNodes` exceeded by abandoned nodes at most? (`TypeOK`, `InFlightAccounted`, `NodesWithinMax`) | 2 goroutines, 3 names, `MaxNodes` 1, 2 waiting pods, 2 leftovers of failed calls, failing removals, lost replies, crashes |
| `control_progress` | are failed rounds followed by a pause, deletions a cooldown apart, waiting pods served? (`BackoffWaits`, `ScaleDownsSpaced`, `WaitingPodsServed`) | 3 names, `MaxNodes` 2, 1 waiting pod, 2 failures in a row, 1 leftover, failing removals |

Why the bounds are enough to meet the interesting cases:
- *Removal.* There is one target at a time and nodes interact only by being
  picked, so two nodes give a target and a bystander; a pod may move between
  them, which is what eviction by name and late bindings need. The DaemonSet
  pod stays where it is and must not stop the drain; the system pod of
  `removal_critical` is evicted but does not make a node busy. The theorems
  hold for every mix.
- *Cache.* Two pods of unequal requests distinguish the sum from any part of it;
  two nodes let a pod be re-created elsewhere. The initial cluster is
  arbitrary, so the two changes come on top of whatever the informers have
  still to deliver.
- *Provisioner.* Calls do not overlap, so two names give a running call and what
  an earlier one left, or two leftovers. Theorems cover any number.
- *Rounds.* The template and the thresholds are those of the code. The pods are
  chosen against the algorithm. `wide` and `vague` are large, one of them in
  memory, and leave a template node no room for `tiny`, though the three have the
  volume of two nodes, so that the recount of the policy falls short of the
  packing. `tiny` and `mini` are below the thresholds. `huge` fits on the node of
  the start only, which is tainted and labelled. `odd` asks for what the
  estimator does not know, and has the name of `tiny` in another namespace, so
  that the two share an entry of the report. `wide`, `vague` and `mini` have init
  containers, two of them after a sidecar, so that the scheduler needs more than
  the code counts: `mini` may wait beside `wide` while the estimator sees room.
  `vague` has a toleration that only the estimator accepts. `MaxNodes` 3 lets a
  round create two nodes, and the one failure leaves a container that may
  register before, in or after the next round.
- *Control.* A second goroutine is enough to contend for the lock. In
  `control_bounds`, with `MaxNodes` 1, three names leave room for two leftovers and
  one more node by which the limit could be overstepped. The cluster starts
  empty there: a node that is there at the start behaves like one that was
  created. The same run with `MaxNodes` 2 and one leftover (4.9 million states)
  passes too, and a theorem covers all instances. Two waiting pods allow rounds
  of two creations of which one fails. `control_progress` starts with a node,
  which an idle tick may cordon and fail to remove; `MaxNodes` 2 leaves a place
  below the limit beside it, and the third name is for a leftover.

Counters with a bound in a guard: `MaxChanges` (changes to the API's objects),
`MaxWaiting` (`Submit`, and a pod that returns to the queue when its node is
deleted), `MaxFailures` (`CreateFails`, `CreateNodeFails`), `MaxLeftovers` (what
failed calls have left, in `StartFails` and `NodeTimesOut`). In ScaleUpRounds
`MaxFailures` bounds all failures, in AutoscalerController those in a row. `Fresh`
is a symmetry of node names and goroutines and is used in `control_bounds`,
which has no liveness property. `CHECK_DEADLOCK FALSE` is set only where the
system comes to rest: in `cache_*` when the changes are used up, in
`provision_faults` when the names are, in `scaleup_rounds` when every pod is
bound.

`NodesWithinMax` is checked, and proved, with `Prompt`: a cooldown that is
shorter than the informers' lag would let two rounds count the same headroom.
`ScaleDownsSpaced` is checked without lost replies and crashes: a deletion whose
reply is lost starts no cooldown, and a restart forgets the one that runs. `control_progress` has one goroutine: the lock, which
`control_bounds` checks and a theorem proves for any number, lets no second one
into a round.

`ShortfallServed` and `PlacedWhereSchedulable` are claimed for pods that are
`Explicit`: no selector with an empty value, no toleration without an operator,
no init container that needs more than the code counts. The instance has a pod
that is not, and without that restriction both are violated. `ShortfallServed`
is claimed while every node is Ready: `ToProvision` takes a node that is not
Ready for one that will be. And it claims nothing for a pod that the scheduler
refuses where a pod of the node takes more than the code counts for it
(`CountedInFull`): the estimator then sees room that is not there, and no node is
created. In the instance `mini` waits for ever beside `wide`.

`WaitingPodsServed` takes the pods that run on nodes and the cordoned nodes
together (`Taken`): an idle node that the autoscaler cannot remove is cordoned,
never deleted and counted to `MaxNodes` for ever, so that pods may wait although
fewer than `MaxNodes` nodes are in use. Its other exception is a `ghost`, which
`ToProvision` takes for a node on its way. Without either exception the run ends
in a counterexample.

`IdleNodeTakenOut` claims nothing while `shortage` comes again and again: one pod
that no node will ever suit keeps every tick in branch A.

`CacheConverges` includes the usage of each node while a pod is known to be
bound. With the last pod gone the usage stays, which is `cache_stale_usage`.

## Fairness

Only `FairSpec` has fairness, weak with one exception, and no action of the environment that
the code merely hopes for is in it:
- `Reconcile`, and `Step` in NodeProvisioner: the goroutine runs and its calls to
  the API server and docker return. The calls of a removal take the context of
  `Run`, and docker has no deadline of its own: a docker call that hangs for ever
  holds `reconcileMu` for ever. That is listed as a hazard; without this
  assumption nothing progresses. In NodeProvisioner the deadline of a wait is
  among the steps, so that `CreateNodeReturns` needs nothing of the kubelet.
- `Tick`: the ticker fires until the context ends. In ScaleUpRounds the tick is
  part of `Reconcile`.
- `Reap`, `Join`: kubelets stop terminating pods and bring up nodes. `Schedule`:
  the scheduler binds pods to nodes that have room.
- `NodeEvent`, `PodEvent`, `sync`, `SetPods`, `UpdateNode`, `RemoveNode`:
  informers keep delivering what differs.
- `CooldownElapses`, `ScaleUpCooldownElapses`: time passes. In
  AutoscalerController the second is disabled, with `Prompt`, while the informers
  are behind or a decision is under way. The cooldown does elapse although these
  moments come again and again, so its fairness is strong. The scale-down
  cooldown has no fairness there: no property needs it to end.

Evictions of a stubborn pod, creation of pods, and successful `CreateNode`
calls are not fair, and in NodeProvisioner nothing of the kubelets is.
`WaitingPodsServed` and `ShortfallServed` hold because `MaxFailures` bounds the
failures: they say that failures do not stop the controller, not that
provisioning succeeds. `control_progress` leaves out crashes and lost replies;
removals fail there, and nodes are late or ghosts.

## Theorems and proofs

All proofs are checked by TLAPS 1.4.5 and hold for every value of the constants
that the named assumptions admit: any nodes, pods, goroutines, limits, and any
combination of faults, operators and crashes that a theorem's hypotheses do not
exclude.

Assumptions: `ConstantsAssumption` in each module (types; markers such as
`NoNode` are not members; in AutoscalerController the set of names is finite),
`MarkersAssumption` in ClusterState, and the hypotheses of single theorems, which
are named below. For ScaleUpRounds they are `PolicyAssumption` (a template of
positive size), `EstimatorAssumption` (pods and names are finite sets; labels are
a map, one value for each key), `NamesAssumption` (the numbers of template
nodes are no node's name) and `RoundsAssumption` (a start within the limit; at least
`MaxNodes + MaxFailures` names, so that they do not run out). TLC
evaluates the assumptions in the runs.

**NodeRemovalProofs**
- `TypeCorrect`: `Spec => []TypeOK`.
- `DrainVerifiedHolds`. From the last poll to the Delete many things happen to
  pods, so "no evictable pod" is not inductive: a pod may arrive by a binding
  decided before. What makes it inductive is that the target stays cordoned
  throughout (`TargetCordoned`: `cordon` precedes the drain, and an operator who
  lifts the cordon is remembered in `uncordoned`), so whatever arrives is in
  `late`. `DrainInv` is the conjunction.
- `OnlyRacedWorkloadEvictedHolds`. `evicting` is filled long after the idle
  test; `IdleSinceTest` carries the test's verdict from there to the drain: each
  workload pod listed on the target since then is in `raced`. `WorkloadInv`
  joins it with where targets and eviction lists may exist at all.

**NodeRemovalRefinement**
- `Refinement`: `Spec => ImplementsSafeRemoval`. `stage` is computed from
  `cordoned`, `nodes` and `containers`, `vetted` from `pc` and `target`, `guests`
  from the evictable pods that are not `late`. Each action of `NodeRemoval` is
  shown to be a step of `SafeRemoval` or a stutter: those of the pipeline establish
  the next thing or give the removal up, those of operators are steps of the
  contract at any point of a removal. Because the contract is about what was
  established, `RemovalInv` can be small: types, that the target of the container
  removals has no Node object any more (`TargetDeleted`), and that every Node
  object has a container (`NodesHaveContainers`).

**SumProofs**

Loads, requests and shortfalls are sums over sets, which the community modules
define by a fold. The library's induction theorems take an operator as a
parameter, which the provers cannot instantiate, so each induction is done as a
search for a minimal counterexample: the subsets for which a claim is false are a
set, which is first-order data, and if it is not empty it has a minimal member
(`MinimalSubset`). First the recursion is shown to have exactly one solution on a
finite set (`RecursionExists`, `RecursionUnique`), so that the fold is what its
equation says; then that any member may be taken out (`SumTakeOut`), and from
there that sums are natural numbers, are bounded by number times bound, grow with
their members and are positive if a member is.

**ClusterStateProofs**
- `TypeCorrect`: the usage of each node is a natural number, for a sum over any
  finite set of pods is (`SumNat`).
- `UsageMatchesScheduledHolds`: inductive once the picture is known to be two
  functions on `Nodes` (`PictureOK`); each handler that changes a list or adds a
  node recomputes.
- `UsageMatchesStoreHolds`: adds `ListsCurrent`, which relates `ScheduledPods`
  to the store of the informer, or `syncing` to it while `sync` is between its
  List and `SetPods`.

**NodeProvisionerProofs**
- `TypeCorrect`, `FailureLeavesHolds`, `GhostsFromFailedJoinHolds`,
  `FailedNodesUnmanagedHolds`, `UnmanagedNodesLoggedHolds`: one invariant,
  `CreationInv`, is their conjunction with what relates them to the running
  call. What a failed call leaves depends on how far it came (`Progress`), on
  names being used once (`FreshNowhere`) and on where a kubelet that is still on
  its way may belong (`JoiningOK`): a late registration must find a container,
  or it would make a Node without one, and must not be that of a created node,
  or it would make one without an annotation. A clean-up that a crash cuts off
  is reported by nobody, so what it leaves hangs on the outcome `unclean`.
- `Refinement`: `Spec => ImplementsNodeCreation`. Each action is a step of
  `NodeCreation` or a stutter under `CreationInv`; that only created or lost
  nodes are expelled is `FailedNodesUnmanaged`. A crash is the loss of the call,
  whose machine stays, or in the clean-up its failure, which may take the machine.

**AutoscalerBoundsProofs**
- `NodesWithinMaxHolds`, for `Prompt`, `MaxFailures <= 61` and a start within
  the limit, with any number of goroutines, restarts, late nodes, ghosts, lost
  replies and failing removals. The limit is tested against a cache that may be old, so it is not
  inductive. `LiveSeen` says when the cache may be trusted: once the cooldown is
  over and no node is being created, it shows each node that counts. It holds
  because every round ends by starting a cooldown or a backoff, which is where
  the 61 failures are used; because the cooldown outlasts the lag; and because a
  node that is not registered is being created or was given up
  (`StartingAccounted`). `HeadroomKept` carries the decision from `Evaluate` to
  the last turn of the loop.

**AutoscalerControllerProofs**
- `TypeCorrect`, with the content that `inFlightProvisioning` never becomes
  negative and a backoff never exceeds a minute. Neither follows from types
  alone: the first needs `InFlightAccounted`, the second that a round without a
  success has counted a failure. Hence one invariant, `ControlInv`: types,
  `InFlightAccounted`, `TurnsCounted` (every turn of the `CreateNode` loop that
  is over left a success or a failure, and one that runs has a node) and the
  bound on failures.
- `InFlightAccountedHolds`, for any number of overlapping ticks and restarts.
- `BackoffWaitsHolds`, for `MaxFailures <= 61` and no restarts; `control_backoff`
  shows that 61 is the last value for which it holds.
- `ScaleDownsSpacedHolds`, for `~RepliesLost` and `~Crashes`. `CooldownKept`
  says that a deletion is recent only while its cooldown runs, and that nobody
  starts a cooldown behind the back of a goroutine that has seen none: the lock
  is what makes the second part inductive.

**ScaleUpRoundsProofs**

Each safety property of the run `scaleup_rounds` holds for all sizes, labels,
taints, tolerations, limits and thresholds.
- `TypeCorrect` and `NodesWithinMaxHolds` come from one invariant, `Inv`: types,
  `EstimateInv` (an estimate exists only while it is used; a pod has its turn
  once; a bin has given something away and no more than it had) and `Headroom`
  (what the round is still to create fits below `MaxNodes`, next to the nodes that
  are not `abandoned`). `Headroom` is what carries the cut in `Evaluate` over the
  loop of creations, in which some fail and leave a Node or a container behind,
  and in which an abandoned container may register. That a name is left for each
  creation is `FreshNameExists`: as many are in use as nodes count and calls have
  failed, at most.
- `NoNodeForNothingHolds`, `EstimateCompleteHolds`: a turn only shrinks what is
  free, so a pod that fitted nowhere still fits nowhere at the end
  (`FitsShrink`); the one node that a turn adds is the last in the order, and a
  pod that the template cannot hold does not fit on what is left of one.
  `EstimateComplete` is about the pods for the placements, and about their names
  for the report: each map has exactly the names of the pods that the loop placed
  or refused, which says nothing of two pods of one name, and claims nothing.
- `BinsAccountedHolds`: a turn adds one pod to one bin, and the sum of the pods
  on it grows by what the bin loses (`SumOfAdd`). That a pod is not added twice is
  `PlacedOnce`.
- `RecountWithinBinsHolds`: each bin has given away something and at most the
  template, in each dimension, so the sum is positive and at most the number of
  bins times the template, and rounding up the quotient yields no more
  (`CeilDivBound`). Two dimensions with one maximum do not change that.
- `PlacedWhereSchedulableHolds` and `RoomIsSeenHolds` relate the estimator to the
  scheduler in both directions. An explicit pod fits, for the estimator, only on
  labels and taints that the scheduler accepts. Where the scheduler has room for
  any pod, the estimator has: `podEffectiveRequests` is at most what the
  scheduler counts, for every sequence of containers, init containers and
  sidecars (`NeedsCoverRequest`), hence so are the sums over the pods of a node.
- `NodesForFeasiblePodsHolds`: the pod for which the first bin was opened is
  found and feasible to the end of the round (`FoundWhenOpened`).

**Only model-checked** are the liveness properties (`RemovalEnds`,
`IdleNodeTakenOut`, `DeletedNodeTerminated`, `CacheConverges`,
`CreateNodeReturns`, `WaitingPodsServed`, `ShortfallServed`): liveness under
fairness is out of reach of the prover as used here. Each safety invariant, action
property and refinement of a passing run is a theorem.

## Where documents and code disagree

These are runs that end in a counterexample; `PROJECT.json` has the quotations.

| Run | What the code does |
|---|---|
| `removal_critical` | kube-system and system-critical pods of an idle node are evicted: they do not make a node busy, and `shouldSkip` does not spare them |
| `cache_stale_usage` | with no scheduled pod left the recomputation returns early, and nodes keep their old usage |
| `control_min_nodes` | branch B does not look at `MinNodes` and removes the last node |
| `control_backoff` | the backoff overflows to zero after 62 failures in a row |
| `control_duplicate` | a node that turns Ready between the estimate and the count of unready nodes is counted in neither: in the trace `CreateNode` timed out for it, and a second node is created for its pod |

More that the models make visible but no run is devoted to:
- `FindIdleNodes` "identifies worker nodes" (`idle_detector.go:3`) but does not
  tell them from control-plane nodes; only the annotation guard, which comes
  after cordon and drain, keeps a control-plane node from deletion.
- Cleanup "deletes a fully-drained node object" (`node_cleanup.go:14`), yet a pod
  whose binding was decided before the cordon may be on it: `DrainVerified` and
  `SafeRemoval` say that only such pods may.
- The minimum node age (`utils/constants.go:67`) is read by the half of the
  policy that the controller never acts on.
- A deletion whose reply is lost sets no `lastScaleDown`, so that the next node
  may be deleted at once (`src/README.md:170`).
- A node that joins after `CreateNode` gave up takes the cluster over `MaxNodes`,
  the "hard upper bound" of `src/README.md:168`. `NodesWithinMax`, in
  ScaleUpRounds as in AutoscalerController, says that such nodes, and those of
  calls that a crash cut off, are the only excess.
- An operator who uncordons a node under removal, or withdraws its annotation
  after `Cleanup` has read it, does not stop the deletion: it has no precondition
  (`node_cleanup.go:43-50`).
- The report of the estimator has one entry for all pods of one name
  (`resource_estimator.go:174, 181, 235`): a pod may be listed as placed and
  infeasible at a time, and another not be listed apart.
- The bin-packing is called deterministic (`src/README.md:86`), but its sort is
  not stable and the nodes come in the order of a map: the same input may give
  different placements.
- "Exact label key/value matching" (`src/README.md:88`): a selector with an empty
  value also matches a missing label (`resource_estimator.go:327`); and a
  toleration without an operator is taken as `Exists`
  (`resource_estimator.go:362`), where Kubernetes takes it as `Equal`.
- The requests of a pod are said to match the scheduler's accounting
  (`pod_resources.go:11`), but an init container after a sidecar is not counted
  together with it. `RoomIsSeen` says that this is the only direction in which
  the two differ: the code never counts more.
- "unschedulable pods exist AND nodesNeeded > 0" is the condition of a scale-up by
  its comment (`scaling_policy.go:117`); it is a shortfall above the thresholds,
  so that small pods may wait for ever.
- The count of the policy is cut to the estimator's `NodesNeeded`
  (`autoscaler_controller.go:258`), which never bites: `RecountWithinBins` says
  that the recount from the sums is never larger.

## Hazards

`PROJECT.json` lists what is hard to test in this code, at its line, with the
properties that would catch it going wrong. The kinds: interleavings of the
removal with scheduler, operators and informers; stale reads between the calls
of one decision; lost replies and partial failures of the removal and of a
call of `CreateNode`; crashes; timeouts racing late answers; overflow and empty
lists; an estimate that the scheduler does not follow; limits that hold only on
some paths. A hazard whose property covers a part of it carries a note that says
which. More that no property covers:
- Placements and infeasible pods are keyed by pod name without the namespace
  (`resource_estimator.go:174`), which `EstimateComplete` states as it is. Only logs
  and a metric read the entries.
- Real nodes have labels that the template does not have: a pod that selects by
  one of them is infeasible for the estimator.
- While an infeasible pod waits, every round takes branch A and no idle node is
  removed, as a comment intends (`autoscaler_controller.go:247`): `shortage` in
  NodeRemoval, for which `IdleNodeTakenOut` makes an exception.
- An eviction addresses a pod by name, wherever a pod of that name runs by now
  (`node_drain.go:67`). The model has it; a property that forbids it would be false.
- A selector with an empty value and a toleration without an operator make the
  estimator see a fit that the scheduler refuses (`resource_estimator.go:327, 362`).
- A docker call that hangs holds the lock for ever; the models assume that calls
  return.
- There is one replica and no leader election (`deploy/deployment.yaml:19`); two
  processes, as during a rolling update, share no lock. The models have one.

## Not modelled, and why

- `SetNodes`, `SetPendingPods`, `SetScheduledPods`, `CordonNode` of the
  provisioner and the critical-pod checker: no reachable code calls them.
- The scale-down half of the policy and its list of proposed removals: the
  controller asks the policy only while pods wait and acts on nothing but
  `ScaleUp`. The minimum node age is read there only.
- `ClassifyShortage`, explanations and summaries of estimator and detector: logs.
- Metrics, health endpoints, flags, signal handling, the fake provisioner,
  manifests: I/O, wiring and test doubles.
- The recovery from a crash in the middle of a removal or a creation: there is
  none in the code; a restart forgets it, which the models show as `Crash`.
- Shutdown in the middle of a round: the context ends and calls fail, which the
  models have as failures.

## Plan

Done: `NodeRemoval` with `SafeRemoval`, `NodeProvisioner` with `NodeCreation`,
`ClusterState`, `AutoscalerController`, `ScaleUpRounds` with estimator, policy
and pod requests, and a theorem for each safety property of a passing run. Next,
in this order:

1. A contract of `RemoveNode` for its caller in the manner of `NodeCreation`, so
   that the outcomes in `AutoscalerController` are those of `NodeRemoval` by
   proof and not by reading; likewise for the use that it and `ScaleUpRounds` make
   of `NodeCreation`.
2. Proofs about the disagreements: under which weakest condition each property
   that is refuted does hold.
3. Model: a composition of `AutoscalerController` with the cache of
   `ClusterState`, so that lag acts on usage as well as on nodes and pods.

## How to run

    tlc -workers 2 -config removal_safety.cfg MCNodeRemoval.tla
    tlapm NodeRemovalProofs.tla

A run's configuration has its name; `PROJECT.json` gives the module of each.

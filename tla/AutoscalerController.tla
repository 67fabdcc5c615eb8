------------------------ MODULE AutoscalerController -----------------------
(***************************************************************************)
(* The control loop: ticks that start reconcile in a goroutine of its own, *)
(* the TryLock that lets one of them work, the scale-up handler with its   *)
(* cooldown, de-duplication and backoff, and the scale-down handler.       *)
(*                                                                         *)
(* Pods are abstracted to pods as large as the node template: a waiting    *)
(* pod needs a node of its own, so the estimator's NodesNeeded is the      *)
(* number of waiting pods less the free nodes it may use.  CreateNode and  *)
(* RemoveNode are abstracted to their outcomes; NodeRemoval has the steps  *)
(* of the latter.                                                          *)
(***************************************************************************)
EXTENDS Integers, FiniteSets, Sequences

CONSTANTS
    Names,          \* node names; one that is not in use stands for a fresh one
    AtStart,        \* the nodes of the cluster at the start
    Routines,       \* goroutines that ticks may start
    None,           \* no goroutine, no node
    MinNodes, MaxNodes,     \* the policy's bounds
    MaxWaiting,     \* bound on the pods waiting at a time
    MaxFailures,    \* bound on consecutive provisioning failures
    MaxLeftovers,   \* bound on what calls of CreateNode leave behind by failing
    RemovalFaults,  \* may RemoveNode fail?
    RepliesLost,    \* may it fail although the node was deleted?
    Prompt,         \* are informers and decisions quick, compared to a cooldown?
    Crashes         \* may the controller crash and restart?

ASSUME ConstantsAssumption ==
    /\ IsFiniteSet(Names) /\ AtStart \subseteq Names
    /\ None \notin Names \cup Routines
    /\ MinNodes \in Nat /\ MaxNodes \in Nat /\ MaxWaiting \in Nat /\ MaxFailures \in Nat
    /\ MaxLeftovers \in Nat
    /\ {RemovalFaults, RepliesLost, Prompt, Crashes} \subseteq BOOLEAN

VARIABLES
    \* The cluster.
    status,         \* the life of each node
    busy,           \* nodes that a pod occupies
    waiting,        \* how many pods wait for a node
    abandoned,      \* history: nodes that CreateNode gave up, or was cut off from
    \* ClusterState.
    cached,         \* the status of each node as the informer last saw it
    cachedWaiting,  \* how many unschedulable pods it shows
    \* AutoscalerController.
    reconcileMu,    \* the goroutine that holds the lock, or None
    inFlightProvisioning,
    scaleUpFailures,
    coolUp,         \* seconds from the last scale-up event until the next may start
    coolDown,       \* is lastScaleDown less than the cooldown ago?
    recent,         \* history: was a node deleted less than a cooldown ago?
    \* The goroutines.
    pc,
    pods,           \* unschedulable pods found by the detector
    count,          \* NodesNeeded, then dec.Count, then toProvision
    left,           \* turns of the CreateNode loop to go
    successCount,
    name            \* the node being created, or idleNodes[0]

cluster == <<status, busy, waiting, abandoned>>
cache   == <<cached, cachedWaiting>>
control == <<inFlightProvisioning, scaleUpFailures, coolUp, coolDown, recent>>
locals  == <<pods, count, left, successCount, name>>
vars    == <<cluster, cache, reconcileMu, control, pc, locals>>

\* "starting": the container runs, no Node is registered yet; "ghost": there is
\* a Node whose container is gone, it never gets Ready.
Status == {"unused", "starting", "ghost", "notReady", "ready", "cordoned"}
Registered == {"notReady", "ready", "cordoned"}
Seen == Registered \cup {"none"}
Steps == {"off", "tick", "detect", "estimate", "decide", "scaleUp", "create", "creating",
          "findIdle", "scaleDown", "remove"}

ScaleUpCooldown == 60

\* Every variable stays in its domain.
TypeOK ==
    /\ status \in [Names -> Status]
    /\ busy \subseteq Names
    /\ waiting \in 0..MaxWaiting
    /\ abandoned \subseteq Names
    /\ cached \in [Names -> Seen]
    /\ cachedWaiting \in 0..MaxWaiting
    /\ reconcileMu \in Routines \cup {None}
    /\ inFlightProvisioning \in Nat
    /\ scaleUpFailures \in Nat
    /\ coolUp \in 0..ScaleUpCooldown
    /\ coolDown \in BOOLEAN
    /\ recent \in BOOLEAN
    /\ pc \in [Routines -> Steps]
    /\ pods \in [Routines -> Nat]
    /\ count \in [Routines -> Nat]
    /\ left \in [Routines -> Nat]
    /\ successCount \in [Routines -> Nat]
    /\ name \in [Routines -> Names \cup {None}]

\* What the API server shows of n.
CurrentView(n) ==
    IF status[n] \in Registered THEN status[n]
    ELSE IF status[n] = "ghost" THEN "notReady" ELSE "none"

\* The nodes that exist, and those ClusterState shows with a status in S.
Nodes == {n \in Names : CurrentView(n) # "none"}
CachedIn(S) == {n \in Names : cached[n] \in S}

Init ==
    /\ status = [n \in Names |-> IF n \in AtStart THEN "ready" ELSE "unused"]
    /\ busy \in SUBSET AtStart
    /\ waiting \in 0..MaxWaiting
    /\ abandoned = {}
    /\ cached = [n \in Names |-> IF n \in AtStart THEN "ready" ELSE "none"]
    /\ cachedWaiting = waiting
    /\ reconcileMu = None
    /\ inFlightProvisioning = 0
    /\ scaleUpFailures = 0
    /\ coolUp = 0
    /\ coolDown = FALSE
    /\ recent = FALSE
    /\ pc = [r \in Routines |-> "off"]
    /\ pods = [r \in Routines |-> 0]
    /\ count = [r \in Routines |-> 0]
    /\ left = [r \in Routines |-> 0]
    /\ successCount = [r \in Routines |-> 0]
    /\ name = [r \in Routines |-> None]

----------------------------------------------------------------------------
(* Ticks and the lock *)

Goto(r, step) == pc' = [pc EXCEPT ![r] = step]

\* reconcile returns: the deferred Unlock, and its locals are gone.
Return(r) ==
    /\ Goto(r, "off")
    /\ reconcileMu' = None
    /\ pods' = [pods EXCEPT ![r] = 0]
    /\ count' = [count EXCEPT ![r] = 0]
    /\ left' = [left EXCEPT ![r] = 0]
    /\ successCount' = [successCount EXCEPT ![r] = 0]
    /\ name' = [name EXCEPT ![r] = None]

\* The ticker fires: go c.reconcile(ctx).
Tick(r) ==
    /\ pc[r] = "off"
    /\ Goto(r, "tick")
    /\ UNCHANGED <<cluster, cache, reconcileMu, control, locals>>

\* Mutant: reconcile does not look at the lock.
TakeLock(r) ==
    /\ pc[r] = "tick"
    /\ reconcileMu' = r
    /\ Goto(r, "detect")
    /\ UNCHANGED <<cluster, cache, control, locals>>

TryLock(r) ==
    /\ pc[r] = "tick"
    /\ reconcileMu = None
    /\ reconcileMu' = r
    /\ Goto(r, "detect")
    /\ UNCHANGED <<cluster, cache, control, locals>>

SkipTick(r) ==
    /\ pc[r] = "tick"
    /\ reconcileMu # None
    /\ Goto(r, "off")
    /\ UNCHANGED <<cluster, cache, reconcileMu, control, locals>>

----------------------------------------------------------------------------
(* Branch A: detector, estimator and decision read ClusterState in turn *)

DetectUnschedulablePods(r) ==
    /\ pc[r] = "detect"
    /\ pods' = [pods EXCEPT ![r] = cachedWaiting]
    /\ Goto(r, IF cachedWaiting > 0 THEN "estimate" ELSE "findIdle")
    /\ UNCHANGED <<cluster, cache, reconcileMu, control, count, left, successCount, name>>

\* What is free on Ready, schedulable nodes takes its share of the pods.
NodesNeeded(r) == pods[r] - Cardinality(CachedIn({"ready"}) \ busy)

EstimateDetailed(r) ==
    /\ pc[r] = "estimate"
    /\ IF NodesNeeded(r) <= 0
       THEN Return(r)
       ELSE /\ count' = [count EXCEPT ![r] = NodesNeeded(r)]
            /\ Goto(r, "decide")
            /\ UNCHANGED <<reconcileMu, pods, left, successCount, name>>
    /\ UNCHANGED <<cluster, cache, control>>

\* Mutant: the limit is tested, but the count is not cut down to the headroom.
WithoutHeadroom(needed, current) == needed

\* The cut of Evaluate, for current nodes in ClusterState.
WithinHeadroom(needed, current) ==
    IF needed > MaxNodes - current THEN MaxNodes - current ELSE needed

\* Every node counts against the limit, also one that is cordoned or not Ready.
Evaluate(r) ==
    LET current == Cardinality(CachedIn(Registered))
    IN  /\ pc[r] = "decide"
        /\ IF current >= MaxNodes
           THEN Return(r)
           ELSE /\ count' = [count EXCEPT ![r] = WithinHeadroom(@, current)]
                /\ Goto(r, "scaleUp")
                /\ UNCHANGED <<reconcileMu, pods, left, successCount, name>>
        /\ UNCHANGED <<cluster, cache, control>>

----------------------------------------------------------------------------
(* handleScaleUp *)

ToProvision(r) ==
    count[r] - (inFlightProvisioning + Cardinality(CachedIn({"notReady"})))

SkipScaleUp(r) ==
    /\ pc[r] = "scaleUp"
    /\ coolUp > 0 \/ ToProvision(r) <= 0
    /\ Return(r)
    /\ UNCHANGED <<cluster, cache, control>>

StartScaleUp(r) ==
    /\ pc[r] = "scaleUp"
    /\ coolUp = 0
    /\ ToProvision(r) > 0
    /\ inFlightProvisioning' = inFlightProvisioning + ToProvision(r)
    /\ count' = [count EXCEPT ![r] = ToProvision(r)]
    /\ left' = [left EXCEPT ![r] = ToProvision(r)]
    /\ Goto(r, "create")
    /\ UNCHANGED <<cluster, cache, reconcileMu, scaleUpFailures, coolUp, coolDown, recent,
                   pods, successCount, name>>

\* Container names hold the time, so they are fresh.
IsFresh(n) == status[n] = "unused" /\ cached[n] = "none"

\* CreateNode up to kubeadm join: a container with a fresh name runs.
StartNode(r) ==
    /\ pc[r] = "create"
    /\ left[r] > 0
    /\ \E n \in Names :
        /\ IsFresh(n)
        /\ status' = [status EXCEPT ![n] = "starting"]
        /\ name' = [name EXCEPT ![r] = n]
    /\ Goto(r, "creating")
    /\ UNCHANGED <<busy, waiting, abandoned, cache, reconcileMu, control, pods, count, left,
                   successCount>>

NextTurn(r) ==
    /\ left' = [left EXCEPT ![r] = @ - 1]
    /\ name' = [name EXCEPT ![r] = None]
    /\ Goto(r, "create")

CreateFails(r) ==
    /\ scaleUpFailures < MaxFailures
    /\ scaleUpFailures' = scaleUpFailures + 1
    /\ NextTurn(r)
    /\ UNCHANGED <<busy, waiting, cache, reconcileMu, inFlightProvisioning, coolUp, coolDown,
                   recent, pods, count, successCount>>

\* Steps 1, 2 and 4 of CreateNode fail.  Nothing is left that ever becomes a
\* Node; or a Node that joined before its container was removed; or, when that
\* removal fails too, a container that goes on to join.
StartFails(r) ==
    /\ pc[r] = "create"
    /\ left[r] > 0
    /\ CreateFails(r)
    /\ \/ UNCHANGED <<status, abandoned>>
       \/ /\ Cardinality(abandoned) < MaxLeftovers
          /\ \E n \in Names, remnant \in {"ghost", "starting"} :
                /\ IsFresh(n)
                /\ status' = [status EXCEPT ![n] = remnant]
                /\ abandoned' = abandoned \cup {n}

\* Steps 5 and 6 time out; the container, or the Node, stays.
NodeTimesOut(r) ==
    /\ Cardinality(abandoned) < MaxLeftovers
    /\ pc[r] = "creating"
    /\ status[name[r]] # "ready"
    /\ CreateFails(r)
    /\ abandoned' = abandoned \cup {name[r]}
    /\ UNCHANGED status

NodeUp(r) ==
    /\ pc[r] = "creating"
    /\ status[name[r]] = "ready"
    /\ successCount' = [successCount EXCEPT ![r] = @ + 1]
    /\ NextTurn(r)
    /\ UNCHANGED <<cluster, cache, reconcileMu, control, pods, count>>

\* The bits of 5 * (1 << (f - 1)) that an int of 64 bits keeps.
BackoffBits(f) == {b \in {f - 1, f + 1} : b < 64}

\* 5 * (1 << (f - 1)), while it is no more than 60.
Doubled == <<5, 10, 20, 40>>

\* Mutant: the first failure is not waited for.
BackoffAfterSecond(f) == IF f > 4 THEN 60 ELSE IF f = 1 THEN 0 ELSE Doubled[f - 1]

\* The seconds handleScaleUp waits after f failures in a row.  The product is
\* zero once all its bits are shifted out, and negative when bit 63 is set (f
\* is 62 or 64); such a product is not capped, and times time.Second it
\* overflows to zero.
BackoffSeconds(f) ==
    IF BackoffBits(f) = {} \/ 63 \in BackoffBits(f) THEN 0
    ELSE IF f > 4 THEN 60 ELSE Doubled[f]

\* Mutant: what the detector found is released, not what was reserved.
ReleaseRequested(r) == inFlightProvisioning - pods[r]

\* Mutant: the reservation is never taken back.
KeepInFlight(r) == inFlightProvisioning

\* The deferred release of what the goroutine reserved.
ReleaseInFlight(r) == inFlightProvisioning - count[r]

EndScaleUp(r) ==
    /\ pc[r] = "create"
    /\ left[r] = 0
    /\ IF successCount[r] > 0
       THEN coolUp' = ScaleUpCooldown /\ scaleUpFailures' = 0
       ELSE /\ coolUp' = BackoffSeconds(scaleUpFailures)
            /\ UNCHANGED scaleUpFailures
    /\ inFlightProvisioning' = ReleaseInFlight(r)
    /\ Return(r)
    /\ UNCHANGED <<cluster, cache, coolDown, recent>>

----------------------------------------------------------------------------
(* Branch B: FindIdleNodes and handleScaleDown *)

\* The pods of a node are listed live, its status comes from the cache.
FindIdleNodes(r) ==
    /\ pc[r] = "findIdle"
    /\ \/ \E n \in CachedIn({"ready"}) \ busy :
            /\ name' = [name EXCEPT ![r] = n]
            /\ Goto(r, "scaleDown")
            /\ UNCHANGED <<reconcileMu, pods, count, left, successCount>>
       \/ CachedIn({"ready"}) \subseteq busy /\ Return(r)
    /\ UNCHANGED <<cluster, cache, control>>

handleScaleDown(r) ==
    /\ pc[r] = "scaleDown"
    /\ IF coolDown
       THEN Return(r)
       ELSE /\ Goto(r, "remove")
            /\ UNCHANGED <<reconcileMu, locals>>
    /\ UNCHANGED <<cluster, cache, control>>

\* The drained node is gone; a pod that got there meanwhile waits again.
NodeDeleted(n) ==
    /\ status[n] \in Registered
    /\ status' = [status EXCEPT ![n] = "unused"]
    /\ waiting' = IF n \in busy /\ waiting < MaxWaiting THEN waiting + 1 ELSE waiting
    /\ busy' = busy \ {n}
    /\ abandoned' = abandoned \ {n}
    /\ recent' = TRUE

\* Mutant: lastScaleDown is never set.
RemoveWithoutCooldown(r) ==
    /\ pc[r] = "remove"
    /\ NodeDeleted(name[r])
    /\ Return(r)
    /\ UNCHANGED <<cache, inFlightProvisioning, scaleUpFailures, coolUp, coolDown>>

RemoveSucceeds(r) ==
    /\ pc[r] = "remove"
    /\ NodeDeleted(name[r])
    /\ coolDown' = TRUE
    /\ Return(r)
    /\ UNCHANGED <<cache, inFlightProvisioning, scaleUpFailures, coolUp>>

\* The node is deleted, but the reply is lost: lastScaleDown is not set.
RemoveReplyLost(r) ==
    /\ RepliesLost
    /\ pc[r] = "remove"
    /\ NodeDeleted(name[r])
    /\ Return(r)
    /\ UNCHANGED <<cache, inFlightProvisioning, scaleUpFailures, coolUp, coolDown>>

\* RemoveNode fails, before the cordon or after it.
RemoveFails(r) ==
    /\ pc[r] = "remove"
    /\ RemovalFaults \/ status[name[r]] \notin Registered
    /\ status' \in {status} \cup {[status EXCEPT ![n] = "cordoned"] :
                                    n \in {m \in {name[r]} : status[m] = "ready"}}
    /\ Return(r)
    /\ UNCHANGED <<busy, waiting, abandoned, cache, control>>

----------------------------------------------------------------------------
Reconcile(r) ==
    \/ TryLock(r) \/ SkipTick(r)
    \/ DetectUnschedulablePods(r) \/ EstimateDetailed(r) \/ Evaluate(r)
    \/ SkipScaleUp(r) \/ StartScaleUp(r)
    \/ StartNode(r) \/ StartFails(r) \/ NodeTimesOut(r) \/ NodeUp(r) \/ EndScaleUp(r)
    \/ FindIdleNodes(r) \/ handleScaleDown(r)
    \/ RemoveSucceeds(r) \/ RemoveReplyLost(r) \/ RemoveFails(r)

(* The cluster, the informers and time *)

\* The kubelet of a started container registers a Node and reports it Ready.
Join(n) ==
    /\ \/ status[n] = "starting" /\ status' = [status EXCEPT ![n] = "notReady"]
       \/ status[n] = "notReady" /\ status' = [status EXCEPT ![n] = "ready"]
    /\ UNCHANGED <<busy, waiting, abandoned, cache, reconcileMu, control, pc, locals>>

Submit ==
    /\ waiting < MaxWaiting
    /\ waiting' = waiting + 1
    /\ UNCHANGED <<status, busy, abandoned, cache, reconcileMu, control, pc, locals>>

\* The scheduler binds a waiting pod to a free node.
Schedule(n) ==
    /\ waiting > 0
    /\ status[n] = "ready"
    /\ n \notin busy
    /\ waiting' = waiting - 1
    /\ busy' = busy \cup {n}
    /\ UNCHANGED <<status, abandoned, cache, reconcileMu, control, pc, locals>>

PodLeaves(n) ==
    /\ n \in busy
    /\ busy' = busy \ {n}
    /\ UNCHANGED <<status, waiting, abandoned, cache, reconcileMu, control, pc, locals>>

NodeEvent(n) ==
    /\ cached[n] # CurrentView(n)
    /\ cached' = [cached EXCEPT ![n] = CurrentView(n)]
    /\ UNCHANGED <<cluster, cachedWaiting, reconcileMu, control, pc, locals>>

PodEvent ==
    /\ cachedWaiting # waiting
    /\ cachedWaiting' = waiting
    /\ UNCHANGED <<cluster, cached, reconcileMu, control, pc, locals>>

Deciding(r) == pc[r] \in {"detect", "estimate", "decide", "scaleUp"}

\* Five seconds at least pass before a cooldown ends: with Prompt the informers
\* have caught up by then, and no decision has taken that long.
ScaleUpCooldownElapses ==
    /\ coolUp > 0
    /\ Prompt => /\ cachedWaiting = waiting
                 /\ \A n \in Names : cached[n] = CurrentView(n)
                 /\ \A r \in Routines : ~Deciding(r)
    /\ coolUp' = 0
    /\ UNCHANGED <<cluster, cache, reconcileMu, inFlightProvisioning, scaleUpFailures,
                   coolDown, recent, pc, locals>>

ScaleDownCooldownElapses ==
    /\ coolDown \/ recent
    /\ coolDown' = FALSE
    /\ recent' = FALSE
    /\ UNCHANGED <<cluster, cache, reconcileMu, inFlightProvisioning, scaleUpFailures,
                   coolUp, pc, locals>>

\* The process dies and starts again with empty memory and a fresh cache.
Crash ==
    /\ Crashes
    /\ reconcileMu' = None
    /\ inFlightProvisioning' = 0
    /\ scaleUpFailures' = 0
    /\ coolUp' = 0
    /\ coolDown' = FALSE
    /\ pc' = [r \in Routines |-> "off"]
    /\ pods' = [r \in Routines |-> 0]
    /\ count' = [r \in Routines |-> 0]
    /\ left' = [r \in Routines |-> 0]
    /\ successCount' = [r \in Routines |-> 0]
    /\ name' = [r \in Routines |-> None]
    /\ cached' = [n \in Names |-> CurrentView(n)]
    /\ cachedWaiting' = waiting
    /\ abandoned' = abandoned \cup {name[r] : r \in {q \in Routines : pc[q] = "creating"}}
    /\ UNCHANGED <<status, busy, waiting, recent>>

Environment ==
    \/ Submit \/ PodEvent \/ ScaleUpCooldownElapses \/ ScaleDownCooldownElapses \/ Crash
    \/ \E n \in Names :
        Join(n) \/ Schedule(n) \/ PodLeaves(n) \/ NodeEvent(n)

Next == (\E r \in Routines : Tick(r) \/ Reconcile(r)) \/ Environment

Spec == Init /\ [][Next]_vars

\* The ticker keeps firing and the calls of reconcile return; kubelets, the
\* scheduler and the informers do their work; time passes, and with Prompt a
\* cooldown outlasts the moments in which the informers are behind.
Fairness ==
    /\ \A r \in Routines : WF_vars(Tick(r)) /\ WF_vars(Reconcile(r))
    /\ \A n \in Names : WF_vars(Join(n)) /\ WF_vars(Schedule(n)) /\ WF_vars(NodeEvent(n))
    /\ WF_vars(PodEvent)
    /\ SF_vars(ScaleUpCooldownElapses)

FairSpec == Spec /\ Fairness

----------------------------------------------------------------------------
(* Properties *)

\* One goroutine works at a time, and the in-flight counter is exactly what it
\* has reserved: whoever decides how many nodes to create finds it at zero.
InFlightAccounted ==
    /\ \A r \in Routines : pc[r] \notin {"off", "tick"} => reconcileMu = r
    /\ inFlightProvisioning =
         IF \E r \in Routines : pc[r] \in {"create", "creating"} THEN count[reconcileMu] ELSE 0

\* "Hard upper bound on worker nodes" (README.md:168): whatever a failed
\* CreateNode leaves, however late a node joins, however nodes come and go and
\* however often the process restarts, the nodes never exceed MaxNodes by more
\* than those whose CreateNode ended without success.
NodesWithinMax == Cardinality({n \in Names : status[n] # "unused"} \ abandoned) <= MaxNodes

\* "Bounded exponential backoff (5s, 10s, 20s, max 60s)": a round that creates
\* nothing is followed by a pause of 5 to 60 seconds.
BackoffWaits ==
    [][\A r \in Routines :
        pc[r] = "create" /\ left[r] = 0 /\ successCount[r] = 0 /\ pc'[r] = "off"
            => coolUp' \in 5..60]_vars

\* "Minimum duration between consecutive scale-down events" (README.md:170):
\* no node is deleted less than a cooldown after another, as long as the process
\* does not restart and the reply to no deletion is lost: only a RemoveNode that
\* succeeded sets lastScaleDown, and only in memory.
ScaleDownsSpaced ==
    [][\A r \in Routines :
        pc[r] = "remove" /\ status'[name[r]] = "unused" /\ status[name[r]] # "unused"
            => ~recent]_vars

\* The nodes that take a place below MaxNodes without being free: a removal that
\* failed after the cordon leaves its node cordoned for ever.
Taken == busy \cup {n \in Names : status[n] = "cordoned"}

\* While there is room below MaxNodes, a full queue of waiting pods is served,
\* whatever provisioning or removal failed before; except that one Node whose
\* container is gone passes for a node on its way, and holds back a scale-up, as
\* long as it exists.
WaitingPodsServed ==
    (waiting = MaxWaiting /\ Cardinality(Taken) < MaxNodes)
        ~> \/ waiting < MaxWaiting
           \/ Cardinality(Taken) >= MaxNodes
           \/ \E n \in Names : status[n] = "ghost"

----------------------------------------------------------------------------
(* What the documents say and the code does not do; see the README *)

\* "The lower bound; scale-down will not go below this."
MinNodesKept == Cardinality(Nodes) >= MinNodes

\* "Prevent duplicate provisioning": new nodes and the free nodes that
\* ClusterState shows, Ready or not, are no more than the pods to be placed.
NoDuplicateProvisioning ==
    [][\A r \in Routines : pc[r] = "scaleUp" /\ pc'[r] = "create" =>
        count'[r] + Cardinality(CachedIn({"notReady", "ready"}) \ busy) <= pods[r]]_vars
============================================================================

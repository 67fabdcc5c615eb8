----------------------- MODULE NodeRemovalRefinement -----------------------
(***************************************************************************)
(* The removal pipeline implements the contract of SafeRemoval, for every  *)
(* set of nodes and of pods and every choice of faults.                    *)
(*                                                                         *)
(* The contract promises what one removal has established of its node, so  *)
(* that the proof needs little of what holds at the deletion: that a       *)
(* removal has a target, that every Node object belongs to a container,    *)
(* and that the target has no Node object any more when its container is   *)
(* removed.  What operators undo meanwhile are steps of the contract too.  *)
(***************************************************************************)
EXTENDS NodeRemovalProofs

\* What is left of the target is its container.
TargetDeleted == pc \in {"hook", "dockerRm"} => target \notin nodes

\* No node outlives its container.
NodesHaveContainers == nodes \subseteq containers

RemovalInv == TypeOK /\ TargetDeleted /\ NodesHaveContainers

----------------------------------------------------------------------------
(* The invariant *)

LEMMA InitRemovalInv == Init => RemovalInv
BY InitTypeOK DEF Init, RemovalInv, TargetDeleted, NodesHaveContainers

\* Node objects are only ever deleted, containers only when their node is.
LEMMA KeepsContainers ==
    ASSUME RemovalInv, [Next]_vars PROVE TargetDeleted' /\ NodesHaveContainers'
<1> USE DEF RemovalInv, TypeOK, TargetDeleted, NodesHaveContainers, Steps, objects, locals
<1>1. CASE Reconcile
  <2>1. CASE RemoveNode
      BY <2>1
      DEF RemoveNode, Fail, CordonGet, CordonUpdate, CordonConflict, CordonReplyLost,
          DrainList, DrainListFails, evictPod, waitForPodsGone, DrainTimeout, CleanupGet,
          CleanupRefuses, Delete, DeleteReplyLost, DeleteNode, ProviderCleanupHook,
          removeKindContainer, RemoveContainer, Return
  <2> QED
      BY <1>1, <2>1
      DEF Reconcile, StartScan, FoundIdle, PassOver, SkipScaleDown, handleScaleDown, Return
<1>2. CASE Environment
    BY <1>2
    DEF Environment, Crash, CooldownElapses, ShortageChanges, NodeEvent, ReadyChanges,
        SetUnschedulable, EditAnnotation, Create, Bind, Finish, Reap, Pick, Return
<1>3. CASE UNCHANGED vars
    BY <1>3 DEF vars
<1> QED
    BY <1>1, <1>2, <1>3 DEF Next

LEMMA NextRemovalInv == RemovalInv /\ [Next]_vars => RemovalInv'
BY NextTypeOK, KeepsContainers DEF RemovalInv

----------------------------------------------------------------------------
(* The refinement mapping *)

LEMMA SameStage == ASSUME UNCHANGED <<nodes, cordoned, containers>> PROVE stage' = stage
BY DEF stage

LEMMA SameGuests == ASSUME UNCHANGED pods PROVE guests' = guests
<1>1. late' = late
    BY DEF pods
<1> QED
    BY <1>1, SameEvictable DEF guests

\* What is established hangs on the step and on the target alone.
LEMMA SameVetted == ASSUME UNCHANGED <<pc, target>> PROVE vetted' = vetted
BY DEF vetted

\* A step of the removal of the target moves what is established of it.
LEMMA VettedMoves ==
    ASSUME RemovalInv, target \in Nodes, target' = target,
           NEW from, NEW to, vetted[target] = from, vetted'[target] = to
    PROVE  Abstract!Advance(target, from, to)
<1>1. \A n \in Nodes \ {target} : vetted'[n] = vetted[n]
    BY DEF vetted
<1>2. vetted' = [vetted EXCEPT ![target] = to]
    BY <1>1 DEF vetted
<1> QED
    BY <1>2 DEF Abstract!Advance

\* Steps of the tick that leave the cluster alone: what was established is
\* kept, or given up.
LEMMA QuietStep ==
    ASSUME UNCHANGED <<objects, containers, pods>>, UNCHANGED vetted
    PROVE  UNCHANGED Abstract!vars
BY SameStage, SameGuests DEF objects, Abstract!vars

LEMMA ReturnRefines ==
    ASSUME RemovalInv, UNCHANGED <<objects, containers, pods>>, Return
    PROVE  [Abstract!Next]_Abstract!vars
<1>1. stage' = stage /\ guests' = guests /\ managed' = managed
    BY SameStage, SameGuests DEF objects
<1>2. \A n \in Nodes : vetted'[n] = "no"
    BY ConstantsAssumption DEF vetted, Return
<1>3. CASE target \in Nodes
  <2>1. \A n \in Nodes \ {target} : vetted[n] = "no"
      BY DEF vetted
  <2>2. vetted' = [vetted EXCEPT ![target] = "no"]
      BY <1>2, <2>1 DEF vetted
  <2>3. Abstract!GiveUp(target)
      BY <1>1, <2>2 DEF Abstract!GiveUp
  <2> QED
      BY <1>3, <2>3 DEF Abstract!Next
<1>4. CASE target \notin Nodes
  <2>1. vetted' = vetted
      BY <1>2, <1>4 DEF vetted
  <2> QED
      BY <2>1, QuietStep
<1> QED
    BY <1>3, <1>4

----------------------------------------------------------------------------
(* The steps of a removal that the contract sees *)

\* The cordon, by this removal or found in place.
LEMMA SealRefines ==
    ASSUME RemovalInv, CordonUpdate \/ (CordonGet /\ target \in cordoned)
    PROVE  [Abstract!Next]_Abstract!vars
<1> USE DEF RemovalInv, TypeOK, objects
<1>1. /\ target \in Nodes /\ target \in nodes /\ target' = target
      /\ pc \in {"cordonGet", "cordonUpdate"} /\ pc' = "drainList"
      /\ cordoned' = cordoned \cup {target}
      /\ UNCHANGED <<nodes, managed, containers, pods>>
    BY DEF CordonGet, CordonUpdate
<1>2. \A n \in Nodes : vetted[n] = "no"
    BY <1>1 DEF vetted
<1>3. vetted[target] = "no" /\ vetted'[target] = "sealed"
    BY <1>1 DEF vetted
<1>4. Abstract!Advance(target, "no", "sealed")
    BY <1>1, <1>3, VettedMoves
<1>5. stage[target] \in {"inService", "cordoned"} /\ stage' = [stage EXCEPT ![target] = "cordoned"]
    BY <1>1 DEF stage
<1>6. Abstract!Seal(target)
    BY <1>1, <1>2, <1>4, <1>5, SameGuests DEF Abstract!Seal
<1> QED
    BY <1>1, <1>6 DEF Abstract!Next

\* The cordon whose reply is lost.
LEMMA CordonReplyLostRefines ==
    ASSUME RemovalInv, CordonReplyLost PROVE [Abstract!Next]_Abstract!vars
<1> USE DEF RemovalInv, TypeOK
<1>1. /\ target \in Nodes /\ target \in nodes /\ pc = "cordonUpdate" /\ Return
      /\ cordoned' = cordoned \cup {target}
      /\ UNCHANGED <<nodes, managed, containers, pods>>
    BY DEF CordonReplyLost
<1>2. vetted' = vetted
    BY <1>1, ConstantsAssumption DEF vetted, Return
<1>3. CASE target \in cordoned
  <2>1. cordoned' = cordoned
      BY <1>1, <1>3
  <2> QED
      BY <1>1, <1>2, <2>1, QuietStep DEF objects
<1>4. CASE target \notin cordoned
  <2>1. stage[target] = "inService" /\ stage' = [stage EXCEPT ![target] = "cordoned"]
      BY <1>1, <1>4 DEF stage
  <2>2. Abstract!Cordon(target)
      BY <1>1, <1>2, <2>1, SameGuests DEF Abstract!Cordon
  <2> QED
      BY <1>1, <2>2 DEF Abstract!Next
<1> QED
    BY <1>3, <1>4

\* The last poll of the drain sees no evictable pod, so no guest.
LEMMA FindEmptyRefines ==
    ASSUME RemovalInv, waitForPodsGone PROVE [Abstract!Next]_Abstract!vars
<1> USE DEF RemovalInv, TypeOK, waitForPodsGone, objects
<1>1. target \in Nodes /\ guests[target] = {}
    BY DEF guests, PodsGone
<1>2. vetted[target] = "sealed" /\ vetted'[target] = "empty"
    BY <1>1 DEF vetted
<1>3. Abstract!Advance(target, "sealed", "empty")
    BY <1>1, <1>2, VettedMoves
<1>4. Abstract!FindEmpty(target)
    BY <1>1, <1>3, SameStage, SameGuests DEF Abstract!FindEmpty
<1> QED
    BY <1>1, <1>4 DEF Abstract!Next

LEMMA FindManagedRefines ==
    ASSUME RemovalInv, CleanupGet PROVE [Abstract!Next]_Abstract!vars
<1> USE DEF RemovalInv, TypeOK, CleanupGet, ManagedByUs, objects
<1>1. target \in Nodes /\ target \in managed
    OBVIOUS
<1>2. vetted[target] = "empty" /\ vetted'[target] = "cleared"
    BY <1>1 DEF vetted
<1>3. Abstract!Advance(target, "empty", "cleared")
    BY <1>1, <1>2, VettedMoves
<1>4. Abstract!FindManaged(target)
    BY <1>1, <1>3, SameStage, SameGuests DEF Abstract!FindManaged
<1> QED
    BY <1>1, <1>4 DEF Abstract!Next

LEMMA DeleteRefines ==
    ASSUME RemovalInv, Delete \/ DeleteReplyLost PROVE [Abstract!Next]_Abstract!vars
<1> USE DEF RemovalInv, TypeOK, NodesHaveContainers, DeleteNode
<1>1. /\ target \in Nodes /\ target \in containers /\ pc = "delete"
      /\ DeleteNode /\ UNCHANGED <<containers, pods>>
      /\ (pc' = "hook" /\ target' = target) \/ (pc' = "idle" /\ target' = NoNode)
    BY DEF Delete, DeleteReplyLost, Return
<1>2. \A n \in Nodes : vetted[n] = IF n = target THEN "cleared" ELSE "no"
    BY <1>1 DEF vetted
<1>3. \A n \in Nodes : vetted'[n] = "no"
    BY <1>1, ConstantsAssumption DEF vetted
<1>4. vetted' = [vetted EXCEPT ![target] = "no"]
    BY <1>2, <1>3 DEF vetted
<1>5. stage' = [stage EXCEPT ![target] = "deleted"]
    BY <1>1 DEF stage
<1>6. Abstract!Delete(target)
    BY <1>1, <1>2, <1>4, <1>5, SameGuests DEF Abstract!Delete, Abstract!Advance
<1> QED
    BY <1>1, <1>6 DEF Abstract!Next

LEMMA ContainerRefines ==
    ASSUME RemovalInv, ProviderCleanupHook \/ removeKindContainer
    PROVE  [Abstract!Next]_Abstract!vars
<1> USE DEF RemovalInv, TypeOK, TargetDeleted, RemoveContainer, objects
<1>1. /\ pc \in {"hook", "dockerRm"} /\ target \in Nodes
      /\ RemoveContainer /\ UNCHANGED <<objects, pods>>
      /\ (pc' = "dockerRm" /\ target' = target) \/ (pc' = "idle" /\ target' = NoNode)
    BY DEF ProviderCleanupHook, removeKindContainer, Return
<1>2. vetted' = vetted
    BY <1>1, ConstantsAssumption DEF vetted
<1>3. CASE UNCHANGED containers
    BY <1>1, <1>2, <1>3, QuietStep
<1>4. CASE target \in containers /\ containers' = containers \ {target}
  <2>1. target \notin nodes /\ target \notin cordoned
      BY <1>1
  <2>2. stage[target] = "deleted" /\ stage' = [stage EXCEPT ![target] = "gone"]
      BY <1>1, <1>4, <2>1 DEF stage
  <2>3. Abstract!Terminate(target)
      BY <1>1, <1>2, <2>2, SameGuests DEF Abstract!Terminate
  <2> QED
      BY <1>1, <2>3 DEF Abstract!Next
<1> QED
    BY <1>1, <1>3, <1>4

----------------------------------------------------------------------------
(* The cluster around it *)

\* The steps of operators that the contract sees.
LEMMA SetUnschedulableRefines ==
    ASSUME RemovalInv, NEW n \in Nodes, SetUnschedulable(n) PROVE [Abstract!Next]_Abstract!vars
<1> USE DEF RemovalInv, TypeOK, SetUnschedulable
<1>1. vetted' = vetted
    BY SameVetted
<1>2. \A m : Evictable(m)' = Evictable(m)
    BY DEF Evictable, Listed, shouldSkip
<1>3. CASE n \in cordoned
  <2>1. stage[n] = "cordoned" /\ stage' = [stage EXCEPT ![n] = "inService"]
      BY <1>3 DEF stage
  <2>2. \A m \in Nodes \ {n} : guests'[m] = guests[m]
      BY <1>2, <1>3 DEF guests, Evictable, Listed
  <2>3. guests[n] \subseteq guests'[n] /\ guests'[n] \subseteq Pods
      BY <1>2, <1>3 DEF guests, Evictable, Listed
  <2>4. guests' = [guests EXCEPT ![n] = guests'[n]]
      BY <2>2 DEF guests
  <2>5. Abstract!Uncordon(n)
      BY <1>1, <2>1, <2>3, <2>4 DEF Abstract!Uncordon
  <2> QED
      BY <2>5 DEF Abstract!Next
<1>4. CASE n \notin cordoned
  <2>1. stage[n] = "inService" /\ stage' = [stage EXCEPT ![n] = "cordoned"]
      BY <1>4 DEF stage
  <2>2. guests' = guests
      BY <1>2, <1>4 DEF guests
  <2>3. Abstract!Cordon(n)
      BY <1>1, <1>4, <2>1, <2>2 DEF Abstract!Cordon
  <2> QED
      BY <2>3 DEF Abstract!Next
<1> QED
    BY <1>3, <1>4

LEMMA EditAnnotationRefines ==
    ASSUME RemovalInv, NEW n \in Nodes, EditAnnotation(n) PROVE [Abstract!Next]_Abstract!vars
<1> USE DEF RemovalInv, TypeOK, EditAnnotation
<1>1. stage' = stage /\ guests' = guests /\ vetted' = vetted
    BY SameStage, SameGuests, SameVetted
<1>2. stage[n] \in {"inService", "cordoned"}
    BY DEF stage
<1>3. Abstract!Reannotate(n)
    BY <1>1, <1>2 DEF Abstract!Reannotate
<1> QED
    BY <1>3 DEF Abstract!Next

\* Guests are pods, and whether a pod is one depends on that pod alone.
LEMMA GuestsArePods ==
    /\ guests \in [Nodes -> SUBSET Pods]
    /\ guests' \in [Nodes -> SUBSET Pods]
BY DEF guests, Evictable, Listed

LEMMA OwnGuest ==
    ASSUME NEW q \in Pods, phase'[q] = phase[q], host'[q] = host[q], q \in late' <=> q \in late,
           NEW m \in Nodes
    PROVE  q \in guests'[m] <=> q \in guests[m]
<1>1. q \in Evictable(m)' <=> q \in Evictable(m)
    BY DEF Evictable, Listed, shouldSkip, Pinned
<1>2. guests[m] = Evictable(m) \ late /\ guests'[m] = Evictable(m)' \ late'
    BY DEF guests
<1> QED
    BY <1>1, <1>2

\* A step that changes no more than one pod changes the guests of no more than
\* the node it is on.
LEMMA OneGuest ==
    ASSUME RemovalInv, NEW p \in Pods, UNCHANGED <<nodes, cordoned, containers, managed, pc, target>>,
           \A q \in Pods \ {p} :
               phase'[q] = phase[q] /\ host'[q] = host[q] /\ (q \in late' <=> q \in late),
           NEW n \in Nodes, \A m \in Nodes \ {n} : p \in guests'[m] <=> p \in guests[m],
           p \in guests[n] \/ p \notin guests'[n] \/ stage[n] = "inService"
    PROVE  [Abstract!Next]_Abstract!vars
<1>1. stage' = stage /\ vetted' = vetted
    BY SameStage, SameVetted
<1>2. \A m \in Nodes : guests[m] \subseteq Pods /\ guests'[m] \subseteq Pods
    BY GuestsArePods
<1>3. \A q \in Pods \ {p} : \A m \in Nodes : q \in guests'[m] <=> q \in guests[m]
    BY OwnGuest
<1>4. ASSUME NEW m \in Nodes \ {n} PROVE guests'[m] = guests[m]
  <2>1. \A q \in Pods : q \in guests'[m] <=> q \in guests[m]
      BY <1>3
  <2> QED
      BY <1>2, <2>1
<1>5. guests' = [guests EXCEPT ![n] = guests'[n]]
    BY <1>4, GuestsArePods
<1>6. CASE p \in guests[n] /\ p \notin guests'[n]
  <2>1. guests'[n] = guests[n] \ {p}
      BY <1>2, <1>3, <1>6
  <2>2. Abstract!Leave(n, p)
      BY <1>1, <1>5, <1>6, <2>1 DEF Abstract!Leave
  <2> QED
      BY <2>2 DEF Abstract!Next
<1>7. CASE p \notin guests[n] /\ p \in guests'[n]
  <2>1. guests'[n] = guests[n] \cup {p}
      BY <1>2, <1>3, <1>7
  <2>2. Abstract!Arrive(n, p)
      BY <1>1, <1>5, <1>7, <2>1 DEF Abstract!Arrive
  <2> QED
      BY <2>2 DEF Abstract!Next
<1>8. CASE p \in guests[n] <=> p \in guests'[n]
  <2>1. guests'[n] = guests[n]
    <3>1. \A q \in Pods : q \in guests'[n] <=> q \in guests[n]
        BY <1>3, <1>8
    <3> QED
        BY <1>2, <3>1
  <2>2. guests' = guests
      BY <1>5, <2>1, GuestsArePods
  <2> QED
      BY <1>1, <2>2 DEF Abstract!vars
<1> QED
    BY <1>6, <1>7, <1>8

\* The same for a step after which the pod is a guest nowhere it was not before.
LEMMA NoNewGuest ==
    ASSUME RemovalInv, NEW p \in Pods, UNCHANGED <<nodes, cordoned, containers, managed, pc, target>>,
           \A q \in Pods \ {p} :
               phase'[q] = phase[q] /\ host'[q] = host[q] /\ (q \in late' <=> q \in late),
           \A m \in Nodes : p \in guests'[m] => p \in guests[m]
    PROVE  [Abstract!Next]_Abstract!vars
<1>1. CASE \E n \in Nodes : p \in guests[n]
  <2>1. PICK n \in Nodes : p \in guests[n]
      BY <1>1
  <2>2. \A m \in Nodes \ {n} : p \notin guests[m]
      BY <2>1 DEF guests, Evictable, Listed
  <2> QED
      BY <2>1, <2>2, OneGuest
<1>2. CASE \A n \in Nodes : p \notin guests[n]
  <2>1. CASE Nodes = {}
    <3>1. guests' = guests /\ stage' = stage /\ vetted' = vetted
        BY <2>1, SameStage, SameVetted DEF guests
    <3> QED
        BY <3>1 DEF Abstract!vars
  <2>2. ASSUME NEW n \in Nodes PROVE [Abstract!Next]_Abstract!vars
      BY <1>2, <2>2, OneGuest
  <2> QED
      BY <2>1, <2>2
<1> QED
    BY <1>1, <1>2

\* The life of a pod.
LEMMA PodStepRefines ==
    ASSUME RemovalInv, NEW p \in Pods,
           \/ Create(p) \/ Bind(p) \/ Finish(p) \/ Reap(p) \/ evictPod(p)
           \/ \E n \in Nodes : Pick(p, n)
    PROVE  [Abstract!Next]_Abstract!vars
<1> USE DEF RemovalInv, TypeOK, objects, locals
<1>1. ASSUME Create(p) \/ Finish(p) \/ Reap(p) \/ (\E n \in Nodes : Pick(p, n))
      PROVE [Abstract!Next]_Abstract!vars
  <2>1. UNCHANGED <<nodes, cordoned, containers, managed, pc, target>>
      BY <1>1 DEF Create, Finish, Reap, Pick
  <2>2. \A q \in Pods \ {p} :
            phase'[q] = phase[q] /\ host'[q] = host[q] /\ (q \in late' <=> q \in late)
      BY <1>1 DEF Create, Finish, Reap, Pick
  <2>3. phase'[p] \in {"Pending", "Assumed", "Finished", "Absent"}
      BY <1>1 DEF Create, Finish, Reap, Pick
  <2>4. \A m \in Nodes : p \notin guests'[m]
      BY <2>3 DEF guests, Evictable, Listed, shouldSkip
  <2> QED
      BY <2>1, <2>2, <2>4, NoNewGuest
<1>2. CASE evictPod(p)
  <2>1. UNCHANGED <<nodes, cordoned, containers, managed, pc, target>>
      BY <1>2 DEF evictPod
  <2>2. CASE UNCHANGED pods
      BY <2>1, <2>2, SameVetted, QuietStep
  <2>3. CASE EvictV1(p) /\ ~UNCHANGED pods
    <3>1. \A q \in Pods \ {p} :
            phase'[q] = phase[q] /\ host'[q] = host[q] /\ (q \in late' <=> q \in late)
        BY <2>3 DEF EvictV1
    <3>2. \A m \in Nodes : p \in guests'[m] => p \in guests[m]
        BY <2>1, <2>3 DEF EvictV1, guests, Evictable, Listed, shouldSkip
    <3> QED
        BY <2>1, <3>1, <3>2, NoNewGuest
  <2> QED
      BY <1>2, <2>2, <2>3 DEF evictPod
<1>3. CASE Bind(p)
  <2>1. UNCHANGED <<nodes, cordoned, containers, managed, pc, target>>
      BY <1>3 DEF Bind
  <2>2. \A q \in Pods \ {p} :
            phase'[q] = phase[q] /\ host'[q] = host[q] /\ (q \in late' <=> q \in late)
      BY <1>3 DEF Bind
  <2>3. CASE host[p] \in Nodes /\ InService(host[p])
    <3>1. stage[host[p]] = "inService"
        BY <2>3 DEF stage, InService
    <3>2. \A m \in Nodes \ {host[p]} : p \notin guests'[m] /\ p \notin guests[m]
        BY <1>3 DEF Bind, guests, Evictable, Listed
    <3> QED
        BY <2>1, <2>2, <2>3, <3>1, <3>2, OneGuest
  <2>4. CASE ~InService(host[p])
    <3>1. \A m \in Nodes : p \notin guests'[m]
        BY <1>3, <2>4 DEF Bind, guests
    <3> QED
        BY <2>1, <2>2, <3>1, NoNewGuest
  <2> QED
      BY <2>3, <2>4 DEF InService
<1> QED
    BY <1>1, <1>2, <1>3

----------------------------------------------------------------------------
(* The theorem *)

LEMMA ReconcileRefines == ASSUME RemovalInv, Reconcile PROVE [Abstract!Next]_Abstract!vars
<1> USE DEF RemovalInv, TypeOK
<1>1. ASSUME UNCHANGED <<objects, containers, pods>>, vetted' = vetted
      PROVE [Abstract!Next]_Abstract!vars
    BY <1>1, QuietStep
<1>2. CASE RemoveNode
  <2>1. CASE \E step : Fail(step)
      BY <2>1, ReturnRefines DEF Fail
  <2>2. CASE CordonConflict \/ DrainListFails \/ DrainTimeout \/ CleanupRefuses
      BY <2>2, ReturnRefines DEF CordonConflict, DrainListFails, DrainTimeout, CleanupRefuses
  <2>3. CASE CordonGet /\ target \notin cordoned
      BY <1>1, <2>3 DEF CordonGet, vetted
  <2>4. CASE CordonUpdate \/ (CordonGet /\ target \in cordoned)
      BY <2>4, SealRefines
  <2>5. CASE DrainList
      BY <1>1, <2>5 DEF DrainList, vetted
  <2>6. ASSUME NEW p \in Pods, evictPod(p) PROVE [Abstract!Next]_Abstract!vars
      BY <2>6, PodStepRefines
  <2> QED
      BY <1>2, <2>1, <2>2, <2>3, <2>4, <2>5, <2>6, CordonReplyLostRefines, FindEmptyRefines,
         FindManagedRefines, DeleteRefines, ContainerRefines DEF RemoveNode
<1>3. CASE SkipScaleDown
    BY <1>3, ReturnRefines DEF SkipScaleDown
<1>4. CASE StartScan \/ handleScaleDown
    BY <1>1, <1>4 DEF StartScan, handleScaleDown, vetted
<1>5. CASE \E n \in Nodes : FoundIdle(n) \/ PassOver(n)
    BY <1>1, <1>5 DEF FoundIdle, PassOver, vetted
<1> QED
    BY <1>2, <1>3, <1>4, <1>5 DEF Reconcile

LEMMA EnvironmentRefines == ASSUME RemovalInv, Environment PROVE [Abstract!Next]_Abstract!vars
<1>1. ASSUME UNCHANGED <<objects, containers, pods, pc, target>>
      PROVE [Abstract!Next]_Abstract!vars
    BY <1>1, QuietStep, SameVetted
<1>2. CASE Crash
    BY <1>2, ReturnRefines DEF Crash
<1>3. CASE CooldownElapses \/ ShortageChanges
    BY <1>1, <1>3 DEF CooldownElapses, ShortageChanges, locals
<1>4. ASSUME NEW n \in Nodes, NodeEvent(n) \/ ReadyChanges(n)
      PROVE [Abstract!Next]_Abstract!vars
    BY <1>1, <1>4 DEF NodeEvent, ReadyChanges, locals
<1>5. ASSUME NEW n \in Nodes, SetUnschedulable(n) \/ EditAnnotation(n)
      PROVE [Abstract!Next]_Abstract!vars
    BY <1>5, SetUnschedulableRefines, EditAnnotationRefines
<1>6. ASSUME NEW p \in Pods,
             Create(p) \/ Bind(p) \/ Finish(p) \/ Reap(p) \/ (\E n \in Nodes : Pick(p, n))
      PROVE [Abstract!Next]_Abstract!vars
    BY <1>6, PodStepRefines
<1> QED
    BY <1>2, <1>3, <1>4, <1>5, <1>6 DEF Environment

\* Whatever fails, races with it or crashes and whatever operators do to the
\* node meanwhile: a node is deleted only after one removal has cordoned it,
\* then found it without pods and then found it annotated, and its container
\* is removed only after that.
THEOREM Refinement == Spec => ImplementsSafeRemoval
<1>1. Init => Abstract!Init
  <2> SUFFICES ASSUME Init PROVE Abstract!Init
      OBVIOUS
  <2>1. stage \in [Nodes -> {"inService", "cordoned"}]
      BY DEF Init, stage
  <2>2. guests \in [Nodes -> SUBSET Pods]
      BY DEF guests, Evictable, Listed
  <2>3. managed \in SUBSET Nodes
      BY DEF Init
  <2>4. vetted = [n \in Nodes |-> "no"]
      BY ConstantsAssumption DEF Init, vetted
  <2> QED
      BY <2>1, <2>2, <2>3, <2>4 DEF Abstract!Init
<1>2. RemovalInv /\ [Next]_vars => [Abstract!Next]_Abstract!vars
  <2>1. UNCHANGED vars => UNCHANGED Abstract!vars
      BY QuietStep, SameVetted DEF vars, locals
  <2> QED
      BY <2>1, ReconcileRefines, EnvironmentRefines DEF Next
<1> QED
    BY <1>1, <1>2, InitRemovalInv, NextRemovalInv, PTL DEF Spec, ImplementsSafeRemoval, Abstract!Spec
============================================================================

------------------------- MODULE NodeRemovalProofs -------------------------
(***************************************************************************)
(* Theorems about NodeRemoval, for every set of nodes and of pods, every   *)
(* class of pods and every choice of faults.                               *)
(*                                                                         *)
(* DrainVerified is not inductive: that no pod slips unnoticed onto the    *)
(* target between the last poll of the drain and the deletion depends on   *)
(* the target staying cordoned, which nobody but an operator changes.      *)
(* OnlyRacedWorkloadEvicted depends on the idle test: since the target     *)
(* passed it, whatever workload pod it carries was bound after the test.   *)
(***************************************************************************)
EXTENDS NodeRemoval, TLAPS

\* From the end of the cordon to the deletion the target stays cordoned,
\* unless an operator intervenes.
TargetCordoned == pc \in Sealed /\ ~uncordoned => target \in cordoned

\* Until the drain lists the pods of the target, the workload pods on it are
\* those bound since it passed the idle test.
IdleSinceTest ==
    pc \in {"scan", "cordonGet", "cordonUpdate", "drainList"} /\ target # NoNode
        => Evictable(target) \cap Workload \subseteq raced

DrainInv == TypeOK /\ TargetCordoned /\ DrainVerified

WorkloadInv == TypeOK /\ IdleSinceTest /\ OnlyRacedWorkloadEvicted

----------------------------------------------------------------------------
(* Type correctness *)

\* The initial cluster is in the domain of every variable.
LEMMA InitTypeOK == Init => TypeOK
BY ConstantsAssumption DEF Init, TypeOK, Steps, Phase

\* The controller's own steps keep every variable in its domain.
LEMMA ReconcileTypeOK == TypeOK /\ Reconcile => TypeOK'
<1> SUFFICES ASSUME TypeOK, Reconcile PROVE TypeOK'
    OBVIOUS
<1> USE ConstantsAssumption DEF TypeOK, Steps, objects, status, pods, locals, history
<1>1. CASE StartScan
    BY <1>1 DEF StartScan, Candidates
<1>2. ASSUME NEW n \in Nodes, FoundIdle(n) PROVE TypeOK'
    BY <1>2 DEF FoundIdle
<1>3. ASSUME NEW n \in Nodes, PassOver(n) PROVE TypeOK'
    BY <1>3 DEF PassOver
<1>4. CASE SkipScaleDown
    BY <1>4 DEF SkipScaleDown, Return
<1>5. CASE handleScaleDown
    BY <1>5 DEF handleScaleDown
<1>6. CASE RemoveNode
  <2>1. ASSUME NEW step \in Steps, Fail(step) PROVE TypeOK'
      BY <2>1 DEF Fail, Return
  <2>2. CASE CordonGet
      BY <2>2 DEF CordonGet
  <2>3. CASE CordonUpdate
      BY <2>3 DEF CordonUpdate
  <2>4. CASE CordonConflict
      BY <2>4 DEF CordonConflict, Return
  <2>5. CASE CordonReplyLost
      BY <2>5 DEF CordonReplyLost, Return
  <2>6. CASE DrainList
      BY <2>6 DEF DrainList, Evictable, Listed
  <2>7. CASE DrainListFails
      BY <2>7 DEF DrainListFails, Return
  <2>8. ASSUME NEW p \in Pods, evictPod(p) PROVE TypeOK'
      BY <2>8 DEF evictPod, EvictV1, Phase
  <2>9. CASE waitForPodsGone
      BY <2>9 DEF waitForPodsGone, PodsGone
  <2>10. CASE DrainTimeout
      BY <2>10 DEF DrainTimeout, Return
  <2>11. CASE CleanupGet
      BY <2>11 DEF CleanupGet
  <2>12. CASE CleanupRefuses
      BY <2>12 DEF CleanupRefuses, Return
  <2>13. CASE Delete
      BY <2>13 DEF Delete, DeleteNode
  <2>14. CASE DeleteReplyLost
      BY <2>14 DEF DeleteReplyLost, DeleteNode, Return
  <2>15. CASE ProviderCleanupHook
      BY <2>15 DEF ProviderCleanupHook, RemoveContainer
  <2>16. CASE removeKindContainer
      BY <2>16 DEF removeKindContainer, RemoveContainer, Return
  <2> QED
      BY <1>6, <2>1, <2>2, <2>3, <2>4, <2>5, <2>6, <2>7, <2>8, <2>9, <2>10, <2>11,
         <2>12, <2>13, <2>14, <2>15, <2>16 DEF RemoveNode
<1> QED
    BY <1>1, <1>2, <1>3, <1>4, <1>5, <1>6 DEF Reconcile

\* So do those of the cluster around it.
LEMMA EnvironmentTypeOK == TypeOK /\ Environment => TypeOK'
<1> SUFFICES ASSUME TypeOK, Environment PROVE TypeOK'
    OBVIOUS
<1> USE DEF TypeOK, Steps, objects, status, pods, locals, history
<1>1. CASE Crash
    BY <1>1 DEF Crash, Return
<1>2. CASE CooldownElapses \/ ShortageChanges
    BY <1>2 DEF CooldownElapses, ShortageChanges
<1>3. ASSUME NEW n \in Nodes, NodeEvent(n) PROVE TypeOK'
    BY <1>3 DEF NodeEvent
<1>4. ASSUME NEW n \in Nodes, ReadyChanges(n) PROVE TypeOK'
    BY <1>4 DEF ReadyChanges, Written
<1>5. ASSUME NEW n \in Nodes, SetUnschedulable(n) PROVE TypeOK'
    BY <1>5 DEF SetUnschedulable, Written
<1>6. ASSUME NEW n \in Nodes, EditAnnotation(n) PROVE TypeOK'
    BY <1>6 DEF EditAnnotation, Written
<1>7. ASSUME NEW p \in Pods, Create(p) PROVE TypeOK'
    BY <1>7 DEF Create, Phase
<1>8. ASSUME NEW p \in Pods, NEW n \in Nodes, Pick(p, n) PROVE TypeOK'
    BY <1>8 DEF Pick, Phase
<1>9. ASSUME NEW p \in Pods, Bind(p) PROVE TypeOK'
    BY <1>9 DEF Bind, Phase
<1>10. ASSUME NEW p \in Pods, Finish(p) PROVE TypeOK'
    BY <1>10 DEF Finish, Phase
<1>11. ASSUME NEW p \in Pods, Reap(p) PROVE TypeOK'
    BY <1>11 DEF Reap, Phase
<1> QED
    BY <1>1, <1>2, <1>3, <1>4, <1>5, <1>6, <1>7, <1>8, <1>9, <1>10, <1>11 DEF Environment

LEMMA NextTypeOK == TypeOK /\ [Next]_vars => TypeOK'
<1>1. TypeOK /\ UNCHANGED vars => TypeOK'
    BY DEF TypeOK, vars, objects, status, pods, locals, history
<1> QED
    BY <1>1, ReconcileTypeOK, EnvironmentTypeOK DEF Next

\* Every variable stays in its domain; RemoveNode always runs for a node, and
\* only Drain has pods to evict.
THEOREM TypeCorrect == Spec => []TypeOK
BY InitTypeOK, NextTypeOK, PTL DEF Spec

----------------------------------------------------------------------------
(* The drain stays verified until the deletion *)

\* Steps that leave the pods alone leave every node its evictable pods.
LEMMA SameEvictable ==
    ASSUME UNCHANGED pods, NEW n PROVE Evictable(n)' = Evictable(n)
BY DEF pods, Evictable, Listed, shouldSkip

\* A step that returns is past all obligations.
LEMMA ReturnDrained == Return => TargetCordoned' /\ DrainVerified'
BY DEF Return, TargetCordoned, DrainVerified, Sealed

\* The controller's own steps: the drain ends with no evictable pod left, and
\* nothing before the deletion lifts the cordon.
LEMMA ReconcileDrained ==
    ASSUME DrainInv, Reconcile PROVE TargetCordoned' /\ DrainVerified'
<1> USE DEF DrainInv, TypeOK, TargetCordoned, DrainVerified, Sealed, objects, history
<1>1. CASE StartScan
    BY <1>1 DEF StartScan
<1>2. ASSUME NEW n \in Nodes, FoundIdle(n) \/ PassOver(n)
      PROVE TargetCordoned' /\ DrainVerified'
    BY <1>2 DEF FoundIdle, PassOver
<1>3. CASE SkipScaleDown
    BY <1>3, ReturnDrained DEF SkipScaleDown
<1>4. CASE handleScaleDown
    BY <1>4 DEF handleScaleDown
<1>5. CASE RemoveNode
  <2>1. ASSUME NEW step, Fail(step) PROVE TargetCordoned' /\ DrainVerified'
      BY <2>1, ReturnDrained DEF Fail
  <2>2. CASE CordonGet
      BY <2>2 DEF CordonGet
  <2>3. CASE CordonUpdate
      BY <2>3 DEF CordonUpdate
  <2>4. CASE CordonConflict \/ CordonReplyLost
      BY <2>4, ReturnDrained DEF CordonConflict, CordonReplyLost
  <2>5. CASE DrainList
      BY <2>5 DEF DrainList
  <2>6. CASE DrainListFails \/ DrainTimeout
      BY <2>6, ReturnDrained DEF DrainListFails, DrainTimeout
  <2>7. ASSUME NEW p \in Pods, evictPod(p) PROVE TargetCordoned' /\ DrainVerified'
      BY <2>7 DEF evictPod
  <2>8. CASE waitForPodsGone
      BY <2>8, SameEvictable DEF waitForPodsGone, PodsGone
  <2>9. CASE CleanupGet
      BY <2>9, SameEvictable DEF CleanupGet, pods
  <2>10. CASE CleanupRefuses \/ DeleteReplyLost
      BY <2>10, ReturnDrained DEF CleanupRefuses, DeleteReplyLost
  <2>11. CASE Delete \/ ProviderCleanupHook
      BY <2>11 DEF Delete, ProviderCleanupHook
  <2>12. CASE removeKindContainer
      BY <2>12, ReturnDrained DEF removeKindContainer
  <2> QED
      BY <1>5, <2>1, <2>2, <2>3, <2>4, <2>5, <2>6, <2>7, <2>8, <2>9, <2>10, <2>11, <2>12
      DEF RemoveNode
<1> QED
    BY <1>1, <1>2, <1>3, <1>4, <1>5 DEF Reconcile

\* The cluster: a pod that becomes evictable on the cordoned target was bound
\* too late, and only pods that left are struck off the late ones.
LEMMA EnvironmentDrained ==
    ASSUME DrainInv, Environment PROVE TargetCordoned' /\ DrainVerified'
<1> USE DEF DrainInv, TypeOK, TargetCordoned, DrainVerified, Sealed, objects, pods, locals, history
<1>1. CASE Crash
    BY <1>1, ReturnDrained DEF Crash
<1>2. CASE CooldownElapses \/ ShortageChanges
    BY <1>2, SameEvictable DEF CooldownElapses, ShortageChanges
<1>3. ASSUME NEW n \in Nodes, NodeEvent(n) \/ ReadyChanges(n) \/ EditAnnotation(n)
      PROVE TargetCordoned' /\ DrainVerified'
    BY <1>3, SameEvictable DEF NodeEvent, ReadyChanges, EditAnnotation, Written
<1>4. ASSUME NEW n \in Nodes, SetUnschedulable(n) PROVE TargetCordoned' /\ DrainVerified'
  <2>1. \A m : Evictable(m)' = Evictable(m)
      BY <1>4 DEF SetUnschedulable, Evictable, Listed, shouldSkip
  <2>2. CASE n = target /\ n \in cordoned
      BY <1>4, <2>2 DEF SetUnschedulable
  <2>3. CASE n # target
    <3>1. Evictable(target) \cap late \subseteq late'
        BY <1>4, <2>3 DEF SetUnschedulable, Evictable, Listed
    <3> QED
        BY <1>4, <2>1, <2>3, <3>1 DEF SetUnschedulable
  <2>4. CASE n \notin cordoned
      BY <1>4, <2>1, <2>4 DEF SetUnschedulable
  <2> QED
      BY <2>2, <2>3, <2>4
<1>5. ASSUME NEW p \in Pods, Bind(p) PROVE TargetCordoned' /\ DrainVerified'
    BY <1>5 DEF Bind, Evictable, Listed, shouldSkip, InService
<1>6. ASSUME NEW p \in Pods, Reap(p) PROVE TargetCordoned' /\ DrainVerified'
    BY <1>6 DEF Reap, Evictable, Listed, shouldSkip
<1>7. ASSUME NEW p \in Pods, Create(p) \/ Finish(p) PROVE TargetCordoned' /\ DrainVerified'
    BY <1>7 DEF Create, Finish, Evictable, Listed, shouldSkip
<1>8. ASSUME NEW p \in Pods, NEW n \in Nodes, Pick(p, n)
      PROVE TargetCordoned' /\ DrainVerified'
    BY <1>8 DEF Pick, Evictable, Listed, shouldSkip
<1> QED
    BY <1>1, <1>2, <1>3, <1>4, <1>5, <1>6, <1>7, <1>8 DEF Environment

\* From the poll that found the node empty to its deletion, the evictable pods
\* on it are those the scheduler had bound, unaware of the cordon, unless an
\* operator has lifted it.
THEOREM DrainVerifiedHolds == Spec => []DrainVerified
<1>1. Init => DrainInv
    BY InitTypeOK DEF Init, DrainInv, TargetCordoned, DrainVerified, Sealed
<1>2. DrainInv /\ [Next]_vars => DrainInv'
  <2>1. DrainInv /\ UNCHANGED vars => TargetCordoned' /\ DrainVerified'
      BY SameEvictable DEF DrainInv, TargetCordoned, DrainVerified, vars, objects, pods, locals, history
  <2> QED
      BY <2>1, NextTypeOK, ReconcileDrained, EnvironmentDrained DEF Next, DrainInv
<1>3. DrainInv => DrainVerified
    BY DEF DrainInv
<1> QED
    BY <1>1, <1>2, <1>3, PTL DEF Spec

----------------------------------------------------------------------------
(* Workloads are left alone *)

LEMMA ReturnSpares == Return => IdleSinceTest' /\ OnlyRacedWorkloadEvicted'
BY DEF Return, IdleSinceTest, OnlyRacedWorkloadEvicted

\* The controller's own steps.  FoundIdle starts the history afresh for a node
\* without workload pods; the drain's list is what the node then carries.
LEMMA ReconcileSpares ==
    ASSUME WorkloadInv, Reconcile
    PROVE  IdleSinceTest' /\ OnlyRacedWorkloadEvicted'
<1> DEFINE Spared == IdleSinceTest' /\ OnlyRacedWorkloadEvicted'
<1> USE ConstantsAssumption
    DEF WorkloadInv, TypeOK, IdleSinceTest,
        OnlyRacedWorkloadEvicted, objects, history
<1>1. CASE StartScan
    BY <1>1 DEF StartScan
<1>2. ASSUME NEW n \in Nodes, FoundIdle(n) PROVE Spared
  <2>1. ~nodeHasWorkloadPods(n) => Evictable(n) \cap Workload = {}
      BY DEF nodeHasWorkloadPods, Evictable, shouldSkip
  <2>2. \A m : Evictable(m)' = Evictable(m)
      BY <1>2, SameEvictable DEF FoundIdle
  <2>3. Workload' = Workload
      BY DEF Workload
  <2> QED
      BY <1>2, <2>1, <2>2, <2>3 DEF FoundIdle
<1>3. ASSUME NEW n \in Nodes, PassOver(n) PROVE Spared
    BY <1>3, SameEvictable DEF PassOver, Workload
<1>4. CASE SkipScaleDown
    BY <1>4, ReturnSpares DEF SkipScaleDown
<1>5. CASE handleScaleDown
    BY <1>5, SameEvictable DEF handleScaleDown, Workload
<1>6. CASE RemoveNode
  <2>1. ASSUME NEW step, Fail(step) PROVE Spared
      BY <2>1, ReturnSpares DEF Fail
  <2>2. CASE CordonGet \/ CordonUpdate
      BY <2>2, SameEvictable DEF CordonGet, CordonUpdate, Workload
  <2>3. CASE CordonConflict \/ CordonReplyLost
      BY <2>3, ReturnSpares DEF CordonConflict, CordonReplyLost
  <2>4. CASE DrainList
      BY <2>4 DEF DrainList, Workload
  <2>5. CASE DrainListFails \/ DrainTimeout
      BY <2>5, ReturnSpares DEF DrainListFails, DrainTimeout
  <2>6. ASSUME NEW p \in Pods, evictPod(p) PROVE Spared
      BY <2>6 DEF evictPod, Workload
  <2>7. CASE waitForPodsGone
      BY <2>7 DEF waitForPodsGone, PodsGone, Workload
  <2>8. CASE CleanupGet \/ Delete \/ ProviderCleanupHook
      BY <2>8 DEF CleanupGet, Delete, ProviderCleanupHook, Workload
  <2>9. CASE CleanupRefuses \/ DeleteReplyLost \/ removeKindContainer
      BY <2>9, ReturnSpares DEF CleanupRefuses, DeleteReplyLost, removeKindContainer
  <2> QED
      BY <1>6, <2>1, <2>2, <2>3, <2>4, <2>5, <2>6, <2>7, <2>8, <2>9 DEF RemoveNode
<1> QED
    BY <1>1, <1>2, <1>3, <1>4, <1>5, <1>6 DEF Reconcile

\* The cluster: a pod comes to the target only by a binding, which is recorded.
LEMMA EnvironmentSpares ==
    ASSUME WorkloadInv, Environment
    PROVE  IdleSinceTest' /\ OnlyRacedWorkloadEvicted'
<1> DEFINE Spared == IdleSinceTest' /\ OnlyRacedWorkloadEvicted'
<1> USE DEF WorkloadInv, TypeOK, IdleSinceTest,
        OnlyRacedWorkloadEvicted, pods, locals, history, Workload
<1>1. CASE Crash
    BY <1>1, ReturnSpares DEF Crash
<1>2. CASE CooldownElapses \/ ShortageChanges
    BY <1>2, SameEvictable DEF CooldownElapses, ShortageChanges
<1>3. ASSUME NEW n \in Nodes, NodeEvent(n) \/ ReadyChanges(n) \/ EditAnnotation(n)
      PROVE Spared
    BY <1>3, SameEvictable DEF NodeEvent, ReadyChanges, EditAnnotation, Written
<1>4. ASSUME NEW n \in Nodes, SetUnschedulable(n) PROVE Spared
    BY <1>4 DEF SetUnschedulable, Written, Evictable, Listed, shouldSkip
<1>5. ASSUME NEW p \in Pods, Bind(p) PROVE Spared
    BY <1>5 DEF Bind, Evictable, Listed, shouldSkip
<1>6. ASSUME NEW p \in Pods, Create(p) \/ Finish(p) \/ Reap(p) PROVE Spared
    BY <1>6 DEF Create, Finish, Reap, Evictable, Listed, shouldSkip
<1>7. ASSUME NEW p \in Pods, NEW n \in Nodes, Pick(p, n) PROVE Spared
    BY <1>7 DEF Pick, Evictable, Listed, shouldSkip
<1> QED
    BY <1>1, <1>2, <1>3, <1>4, <1>5, <1>6, <1>7 DEF Environment

\* A workload pod is evicted only if it was bound to the node after the idle
\* test found the node free of workloads.
THEOREM OnlyRacedWorkloadEvictedHolds == Spec => []OnlyRacedWorkloadEvicted
<1>1. Init => WorkloadInv
    BY InitTypeOK DEF Init, WorkloadInv, IdleSinceTest,
                      OnlyRacedWorkloadEvicted
<1>2. WorkloadInv /\ [Next]_vars => WorkloadInv'
  <2>1. WorkloadInv /\ UNCHANGED vars => WorkloadInv'
      BY SameEvictable, NextTypeOK
      DEF WorkloadInv, IdleSinceTest,
          OnlyRacedWorkloadEvicted, Workload, vars, objects, pods, locals, history
  <2> QED
      BY <2>1, NextTypeOK, ReconcileSpares, EnvironmentSpares DEF Next, WorkloadInv
<1>3. WorkloadInv => OnlyRacedWorkloadEvicted
    BY DEF WorkloadInv
<1> QED
    BY <1>1, <1>2, <1>3, PTL DEF Spec
============================================================================

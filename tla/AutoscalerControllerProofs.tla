---------------------- MODULE AutoscalerControllerProofs --------------------
(***************************************************************************)
(* Proofs about AutoscalerController, for any number of nodes, of ticks    *)
(* that overlap and of crashes: its variables keep their types, the lock   *)
(* and the in-flight counter agree, a round that creates nothing is waited *)
(* for, and deletions are a cooldown apart.                                *)
(***************************************************************************)
EXTENDS AutoscalerController, FiniteSetTheorems, TLAPS

Creating(r) == pc[r] \in {"create", "creating"}

\* The turns of the CreateNode loop of a goroutine: each one that is over has
\* either counted a success or left a failure behind, and each one that runs has
\* a node.
TurnsCounted ==
    \A r \in Routines :
        IF Creating(r)
        THEN /\ left[r] <= count[r]
             /\ count[r] > 0
             /\ pc[r] = "creating" => left[r] > 0 /\ name[r] \in Names
             /\ left[r] < count[r] /\ successCount[r] = 0 => scaleUpFailures > 0
        ELSE successCount[r] = 0

\* In the states of the model no more failures are counted than it explores.
FailuresBounded == scaleUpFailures <= MaxFailures

ControlInv == TypeOK /\ InFlightAccounted /\ TurnsCounted /\ FailuresBounded

----------------------------------------------------------------------------
(* Lemmas about the helpers *)

LEMMA CachedCount ==
    ASSUME NEW S PROVE /\ Cardinality(CachedIn(S)) \in Nat
                       /\ Cardinality(CachedIn(S) \ busy) \in Nat
BY ConstantsAssumption, FS_Subset, FS_CardinalityType DEF CachedIn

\* The waits are at most a minute; up to the 61st failure they last.
LEMMA BackoffBounds ==
    ASSUME NEW f \in Nat, f > 0
    PROVE  BackoffSeconds(f) \in 0..60 /\ (f <= 61 => BackoffSeconds(f) \in 5..60)
<1>1. f <= 4 => Doubled[f] \in 5..60
    BY DEF Doubled
<1>2. f <= 61 => f - 1 \in BackoffBits(f) /\ 63 \notin BackoffBits(f)
    BY DEF BackoffBits
<1> QED
    BY <1>1, <1>2 DEF BackoffSeconds

LEMMA ViewIsSeen == ASSUME TypeOK, NEW n \in Names PROVE CurrentView(n) \in Seen
BY DEF TypeOK, CurrentView, Seen, Registered

LEMMA ToProvisionIsInt ==
    ASSUME TypeOK, NEW r \in Routines PROVE ToProvision(r) \in Int
<1>1. Cardinality(CachedIn({"notReady"})) \in Nat
    BY CachedCount
<1>2. count[r] \in Nat /\ inFlightProvisioning \in Nat
    BY DEF TypeOK
<1> QED
    BY <1>1, <1>2 DEF ToProvision

LEMMA InitControlInv == Init => ControlInv
<1> SUFFICES ASSUME Init PROVE ControlInv
    OBVIOUS
<1>1. TypeOK
  <2>1. /\ status \in [Names -> Status] /\ cached \in [Names -> Seen]
        /\ busy \subseteq Names
      BY ConstantsAssumption DEF Init, Status, Seen, Registered
  <2>2. /\ waiting \in 0..MaxWaiting /\ cachedWaiting \in 0..MaxWaiting
        /\ coolUp \in 0..ScaleUpCooldown
      BY ConstantsAssumption DEF Init, ScaleUpCooldown
  <2> QED
      BY <2>1, <2>2 DEF Init, TypeOK, Steps
<1>2. InFlightAccounted /\ TurnsCounted /\ FailuresBounded
    BY ConstantsAssumption DEF Init, InFlightAccounted, TurnsCounted, FailuresBounded, Creating
<1> QED
    BY <1>1, <1>2 DEF ControlInv

----------------------------------------------------------------------------
(* Types *)

LEMMA NextTypeOK == ControlInv /\ [Next]_vars => TypeOK'
<1> SUFFICES ASSUME ControlInv, [Next]_vars PROVE TypeOK'
    OBVIOUS
<1> USE ConstantsAssumption DEF TypeOK, ScaleUpCooldown
<1>0. TypeOK /\ InFlightAccounted /\ TurnsCounted /\ FailuresBounded
    BY DEF ControlInv
<1>1. ASSUME NEW r \in Routines, Tick(r) \/ TryLock(r) \/ SkipTick(r) PROVE TypeOK'
    BY <1>0, <1>1 DEF Tick, TryLock, SkipTick, Goto, Steps, cluster, cache, control, locals
<1>2. ASSUME NEW r \in Routines, DetectUnschedulablePods(r) PROVE TypeOK'
    BY <1>0, <1>2 DEF DetectUnschedulablePods, Goto, Steps, cluster, cache, control
<1>3. ASSUME NEW r \in Routines, EstimateDetailed(r) PROVE TypeOK'
  <2>1. NodesNeeded(r) \in Int
      BY <1>0, CachedCount DEF NodesNeeded
  <2>2. CASE NodesNeeded(r) <= 0
      BY <1>0, <1>3, <2>2 DEF EstimateDetailed, Return, Goto, Steps, cluster, cache, control
  <2>3. CASE ~(NodesNeeded(r) <= 0)
    <3>1. NodesNeeded(r) \in Nat
        BY <2>1, <2>3
    <3> QED
        BY <1>0, <1>3, <2>3, <3>1 DEF EstimateDetailed, Goto, Steps, cluster, cache, control
  <2> QED
      BY <2>2, <2>3
<1>4. ASSUME NEW r \in Routines, Evaluate(r) PROVE TypeOK'
  <2>1. Cardinality(CachedIn(Registered)) \in Nat
      BY CachedCount
  <2> QED
      BY <1>0, <1>4, <2>1
      DEF Evaluate, WithinHeadroom, Return, Goto, Steps, cluster, cache, control
<1>5. ASSUME NEW r \in Routines, SkipScaleUp(r) PROVE TypeOK'
    BY <1>0, <1>5 DEF SkipScaleUp, Return, Goto, Steps, cluster, cache, control
<1>6. ASSUME NEW r \in Routines, StartScaleUp(r) PROVE TypeOK'
  <2>1. ToProvision(r) \in Nat
      BY <1>0, <1>6, ToProvisionIsInt DEF StartScaleUp
  <2> QED
      BY <1>0, <1>6, <2>1 DEF StartScaleUp, Goto, Steps, cluster, cache
<1>7. ASSUME NEW r \in Routines, StartNode(r) PROVE TypeOK'
    BY <1>0, <1>7 DEF StartNode, Goto, Steps, Status, cache, control
<1>8. ASSUME NEW r \in Routines, StartFails(r) \/ NodeTimesOut(r) PROVE TypeOK'
  <2>1. CreateFails(r) /\ left[r] > 0
      BY <1>0, <1>8 DEF StartFails, NodeTimesOut, TurnsCounted, Creating
  <2>2. abandoned' \subseteq Names
      BY <1>0, <1>8 DEF StartFails, NodeTimesOut, TurnsCounted, Creating
  <2>3. status' \in [Names -> Status]
      BY <1>0, <1>8 DEF StartFails, NodeTimesOut, Status
  <2> QED
      BY <1>0, <2>1, <2>2, <2>3 DEF CreateFails, NextTurn, Goto, Steps, cache
<1>9. ASSUME NEW r \in Routines, NodeUp(r) PROVE TypeOK'
  <2>1. left[r] > 0
      BY <1>0, <1>9 DEF NodeUp, TurnsCounted, Creating
  <2> QED
      BY <1>0, <1>9, <2>1 DEF NodeUp, NextTurn, Goto, Steps, cluster, cache, control
<1>10. ASSUME NEW r \in Routines, EndScaleUp(r) PROVE TypeOK'
  <2>1. inFlightProvisioning' = 0
    <3>1. inFlightProvisioning = count[r]
        BY <1>0, <1>10 DEF EndScaleUp, InFlightAccounted
    <3> QED
        BY <1>0, <1>10, <3>1 DEF EndScaleUp, ReleaseInFlight
  <2>2. coolUp' \in 0..60
    <3>1. successCount[r] = 0 => scaleUpFailures > 0
        BY <1>0, <1>10 DEF EndScaleUp, TurnsCounted, Creating
    <3> QED
        BY <1>0, <1>10, <3>1, BackoffBounds DEF EndScaleUp
  <2>3. scaleUpFailures' \in Nat
      BY <1>0, <1>10 DEF EndScaleUp
  <2> QED
      BY <1>0, <1>10, <2>1, <2>2, <2>3 DEF EndScaleUp, Return, Goto, Steps, cluster, cache
<1>11. ASSUME NEW r \in Routines, FindIdleNodes(r) PROVE TypeOK'
    BY <1>0, <1>11 DEF FindIdleNodes, CachedIn, Return, Goto, Steps, cluster, cache, control
<1>12. ASSUME NEW r \in Routines, handleScaleDown(r) PROVE TypeOK'
    BY <1>0, <1>12 DEF handleScaleDown, Return, Goto, Steps, cluster, cache, control, locals
<1>13. ASSUME NEW r \in Routines, RemoveSucceeds(r) \/ RemoveReplyLost(r) PROVE TypeOK'
  <2>1. NodeDeleted(name[r]) /\ Return(r)
        /\ UNCHANGED <<cache, inFlightProvisioning, scaleUpFailures, coolUp>>
        /\ coolDown' \in {coolDown, TRUE}
      BY <1>13 DEF RemoveSucceeds, RemoveReplyLost
  <2>2. /\ status' \in [Names -> Status] /\ busy' \subseteq Names
        /\ abandoned' \subseteq Names /\ recent' = TRUE
      BY <1>0, <2>1 DEF NodeDeleted, Status
  <2>3. waiting' \in 0..MaxWaiting
      BY <1>0, <2>1 DEF NodeDeleted
  <2>4. coolDown' \in BOOLEAN
      BY <1>0, <2>1
  <2>5. /\ pc' \in [Routines -> Steps] /\ pods' \in [Routines -> Nat]
        /\ count' \in [Routines -> Nat] /\ left' \in [Routines -> Nat]
        /\ successCount' \in [Routines -> Nat] /\ name' \in [Routines -> Names \cup {None}]
        /\ reconcileMu' = None
      BY <1>0, <2>1 DEF Return, Goto, Steps
  <2> QED
      BY <1>0, <2>1, <2>2, <2>3, <2>4, <2>5 DEF cache
<1>14. ASSUME NEW r \in Routines, RemoveFails(r) PROVE TypeOK'
    BY <1>0, <1>14 DEF RemoveFails, Return, Goto, Steps, Status, cache, control
<1>15. ASSUME NEW n \in Names, Join(n) \/ Schedule(n) \/ PodLeaves(n)
       PROVE  TypeOK'
    BY <1>0, <1>15
    DEF Join, Schedule, PodLeaves, Status, cache, control, locals
<1>16. ASSUME NEW n \in Names, NodeEvent(n) PROVE TypeOK'
    BY <1>0, <1>16, ViewIsSeen DEF NodeEvent, cluster, control, locals
<1>17. CASE Submit \/ PodEvent
    BY <1>0, <1>17 DEF Submit, PodEvent, cluster, cache, control, locals
<1>18. CASE ScaleUpCooldownElapses \/ ScaleDownCooldownElapses
  <2>1. /\ UNCHANGED <<cluster, cache, reconcileMu, inFlightProvisioning, scaleUpFailures,
                       pc, locals>>
        /\ coolUp' \in {coolUp, 0}
        /\ coolDown' \in {coolDown, FALSE} /\ recent' \in {recent, FALSE}
      BY <1>18 DEF ScaleUpCooldownElapses, ScaleDownCooldownElapses
  <2>2. coolUp' \in 0..60
      BY <1>0, <2>1
  <2>3. coolDown' \in BOOLEAN /\ recent' \in BOOLEAN
      BY <1>0, <2>1
  <2>4. UNCHANGED <<status, busy, waiting, abandoned, cached, cachedWaiting, reconcileMu,
                    inFlightProvisioning, scaleUpFailures, pc, pods, count, left,
                    successCount, name>>
      BY <2>1 DEF cluster, cache, locals
  <2> QED
      BY <1>0, <2>2, <2>3, <2>4
<1>19. CASE Crash
  <2>1. cached' \in [Names -> Seen] /\ cachedWaiting' \in 0..MaxWaiting
      BY <1>0, <1>19, ViewIsSeen DEF Crash
  <2>2. /\ inFlightProvisioning' \in Nat /\ scaleUpFailures' \in Nat
        /\ coolUp' \in 0..60 /\ reconcileMu' = None
      BY <1>19 DEF Crash
  <2>4. coolDown' \in BOOLEAN
      BY <1>19 DEF Crash
  <2>3. /\ pc' \in [Routines -> Steps] /\ pods' \in [Routines -> Nat]
        /\ count' \in [Routines -> Nat] /\ left' \in [Routines -> Nat]
        /\ successCount' \in [Routines -> Nat] /\ name' \in [Routines -> Names \cup {None}]
      BY <1>19 DEF Crash, Steps
  <2>5. abandoned' \subseteq Names
      BY <1>0, <1>19 DEF Crash, TurnsCounted, Creating
  <2> QED
      BY <1>0, <1>19, <2>1, <2>2, <2>3, <2>4, <2>5 DEF Crash
<1>20. CASE UNCHANGED vars
    BY <1>0, <1>20 DEF vars, cluster, cache, control, locals
<1> QED
    BY <1>1, <1>2, <1>3, <1>4, <1>5, <1>6, <1>7, <1>8, <1>9, <1>10, <1>11, <1>12, <1>13,
       <1>14, <1>15, <1>16, <1>17, <1>18, <1>19, <1>20 DEF Next, Reconcile, Environment

----------------------------------------------------------------------------
(* The lock and the in-flight counter *)

LEMMA NextInFlightAccounted == ControlInv /\ [Next]_vars => InFlightAccounted'
<1> SUFFICES ASSUME ControlInv, [Next]_vars PROVE InFlightAccounted'
    OBVIOUS
<1> USE ConstantsAssumption DEF InFlightAccounted
<1>0. TypeOK /\ InFlightAccounted
    BY DEF ControlInv
<1>a. pc \in [Routines -> Steps] /\ count \in [Routines -> Nat] /\ inFlightProvisioning \in Nat
    BY <1>0 DEF TypeOK
<1>1. ASSUME NEW r \in Routines, Tick(r) \/ TryLock(r) \/ SkipTick(r)
      PROVE  InFlightAccounted'
    BY <1>0, <1>a, <1>1 DEF Tick, TryLock, SkipTick, Goto, control, locals
\* The holder of the lock goes on without touching the counter, or returns
\* having reserved nothing.
<1>2. ASSUME NEW r \in Routines, pc[r] \notin {"off", "tick", "create", "creating"},
             UNCHANGED inFlightProvisioning,
             \/ /\ UNCHANGED reconcileMu
                /\ \E s \in Steps \ {"create", "creating"} : Goto(r, s)
             \/ Return(r)
      PROVE  InFlightAccounted'
    BY <1>0, <1>a, <1>2 DEF Goto, Return
<1>3. ASSUME NEW r \in Routines,
             \/ DetectUnschedulablePods(r) \/ EstimateDetailed(r) \/ Evaluate(r)
             \/ SkipScaleUp(r) \/ FindIdleNodes(r) \/ handleScaleDown(r)
             \/ RemoveSucceeds(r) \/ RemoveReplyLost(r) \/ RemoveFails(r)
      PROVE  InFlightAccounted'
  <2>1. pc[r] \notin {"off", "tick", "create", "creating"}
      BY <1>3 DEF DetectUnschedulablePods, EstimateDetailed, Evaluate, SkipScaleUp, FindIdleNodes,
                  handleScaleDown, RemoveSucceeds, RemoveReplyLost, RemoveFails
  <2>2. UNCHANGED inFlightProvisioning
      BY <1>3 DEF DetectUnschedulablePods, EstimateDetailed, Evaluate, SkipScaleUp, FindIdleNodes,
                  handleScaleDown, RemoveSucceeds, RemoveReplyLost, RemoveFails, control
  <2>3. \/ /\ UNCHANGED reconcileMu
           /\ \E s \in Steps \ {"create", "creating"} : Goto(r, s)
        \/ Return(r)
      BY <1>3 DEF DetectUnschedulablePods, EstimateDetailed, Evaluate, SkipScaleUp, FindIdleNodes,
                  handleScaleDown, RemoveSucceeds, RemoveReplyLost, RemoveFails, Steps
  <2> QED
      BY <1>2, <2>1, <2>2, <2>3
<1>4. ASSUME NEW r \in Routines, StartScaleUp(r) PROVE InFlightAccounted'
  <2>1. reconcileMu = r /\ inFlightProvisioning = 0
      BY <1>0, <1>4 DEF StartScaleUp
  <2>2. inFlightProvisioning' = count'[r]
    <3>1. ToProvision(r) \in Int
        BY <1>0, ToProvisionIsInt
    <3> QED
        BY <1>a, <1>4, <2>1, <3>1 DEF StartScaleUp
  <2> QED
      BY <1>0, <1>a, <1>4, <2>1, <2>2 DEF StartScaleUp, Goto
<1>5. ASSUME NEW r \in Routines,
             StartNode(r) \/ StartFails(r) \/ NodeTimesOut(r) \/ NodeUp(r)
      PROVE  InFlightAccounted'
  <2>1. pc[r] \in {"create", "creating"} /\ UNCHANGED <<reconcileMu, inFlightProvisioning, count>>
      BY <1>5 DEF StartNode, StartFails, NodeTimesOut, NodeUp, CreateFails, control
  <2>2. \E s \in {"create", "creating"} : Goto(r, s)
      BY <1>5 DEF StartNode, StartFails, NodeTimesOut, NodeUp, CreateFails, NextTurn
  <2> QED
      BY <1>0, <1>a, <2>1, <2>2 DEF Goto
<1>6. ASSUME NEW r \in Routines, EndScaleUp(r) PROVE InFlightAccounted'
  <2>1. reconcileMu = r /\ inFlightProvisioning = count[r]
      BY <1>0, <1>6 DEF EndScaleUp
  <2>2. inFlightProvisioning' = 0
      BY <1>a, <1>6, <2>1 DEF EndScaleUp, ReleaseInFlight
  <2> QED
      BY <1>0, <1>a, <1>6, <2>1, <2>2 DEF EndScaleUp, Return, Goto
<1>7. CASE Environment /\ ~Crash
  <2>1. UNCHANGED <<reconcileMu, inFlightProvisioning, pc, locals>>
      BY <1>7 DEF Environment, Submit, PodEvent, ScaleUpCooldownElapses,
                  ScaleDownCooldownElapses, Join, Schedule, PodLeaves, NodeEvent, control
  <2> QED
      BY <1>0, <2>1 DEF locals
<1>8. CASE Crash
    BY <1>8 DEF Crash
<1>9. CASE UNCHANGED vars
    BY <1>0, <1>9 DEF vars, control, locals
<1> QED
    BY <1>1, <1>3, <1>4, <1>5, <1>6, <1>7, <1>8, <1>9 DEF Next, Reconcile

----------------------------------------------------------------------------
(* The turns of the CreateNode loop *)

LEMMA NextTurnsCounted == ControlInv /\ [Next]_vars => TurnsCounted' /\ FailuresBounded'
<1> SUFFICES ASSUME ControlInv, [Next]_vars PROVE TurnsCounted' /\ FailuresBounded'
    OBVIOUS
<1> USE ConstantsAssumption DEF TurnsCounted, FailuresBounded, Creating
<1>0. TypeOK /\ InFlightAccounted /\ TurnsCounted /\ FailuresBounded
    BY DEF ControlInv
<1>a. /\ pc \in [Routines -> Steps] /\ count \in [Routines -> Nat]
      /\ left \in [Routines -> Nat] /\ successCount \in [Routines -> Nat]
      /\ scaleUpFailures \in Nat /\ name \in [Routines -> Names \cup {None}]
    BY <1>0 DEF TypeOK
\* Steps outside the loop, by goroutines that do not enter it.
<1>1. ASSUME NEW r \in Routines, ~Creating(r), UNCHANGED scaleUpFailures,
             \/ /\ \E s \in Steps \ {"create", "creating"} : Goto(r, s)
                /\ UNCHANGED successCount
                /\ \A q \in Routines \ {r} :
                    left'[q] = left[q] /\ count'[q] = count[q] /\ name'[q] = name[q]
             \/ Return(r)
      PROVE  TurnsCounted' /\ FailuresBounded'
    BY <1>0, <1>a, <1>1 DEF Goto, Return
<1>2. ASSUME NEW r \in Routines,
             \/ Tick(r) \/ TryLock(r) \/ SkipTick(r)
             \/ DetectUnschedulablePods(r) \/ EstimateDetailed(r) \/ Evaluate(r)
             \/ SkipScaleUp(r) \/ FindIdleNodes(r) \/ handleScaleDown(r)
             \/ RemoveSucceeds(r) \/ RemoveReplyLost(r) \/ RemoveFails(r)
      PROVE  TurnsCounted' /\ FailuresBounded'
  <2>1. ~Creating(r)
      BY <1>2 DEF Tick, TryLock, SkipTick, DetectUnschedulablePods, EstimateDetailed, Evaluate,
                  SkipScaleUp, FindIdleNodes, handleScaleDown, RemoveSucceeds, RemoveReplyLost,
                  RemoveFails
  <2>2. UNCHANGED scaleUpFailures
      BY <1>2 DEF Tick, TryLock, SkipTick, DetectUnschedulablePods, EstimateDetailed, Evaluate,
                  SkipScaleUp, FindIdleNodes, handleScaleDown, RemoveSucceeds, RemoveReplyLost,
                  RemoveFails, control
  <2>3. \/ /\ \E s \in Steps \ {"create", "creating"} : Goto(r, s)
           /\ UNCHANGED <<successCount, left>>
           /\ \A q \in Routines \ {r} : count'[q] = count[q] /\ name'[q] = name[q]
        \/ Return(r)
      BY <1>a, <1>2
      DEF Tick, TryLock, SkipTick, DetectUnschedulablePods, EstimateDetailed, Evaluate,
          SkipScaleUp, FindIdleNodes, handleScaleDown, RemoveSucceeds, RemoveReplyLost,
          RemoveFails, locals, Steps
  <2> QED
      BY <1>1, <2>1, <2>2, <2>3
<1>3. ASSUME NEW r \in Routines, StartScaleUp(r) PROVE TurnsCounted' /\ FailuresBounded'
  <2>1. successCount[r] = 0 /\ UNCHANGED scaleUpFailures
      BY <1>0, <1>3 DEF StartScaleUp
  <2>2. count'[r] = left'[r] /\ count'[r] > 0 /\ count'[r] \in Int
    <3>1. ToProvision(r) \in Int
        BY <1>0, ToProvisionIsInt
    <3> QED
        BY <1>a, <1>3, <3>1 DEF StartScaleUp
  <2> QED
      BY <1>0, <1>a, <1>3, <2>1, <2>2 DEF StartScaleUp, Goto
<1>4. ASSUME NEW r \in Routines, StartNode(r) PROVE TurnsCounted' /\ FailuresBounded'
    BY <1>0, <1>a, <1>4 DEF StartNode, Goto, control
<1>5. ASSUME NEW r \in Routines, StartFails(r) \/ NodeTimesOut(r)
      PROVE  TurnsCounted' /\ FailuresBounded'
  <2>1. CreateFails(r) /\ left[r] > 0 /\ Creating(r)
      BY <1>0, <1>5 DEF StartFails, NodeTimesOut
  \* The other goroutines are outside the loop: this one holds the lock.
  <2>2. \A q \in Routines \ {r} : ~Creating(q)
      BY <1>0, <2>1 DEF InFlightAccounted
  <2>3. scaleUpFailures' \in Nat /\ scaleUpFailures' > 0 /\ FailuresBounded'
      BY <1>a, <2>1 DEF CreateFails
  <2> QED
      BY <1>0, <1>a, <2>1, <2>2, <2>3 DEF CreateFails, NextTurn, Goto
<1>6. ASSUME NEW r \in Routines, NodeUp(r) PROVE TurnsCounted' /\ FailuresBounded'
    BY <1>0, <1>a, <1>6 DEF NodeUp, NextTurn, Goto, control
<1>7. ASSUME NEW r \in Routines, EndScaleUp(r) PROVE TurnsCounted' /\ FailuresBounded'
  <2>1. \A q \in Routines \ {r} : ~Creating(q)
      BY <1>0, <1>7 DEF EndScaleUp, InFlightAccounted
  <2>2. scaleUpFailures' \in {0, scaleUpFailures} /\ Return(r)
      BY <1>7 DEF EndScaleUp
  <2> QED
      BY <1>0, <1>a, <2>1, <2>2 DEF Return, Goto
<1>8. CASE Environment /\ ~Crash
  <2>1. UNCHANGED <<scaleUpFailures, pc, locals>>
      BY <1>8 DEF Environment, Submit, PodEvent, ScaleUpCooldownElapses,
                  ScaleDownCooldownElapses, Join, Schedule, PodLeaves, NodeEvent, control
  <2> QED
      BY <1>0, <2>1 DEF locals
<1>9. CASE Crash
    BY <1>9 DEF Crash
<1>10. CASE UNCHANGED vars
    BY <1>0, <1>10 DEF vars, control, locals
<1> QED
    BY <1>2, <1>3, <1>4, <1>5, <1>6, <1>7, <1>8, <1>9, <1>10 DEF Next, Reconcile

----------------------------------------------------------------------------
(* The theorems *)

LEMMA ControlInvHolds == Spec => []ControlInv
<1>1. ControlInv /\ [Next]_vars => ControlInv'
    BY NextTypeOK, NextInFlightAccounted, NextTurnsCounted DEF ControlInv
<1> QED
    BY <1>1, InitControlInv, PTL DEF Spec

\* The counters, clocks and locals of the control loop keep their types; the
\* in-flight counter never becomes negative.
THEOREM TypeCorrect == Spec => []TypeOK
<1>1. ControlInv => TypeOK
    BY DEF ControlInv
<1> QED
    BY <1>1, ControlInvHolds, PTL

\* TryLock admits one goroutine, which finds the in-flight counter at zero, and
\* the deferred release takes back exactly what was reserved: for any number of
\* overlapping ticks, failures of CreateNode and restarts.
THEOREM InFlightAccountedHolds == Spec => []InFlightAccounted
<1>1. ControlInv => InFlightAccounted
    BY DEF ControlInv
<1> QED
    BY <1>1, ControlInvHolds, PTL

\* A round of handleScaleUp in which every CreateNode failed is followed by a
\* pause of 5 to 60 seconds, as long as no more than 61 failures follow each
\* other and the process does not restart, which forgets the pause.
THEOREM BackoffWaitsHolds ==
    ASSUME MaxFailures <= 61, ~Crashes
    PROVE  Spec => BackoffWaits
<1>1. ASSUME ControlInv, [Next]_vars, NEW r \in Routines,
             pc[r] = "create", left[r] = 0, successCount[r] = 0, pc'[r] = "off"
      PROVE  coolUp' \in 5..60
  <2> USE DEF TurnsCounted, Creating
  <2>1. /\ pc \in [Routines -> Steps] /\ scaleUpFailures \in Nat
        /\ scaleUpFailures > 0 /\ scaleUpFailures <= 61
    <3>1. scaleUpFailures \in Nat /\ pc \in [Routines -> Steps] /\ count \in [Routines -> Nat]
        BY <1>1 DEF ControlInv, TypeOK
    <3>2. scaleUpFailures > 0 /\ scaleUpFailures <= MaxFailures
        BY <1>1, <3>1 DEF ControlInv, FailuresBounded
    <3> QED
        BY <3>1, <3>2, ConstantsAssumption
  \* The other goroutines do not move this one, and no other step of it ends.
  <2>2. ASSUME NEW q \in Routines, Tick(q) \/ Reconcile(q) PROVE EndScaleUp(r)
    <3>1. q = r
      <4>1. q # r => pc'[r] = pc[r]
          BY <2>1, <2>2
          DEF Reconcile, Tick, TryLock, SkipTick, DetectUnschedulablePods, EstimateDetailed,
              Evaluate, SkipScaleUp, StartScaleUp, StartNode, StartFails, NodeTimesOut,
              CreateFails, NextTurn, NodeUp, EndScaleUp, FindIdleNodes, handleScaleDown,
              RemoveSucceeds, RemoveReplyLost, RemoveFails, Return, Goto
      <4> QED
          BY <1>1, <4>1
    <3> QED
        BY <1>1, <2>2, <3>1
        DEF Reconcile, Tick, TryLock, SkipTick, DetectUnschedulablePods, EstimateDetailed,
            Evaluate, SkipScaleUp, StartScaleUp, StartNode, StartFails, NodeTimesOut,
            NodeUp, FindIdleNodes, handleScaleDown, RemoveSucceeds, RemoveReplyLost, RemoveFails
  <2>3. EndScaleUp(r)
    <3>1. CASE Environment
        BY <1>1, <3>1 DEF Environment, Submit, PodEvent, ScaleUpCooldownElapses,
               ScaleDownCooldownElapses, Join, Schedule, PodLeaves, NodeEvent, Crash
    <3>2. CASE UNCHANGED vars
        BY <1>1, <3>2 DEF vars
    <3> QED
        BY <1>1, <2>2, <3>1, <3>2 DEF Next
  <2>4. coolUp' = BackoffSeconds(scaleUpFailures)
      BY <1>1, <2>3 DEF EndScaleUp
  <2> QED
      BY <2>1, <2>4, BackoffBounds
<1>2. ControlInv /\ [Next]_vars =>
        [\A r \in Routines :
            pc[r] = "create" /\ left[r] = 0 /\ successCount[r] = 0 /\ pc'[r] = "off"
                => coolUp' \in 5..60]_vars
    BY <1>1
<1> QED
    BY <1>2, ControlInvHolds, PTL DEF Spec, BackoffWaits

----------------------------------------------------------------------------
(* Deletions *)

\* A deletion has started a cooldown, which lasts as long as the deletion is
\* recent, and a goroutine that has seen no cooldown finds none until it is done.
CooldownKept ==
    /\ recent => coolDown
    /\ \A r \in Routines : pc[r] = "remove" => ~coolDown

LEMMA NextCooldownKept ==
    ASSUME ~RepliesLost, ~Crashes, ControlInv, CooldownKept, [Next]_vars
    PROVE  CooldownKept'
<1>1. /\ pc \in [Routines -> Steps]
      /\ \A r \in Routines : pc[r] \notin {"off", "tick"} => reconcileMu = r
    BY DEF ControlInv, TypeOK, InFlightAccounted
<1>2. ASSUME NEW r \in Routines, pc'[r] # "remove", UNCHANGED <<coolDown, recent>>,
             \A q \in Routines \ {r} : pc'[q] = pc[q]
      PROVE  CooldownKept'
    BY <1>2 DEF CooldownKept
<1>3. ASSUME NEW r \in Routines,
             \/ Tick(r) \/ TryLock(r) \/ SkipTick(r) \/ DetectUnschedulablePods(r)
             \/ EstimateDetailed(r) \/ Evaluate(r) \/ SkipScaleUp(r) \/ StartScaleUp(r)
             \/ StartNode(r) \/ StartFails(r) \/ NodeTimesOut(r) \/ NodeUp(r) \/ EndScaleUp(r)
             \/ FindIdleNodes(r) \/ RemoveFails(r)
      PROVE  CooldownKept'
  <2>1. UNCHANGED <<coolDown, recent>>
      BY <1>3 DEF Tick, TryLock, SkipTick, DetectUnschedulablePods, EstimateDetailed, Evaluate,
                  SkipScaleUp, StartScaleUp, StartNode, StartFails, NodeTimesOut, CreateFails,
                  NodeUp, EndScaleUp, FindIdleNodes, RemoveFails, control
  <2>2. \E s \in Steps \ {"remove"} : Goto(r, s)
      BY <1>3 DEF Tick, TryLock, SkipTick, DetectUnschedulablePods, EstimateDetailed, Evaluate,
                  SkipScaleUp, StartScaleUp, StartNode, StartFails, NodeTimesOut, CreateFails,
                  NodeUp, NextTurn, EndScaleUp, FindIdleNodes, RemoveFails, Return, Steps
  <2>3. pc'[r] # "remove" /\ \A q \in Routines \ {r} : pc'[q] = pc[q]
      BY <1>1, <2>2 DEF Goto
  <2> QED
      BY <1>2, <2>1, <2>3
<1>4. ASSUME NEW r \in Routines, handleScaleDown(r) PROVE CooldownKept'
    BY <1>1, <1>4 DEF handleScaleDown, Return, Goto, CooldownKept, control
<1>5. ASSUME NEW r \in Routines, RemoveSucceeds(r) \/ RemoveReplyLost(r) PROVE CooldownKept'
  <2>1. coolDown' = TRUE /\ Return(r) /\ pc[r] = "remove"
      BY <1>5 DEF RemoveSucceeds, RemoveReplyLost
  <2>2. \A q \in Routines : pc'[q] # "remove"
      BY <1>1, <2>1 DEF Return, Goto
  <2> QED
      BY <2>1, <2>2 DEF CooldownKept
<1>6. CASE ScaleDownCooldownElapses
    BY <1>6 DEF ScaleDownCooldownElapses, CooldownKept
<1>7. CASE Environment /\ ~ScaleDownCooldownElapses
  <2>1. UNCHANGED <<coolDown, recent, pc>>
      BY <1>7 DEF Environment, Submit, PodEvent, ScaleUpCooldownElapses, Join, Schedule, PodLeaves,
                  NodeEvent, Crash, control
  <2> QED
      BY <2>1 DEF CooldownKept
<1>8. CASE UNCHANGED vars
    BY <1>8 DEF vars, control, CooldownKept
<1> QED
    BY <1>3, <1>4, <1>5, <1>6, <1>7, <1>8 DEF Next, Reconcile

\* Nodes are deleted a cooldown apart, if the reply to a deletion is not lost
\* and the process does not restart; both would forget the cooldown.
THEOREM ScaleDownsSpacedHolds ==
    ASSUME ~RepliesLost, ~Crashes
    PROVE  Spec => ScaleDownsSpaced
<1>1. Init => CooldownKept
    BY DEF Init, CooldownKept
<1>2. ControlInv /\ CooldownKept /\ [Next]_vars => CooldownKept'
    BY NextCooldownKept
<1>3. CooldownKept =>
        [\A r \in Routines :
            pc[r] = "remove" /\ status'[name[r]] = "unused" /\ status[name[r]] # "unused"
                => ~recent]_vars
    BY DEF CooldownKept
<1> QED
    BY <1>1, <1>2, <1>3, ControlInvHolds, PTL DEF Spec, ScaleDownsSpaced
============================================================================

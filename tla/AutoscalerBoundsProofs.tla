----------------------- MODULE AutoscalerBoundsProofs -----------------------
(***************************************************************************)
(* The hard upper bound on nodes: for any number of nodes, of goroutines   *)
(* and of restarts, with late nodes and failing removals.                  *)
(***************************************************************************)
EXTENDS AutoscalerControllerProofs

----------------------------------------------------------------------------
(* The invariant *)

\* The nodes that NodesWithinMax counts.
Live == {n \in Names : status[n] # "unused"} \ abandoned

\* A round starts when the cooldown is over and ends by starting it.
CreatesAfterCooldown == \A r \in Routines : Creating(r) => coolUp = 0

\* A node that has not registered yet is being created, or was given up.
StartingAccounted ==
    \A n \in Names :
        status[n] = "starting" =>
            n \in abandoned \/ \E r \in Routines : pc[r] = "creating" /\ name[r] = n

\* Once the cooldown is over, ClusterState shows every node that counts: none
\* is created unseen.
LiveSeen ==
    coolUp = 0 /\ (\A r \in Routines : ~Creating(r))
        => \A n \in Live : cached[n] \in Registered

\* What a round has still to create fits below MaxNodes.
HeadroomKept ==
    \A r \in Routines :
        /\ pc[r] = "scaleUp" /\ coolUp = 0 => Cardinality(Live) + count[r] <= MaxNodes
        /\ pc[r] = "create" => Cardinality(Live) + left[r] <= MaxNodes
        /\ pc[r] = "creating" => Cardinality(Live) + left[r] <= MaxNodes + 1

BoundInv ==
    /\ ControlInv
    /\ CreatesAfterCooldown
    /\ StartingAccounted
    /\ LiveSeen
    /\ HeadroomKept
    /\ NodesWithinMax

----------------------------------------------------------------------------
(* Counting *)

LEMMA LiveFinite == IsFiniteSet(Live) /\ Cardinality(Live) \in Nat
<1>1. Live \in SUBSET Names
    BY DEF Live
<1>2. IsFiniteSet(Live)
    BY <1>1, ConstantsAssumption, FS_Subset
<1> QED
    BY <1>2, FS_CardinalityType

LEMMA LiveShrinks ==
    ASSUME NEW T, T \subseteq Live
    PROVE  Cardinality(T) \in Nat /\ Cardinality(T) <= Cardinality(Live)
<1>1. IsFiniteSet(T) /\ Cardinality(T) <= Cardinality(Live)
    BY LiveFinite, FS_Subset
<1> QED
    BY <1>1, FS_CardinalityType

LEMMA LiveGrows ==
    ASSUME NEW T, NEW n, T \subseteq Live \cup {n}
    PROVE  Cardinality(T) \in Nat /\ Cardinality(T) <= Cardinality(Live) + 1
<1>1. /\ IsFiniteSet(Live \cup {n})
      /\ Cardinality(Live \cup {n}) \in Nat
      /\ Cardinality(Live \cup {n}) <= Cardinality(Live) + 1
    BY LiveFinite, FS_AddElement
<1>2. IsFiniteSet(T) /\ Cardinality(T) <= Cardinality(Live \cup {n})
    BY <1>1, FS_Subset
<1>3. Cardinality(T) \in Nat
    BY <1>2, FS_CardinalityType
<1> QED
    BY <1>1, <1>2, <1>3, LiveFinite

LEMMA InitBoundInv == ASSUME Init, Cardinality(AtStart) <= MaxNodes PROVE BoundInv
<1>1. ControlInv
    BY InitControlInv
<1>2. Live = AtStart
    BY ConstantsAssumption DEF Init, Live
<1>3. NodesWithinMax
    BY <1>2 DEF NodesWithinMax, Live
<1>4. CreatesAfterCooldown /\ HeadroomKept
    BY DEF Init, CreatesAfterCooldown, HeadroomKept, Creating
<1>5. StartingAccounted
    BY DEF Init, StartingAccounted
<1>6. LiveSeen
    BY <1>2, ConstantsAssumption DEF Init, LiveSeen, Registered
<1> QED
    BY <1>1, <1>3, <1>4, <1>5, <1>6 DEF BoundInv

----------------------------------------------------------------------------
(* Steps outside the CreateNode loop *)

\* What the bound rests on, without ControlInv, which has its own proof.
Bounds == CreatesAfterCooldown /\ StartingAccounted /\ LiveSeen /\ HeadroomKept /\ NodesWithinMax

Others(r) ==
    \A q \in Routines \ {r} :
        pc'[q] = pc[q] /\ count'[q] = count[q] /\ left'[q] = left[q] /\ name'[q] = name[q]

\* A step of a goroutine that neither creates nodes nor decides to; it may
\* remove one.
LEMMA QuietStep ==
    ASSUME BoundInv, NEW r \in Routines, ~Creating(r), Others(r),
           pc'[r] \notin {"scaleUp", "create", "creating"},
           UNCHANGED <<cached, coolUp>>, Live' \subseteq Live,
           \A n \in Names : status'[n] = "starting" =>
                status[n] = "starting" /\ (n \in abandoned => n \in abandoned')
    PROVE  Bounds'
<1>1. CreatesAfterCooldown'
    BY DEF BoundInv, CreatesAfterCooldown, Creating, Others
<1>2. StartingAccounted'
  <2> SUFFICES ASSUME NEW n \in Names, status'[n] = "starting", n \notin abandoned'
               PROVE  \E q \in Routines : pc'[q] = "creating" /\ name'[q] = n
      BY DEF StartingAccounted
  <2>1. PICK q \in Routines : pc[q] = "creating" /\ name[q] = n
      BY DEF BoundInv, StartingAccounted
  <2>2. q # r
      BY <2>1 DEF Creating
  <2> QED
      BY <2>1, <2>2 DEF Others
<1>3. LiveSeen'
  <2> SUFFICES ASSUME coolUp' = 0, \A q \in Routines : ~Creating(q)', NEW n \in Live'
               PROVE  cached'[n] \in Registered
      BY DEF LiveSeen
  <2>1. \A q \in Routines : ~Creating(q)
      BY DEF Creating, Others
  <2> QED
      BY <2>1 DEF BoundInv, LiveSeen
<1>4. Cardinality(Live') \in Nat /\ Cardinality(Live') <= Cardinality(Live)
    BY LiveShrinks
<1>5. HeadroomKept'
  <2>1. count \in [Routines -> Nat] /\ left \in [Routines -> Nat]
      BY DEF BoundInv, ControlInv, TypeOK
  <2> QED
      BY <1>4, <2>1, LiveFinite, ConstantsAssumption DEF BoundInv, HeadroomKept, Others
<1>6. NodesWithinMax'
    BY <1>4, LiveFinite, ConstantsAssumption DEF BoundInv, NodesWithinMax, Live
<1> QED
    BY <1>1, <1>2, <1>3, <1>5, <1>6 DEF Bounds

LEMMA GotoOthers ==
    ASSUME BoundInv, NEW r \in Routines, NEW s, Goto(r, s)
    PROVE  pc'[r] = s /\ \A q \in Routines \ {r} : pc'[q] = pc[q]
BY DEF BoundInv, ControlInv, TypeOK, Goto

LEMMA ReturnOthers ==
    ASSUME BoundInv, NEW r \in Routines, Return(r)
    PROVE  pc'[r] = "off" /\ Others(r)
<1>1. pc'[r] = "off" /\ \A q \in Routines \ {r} : pc'[q] = pc[q]
    BY GotoOthers DEF Return
<1> QED
    BY <1>1 DEF BoundInv, ControlInv, TypeOK, Return, Others

LEMMA QuietActions ==
    ASSUME BoundInv, NEW r \in Routines,
           \/ Tick(r) \/ TryLock(r) \/ SkipTick(r) \/ DetectUnschedulablePods(r)
           \/ EstimateDetailed(r) \/ SkipScaleUp(r) \/ FindIdleNodes(r) \/ handleScaleDown(r)
    PROVE  Bounds'
<1>1. UNCHANGED <<cluster, cache, coolUp>>
    BY DEF Tick, TryLock, SkipTick, DetectUnschedulablePods, EstimateDetailed, SkipScaleUp,
           FindIdleNodes, handleScaleDown, control
<1>2. ~Creating(r)
    BY DEF Tick, TryLock, SkipTick, DetectUnschedulablePods, EstimateDetailed, SkipScaleUp,
           FindIdleNodes, handleScaleDown, Creating
<1>3. \/ Return(r)
      \/ /\ \E s \in Steps \ {"scaleUp", "create", "creating"} : Goto(r, s)
         /\ \A q \in Routines \ {r} :
                count'[q] = count[q] /\ left'[q] = left[q] /\ name'[q] = name[q]
  <2>1. count \in [Routines -> Nat] /\ name \in [Routines -> Names \cup {None}]
      BY DEF BoundInv, ControlInv, TypeOK
  <2> QED
      BY <2>1
      DEF Tick, TryLock, SkipTick, DetectUnschedulablePods, EstimateDetailed, SkipScaleUp,
          FindIdleNodes, handleScaleDown, locals, Steps
<1>4. Others(r) /\ pc'[r] \notin {"scaleUp", "create", "creating"}
    BY <1>3, GotoOthers, ReturnOthers DEF Others
<1>5. Live' = Live
    BY <1>1 DEF cluster, Live
<1> QED
    BY <1>1, <1>2, <1>4, <1>5, QuietStep DEF cluster, cache

LEMMA RemovalActions ==
    ASSUME BoundInv, NEW r \in Routines, RemoveSucceeds(r) \/ RemoveReplyLost(r) \/ RemoveFails(r)
    PROVE  Bounds'
<1>1. ~Creating(r) /\ Return(r) /\ UNCHANGED <<cached, coolUp>>
    BY DEF RemoveSucceeds, RemoveReplyLost, RemoveFails, Creating, cache, control
<1>2. status \in [Names -> Status]
    BY DEF BoundInv, ControlInv, TypeOK
<1>3. CASE RemoveSucceeds(r) \/ RemoveReplyLost(r)
  <2>1. NodeDeleted(name[r])
      BY <1>3 DEF RemoveSucceeds, RemoveReplyLost
  <2>2. /\ Live' \subseteq Live
        /\ \A n \in Names : status'[n] = "starting" =>
                status[n] = "starting" /\ (n \in abandoned => n \in abandoned')
      BY <1>2, <2>1 DEF NodeDeleted, Live
  <2> QED
      BY <1>1, <2>2, ReturnOthers, QuietStep
<1>4. CASE RemoveFails(r)
  <2>1. /\ Live' \subseteq Live
        /\ \A n \in Names : status'[n] = "starting" =>
                status[n] = "starting" /\ (n \in abandoned => n \in abandoned')
      BY <1>2, <1>4 DEF RemoveFails, Live
  <2> QED
      BY <1>1, <2>1, ReturnOthers, QuietStep
<1> QED
    BY <1>3, <1>4

----------------------------------------------------------------------------
(* A round of scale-up *)

\* The lock keeps the other goroutines out of a round.
LEMMA OthersOut ==
    ASSUME BoundInv, NEW r \in Routines, pc[r] \notin {"off", "tick"}
    PROVE  \A q \in Routines \ {r} : pc[q] \in {"off", "tick"}
BY DEF BoundInv, ControlInv, InFlightAccounted

\* Evaluate counts what ClusterState shows.  When the cooldown is over that is
\* every node, and Prompt does not let it end before handleScaleUp asks for it.
LEMMA EvaluateBounds == ASSUME BoundInv, NEW r \in Routines, Evaluate(r) PROVE Bounds'
<1>1. UNCHANGED <<cluster, cache, coolUp>> /\ pc[r] = "decide"
    BY DEF Evaluate, control
<1>2. Live' = Live
    BY <1>1 DEF cluster, Live
<1>3. CASE Return(r)
    BY <1>1, <1>2, <1>3, ReturnOthers, QuietStep DEF cluster, cache, Creating
<1>4. CASE ~Return(r)
  <2> DEFINE current == Cardinality(CachedIn(Registered))
  <2>1. /\ current < MaxNodes /\ Goto(r, "scaleUp")
        /\ count' = [count EXCEPT ![r] = WithinHeadroom(@, current)]
        /\ UNCHANGED <<left, name>>
    <3>1. current \in Nat
        BY CachedCount
    <3> QED
        BY <1>4, <3>1, ConstantsAssumption DEF Evaluate
  <2>2. pc'[r] = "scaleUp" /\ \A q \in Routines \ {r} : pc'[q] = pc[q]
      BY <2>1, GotoOthers
  <2>3. \A q \in Routines : pc'[q] \in {"off", "tick", "scaleUp"} /\ ~Creating(q) /\ ~Creating(q)'
      BY <1>1, <2>2, OthersOut DEF Creating
  <2>4. coolUp' = 0 => Cardinality(Live) + count'[r] <= MaxNodes
    <3> SUFFICES ASSUME coolUp = 0 PROVE Cardinality(Live) + count'[r] <= MaxNodes
        BY <1>1
    <3>1. Live \subseteq CachedIn(Registered)
        BY <2>3 DEF BoundInv, LiveSeen, CachedIn, Live
    <3>2. IsFiniteSet(CachedIn(Registered)) /\ current \in Nat
        BY CachedCount, ConstantsAssumption, FS_Subset DEF CachedIn
    <3>3. Cardinality(Live) <= current
        BY <3>1, <3>2, FS_Subset
    <3>4. count'[r] <= MaxNodes - current /\ count'[r] \in Int
      <4>1. count \in [Routines -> Nat]
          BY DEF BoundInv, ControlInv, TypeOK
      <4> QED
          BY <2>1, <3>2, <4>1, ConstantsAssumption DEF WithinHeadroom
    <3> QED
        BY <3>2, <3>3, <3>4, LiveFinite, ConstantsAssumption
  <2>5. HeadroomKept'
    <3>1. \A q \in Routines : pc'[q] = "scaleUp" => q = r
        BY <1>1, <2>2, OthersOut
    <3> QED
        BY <1>2, <2>3, <2>4, <3>1 DEF HeadroomKept
  <2>6. CreatesAfterCooldown' /\ NodesWithinMax'
      BY <1>2, <2>3 DEF BoundInv, CreatesAfterCooldown, NodesWithinMax, Live
  <2>7. StartingAccounted'
      BY <1>1, <2>3 DEF BoundInv, StartingAccounted, Creating, cluster
  <2>8. LiveSeen'
      BY <1>1, <1>2, <2>3 DEF BoundInv, LiveSeen, cache
  <2> QED
      BY <2>5, <2>6, <2>7, <2>8 DEF Bounds
<1> QED
    BY <1>3, <1>4

LEMMA StartScaleUpBounds == ASSUME BoundInv, NEW r \in Routines, StartScaleUp(r) PROVE Bounds'
<1>1. UNCHANGED <<cluster, cache>> /\ coolUp = 0 /\ coolUp' = 0 /\ pc[r] = "scaleUp"
    BY DEF StartScaleUp
<1>2. Live' = Live
    BY <1>1 DEF cluster, Live
<1>3. pc'[r] = "create" /\ \A q \in Routines \ {r} : pc'[q] \in {"off", "tick"} /\ pc'[q] = pc[q]
    BY <1>1, GotoOthers, OthersOut DEF StartScaleUp
<1>4. Cardinality(Live) + left'[r] <= MaxNodes
  <2>1. Cardinality(Live) + count[r] <= MaxNodes
      BY <1>1 DEF BoundInv, HeadroomKept
  <2>2. ToProvision(r) <= count[r] /\ ToProvision(r) \in Int /\ count[r] \in Nat
    <3>1. Cardinality(CachedIn({"notReady"})) \in Nat
        BY CachedCount
    <3>2. count[r] \in Nat /\ inFlightProvisioning \in Nat
        BY DEF BoundInv, ControlInv, TypeOK
    <3> QED
        BY <3>1, <3>2 DEF ToProvision
  <2>3. left'[r] = ToProvision(r)
      BY DEF StartScaleUp, BoundInv, ControlInv, TypeOK
  <2> QED
      BY <2>1, <2>2, <2>3, LiveFinite, ConstantsAssumption
<1>5. HeadroomKept'
    BY <1>2, <1>3, <1>4 DEF HeadroomKept
<1>6. CreatesAfterCooldown' /\ NodesWithinMax'
    BY <1>1, <1>2 DEF BoundInv, CreatesAfterCooldown, NodesWithinMax, Live
<1>7. StartingAccounted'
  <2>1. \A q \in Routines : pc[q] # "creating"
      BY <1>1, OthersOut
  <2> QED
      BY <1>1, <2>1 DEF BoundInv, StartingAccounted, cluster
<1>8. LiveSeen'
    BY <1>3 DEF LiveSeen, Creating
<1> QED
    BY <1>5, <1>6, <1>7, <1>8 DEF Bounds

LEMMA StartNodeBounds == ASSUME BoundInv, NEW r \in Routines, StartNode(r) PROVE Bounds'
<1>1. PICK n \in Names : /\ status[n] = "unused"
                         /\ status' = [status EXCEPT ![n] = "starting"]
                         /\ name' = [name EXCEPT ![r] = n]
    BY DEF StartNode, IsFresh
<1>2. pc[r] = "create" /\ left[r] > 0 /\ UNCHANGED <<abandoned, coolUp, left>>
    BY DEF StartNode, control
<1>3. pc'[r] = "creating" /\ \A q \in Routines \ {r} : pc'[q] \in {"off", "tick"} /\ pc'[q] = pc[q]
    BY <1>2, GotoOthers, OthersOut DEF StartNode
<1>4. Live' \subseteq Live \cup {n}
    BY <1>1, <1>2 DEF BoundInv, ControlInv, TypeOK, Live
<1>5. Cardinality(Live') \in Nat /\ Cardinality(Live') <= Cardinality(Live) + 1
    BY <1>4, LiveGrows
<1>6. Cardinality(Live) + left[r] <= MaxNodes /\ left[r] \in Nat
    BY <1>2 DEF BoundInv, HeadroomKept, ControlInv, TypeOK
<1>7. HeadroomKept'
    BY <1>2, <1>3, <1>5, <1>6, LiveFinite, ConstantsAssumption DEF HeadroomKept
<1>8. NodesWithinMax'
    BY <1>2, <1>5, <1>6, LiveFinite, ConstantsAssumption DEF NodesWithinMax, Live
<1>9. CreatesAfterCooldown'
    BY <1>2, <1>3 DEF BoundInv, CreatesAfterCooldown, Creating
<1>10. StartingAccounted'
  <2> SUFFICES ASSUME NEW m \in Names, status'[m] = "starting", m \notin abandoned'
               PROVE  \E q \in Routines : pc'[q] = "creating" /\ name'[q] = m
      BY DEF StartingAccounted
  <2>1. \A q \in Routines : pc[q] # "creating"
      BY <1>2, OthersOut
  <2>2. status[m] # "starting"
      BY <1>2, <2>1 DEF BoundInv, StartingAccounted
  <2>3. m = n
      BY <1>1, <2>2 DEF BoundInv, ControlInv, TypeOK
  <2>4. name'[r] = n
      BY <1>1 DEF BoundInv, ControlInv, TypeOK
  <2> QED
      BY <1>3, <2>3, <2>4
<1>11. LiveSeen'
    BY <1>3 DEF LiveSeen, Creating
<1> QED
    BY <1>7, <1>8, <1>9, <1>10, <1>11 DEF Bounds

\* A turn of the loop is over: the node runs, or there is none, or what a failed
\* CreateNode left counts among the abandoned.
LEMMA TurnBounds ==
    ASSUME BoundInv, NEW r \in Routines, StartFails(r) \/ NodeTimesOut(r) \/ NodeUp(r)
    PROVE  Bounds'
<1>1. /\ Creating(r) /\ NextTurn(r) /\ UNCHANGED coolUp /\ abandoned \subseteq abandoned'
      /\ \A n \in Names \ abandoned' : status'[n] = status[n]
  <2>1. CASE StartFails(r)
      BY <2>1 DEF StartFails, CreateFails, Creating, BoundInv, ControlInv, TypeOK
  <2>2. CASE NodeTimesOut(r) \/ NodeUp(r)
      BY <2>2 DEF NodeTimesOut, NodeUp, CreateFails, Creating, cluster, control
  <2> QED
      BY <2>1, <2>2
<1>2. pc'[r] = "create" /\ \A q \in Routines \ {r} : pc'[q] \in {"off", "tick"} /\ pc'[q] = pc[q]
  <2>1. Goto(r, "create") /\ pc[r] \notin {"off", "tick"}
      BY <1>1 DEF NextTurn, Creating
  <2> QED
      BY <2>1, GotoOthers, OthersOut
<1>3. Live' \subseteq Live
    BY <1>1 DEF Live
<1>4. Cardinality(Live') \in Nat /\ Cardinality(Live') <= Cardinality(Live)
    BY <1>3, LiveShrinks
<1>5. Cardinality(Live') + left'[r] <= MaxNodes
  <2>1. left'[r] = left[r] - 1 /\ left[r] \in Nat
      BY <1>1 DEF NextTurn, BoundInv, ControlInv, TypeOK
  <2>2. Cardinality(Live) + left[r] <= MaxNodes + 1
      BY <1>1, <2>1, LiveFinite, ConstantsAssumption DEF BoundInv, HeadroomKept, Creating
  <2> QED
      BY <1>4, <2>1, <2>2, LiveFinite, ConstantsAssumption
<1>6. HeadroomKept'
    BY <1>2, <1>5 DEF HeadroomKept
<1>7. NodesWithinMax'
    BY <1>4, LiveFinite, ConstantsAssumption DEF BoundInv, NodesWithinMax, Live
<1>8. CreatesAfterCooldown'
    BY <1>1, <1>2 DEF BoundInv, CreatesAfterCooldown, Creating
<1>9. StartingAccounted'
  <2> SUFFICES ASSUME NEW n \in Names, status[n] = "starting" PROVE n \in abandoned'
      BY <1>1 DEF StartingAccounted
  <2>1. CASE n \in abandoned
      BY <1>1, <2>1
  <2>2. CASE n \notin abandoned
    <3>1. PICK q \in Routines : pc[q] = "creating" /\ name[q] = n
        BY <2>2 DEF BoundInv, StartingAccounted
    <3>2. q = r
        BY <1>2, <3>1
    <3> QED
        BY <3>1, <3>2 DEF StartFails, NodeTimesOut, NodeUp
  <2> QED
      BY <2>1, <2>2
<1>10. LiveSeen'
    BY <1>2 DEF LiveSeen, Creating
<1> QED
    BY <1>6, <1>7, <1>8, <1>9, <1>10 DEF Bounds

\* The round ends with a cooldown or a backoff: this is where 61 is used.
LEMMA EndScaleUpBounds ==
    ASSUME BoundInv, MaxFailures <= 61, NEW r \in Routines, EndScaleUp(r)
    PROVE  Bounds'
<1>1. UNCHANGED <<cluster, cache>> /\ pc[r] = "create" /\ left[r] = 0 /\ Return(r)
    BY DEF EndScaleUp
<1>2. Live' = Live
    BY <1>1 DEF cluster, Live
<1>3. \A q \in Routines : pc'[q] \in {"off", "tick"}
    BY <1>1, ReturnOthers, OthersOut DEF Others
<1>4. coolUp' # 0
  <2>1. /\ scaleUpFailures \in Nat /\ successCount[r] \in Nat
        /\ successCount[r] = 0 => scaleUpFailures > 0 /\ scaleUpFailures <= 61
    <3>1. scaleUpFailures \in Nat /\ successCount[r] \in Nat
        BY DEF BoundInv, ControlInv, TypeOK
    <3>2. successCount[r] = 0 => scaleUpFailures > 0
        BY <1>1 DEF BoundInv, ControlInv, TurnsCounted, Creating
    <3>3. scaleUpFailures <= MaxFailures
        BY DEF BoundInv, ControlInv, FailuresBounded
    <3> QED
        BY <3>1, <3>2, <3>3, ConstantsAssumption
  <2>2. CASE successCount[r] > 0
      BY <2>2 DEF EndScaleUp, ScaleUpCooldown
  <2>3. CASE successCount[r] = 0
    <3>1. coolUp' = BackoffSeconds(scaleUpFailures)
        BY <2>3 DEF EndScaleUp
    <3> QED
        BY <2>1, <2>3, <3>1, BackoffBounds
  <2> QED
      BY <2>1, <2>2, <2>3
<1>5. HeadroomKept' /\ CreatesAfterCooldown' /\ LiveSeen'
    BY <1>3, <1>4 DEF HeadroomKept, CreatesAfterCooldown, LiveSeen, Creating
<1>6. NodesWithinMax'
    BY <1>2 DEF BoundInv, NodesWithinMax, Live
<1>7. StartingAccounted'
  <2>1. \A q \in Routines : pc[q] # "creating"
      BY <1>1, OthersOut
  <2> QED
      BY <1>1, <2>1 DEF BoundInv, StartingAccounted, cluster
<1> QED
    BY <1>5, <1>6, <1>7 DEF Bounds

----------------------------------------------------------------------------
(* The environment *)

LEMMA CooldownElapsesBounds ==
    ASSUME BoundInv, Prompt, ScaleUpCooldownElapses PROVE Bounds'
<1>1. /\ UNCHANGED <<cluster, cache, pc, locals>> /\ coolUp > 0
      /\ \A n \in Names : cached[n] = CurrentView(n)
      /\ \A r \in Routines : ~Deciding(r)
    BY DEF ScaleUpCooldownElapses
<1>2. Live' = Live
    BY <1>1 DEF cluster, Live
<1>3. \A r \in Routines : ~Creating(r) /\ ~Creating(r)'
    BY <1>1 DEF BoundInv, CreatesAfterCooldown, Creating
<1>4. LiveSeen'
  <2> SUFFICES ASSUME NEW n \in Live PROVE cached[n] \in Registered
      BY <1>1, <1>2 DEF LiveSeen, cache
  <2>1. n \in Names /\ status[n] # "unused" /\ n \notin abandoned
      BY DEF Live
  <2>2. status[n] # "starting"
      BY <1>3, <2>1 DEF BoundInv, StartingAccounted, Creating
  <2>3. CurrentView(n) \in Registered
      BY <2>1, <2>2 DEF BoundInv, ControlInv, TypeOK, CurrentView, Status, Registered
  <2> QED
      BY <1>1, <2>1, <2>3
<1>5. HeadroomKept' /\ CreatesAfterCooldown'
    BY <1>1, <1>3 DEF HeadroomKept, CreatesAfterCooldown, Creating, Deciding
<1>6. NodesWithinMax' /\ StartingAccounted'
    BY <1>1, <1>2 DEF BoundInv, NodesWithinMax, StartingAccounted, Live, cluster, locals
<1> QED
    BY <1>4, <1>5, <1>6 DEF Bounds

LEMMA CrashBounds == ASSUME BoundInv, Crash PROVE Bounds'
<1>1. /\ \A r \in Routines : pc'[r] = "off"
      /\ \A n \in Names : cached'[n] = CurrentView(n)
      /\ UNCHANGED status /\ abandoned \subseteq abandoned'
      /\ \A r \in Routines : pc[r] = "creating" => name[r] \in abandoned'
    BY DEF Crash
<1>2. Live' \subseteq Live
    BY <1>1 DEF Live
<1>3. StartingAccounted'
    BY <1>1 DEF BoundInv, StartingAccounted
<1>4. LiveSeen'
  <2> SUFFICES ASSUME NEW n \in Live' PROVE cached'[n] \in Registered
      BY DEF LiveSeen
  <2>1. n \in Names /\ status[n] \notin {"unused", "starting"}
      BY <1>1, <1>3 DEF Live, StartingAccounted
  <2>2. CurrentView(n) \in Registered
      BY <2>1 DEF BoundInv, ControlInv, TypeOK, CurrentView, Status, Registered
  <2> QED
      BY <1>1, <2>1, <2>2
<1>5. HeadroomKept' /\ CreatesAfterCooldown'
    BY <1>1 DEF HeadroomKept, CreatesAfterCooldown, Creating
<1>6. NodesWithinMax'
  <2>1. Cardinality(Live') \in Nat /\ Cardinality(Live') <= Cardinality(Live)
      BY <1>2, LiveShrinks
  <2> QED
      BY <2>1, LiveFinite, ConstantsAssumption DEF BoundInv, NodesWithinMax, Live
<1> QED
    BY <1>3, <1>4, <1>5, <1>6 DEF Bounds

\* What kubelets, scheduler, users and informers do leaves the nodes that count
\* as they are.
LEMMA EnvironmentBounds ==
    ASSUME BoundInv,
           \/ Submit \/ PodEvent \/ ScaleDownCooldownElapses
           \/ \E n \in Names : Join(n) \/ Schedule(n) \/ PodLeaves(n) \/ NodeEvent(n)
    PROVE  Bounds'
<1>1. UNCHANGED <<abandoned, coolUp, pc, count, left, name>>
    BY DEF Submit, PodEvent, ScaleDownCooldownElapses, Join, Schedule, PodLeaves, NodeEvent,
           cluster, control, locals
<1>2. status \in [Names -> Status] /\ cached \in [Names -> Seen]
    BY DEF BoundInv, ControlInv, TypeOK
<1>3. \A n \in Names : /\ status'[n] = "unused" <=> status[n] = "unused"
                       /\ status'[n] = "starting" => status[n] = "starting"
    BY <1>2 DEF Submit, PodEvent, ScaleDownCooldownElapses, Join, Schedule, PodLeaves, NodeEvent,
                cluster
<1>4. Live' = Live
    BY <1>1, <1>3 DEF Live
<1>5. CreatesAfterCooldown' /\ HeadroomKept' /\ NodesWithinMax'
    BY <1>1, <1>4
    DEF BoundInv, CreatesAfterCooldown, HeadroomKept, NodesWithinMax, Live, Creating
<1>6. StartingAccounted'
    BY <1>1, <1>3 DEF BoundInv, StartingAccounted
<1>7. LiveSeen'
  <2> SUFFICES ASSUME coolUp = 0, \A r \in Routines : ~Creating(r), NEW n \in Live
               PROVE  cached'[n] \in Registered
      BY <1>1, <1>4 DEF LiveSeen, Creating
  <2>1. n \in Names /\ cached[n] \in Registered
      BY DEF BoundInv, LiveSeen, Live
  <2>2. CurrentView(n) \in Registered
    <3>1. status[n] # "starting" /\ status[n] # "unused"
        BY DEF BoundInv, StartingAccounted, Live, Creating
    <3> QED
        BY <1>2, <2>1, <3>1 DEF CurrentView, Status, Registered
  <2>3. cached'[n] \in {cached[n], CurrentView(n)}
      BY <1>2, <2>1 DEF Submit, PodEvent, ScaleDownCooldownElapses, Join, Schedule, PodLeaves,
                        NodeEvent, cache
  <2> QED
      BY <2>1, <2>2, <2>3
<1> QED
    BY <1>5, <1>6, <1>7 DEF Bounds

----------------------------------------------------------------------------
(* The theorem *)

\* With informers that catch up within a cooldown, and up to 61 failures in a
\* row, the nodes in the cluster exceed MaxNodes by no more than those whose
\* CreateNode ended without success.
THEOREM NodesWithinMaxHolds ==
    ASSUME Prompt, MaxFailures <= 61, Cardinality(AtStart) <= MaxNodes
    PROVE  Spec => []NodesWithinMax
<1>1. Init => BoundInv
    BY InitBoundInv
<1>2. ASSUME BoundInv, [Next]_vars PROVE Bounds'
  <2>1. ASSUME NEW r \in Routines, Tick(r) \/ Reconcile(r) PROVE Bounds'
      BY <1>2, <2>1, QuietActions, RemovalActions, EvaluateBounds, StartScaleUpBounds,
         StartNodeBounds, TurnBounds, EndScaleUpBounds DEF Reconcile
  <2>2. CASE Environment
      BY <1>2, <2>2, CooldownElapsesBounds, CrashBounds, EnvironmentBounds DEF Environment
  <2>3. CASE UNCHANGED vars
    <3>1. UNCHANGED <<status, abandoned, cached, coolUp, pc, count, left, name>>
        BY <2>3 DEF vars, cluster, cache, control, locals
    <3> QED
        BY <1>2, <3>1 DEF BoundInv, Bounds, CreatesAfterCooldown, StartingAccounted, LiveSeen,
                HeadroomKept, NodesWithinMax, Live, Creating
  <2> QED
      BY <1>2, <2>1, <2>2, <2>3 DEF Next
<1>3. BoundInv /\ [Next]_vars /\ ControlInv' => BoundInv'
    BY <1>2 DEF BoundInv, Bounds
<1>4. BoundInv => NodesWithinMax
    BY DEF BoundInv
<1> QED
    BY <1>1, <1>3, <1>4, ControlInvHolds, PTL DEF Spec
============================================================================

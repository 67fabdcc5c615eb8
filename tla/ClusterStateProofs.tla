------------------------- MODULE ClusterStateProofs ------------------------
(***************************************************************************)
(* Theorems about the accounting of ClusterState, for every set of pods    *)
(* and nodes, all requests and any number of changes.  What a sum of       *)
(* requests is matters to the types alone: elsewhere Total stays           *)
(* unexpanded.                                                             *)
(***************************************************************************)
EXTENDS ClusterState, SumProofs

\* The status and the usage are functions on the nodes.
PictureOK ==
    /\ status = [n \in Nodes |-> status[n]]
    /\ used = [n \in Nodes |-> used[n]]

\* The lists in ClusterState, or those on their way to it, are the lists of
\* PodWatcher's store.
ListsCurrent ==
    IF syncing = NoLists THEN ScheduledPods = ListsOf(podStore).scheduled
    ELSE syncing = ListsOf(podStore)

UsageInv == PictureOK /\ UsageMatchesScheduled

StoreInv == UsageInv /\ ListsCurrent

----------------------------------------------------------------------------
(* Types *)

LEMMA LoadType == ASSUME NEW S, NEW n PROVE Load(S, n) \in Nat
<1>1. OnNode(S, n) \subseteq Pods /\ IsFiniteSet(OnNode(S, n))
    BY ConstantsAssumption, FS_Subset DEF OnNode
<1>2. \A p \in OnNode(S, n) : Request[p] \in Nat
    BY <1>1, ConstantsAssumption
<1> QED
    BY <1>1, <1>2, SumNat DEF Load, Total

LEMMA RecomputeType ==
    ASSUME NEW S, NEW st, NEW u \in [Nodes -> Nat]
    PROVE  recomputeNodeUsageLocked(S, st, u) \in [Nodes -> Nat]
BY LoadType DEF recomputeNodeUsageLocked

LEMMA ListsOfType == ASSUME NEW store PROVE ListsOf(store) \in Lists
BY DEF ListsOf, Lists

\* A change of a pod leaves a pod object, or none.
LEMMA PodStepsType ==
    ASSUME NEW o \in PodObject \cup {Absent}
    PROVE  PodSteps(o) \subseteq PodObject \cup {Absent}
<1>1. CASE o = Absent
    BY <1>1 DEF PodSteps, PodObject
<1>2. CASE o # Absent
  <2>1. o \in PodObject
      BY <1>2
  <2>2. o.node \in Nodes \cup {NoNode} /\ o.phase \in {"Pending", "Running", "Done"}
      BY <2>1 DEF PodObject
  <2>3. \A n \in Nodes \cup {NoNode}, s \in {"Pending", "Running", "Done"} :
            [node |-> n, phase |-> s] \in PodObject
      BY DEF PodObject
  <2> QED
      BY <1>2, <2>2, <2>3 DEF PodSteps
<1> QED
    BY <1>1, <1>2

LEMMA InitTypeOK == Init => TypeOK
BY ConstantsAssumption DEF Init, TypeOK

LEMMA NextTypeOK == TypeOK /\ [Next]_vars => TypeOK'
<1> SUFFICES ASSUME TypeOK, [Next]_vars PROVE TypeOK'
    OBVIOUS
<1> USE DEF TypeOK, lists, api
<1>1. CASE SetPods
  <2>1. syncing \in Lists
      BY <1>1 DEF SetPods
  <2>2. syncing.pending \subseteq Pods /\ syncing.scheduled \subseteq Pods \X Nodes
      BY <2>1 DEF Lists
  <2>3. used' \in [Nodes -> Nat]
      BY <1>1, RecomputeType DEF SetPods
  <2> QED
      BY <1>1, <2>2, <2>3 DEF SetPods
<1>2. ASSUME NEW p \in Pods, sync(p) PROVE TypeOK'
  <2>1. podStore' \in [Pods -> PodObject \cup {Absent}]
      BY <1>2 DEF sync
  <2>2. syncing' \in Lists
      BY <1>2, ListsOfType DEF sync
  <2> QED
      BY <1>2, <2>1, <2>2 DEF sync
<1>3. ASSUME NEW n \in Nodes, UpdateNode(n) PROVE TypeOK'
  <2>1. (IF Known(n) THEN used ELSE [used EXCEPT ![n] = 0]) \in [Nodes -> Nat]
      OBVIOUS
  <2>2. used' \in [Nodes -> Nat]
      BY <1>3, <2>1, RecomputeType DEF UpdateNode
  <2>3. status' \in [Nodes -> NodeObject \cup {Absent}]
      BY <1>3 DEF UpdateNode
  <2> QED
      BY <1>3, <2>2, <2>3 DEF UpdateNode
<1>4. ASSUME NEW n \in Nodes, RemoveNode(n) PROVE TypeOK'
    BY <1>4 DEF RemoveNode
<1>5. ASSUME NEW p \in Pods, PodChanges(p) PROVE TypeOK'
  <2>1. PICK o \in PodSteps(podObj[p]) : podObj' = [podObj EXCEPT ![p] = o]
      BY <1>5 DEF PodChanges
  <2>2. podObj' \in [Pods -> PodObject \cup {Absent}]
      BY <2>1, PodStepsType
  <2>3. changes' \in 0..MaxChanges
      BY <1>5, ConstantsAssumption DEF PodChanges, Change
  <2> QED
      BY <1>5, <2>2, <2>3 DEF PodChanges, Change
<1>6. ASSUME NEW n \in Nodes, NodeChanges(n) PROVE TypeOK'
  <2>1. nodeObj' \in [Nodes -> NodeObject \cup {Absent}]
      BY <1>6 DEF NodeChanges
  <2>2. changes' \in 0..MaxChanges
      BY <1>6, ConstantsAssumption DEF NodeChanges, Change
  <2> QED
      BY <1>6, <2>1, <2>2 DEF NodeChanges, Change
<1>7. CASE UNCHANGED vars
    BY <1>7 DEF vars
<1> QED
    BY <1>1, <1>2, <1>3, <1>4, <1>5, <1>6, <1>7 DEF Next, Watchers, Cluster

\* Every variable stays in its domain; in particular the usage of a node, a sum
\* over the pods that are known to run on it, is a natural number.
THEOREM TypeCorrect == Spec => []TypeOK
BY InitTypeOK, NextTypeOK, PTL DEF Spec

----------------------------------------------------------------------------
(* The accounting *)

\* The load depends on the list alone.
LEMMA LoadNext == \A n : Load(ScheduledPods, n)' = Load(ScheduledPods', n)
BY DEF Load, OnNode

\* A recomputation that is not skipped gives every known node its load.
LEMMA RecomputeGivesLoad ==
    ASSUME NEW S, S # {}, NEW st, NEW u, NEW n \in Nodes, st[n] # Absent
    PROVE  recomputeNodeUsageLocked(S, st, u)[n] = Load(S, n)
BY DEF recomputeNodeUsageLocked

LEMMA RecomputeIsFunction ==
    ASSUME NEW S, NEW st, NEW u, u = [n \in Nodes |-> u[n]]
    PROVE  recomputeNodeUsageLocked(S, st, u) =
               [n \in Nodes |-> recomputeNodeUsageLocked(S, st, u)[n]]
BY DEF recomputeNodeUsageLocked

LEMMA InitUsageInv == Init => UsageInv
BY DEF Init, UsageInv, PictureOK, UsageMatchesScheduled

LEMMA NextUsageInv == UsageInv /\ [Next]_vars => UsageInv'
<1> SUFFICES ASSUME UsageInv, [Next]_vars PROVE UsageInv'
    OBVIOUS
<1> USE DEF UsageInv, PictureOK, UsageMatchesScheduled, Known, lists, api
<1>1. CASE SetPods
  <2>1. used' = recomputeNodeUsageLocked(ScheduledPods', status', used) /\ status' = status
      BY <1>1 DEF SetPods
  <2>2. PictureOK'
      BY <2>1, RecomputeIsFunction
  <2>3. ASSUME ScheduledPods' # {}, NEW n \in Nodes, status'[n] # Absent
        PROVE  used'[n] = Load(ScheduledPods', n)
      BY <2>1, <2>3, RecomputeGivesLoad
  <2>4. UsageMatchesScheduled'
      BY <2>3, LoadNext
  <2> QED
      BY <2>2, <2>4
<1>2. ASSUME NEW p \in Pods, sync(p) PROVE UsageInv'
    BY <1>2 DEF sync, Load
<1>3. ASSUME NEW n \in Nodes, UpdateNode(n) PROVE UsageInv'
  <2> DEFINE before == IF Known(n) THEN used ELSE [used EXCEPT ![n] = 0]
  <2>1. status' = [m \in Nodes |-> status'[m]]
      BY <1>3 DEF UpdateNode
  <2>2. before = [m \in Nodes |-> before[m]]
      OBVIOUS
  <2>3. used' = recomputeNodeUsageLocked(ScheduledPods, status', before)
      BY <1>3 DEF UpdateNode
  <2>4. PictureOK'
      BY <2>1, <2>2, <2>3, RecomputeIsFunction
  <2>5. ASSUME ScheduledPods # {}, NEW m \in Nodes, status'[m] # Absent
        PROVE  used'[m] = Load(ScheduledPods, m)
    <3> HIDE DEF before
    <3>1. recomputeNodeUsageLocked(ScheduledPods, status', before)[m] = Load(ScheduledPods, m)
        BY <2>5, RecomputeGivesLoad
    <3> QED
        BY <2>3, <3>1
  <2>6. ScheduledPods' = ScheduledPods
      BY <1>3 DEF UpdateNode
  <2>7. UsageMatchesScheduled'
      BY <2>5, <2>6, LoadNext
  <2> QED
      BY <2>4, <2>7
<1>4. ASSUME NEW n \in Nodes, RemoveNode(n) PROVE UsageInv'
    BY <1>4 DEF RemoveNode
<1>5. CASE Cluster
    BY <1>5 DEF Cluster, PodChanges, NodeChanges, Change
<1>6. CASE UNCHANGED vars
    BY <1>6 DEF vars
<1> QED
    BY <1>1, <1>2, <1>3, <1>4, <1>5, <1>6 DEF Next, Watchers

\* While any pod is scheduled, the usage of a known node is the load of the
\* pods known to run on it, in whatever order the informers delivered them.
THEOREM UsageMatchesScheduledHolds == Spec => []UsageMatchesScheduled
<1>1. UsageInv => UsageMatchesScheduled
    BY DEF UsageInv
<1> QED
    BY <1>1, InitUsageInv, NextUsageInv, PTL DEF Spec

----------------------------------------------------------------------------
(* The accounting agrees with PodWatcher's store *)

LEMMA InitListsCurrent == Init => ListsCurrent
BY DEF Init, ListsCurrent, ListsOf

LEMMA NextListsCurrent == ListsCurrent /\ [Next]_vars => ListsCurrent'
<1> SUFFICES ASSUME ListsCurrent, [Next]_vars PROVE ListsCurrent'
    OBVIOUS
<1> USE DEF ListsCurrent, lists, api
<1>1. CASE SetPods
    BY <1>1 DEF SetPods
<1>2. ASSUME NEW p \in Pods, sync(p) PROVE ListsCurrent'
  <2>1. syncing' = ListsOf(podStore') /\ syncing' \in Lists
      BY <1>2, ListsOfType DEF sync
  <2>2. syncing' # NoLists
      BY <2>1, MarkersAssumption
  <2> QED
      BY <2>1, <2>2
<1>3. ASSUME NEW n \in Nodes, UpdateNode(n) \/ RemoveNode(n) PROVE ListsCurrent'
    BY <1>3 DEF UpdateNode, RemoveNode
<1>4. CASE Cluster
    BY <1>4 DEF Cluster, PodChanges, NodeChanges, Change
<1>5. CASE UNCHANGED vars
    BY <1>5 DEF vars
<1> QED
    BY <1>1, <1>2, <1>3, <1>4, <1>5 DEF Next, Watchers

\* The pods that the store charges to a node are those of the scheduled list.
LEMMA ChargedAreScheduled ==
    ASSUME ListsCurrent, syncing = NoLists, NEW n \in Nodes
    PROVE  OnNode(ScheduledPods, n) = Charged(n)
BY DEF ListsCurrent, ListsOf, OnNode, Charged

\* Between two callbacks of PodWatcher each bound pod of its store that has not
\* finished is charged to its node, and no other pod is.
THEOREM UsageMatchesStoreHolds == Spec => []UsageMatchesStore
<1>1. StoreInv => UsageMatchesStore
  <2> SUFFICES ASSUME StoreInv, syncing = NoLists, NEW m \in Nodes, Charged(m) # {},
                      NEW n \in Nodes, Known(n)
               PROVE  used[n] = Total(Charged(n))
      BY DEF UsageMatchesStore
  <2>1. OnNode(ScheduledPods, n) = Charged(n) /\ OnNode(ScheduledPods, m) = Charged(m)
      BY ChargedAreScheduled DEF StoreInv
  <2>2. ScheduledPods # {}
      BY <2>1 DEF OnNode
  <2>3. used[n] = Load(ScheduledPods, n)
      BY <2>2 DEF StoreInv, UsageInv, UsageMatchesScheduled
  <2> QED
      BY <2>1, <2>3 DEF Load
<1>2. Init => StoreInv
    BY InitUsageInv, InitListsCurrent DEF StoreInv
<1>3. StoreInv /\ [Next]_vars => StoreInv'
    BY NextUsageInv, NextListsCurrent DEF StoreInv
<1> QED
    BY <1>1, <1>2, <1>3, PTL DEF Spec
============================================================================

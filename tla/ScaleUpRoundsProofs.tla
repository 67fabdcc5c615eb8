------------------------ MODULE ScaleUpRoundsProofs ------------------------
(***************************************************************************)
(* The safety of ScaleUpRounds, for every set of pods and of names, every  *)
(* size, label, taint and toleration, every limit and threshold.           *)
(*                                                                         *)
(* Inv is inductive: types, what every estimate has (EstimateInv), and the *)
(* room below MaxNodes for what a round is still to create (Headroom), not *)
(* counting the nodes whose containers CreateNode gave up.                 *)
(* The type invariant needs the rest of it: a bin has no negative rest     *)
(* only because a pod is placed where it fits, and there is a name for a   *)
(* new node only because the limit is not reached.  What is said about the *)
(* packing is inductive relative to Inv, since each turn shrinks what is   *)
(* free; sums over sets of pods are those of SumProofs.                    *)
(***************************************************************************)
EXTENDS ScaleUpRounds, SumProofs

\* An estimate exists only while it is made and used.
EstimateIsLocal ==
    pc \notin {"pack", "decide"} =>
        /\ feasible = {} /\ infeasiblePods = {} /\ placedPods = {} /\ packed = {}
        /\ existing = <<>> /\ openNewNodes = <<>>

\* A pod waits for its turn, or is placed on a node of the estimate.
PlacedOnce ==
    /\ feasible \subseteq unschedulable \ (Unsupported \cup ZeroRequest)
    /\ \A e \in packed : /\ e[1] \notin feasible
                         /\ e[2] \in DOMAIN existing \cup DOMAIN openNewNodes

\* A template node has given something away, and no more than it had.
BinsUsed ==
    \A i \in DOMAIN openNewNodes :
        Covers(TemplateSize, openNewNodes[i]) /\ openNewNodes[i] # TemplateSize

EstimateInv == EstimateIsLocal /\ PlacedOnce /\ BinsUsed

\* There is a supported pod that the template can hold.
FeasiblePodFound == \E p \in unschedulable \ Unsupported : FitsTemplate(p)

FoundWhenOpened ==
    /\ openNewNodes # <<>> => FeasiblePodFound
    /\ pc = "decide" => openNewNodes # <<>>
    /\ pc \in {"scaleUp", "create"} => FeasiblePodFound

\* What is still to be created has room below the limit.
Headroom ==
    /\ NodesWithinMax
    /\ pc = "scaleUp" => Cardinality(nodes \ abandoned) + count <= MaxNodes
    /\ pc = "create" => Cardinality(nodes \ abandoned) + left <= MaxNodes
    /\ pc # "create" => left = 0
    /\ Cardinality(abandoned) <= failures

----------------------------------------------------------------------------
(* Requests *)

\* The containers of a pod, and the bins of the packing, are finitely many.
LEMMA SequenceFinite ==
    ASSUME NEW T, NEW s \in Seq(T)
    PROVE  IsFiniteSet(DOMAIN s) /\ \A i \in DOMAIN s : s[i] \in T
<1>1. Len(s) \in Nat /\ DOMAIN s = 1..Len(s)
    OBVIOUS
<1>2. IsFiniteSet(DOMAIN s)
    BY <1>1, FS_Interval
<1> QED
    BY <1>1, <1>2

\* The values of a function on a finite set are finitely many.
LEMMA ValuesFinite ==
    ASSUME NEW f, NEW S, IsFiniteSet(S)
    PROVE  IsFiniteSet({f[i] : i \in S})
<1> DEFINE T == {f[i] : i \in S}
           g == [i \in S |-> f[i]]
<1>1. g \in Surjection(S, T)
    BY DEF Surjection
<1> QED
    BY <1>1, FS_Surjection

\* Sum and maximum of requests are requests.
LEMMA SumOverType ==
    ASSUME NEW r, NEW S, IsFiniteSet(S), S \subseteq DOMAIN r, \A i \in S : r[i] \in Resources
    PROVE  SumOver(r, S) \in Resources
<1> DEFINE c == [i \in DOMAIN r |-> r[i].cpu]
           m == [i \in DOMAIN r |-> r[i].mem]
<1>1. \A i \in S : c[i] \in Nat /\ m[i] \in Nat
    BY DEF Resources
<1> HIDE DEF c, m
<1>2. SumFunctionOnSet(c, S) \in Nat /\ SumFunctionOnSet(m, S) \in Nat
    BY <1>1, SumNat
<1> QED
    BY <1>2 DEF SumOver, Resources, c, m

\* The sets whose maxima are taken.
LEMMA ResourcesFinite ==
    ASSUME NEW r, NEW S, IsFiniteSet(S), \A i \in S : r[i] \in Resources
    PROVE  LET c == {0} \cup {r[i].cpu : i \in S}
               m == {0} \cup {r[i].mem : i \in S}
           IN  /\ c \subseteq Nat /\ c # {} /\ IsFiniteSet(c)
               /\ m \subseteq Nat /\ m # {} /\ IsFiniteSet(m)
<1> DEFINE c == {0} \cup {r[i].cpu : i \in S}
           m == {0} \cup {r[i].mem : i \in S}
           rc == [i \in S |-> r[i].cpu]
           rm == [i \in S |-> r[i].mem]
<1>1. c \subseteq Nat /\ c # {} /\ m \subseteq Nat /\ m # {}
    BY DEF Resources
<1>2. c = {0} \cup {rc[i] : i \in S} /\ m = {0} \cup {rm[i] : i \in S}
    OBVIOUS
<1>3. IsFiniteSet({rc[i] : i \in S}) /\ IsFiniteSet({rm[i] : i \in S})
  <2> HIDE DEF rc, rm
  <2> QED
    BY ValuesFinite
<1>4. IsFiniteSet(c) /\ IsFiniteSet(m)
    BY <1>2, <1>3, FS_Union, FS_Singleton
<1> QED
    BY <1>1, <1>4

LEMMA MaxOverType ==
    ASSUME NEW r, NEW S, IsFiniteSet(S), \A i \in S : r[i] \in Resources
    PROVE  MaxOver(r, S) \in Resources
<1> DEFINE c == {0} \cup {r[i].cpu : i \in S}
           m == {0} \cup {r[i].mem : i \in S}
<1>1. /\ c \subseteq Nat /\ c # {} /\ IsFiniteSet(c)
      /\ m \subseteq Nat /\ m # {} /\ IsFiniteSet(m)
    BY ResourcesFinite
<1> HIDE DEF c, m
<1>2. Max(c) \in Nat /\ Max(m) \in Nat
    BY <1>1, MaxInSet
<1> QED
    BY <1>2 DEF MaxOver, Resources, c, m

LEMMA PlusType == ASSUME NEW a \in Resources, NEW b \in Resources PROVE Plus(a, b) \in Resources
BY DEF Plus, Resources

LEMMA LargerOfType ==
    ASSUME NEW a \in Resources, NEW b \in Resources PROVE LargerOf(a, b) \in Resources
BY DEF LargerOf, Larger, Resources

LEMMA InitRequestsType ==
    ASSUME NEW spec \in PodSpec
    PROVE  /\ DOMAIN InitRequests(spec) = DOMAIN spec.init /\ IsFiniteSet(DOMAIN spec.init)
           /\ \A i \in DOMAIN spec.init : /\ InitRequests(spec)[i] \in Resources
                                          /\ InitRequests(spec)[i] = spec.init[i].req
           /\ Sidecars(spec) \subseteq DOMAIN spec.init
<1>1. spec.init \in Seq([req : Resources, restartable : BOOLEAN])
    BY DEF PodSpec
<1>2. /\ IsFiniteSet(DOMAIN spec.init)
      /\ \A i \in DOMAIN spec.init : spec.init[i] \in [req : Resources, restartable : BOOLEAN]
    BY <1>1, SequenceFinite
<1> QED
    BY <1>2 DEF InitRequests, Sidecars

LEMMA RunningType ==
    ASSUME NEW spec \in PodSpec PROVE Running(spec) \in Resources
<1> DEFINE r == InitRequests(spec)
<1>1. /\ IsFiniteSet(DOMAIN spec.containers)
      /\ \A i \in DOMAIN spec.containers : spec.containers[i] \in Resources
    BY SequenceFinite DEF PodSpec
<1>2. IsFiniteSet(Sidecars(spec)) /\ \A i \in Sidecars(spec) : r[i] \in Resources
    BY InitRequestsType, FS_Subset
<1>3. Sidecars(spec) \subseteq DOMAIN r
    BY InitRequestsType
<1> HIDE DEF r
<1>4. SumOver(spec.containers, DOMAIN spec.containers) \in Resources
    BY <1>1, SumOverType
<1>5. SumOver(r, Sidecars(spec)) \in Resources
    BY <1>2, <1>3, SumOverType
<1> QED
    BY <1>4, <1>5, PlusType DEF Running, r

\* What a pod requests is no negative amount.
LEMMA RequestType == Request \in [Pods -> Resources]
<1> SUFFICES ASSUME NEW p \in Pods PROVE podEffectiveRequests(SpecOf[p]) \in Resources
    BY DEF Request
<1> DEFINE spec == SpecOf[p]
           r == InitRequests(spec)
           others == DOMAIN spec.init \ Sidecars(spec)
<1>1. spec \in PodSpec
    BY EstimatorAssumption
<1> HIDE DEF spec
<1>2. spec.overhead \in Resources /\ Running(spec) \in Resources
    BY <1>1, RunningType DEF PodSpec
<1>3. IsFiniteSet(others) /\ \A i \in others : r[i] \in Resources
    BY <1>1, InitRequestsType, FS_Subset
<1> HIDE DEF r, others
<1>4. MaxOver(r, others) \in Resources
    BY <1>3, MaxOverType
<1> QED
    BY <1>2, <1>4, PlusType, LargerOfType DEF podEffectiveRequests, spec, r, others

LEMMA TemplateType == TemplateSize \in Resources
BY PolicyAssumption DEF TemplateSize, Resources

\* Taking off what is covered leaves no negative amount.
LEMMA CoversMinus ==
    ASSUME NEW free \in Resources, NEW r \in Resources, Covers(free, r)
    PROVE  Minus(free, r) \in Resources
BY DEF Covers, Minus, Resources

\* Pods are added to a sum one by one.
LEMMA SumOfAdd ==
    ASSUME NEW S, S \subseteq Pods, NEW p \in Pods, p \notin S
    PROVE  SumOf(S \cup {p}) = Plus(Request[p], SumOf(S))
<1> DEFINE c == [i \in DOMAIN Request |-> Request[i].cpu]
           m == [i \in DOMAIN Request |-> Request[i].mem]
<1>1. /\ \A i \in S \cup {p} : c[i] \in Nat /\ m[i] \in Nat
      /\ c[p] = Request[p].cpu /\ m[p] = Request[p].mem
  <2>1. DOMAIN Request = Pods /\ \A i \in Pods : Request[i] \in Resources
      BY RequestType
  <2> QED
      BY <2>1 DEF Resources
<1>2. IsFiniteSet(S)
    BY EstimatorAssumption, FS_Subset
<1> HIDE DEF c, m
<1>3. /\ SumFunctionOnSet(c, S \cup {p}) = c[p] + SumFunctionOnSet(c, S)
      /\ SumFunctionOnSet(m, S \cup {p}) = m[p] + SumFunctionOnSet(m, S)
    BY <1>1, <1>2, SumAdd
<1> QED
    BY <1>1, <1>3 DEF SumOf, SumOver, Plus, c, m

LEMMA SumOfType == ASSUME NEW S, S \subseteq Pods PROVE SumOf(S) \in Resources
<1>1. IsFiniteSet(S)
    BY EstimatorAssumption, FS_Subset
<1> QED
    BY <1>1, RequestType, SumOverType DEF SumOf

\* No pods request nothing.
LEMMA SumOfNone == SumOf({}) = Nothing
BY SumEmpty DEF SumOf, SumOver, Nothing

----------------------------------------------------------------------------
(* The policy *)

LEMMA CeilDivType ==
    ASSUME NEW a \in Nat, NEW b \in Nat \ {0} PROVE ceilDiv(a, b) \in Nat
BY DEF ceilDiv

\* What the opened nodes have given away is no negative amount.
LEMMA DeltaType ==
    ASSUME TypeOK, BinsUsed
    PROVE  Delta \in Resources
<1> DEFINE given == [i \in DOMAIN openNewNodes |-> Minus(TemplateSize, openNewNodes[i])]
<1>1. IsFiniteSet(DOMAIN openNewNodes) /\ \A i \in DOMAIN openNewNodes : openNewNodes[i] \in Resources
    BY SequenceFinite DEF TypeOK
<1>2. \A i \in DOMAIN openNewNodes : given[i] \in Resources
    BY <1>1, TemplateType, CoversMinus DEF BinsUsed
<1>3. DOMAIN given = DOMAIN openNewNodes
    OBVIOUS
<1> HIDE DEF given
<1>4. SumOver(given, DOMAIN given) \in Resources
    BY <1>1, <1>2, <1>3, SumOverType
<1> QED
    BY <1>4 DEF Delta, given

\* A decision to scale up is for some nodes, and for no more than fit below the
\* limit.
LEMMA DecisionBound ==
    ASSUME TypeOK, BinsUsed, NEW current \in Nat, Evaluate(Delta, current).ScaleUp
    PROVE  /\ Evaluate(Delta, current).Count \in Nat \ {0}
           /\ current + Evaluate(Delta, current).Count <= MaxNodes
<1>1. NeededFor(Delta) \in Nat
    BY DeltaType, CeilDivType, PolicyAssumption DEF NeededFor, Larger, Resources
<1>2. current < MaxNodes /\ MaxNodes \in Nat
    BY PolicyAssumption DEF Evaluate
<1>3. Evaluate(Delta, current).Count = WithinHeadroom(Larger(NeededFor(Delta), 1), current)
    BY DEF Evaluate
<1> QED
    BY <1>1, <1>2, <1>3 DEF WithinHeadroom, Smaller, Larger

----------------------------------------------------------------------------
(* Types and the limit *)

Inv == TypeOK /\ EstimateInv /\ Headroom

LEMMA NodesFinite ==
    ASSUME TypeOK
    PROVE  /\ IsFiniteSet(nodes) /\ Cardinality(nodes) \in Nat
           /\ IsFiniteSet(abandoned) /\ Cardinality(abandoned) \in Nat
           /\ IsFiniteSet(nodes \ abandoned) /\ Cardinality(nodes \ abandoned) \in Nat
           /\ Cardinality(nodes \ abandoned) <= Cardinality(nodes)
BY EstimatorAssumption, FS_Subset, FS_CardinalityType DEF TypeOK

LEMMA DisjointUnion ==
    ASSUME NEW S, IsFiniteSet(S), NEW T, IsFiniteSet(T), S \cap T = {}
    PROVE  Cardinality(S \cup T) = Cardinality(S) + Cardinality(T)
<1>1. Cardinality(S \cap T) = 0
    BY FS_EmptySet
<1>2. Cardinality(S \cup T) = Cardinality(S) + Cardinality(T) - Cardinality(S \cap T)
    BY ONLY FS_Union, IsFiniteSet(S), IsFiniteSet(T)
<1>3. Cardinality(S) \in Nat /\ Cardinality(T) \in Nat
    BY ONLY FS_CardinalityType, IsFiniteSet(S), IsFiniteSet(T)
<1> QED
    BY ONLY <1>1, <1>2, <1>3

\* While a node is still to be created there is a name for it, although the
\* abandoned containers keep theirs.
LEMMA FreshNameExists ==
    ASSUME TypeOK, Cardinality(nodes \ abandoned) < MaxNodes, Cardinality(abandoned) <= failures
    PROVE  FreshName \in Names \ (nodes \cup abandoned)
<1> DEFINE used == nodes \cup abandoned
<1>1. used = (nodes \ abandoned) \cup abandoned
    OBVIOUS
<1>2. Cardinality(used) = Cardinality(nodes \ abandoned) + Cardinality(abandoned)
  <2>1. IsFiniteSet(nodes \ abandoned) /\ IsFiniteSet(abandoned) /\ (nodes \ abandoned) \cap abandoned = {}
      BY NodesFinite
  <2> QED
      BY ONLY <1>1, <2>1, DisjointUnion
<1>3. Cardinality(used) < Cardinality(Names)
  <2>1. failures <= MaxFailures /\ failures \in Nat /\ MaxFailures \in Nat /\ MaxNodes \in Nat
      BY RoundsAssumption, PolicyAssumption DEF TypeOK
  <2>2. Cardinality(Names) \in Nat /\ Cardinality(Names) >= MaxNodes + MaxFailures
      BY RoundsAssumption, EstimatorAssumption, FS_CardinalityType
  <2> QED
      BY <1>2, <2>1, <2>2, NodesFinite
<1>4. used # Names
  <2>1. Cardinality(used) \in Nat /\ Cardinality(Names) \in Nat
      BY <1>2, EstimatorAssumption, NodesFinite, FS_CardinalityType
  <2> QED
      BY ONLY <1>3, <2>1
<1>5. \E n \in Names : n \notin nodes \cup abandoned
    BY <1>4 DEF TypeOK
<1> QED
    BY <1>5 DEF FreshName

LEMMA InitInv == Init => Inv
<1> SUFFICES ASSUME Init PROVE Inv
    OBVIOUS
<1> USE DEF Init, NoEstimate
<1>1. TypeOK
    BY RoundsAssumption DEF TypeOK, Steps
<1>2. EstimateInv
    BY DEF EstimateInv, EstimateIsLocal, PlacedOnce, BinsUsed
<1>3. Headroom
  <2>1. abandoned = {} /\ nodes \ abandoned = AtStart /\ Cardinality(abandoned) = 0
      BY FS_EmptySet
  <2> QED
      BY <2>1, RoundsAssumption DEF Headroom, NodesWithinMax
<1> QED
    BY <1>1, <1>2, <1>3 DEF Inv

\* Without an estimate its invariants hold.
LEMMA NoEstimateInv == ASSUME DropEstimate PROVE EstimateInv'
BY DEF DropEstimate, EstimateInv, EstimateIsLocal, PlacedOnce, BinsUsed

\* A round may end at any point.
LEMMA ReturnInv ==
    ASSUME Inv, Return, UNCHANGED cluster
    PROVE  Inv'
<1>1. TypeOK'
    BY DEF Inv, TypeOK, Return, DropEstimate, cluster, Steps
<1>2. Headroom'
    BY DEF Inv, Headroom, NodesWithinMax, Return, cluster
<1> QED
    BY <1>1, <1>2, NoEstimateInv DEF Inv, Return

\* The steps that leave the round and the estimate alone; only abandoned
\* containers get a Node in them.
LEMMA ClusterInv ==
    ASSUME Inv, UNCHANGED <<failures, abandoned, pc, round, estimate>>,
           nodes \subseteq nodes', nodes' \subseteq nodes \cup abandoned,
           ready' \subseteq nodes', place' \in [Pods -> nodes' \cup {Absent, Waiting}]
    PROVE  Inv'
<1> USE DEF Inv, round, estimate
<1>1. TypeOK'
    BY DEF TypeOK
<1>2. EstimateInv'
    BY DEF EstimateInv, EstimateIsLocal, PlacedOnce, BinsUsed
<1>3. Headroom'
  <2>1. (nodes \ abandoned)' = nodes \ abandoned
      OBVIOUS
  <2> QED
      BY <2>1 DEF Headroom, NodesWithinMax
<1> QED
    BY <1>1, <1>2, <1>3

\* The steps of the creation loop.
LEMMA CreationInv ==
    ASSUME Inv, pc = "create", left > 0, left' = left - 1,
           \/ UNCHANGED <<nodes, abandoned>>
           \/ nodes' = nodes \cup {FreshName} /\ UNCHANGED abandoned
           \/ abandoned' = abandoned \cup {FreshName} /\ failures' = failures + 1 /\ UNCHANGED nodes,
           failures' \in failures..MaxFailures,
           ready' \subseteq nodes', UNCHANGED <<place, pc, unschedulable, count, estimate>>
    PROVE  Inv'
<1> USE DEF Inv, estimate
<1>1. /\ IsFiniteSet(nodes \ abandoned) /\ Cardinality(nodes \ abandoned) \in Nat
      /\ IsFiniteSet(abandoned) /\ Cardinality(abandoned) \in Nat
    BY NodesFinite
<1>2. /\ left \in Nat /\ count \in Nat /\ failures \in Nat /\ MaxNodes \in Nat /\ MaxFailures \in Nat
      /\ Cardinality(nodes \ abandoned) + left <= MaxNodes /\ Cardinality(abandoned) <= failures
    BY PolicyAssumption, RoundsAssumption DEF TypeOK, Headroom
<1>3. FreshName \in Names \ (nodes \cup abandoned)
    BY <1>1, <1>2, FreshNameExists
<1>4. failures' \in Nat /\ failures <= failures' /\ failures' <= MaxFailures
    BY <1>2
<1>5. /\ Cardinality((nodes \ abandoned)') \in Nat
      /\ Cardinality((nodes \ abandoned)') <= Cardinality(nodes \ abandoned) + 1
      /\ Cardinality(abandoned') <= failures'
  <2>1. CASE UNCHANGED <<nodes, abandoned>>
      BY <1>1, <1>2, <1>4, <2>1
  <2>2. CASE nodes' = nodes \cup {FreshName} /\ UNCHANGED abandoned
    <3>1. (nodes \ abandoned)' = (nodes \ abandoned) \cup {FreshName}
        BY <1>3, <2>2
    <3>2. Cardinality((nodes \ abandoned) \cup {FreshName}) = Cardinality(nodes \ abandoned) + 1
        BY <1>1, <1>3, FS_AddElement
    <3>3. Cardinality((nodes \ abandoned)') = Cardinality(nodes \ abandoned) + 1
        BY ONLY <3>1, <3>2
    <3>4. Cardinality(abandoned') <= failures'
      <4>1. abandoned' = abandoned
          BY <2>2
      <4> QED
          BY ONLY <1>1, <1>2, <1>4, <4>1
    <3> QED
        BY ONLY <1>1, <3>3, <3>4
  <2>3. CASE abandoned' = abandoned \cup {FreshName} /\ failures' = failures + 1 /\ UNCHANGED nodes
    <3>1. (nodes \ abandoned)' = nodes \ abandoned
        BY <1>3, <2>3
    <3>2. Cardinality(abandoned') = Cardinality(abandoned) + 1
        BY <1>1, <1>3, <2>3, FS_AddElement
    <3> QED
        BY <1>1, <1>2, <2>3, <3>1, <3>2
  <2> QED
      BY <2>1, <2>2, <2>3
<1>6. TypeOK'
    BY <1>2, <1>3, <1>4 DEF TypeOK
<1>7. EstimateInv'
    BY DEF EstimateInv, EstimateIsLocal, PlacedOnce, BinsUsed
<1>8. Headroom'
    BY <1>1, <1>2, <1>5 DEF Headroom, NodesWithinMax
<1> QED
    BY <1>6, <1>7, <1>8

\* What is left of the packing after p's turn.
LEMMA PlaceInv ==
    ASSUME Inv, NEW p \in Pods, Place(p), pc = "pack", UNCHANGED <<cluster, pc, round>>
    PROVE  Inv'
<1> USE DEF Inv, cluster, round
<1>1. /\ p \in feasible /\ feasible' = feasible \ {p}
      /\ p \in unschedulable \ (Unsupported \cup ZeroRequest)
    BY DEF Place, PlaceOnExisting, PlaceOnOpened, Reject, OpenNode, Turn, EstimateInv, PlacedOnce
<1>0. placedPods' \cup infeasiblePods' \subseteq NamesOf(unschedulable)
  <2>1. NameOf[p] \in NamesOf(unschedulable) /\ placedPods \cup infeasiblePods \subseteq NamesOf(unschedulable)
      BY <1>1 DEF NamesOf, TypeOK
  <2> QED
      BY <2>1 DEF Place, PlaceOnExisting, PlaceOnOpened, Reject, OpenNode, Record
<1>2. Request[p] \in Resources /\ Request[p] # Nothing
    BY <1>1, RequestType DEF ZeroRequest
<1>3. Headroom'
    BY DEF Headroom, NodesWithinMax
<1>4. EstimateIsLocal'
    BY DEF EstimateIsLocal
<1>5. CASE PlaceOnExisting(p)
  <2>1. PICK n \in FitExisting(p) :
            /\ existing' = [existing EXCEPT ![n] = Minus(@, Request[p])]
            /\ packed' = packed \cup {<<p, n>>}
            /\ UNCHANGED <<openNewNodes, infeasiblePods>>
      BY <1>5 DEF PlaceOnExisting, BestFit, Record
  <2>2. n \in DOMAIN existing /\ Minus(existing[n], Request[p]) \in Resources
      BY <1>2, <2>1, CoversMinus DEF FitExisting, TypeOK
  <2>3. TypeOK'
      BY <1>0, <1>1, <2>1, <2>2 DEF TypeOK
  <2>4. PlacedOnce'
      BY <1>1, <2>1, <2>2 DEF EstimateInv, PlacedOnce
  <2>5. BinsUsed'
      BY <2>1 DEF EstimateInv, BinsUsed
  <2> QED
      BY <1>3, <1>4, <2>3, <2>4, <2>5 DEF EstimateInv
<1>6. CASE PlaceOnOpened(p)
  <2>1. PICK i \in FitOpened(p) :
            /\ openNewNodes' = [openNewNodes EXCEPT ![i] = Minus(@, Request[p])]
            /\ packed' = packed \cup {<<p, i>>}
            /\ UNCHANGED <<existing, infeasiblePods>>
      BY <1>6 DEF PlaceOnOpened, BestFit, Record
  <2>2. /\ i \in DOMAIN openNewNodes /\ openNewNodes[i] \in Resources
        /\ Minus(openNewNodes[i], Request[p]) \in Resources
      BY <1>2, <2>1, CoversMinus DEF FitOpened, TypeOK
  <2>3. openNewNodes' \in Seq(Resources) /\ DOMAIN openNewNodes' = DOMAIN openNewNodes
      BY <2>1, <2>2 DEF TypeOK
  <2>4. TypeOK'
      BY <1>0, <1>1, <2>1, <2>3 DEF TypeOK
  <2>5. PlacedOnce'
      BY <1>1, <2>1, <2>2, <2>3 DEF EstimateInv, PlacedOnce
  <2>6. BinsUsed'
    <3>1. Covers(TemplateSize, openNewNodes[i]) /\ TemplateSize \in Resources
        BY <2>2, TemplateType DEF EstimateInv, BinsUsed
    <3>2. /\ Covers(TemplateSize, Minus(openNewNodes[i], Request[p]))
          /\ Minus(openNewNodes[i], Request[p]) # TemplateSize
        BY <1>2, <2>2, <3>1 DEF Covers, Minus, Resources, Nothing
    <3> QED
        BY <2>1, <2>2, <2>3, <3>2 DEF EstimateInv, BinsUsed, TypeOK
  <2> QED
      BY <1>3, <1>4, <2>4, <2>5, <2>6 DEF EstimateInv
<1>7. CASE Reject(p)
  <2>1. TypeOK'
      BY <1>0, <1>1, <1>7 DEF TypeOK, Reject
  <2>2. PlacedOnce' /\ BinsUsed'
      BY <1>1, <1>7 DEF EstimateInv, PlacedOnce, BinsUsed, Reject
  <2> QED
      BY <1>3, <1>4, <2>1, <2>2 DEF EstimateInv
<1>8. CASE OpenNode(p)
  <2> DEFINE bin == Minus(TemplateSize, Request[p])
             last == Len(openNewNodes) + 1
  <2>1. /\ openNewNodes' = Append(openNewNodes, bin)
        /\ packed' = packed \cup {<<p, last>>}
        /\ Covers(TemplateSize, Request[p])
        /\ UNCHANGED <<existing, infeasiblePods>>
      BY <1>8 DEF OpenNode, FitsTemplate, Record
  <2>2. bin \in Resources
      BY <1>2, <2>1, TemplateType, CoversMinus
  <2>3. Covers(TemplateSize, bin) /\ bin # TemplateSize
      BY <1>2, TemplateType DEF Covers, Minus, Resources, Nothing
  <2> HIDE DEF bin
  <2>4. /\ openNewNodes' \in Seq(Resources)
        /\ DOMAIN openNewNodes' = DOMAIN openNewNodes \cup {last}
        /\ openNewNodes'[last] = bin
        /\ \A i \in DOMAIN openNewNodes : openNewNodes'[i] = openNewNodes[i]
      BY <2>1, <2>2 DEF TypeOK
  <2>5. TypeOK'
      BY <1>0, <1>1, <2>1, <2>4 DEF TypeOK
  <2>6. PlacedOnce'
      BY <1>1, <2>1, <2>4 DEF EstimateInv, PlacedOnce
  <2>7. BinsUsed'
      BY <2>3, <2>4 DEF EstimateInv, BinsUsed
  <2> QED
      BY <1>3, <1>4, <2>5, <2>6, <2>7 DEF EstimateInv
<1> QED
    BY <1>5, <1>6, <1>7, <1>8 DEF Place

\* An overloaded node has nothing free, which is no negative amount.
LEMMA FreeOnType ==
    ASSUME NEW n \in Names PROVE FreeOn(n) \in Resources
<1>1. Capacity[n] \in Resources /\ SumOf(On(n)) \in Resources
    BY RoundsAssumption, SumOfType DEF On
<1> QED
    BY <1>1 DEF FreeOn, LargerOf, Larger, Minus, Nothing, Resources

LEMMA NextInv == Inv /\ [Next]_vars => Inv'
<1> SUFFICES ASSUME Inv, [Next]_vars PROVE Inv'
    OBVIOUS
<1> USE DEF Inv
<1>1. CASE DetectUnschedulablePods
  <2> USE DEF DetectUnschedulablePods, cluster, estimate
  <2>1. EstimateInv'
      BY <1>1 DEF EstimateInv, EstimateIsLocal, PlacedOnce, BinsUsed
  <2>2. TypeOK'
      BY <1>1 DEF EstimateInv, EstimateIsLocal, TypeOK, Steps
  <2>3. Headroom'
      BY <1>1 DEF Headroom, NodesWithinMax
  <2> QED
      BY <2>1, <2>2, <2>3
<1>2. CASE EstimateDetailed
  <2> USE DEF EstimateDetailed, StartEstimate, cluster, round
  <2>1. \A n \in ready : FreeOn(n) \in Resources
      BY FreeOnType DEF TypeOK
  <2>2. TypeOK'
    <3>1. /\ existing' = [n \in ready |-> FreeOn(n)]
          /\ openNewNodes' = <<>>
          /\ feasible' \subseteq unschedulable /\ packed' = {}
          /\ pc' = "pack"
          /\ UNCHANGED <<nodes, ready, place, failures, abandoned, unschedulable, count, left>>
        BY <1>2
    <3>2. placedPods' \cup infeasiblePods' \subseteq NamesOf(unschedulable)
        BY <1>2 DEF NamesOf
    <3>3. DOMAIN existing' = ready /\ \A n \in DOMAIN existing' : existing'[n] \in Resources
        BY <2>1, <3>1
    <3> QED
        BY <3>1, <3>2, <3>3 DEF TypeOK, Steps
  <2>3. EstimateInv'
      BY <1>2 DEF EstimateInv, EstimateIsLocal, PlacedOnce, BinsUsed
  <2>4. Headroom'
      BY <1>2 DEF Headroom, NodesWithinMax
  <2> QED
      BY <2>2, <2>3, <2>4
<1>3. CASE Pack
    BY <1>3, PlaceInv DEF Pack
<1>4. CASE Estimated
  <2>1. CASE NodesNeeded = 0
      BY <1>4, <2>1, ReturnInv DEF Estimated
  <2>2. CASE NodesNeeded # 0
    <3> USE DEF Estimated, cluster, round, estimate
    <3>1. TypeOK'
        BY <1>4, <2>2 DEF TypeOK, Steps
    <3>2. EstimateInv'
        BY <1>4, <2>2 DEF EstimateInv, EstimateIsLocal, PlacedOnce, BinsUsed
    <3>3. Headroom'
        BY <1>4, <2>2 DEF Headroom, NodesWithinMax
    <3> QED
        BY <3>1, <3>2, <3>3
  <2> QED
      BY <2>1, <2>2
<1>5. CASE Decide
  <2> DEFINE dec == Evaluate(Delta, Cardinality(nodes))
  <2>1. CASE ~dec.ScaleUp
      BY <1>5, <2>1, ReturnInv DEF Decide
  <2>2. CASE dec.ScaleUp
    <3>1. /\ count' = Smaller(dec.Count, NodesNeeded) /\ pc' = "scaleUp" /\ DropEstimate
          /\ UNCHANGED <<cluster, unschedulable, left>> /\ pc = "decide"
        BY <1>5, <2>2 DEF Decide
    <3>2. Cardinality(nodes) \in Nat
        BY NodesFinite
    <3>3. dec.Count \in Nat /\ Cardinality(nodes) + dec.Count <= MaxNodes
        BY <2>2, <3>2, DecisionBound DEF EstimateInv
    <3>8. /\ Cardinality(nodes \ abandoned) \in Nat
          /\ Cardinality(nodes \ abandoned) <= Cardinality(nodes)
        BY NodesFinite
    <3>4. NodesNeeded \in Nat
        BY DEF NodesNeeded, TypeOK
    <3> HIDE DEF dec
    <3>5. count' \in Nat /\ Cardinality(nodes \ abandoned) + count' <= MaxNodes
        BY <3>1, <3>2, <3>3, <3>4, <3>8, PolicyAssumption DEF Smaller
    <3>6. TypeOK'
        BY <3>1, <3>5 DEF TypeOK, Headroom, Steps, DropEstimate, cluster
    <3>7. Headroom'
        BY <3>1, <3>5 DEF Headroom, NodesWithinMax, cluster
    <3> QED
        BY <3>1, <3>6, <3>7, NoEstimateInv
  <2> QED
      BY <2>1, <2>2
<1>6. CASE handleScaleUp
  <2>1. CASE ~(ToProvision > 0)
      BY <1>6, <2>1, ReturnInv DEF handleScaleUp
  <2>2. CASE ToProvision > 0
    <3> USE DEF handleScaleUp, cluster, estimate
    <3>1. Cardinality(nodes \ ready) \in Nat
        BY NodesFinite, FS_Subset, FS_CardinalityType
    <3>2. ToProvision \in Nat /\ ToProvision <= count /\ Cardinality(nodes \ abandoned) \in Nat
        BY <2>2, <3>1, NodesFinite DEF ToProvision, TypeOK
    <3>3. TypeOK'
        BY <1>6, <2>2, <3>2 DEF TypeOK, Steps
    <3>4. EstimateInv'
        BY <1>6, <2>2 DEF EstimateInv, EstimateIsLocal, PlacedOnce, BinsUsed
    <3>5. Headroom'
        BY <1>6, <2>2, <3>2, PolicyAssumption DEF Headroom, NodesWithinMax, TypeOK
    <3> QED
        BY <3>3, <3>4, <3>5
  <2> QED
      BY <2>1, <2>2
<1>7. CASE CreateNode
  <2>1. ready' \subseteq nodes' /\ failures' \in failures..MaxFailures
      BY <1>7, RoundsAssumption DEF CreateNode, TypeOK
  <2> QED
      BY <1>7, <2>1, CreationInv DEF CreateNode
<1>8. CASE CreateNodeFails
  <2>1. ready' \subseteq nodes' /\ failures' \in failures..MaxFailures
      BY <1>8, RoundsAssumption DEF CreateNodeFails, TypeOK
  <2>2. \/ nodes' = nodes \cup {FreshName} /\ UNCHANGED abandoned
        \/ abandoned' = abandoned \cup {FreshName} /\ failures' = failures + 1 /\ UNCHANGED nodes
        \/ UNCHANGED <<nodes, abandoned>>
      BY <1>8 DEF CreateNodeFails
  <2> QED
      BY <1>8, <2>1, <2>2, CreationInv DEF CreateNodeFails
<1>9. CASE EndScaleUp
    BY <1>9, ReturnInv DEF EndScaleUp
<1>10. CASE Schedule
  <2>1. place' \in [Pods -> nodes \cup {Absent, Waiting}]
      BY <1>10 DEF Schedule, TypeOK
  <2> QED
      BY <1>10, <2>1, ClusterInv DEF Schedule, TypeOK
<1>11. ASSUME NEW p \in Pods, Submit(p) PROVE Inv'
  <2>1. place' \in [Pods -> nodes \cup {Absent, Waiting}]
      BY <1>11 DEF Submit, TypeOK
  <2> QED
      BY <1>11, <2>1, ClusterInv DEF Submit, TypeOK
<1>12. ASSUME NEW n \in Names, Register(n) \/ GetReady(n) PROVE Inv'
  <2>1. place' \in [Pods -> nodes' \cup {Absent, Waiting}]
      BY <1>12 DEF Register, GetReady, TypeOK
  <2> QED
      BY <1>12, <2>1, ClusterInv DEF Register, GetReady, TypeOK
<1>13. CASE UNCHANGED vars
  <2> USE DEF vars, cluster, round, estimate
  <2>1. TypeOK'
      BY <1>13 DEF TypeOK
  <2>2. EstimateInv'
      BY <1>13 DEF EstimateInv, EstimateIsLocal, PlacedOnce, BinsUsed
  <2>3. Headroom'
      BY <1>13 DEF Headroom, NodesWithinMax
  <2> QED
      BY <2>1, <2>2, <2>3
<1> QED
    BY <1>1, <1>2, <1>3, <1>4, <1>5, <1>6, <1>7, <1>8, <1>9, <1>10, <1>11, <1>12, <1>13
    DEF Next, Reconcile

\* Every variable stays in its domain; in particular no turn of EstimateDetailed
\* takes more from an existing or an opened node than is free there.
THEOREM TypeCorrect == Spec => []TypeOK
<1>1. Inv => TypeOK
    BY DEF Inv
<1> QED
    BY <1>1, InitInv, NextInv, PTL DEF Spec

\* Over any number of rounds and whatever becomes of the calls, the nodes exceed
\* MaxNodes by no more than those that registered after CreateNode had given them
\* up: Evaluate cuts the count down to the headroom, and each turn of the loop in
\* handleScaleUp uses up one of the rest.
THEOREM NodesWithinMaxHolds == Spec => []NodesWithinMax
<1>1. Inv => NodesWithinMax
    BY DEF Inv, Headroom
<1> QED
    BY <1>1, InitInv, NextInv, PTL DEF Spec

----------------------------------------------------------------------------
(* The packing *)

\* What a step does to the estimate.
LEMMA EstimateSteps ==
    ASSUME [Next]_vars
    PROVE  \/ /\ pc = "pack" /\ UNCHANGED <<cluster, pc, round>>
              /\ \E p \in Pods : Place(p)
           \/ EstimateDetailed
           \/ DropEstimate /\ pc' \notin {"pack", "decide"}
           \/ /\ UNCHANGED estimate
              /\ pc' = "pack" => pc = "pack" /\ UNCHANGED place
              /\ pc' \in {"pack", "decide"} => pc \in {"pack", "decide"} /\ UNCHANGED unschedulable
<1> USE DEF cluster, round
<1>1. CASE Reconcile
    BY <1>1 DEF Reconcile, DetectUnschedulablePods, Pack, Estimated, Return, Decide, handleScaleUp,
                CreateNode, CreateNodeFails, EndScaleUp
<1>2. CASE Schedule
    BY <1>2 DEF Schedule
<1>3. ASSUME NEW p \in Pods, Submit(p) PROVE UNCHANGED estimate /\ pc = "idle" /\ pc' = "idle"
    BY <1>3 DEF Submit
<1>4. ASSUME NEW n \in Names, Register(n) \/ GetReady(n) PROVE UNCHANGED <<round, estimate>> /\ pc # "pack" /\ pc' = pc
    BY <1>4 DEF Register, GetReady
<1>5. CASE UNCHANGED vars
    BY <1>5 DEF vars
<1> QED
    BY <1>1, <1>2, <1>3, <1>4, <1>5 DEF Next

\* What fits after something was taken off did fit before.
LEMMA CoversShrink ==
    ASSUME NEW free \in Resources, NEW r \in Resources, NEW q \in Resources,
           Covers(Minus(free, r), q)
    PROVE  Covers(free, q)
BY DEF Covers, Minus, Resources

\* No turn gives a pod a node that it did not fit on before, but the one it opens.
LEMMA FitsShrink ==
    ASSUME TypeOK, NEW p \in Pods, Place(p), NEW q \in Pods
    PROVE  /\ FitExisting(q)' \subseteq FitExisting(q)
           /\ FitOpened(q)' \subseteq FitOpened(q) \cup {Len(openNewNodes) + 1}
           /\ packed \subseteq packed'
<1>1. Request[p] \in Resources /\ Request[q] \in Resources
    BY RequestType
<1>2. CASE PlaceOnExisting(p)
  <2>1. PICK n \in DOMAIN existing :
            /\ existing' = [existing EXCEPT ![n] = Minus(@, Request[p])]
            /\ packed \subseteq packed'
            /\ openNewNodes' = openNewNodes
      BY <1>2 DEF PlaceOnExisting, BestFit, FitExisting, Record
  <2>2. \A m \in DOMAIN existing' :
            m \in DOMAIN existing /\ (Covers(existing'[m], Request[q]) => Covers(existing[m], Request[q]))
      BY <1>1, <2>1, CoversShrink DEF TypeOK
  <2> QED
      BY <2>1, <2>2 DEF FitExisting, FitOpened
<1>3. CASE PlaceOnOpened(p)
  <2>1. PICK i \in DOMAIN openNewNodes :
            /\ openNewNodes' = [openNewNodes EXCEPT ![i] = Minus(@, Request[p])]
            /\ packed \subseteq packed'
            /\ existing' = existing
      BY <1>3 DEF PlaceOnOpened, BestFit, FitOpened, Record
  <2>2. \A j \in DOMAIN openNewNodes : openNewNodes[j] \in Resources
      BY SequenceFinite DEF TypeOK
  <2>3. \A j \in DOMAIN openNewNodes' :
            /\ j \in DOMAIN openNewNodes
            /\ Covers(openNewNodes'[j], Request[q]) => Covers(openNewNodes[j], Request[q])
      BY <1>1, <2>1, <2>2, CoversShrink
  <2> QED
      BY <2>1, <2>3 DEF FitExisting, FitOpened
<1>4. CASE Reject(p)
    BY <1>4 DEF Reject, FitExisting, FitOpened
<1>5. CASE OpenNode(p)
  <2>1. /\ openNewNodes' = Append(openNewNodes, Minus(TemplateSize, Request[p]))
        /\ packed \subseteq packed' /\ existing' = existing
      BY <1>5 DEF OpenNode, Record
  <2>2. /\ DOMAIN openNewNodes' = DOMAIN openNewNodes \cup {Len(openNewNodes) + 1}
        /\ \A j \in DOMAIN openNewNodes : openNewNodes'[j] = openNewNodes[j]
      BY <2>1 DEF TypeOK
  <2> QED
      BY <2>1, <2>2 DEF FitExisting, FitOpened
<1> QED
    BY <1>2, <1>3, <1>4, <1>5 DEF Place

\* Bins are opened one by one, and only for a pod that fits nowhere.
LEMMA OpenedBy ==
    ASSUME TypeOK, NEW p \in Pods, Place(p), NEW i \in DOMAIN openNewNodes', i \notin DOMAIN openNewNodes
    PROVE  /\ i = Len(openNewNodes) + 1 /\ <<p, i>> \in packed'
           /\ FitsNowhere(p) /\ FitsTemplate(p)
<1>1. Len(openNewNodes) \in Nat /\ DOMAIN openNewNodes = 1..Len(openNewNodes)
    BY DEF TypeOK
<1>2. CASE PlaceOnExisting(p) \/ Reject(p)
    BY <1>2 DEF PlaceOnExisting, Reject
<1>3. CASE PlaceOnOpened(p)
    BY <1>3 DEF PlaceOnOpened
<1>4. CASE OpenNode(p)
    BY <1>1, <1>4 DEF OpenNode, Record, TypeOK
<1> QED
    BY <1>2, <1>3, <1>4 DEF Place

LEMMA NextNoNodeForNothing == Inv /\ NoNodeForNothing /\ [Next]_vars => NoNodeForNothing'
<1> SUFFICES ASSUME Inv, NoNodeForNothing, [Next]_vars, NEW i \in DOMAIN openNewNodes'
             PROVE  \E q \in PlacedOn(i)' : FitExisting(q)' = {} /\ \A j \in FitOpened(q)' : j >= i
    BY DEF NoNodeForNothing
<1>1. CASE \E p \in Pods : Place(p)
  <2>1. PICK p \in Pods : Place(p)
      BY <1>1
  <2>2. TypeOK /\ Len(openNewNodes) \in Nat /\ DOMAIN openNewNodes = 1..Len(openNewNodes)
      BY DEF Inv, TypeOK
  <2>3. CASE i \in DOMAIN openNewNodes
    <3>1. PICK q \in PlacedOn(i) : FitExisting(q) = {} /\ \A j \in FitOpened(q) : j >= i
        BY <2>3 DEF NoNodeForNothing
    <3>2. q \in Pods
        BY DEF PlacedOn
    <3>3. q \in PlacedOn(i)'
        BY <2>1, <2>2, <3>2, FitsShrink DEF PlacedOn
    <3>4. FitExisting(q)' = {} /\ \A j \in FitOpened(q)' : j >= i
        BY <2>1, <2>2, <2>3, <3>1, <3>2, FitsShrink
    <3> QED
        BY <3>3, <3>4
  <2>4. CASE i \notin DOMAIN openNewNodes
    <3>1. i = Len(openNewNodes) + 1 /\ <<p, i>> \in packed' /\ FitsNowhere(p)
        BY <2>1, <2>2, <2>4, OpenedBy
    <3>2. p \in PlacedOn(i)'
        BY <3>1 DEF PlacedOn
    <3>3. FitExisting(p)' = {} /\ \A j \in FitOpened(p)' : j >= i
        BY <2>1, <2>2, <3>1, FitsShrink DEF FitsNowhere
    <3> QED
        BY <3>2, <3>3
  <2> QED
      BY <2>3, <2>4
<1>2. CASE EstimateDetailed \/ DropEstimate
    BY <1>2 DEF EstimateDetailed, StartEstimate, DropEstimate
<1>3. CASE UNCHANGED estimate
    BY <1>3 DEF estimate, NoNodeForNothing, PlacedOn, FitExisting, FitOpened
<1> QED
    BY <1>1, <1>2, <1>3, EstimateSteps

\* EstimateDetailed opens a template node only for a pod that fits neither on an
\* existing node nor on one opened before, and that remains so to the end of the
\* packing.
THEOREM NoNodeForNothingHolds == Spec => []NoNodeForNothing
<1>1. Init => NoNodeForNothing
    BY DEF Init, NoEstimate, NoNodeForNothing
<1> QED
    BY <1>1, InitInv, NextInv, NextNoNodeForNothing, PTL DEF Spec

----------------------------------------------------------------------------
(* The report accounts for every pod *)

LEMMA NamesOfMore == \A S, p : NamesOf(S \cup {p}) = NamesOf(S) \cup {NameOf[p]}
BY DEF NamesOf

\* What was refused before the turn of p would still not fit.
LEMMA RefusedStays ==
    ASSUME Inv, Inv', NEW p \in Pods, Place(p), NEW q \in Pods, FitsNowhere(q), ~FitsTemplate(q)
    PROVE  FitsNowhere(q)'
<1>1. FitExisting(q)' = {}
    BY FitsShrink DEF FitsNowhere, Inv
<1>2. ASSUME NEW i \in FitOpened(q)' PROVE FALSE
  <2>1. /\ canPodFitConstraints(q, TemplateLabels, TemplateTaints)
        /\ Covers(openNewNodes'[i], Request[q])
        /\ Covers(TemplateSize, openNewNodes'[i]) /\ openNewNodes'[i] \in Resources
      BY <1>2, SequenceFinite DEF FitOpened, Inv, EstimateInv, BinsUsed, TypeOK
  <2>2. Request[q] \in Resources /\ TemplateSize \in Resources
      BY RequestType, TemplateType
  <2> QED
      BY <2>1, <2>2 DEF FitsTemplate, Covers, Resources
<1> QED
    BY <1>1, <1>2 DEF FitsNowhere

\* The estimate that a turn leaves accounts for every pod.
LEMMA PlaceComplete ==
    ASSUME Inv, Inv', EstimateComplete, NEW p \in Pods, Place(p), pc = "pack",
           UNCHANGED <<cluster, pc, round>>
    PROVE  EstimateComplete'
<1>1. /\ p \in feasible /\ feasible' = feasible \ {p}
      /\ p \in unschedulable \ (Unsupported \cup ZeroRequest) /\ Placements(p) = {}
      /\ unschedulable' = unschedulable /\ unschedulable \subseteq Pods
      /\ Placed \subseteq unschedulable \ feasible /\ Refused = unschedulable \ (feasible \cup Placed)
    BY DEF Place, PlaceOnExisting, PlaceOnOpened, Reject, OpenNode, Turn, Inv, EstimateInv, PlacedOnce,
           TypeOK, Placements, Placed, Refused, round
<1>2. /\ \A q \in unschedulable : \A e, f \in Placements(q) : e = f
      /\ \A q \in Refused : q \in Unsupported \/ (FitsNowhere(q) /\ ~FitsTemplate(q))
      /\ placedPods = NamesOf(Placed) /\ infeasiblePods = NamesOf(Refused)
    BY DEF EstimateComplete
<1>3. \A q \in Refused : q \in Unsupported \/ (FitsNowhere(q)' /\ ~FitsTemplate(q))
    BY <1>1, <1>2, RefusedStays
<1>4. \A q : FitsTemplate(q)' = FitsTemplate(q)
    BY DEF FitsTemplate
<1>5. CASE Reject(p)
  <2>1. /\ UNCHANGED <<packed, placedPods>> /\ infeasiblePods' = infeasiblePods \cup {NameOf[p]}
        /\ FitsNowhere(p) /\ ~FitsTemplate(p)
      BY <1>5 DEF Reject
  <2>2. \A q : Placements(q)' = Placements(q)
      BY <2>1 DEF Placements
  <2>3. Placed' = Placed
      BY <1>1, <2>2 DEF Placed
  <2>4. Refused' = Refused \cup {p}
      BY <1>1, <2>3 DEF Refused
  <2>5. FitsNowhere(p)'
      BY <2>1, RefusedStays
  <2> QED
      BY <1>1, <1>2, <1>3, <1>4, <2>1, <2>2, <2>3, <2>4, <2>5, NamesOfMore DEF EstimateComplete
<1>6. CASE ~Reject(p)
  <2>1. PICK node : packed' = packed \cup {<<p, node>>}
      BY <1>6 DEF Place, PlaceOnExisting, PlaceOnOpened, OpenNode, Record
  <2>2. placedPods' = placedPods \cup {NameOf[p]} /\ UNCHANGED infeasiblePods
      BY <1>6 DEF Place, PlaceOnExisting, PlaceOnOpened, OpenNode, Record
  <2>3. Placements(p)' = {<<p, node>>} /\ \A q : q # p => Placements(q)' = Placements(q)
      BY <1>1, <2>1 DEF Placements
  <2>4. Placed' = Placed \cup {p}
      BY <1>1, <2>3 DEF Placed
  <2>5. Refused' = Refused
      BY <1>1, <2>4 DEF Refused
  <2>6. \A q \in unschedulable' : \A e, f \in Placements(q)' : e = f
      BY <1>1, <1>2, <2>3
  <2>7. placedPods' = NamesOf(Placed') /\ infeasiblePods' = NamesOf(Refused')
      BY <1>2, <2>2, <2>4, <2>5, NamesOfMore
  <2> QED
      BY <1>3, <1>4, <2>5, <2>6, <2>7 DEF EstimateComplete
<1> QED
    BY <1>5, <1>6

LEMMA NextEstimateComplete == Inv /\ EstimateComplete /\ [Next]_vars => EstimateComplete'
<1> SUFFICES ASSUME Inv, EstimateComplete, [Next]_vars PROVE EstimateComplete'
    OBVIOUS
<1>1. ASSUME pc = "pack", UNCHANGED <<cluster, pc, round>>, NEW p \in Pods, Place(p)
      PROVE  EstimateComplete'
    BY <1>1, NextInv, PlaceComplete
<1>2. CASE EstimateDetailed
  <2>1. /\ infeasiblePods' = NamesOf(unschedulable \cap Unsupported)
        /\ placedPods' = NamesOf((unschedulable \cap ZeroRequest) \ Unsupported)
        /\ feasible' = unschedulable \ (Unsupported \cup ZeroRequest)
        /\ packed' = {} /\ unschedulable' = unschedulable
      BY <1>2 DEF EstimateDetailed, StartEstimate, round
  <2>2. \A q : Placements(q)' = {}
      BY <2>1 DEF Placements
  <2>3. Placed' = (unschedulable \cap ZeroRequest) \ Unsupported
      BY <2>1, <2>2 DEF Placed
  <2>4. Refused' = unschedulable \cap Unsupported
      BY <2>1, <2>3 DEF Refused
  <2> QED
      BY <2>1, <2>2, <2>3, <2>4 DEF EstimateComplete
<1>3. CASE DropEstimate /\ pc' \notin {"pack", "decide"}
    BY <1>3 DEF EstimateComplete
<1>4. CASE /\ UNCHANGED estimate
           /\ pc' \in {"pack", "decide"} => pc \in {"pack", "decide"} /\ UNCHANGED unschedulable
    BY <1>4 DEF EstimateComplete, estimate, Placements, Placed, Refused, FitsNowhere, FitsTemplate,
                FitExisting, FitOpened
<1> QED
    BY <1>1, <1>2, <1>3, <1>4, EstimateSteps

\* EstimateDetailed loses no pod and puts none on two nodes, refuses one only if
\* nothing in the finished packing would hold it, and enters the name of each in
\* the map for what became of it; a name is not entered without a pod.
THEOREM EstimateCompleteHolds == Spec => []EstimateComplete
<1>1. Init => EstimateComplete
    BY DEF Init, EstimateComplete
<1> QED
    BY <1>1, InitInv, NextInv, NextEstimateComplete, PTL DEF Spec

----------------------------------------------------------------------------
(* The bookkeeping of the bins *)

\* The pods placed on a node, after one more is.
LEMMA PlacedOnNext ==
    ASSUME NEW p \in Pods, NEW node, packed' = packed \cup {<<p, node>>}
    PROVE  /\ PlacedOn(node)' = PlacedOn(node) \cup {p}
           /\ \A n : n # node => PlacedOn(n)' = PlacedOn(n)
BY DEF PlacedOn

\* If a bin and the pods placed on it make up a whole, they do so with one more
\* pod.
LEMMA MinusMore ==
    ASSUME NEW whole \in [cpu : Int, mem : Int], NEW S, S \subseteq Pods,
           NEW p \in Pods, p \notin S
    PROVE  Minus(whole, SumOf(S \cup {p})) = Minus(Minus(whole, SumOf(S)), Request[p])
<1>1. SumOf(S) \in Resources /\ Request[p] \in Resources
    BY SumOfType, RequestType
<1>2. SumOf(S \cup {p}) = Plus(Request[p], SumOf(S))
    BY SumOfAdd
<1> QED
    BY <1>1, <1>2 DEF Minus, Plus, Resources

\* A pod whose turn it is has not been placed.
LEMMA NotPlaced ==
    ASSUME Inv, NEW p \in feasible, NEW n
    PROVE  p \notin PlacedOn(n) /\ PlacedOn(n) \subseteq Pods
BY DEF Inv, EstimateInv, PlacedOnce, PlacedOn

LEMMA WholeMinusNothing ==
    ASSUME NEW whole \in Resources PROVE Minus(whole, Nothing) = whole
BY DEF Minus, Nothing, Resources

\* One turn changes one bin and what is placed on it.
LEMMA NextBinsAccounted == Inv /\ BinsAccounted /\ [Next]_vars => BinsAccounted'
<1> SUFFICES ASSUME Inv, BinsAccounted, [Next]_vars, pc' = "pack"
             PROVE  /\ \A n \in DOMAIN existing' :
                        Minus(FreeOn(n), SumOf(PlacedOn(n)))' = existing'[n]
                    /\ \A i \in DOMAIN openNewNodes' :
                        Minus(TemplateSize, SumOf(PlacedOn(i)))' = openNewNodes'[i]
    BY DEF BinsAccounted
<1>0. TypeOK /\ \A n \in DOMAIN existing : n \in Names
    BY DEF Inv, TypeOK
<1>1. ASSUME pc = "pack", UNCHANGED <<cluster, pc, round>>, NEW p \in Pods, Place(p)
      PROVE  BinsAccounted'
  <2>1. p \in feasible /\ Request[p] \in Resources
      BY <1>1, RequestType DEF Place, PlaceOnExisting, PlaceOnOpened, Reject, OpenNode, Turn
  <2>2. /\ \A n \in DOMAIN existing : Minus(FreeOn(n), SumOf(PlacedOn(n))) = existing[n]
        /\ \A i \in DOMAIN openNewNodes :
            Minus(TemplateSize, SumOf(PlacedOn(i))) = openNewNodes[i]
      BY <1>1 DEF BinsAccounted
  <2>3. \A n : FreeOn(n)' = FreeOn(n)
      BY <1>1 DEF FreeOn, On, cluster
  <2>4. DOMAIN existing \cap DOMAIN openNewNodes = {}
      BY <1>0, NamesAssumption DEF TypeOK
  <2>5. CASE PlaceOnExisting(p)
    <3>1. PICK n \in DOMAIN existing :
              /\ existing' = [existing EXCEPT ![n] = Minus(@, Request[p])]
              /\ packed' = packed \cup {<<p, n>>}
              /\ openNewNodes' = openNewNodes
        BY <2>5 DEF PlaceOnExisting, BestFit, FitExisting, Record
    <3>2. FreeOn(n) \in [cpu : Int, mem : Int]
        BY <1>0, FreeOnType DEF Resources
    <3>3. Minus(FreeOn(n), SumOf(PlacedOn(n)')) = Minus(existing[n], Request[p])
        BY <2>1, <2>2, <3>1, <3>2, PlacedOnNext, MinusMore, NotPlaced
    <3>4. \A m \in DOMAIN existing \cup DOMAIN openNewNodes : m # n => PlacedOn(m)' = PlacedOn(m)
        BY <3>1, PlacedOnNext
    <3>5. \A i \in DOMAIN openNewNodes : i # n
        BY <2>4, <3>1
    <3> QED
        BY <2>2, <2>3, <3>1, <3>3, <3>4, <3>5 DEF BinsAccounted, SumOf
  <2>6. CASE PlaceOnOpened(p)
    <3>1. PICK i \in DOMAIN openNewNodes :
              /\ openNewNodes' = [openNewNodes EXCEPT ![i] = Minus(@, Request[p])]
              /\ packed' = packed \cup {<<p, i>>}
              /\ existing' = existing
        BY <2>6 DEF PlaceOnOpened, BestFit, FitOpened, Record
    <3>2. TemplateSize \in [cpu : Int, mem : Int]
        BY TemplateType DEF Resources
    <3>3. Minus(TemplateSize, SumOf(PlacedOn(i)')) = Minus(openNewNodes[i], Request[p])
        BY <2>1, <2>2, <3>1, <3>2, PlacedOnNext, MinusMore, NotPlaced
    <3>4. \A m \in DOMAIN existing \cup DOMAIN openNewNodes : m # i => PlacedOn(m)' = PlacedOn(m)
        BY <3>1, PlacedOnNext
    <3>5. \A n \in DOMAIN existing : n # i
        BY <2>4, <3>1
    <3> QED
        BY <2>2, <2>3, <3>1, <3>3, <3>4, <3>5 DEF BinsAccounted, SumOf
  <2>7. CASE Reject(p)
    <3>1. UNCHANGED <<existing, openNewNodes, packed>>
        BY <2>7 DEF Reject
    <3>2. \A n : PlacedOn(n)' = PlacedOn(n)
        BY <3>1 DEF PlacedOn
    <3> QED
        BY <2>2, <2>3, <3>1, <3>2 DEF BinsAccounted, SumOf
  <2>8. CASE OpenNode(p)
    <3>0. PICK last : last = Len(openNewNodes) + 1
        OBVIOUS
    <3>1. /\ openNewNodes' = Append(openNewNodes, Minus(TemplateSize, Request[p]))
          /\ packed' = packed \cup {<<p, last>>}
          /\ existing' = existing
        BY <2>8, <3>0 DEF OpenNode, Record
    <3>2. /\ DOMAIN openNewNodes' = DOMAIN openNewNodes \cup {last}
          /\ openNewNodes'[last] = Minus(TemplateSize, Request[p])
          /\ \A i \in DOMAIN openNewNodes : openNewNodes'[i] = openNewNodes[i]
          /\ last \in Nat /\ last \notin DOMAIN openNewNodes
        BY <1>0, <3>0, <3>1 DEF TypeOK
    <3>3. last \notin DOMAIN existing
        BY <1>0, <3>2, NamesAssumption
    <3>4. PlacedOn(last) = {}
        BY <3>2, <3>3 DEF PlacedOn, Inv, EstimateInv, PlacedOnce
    <3>5. Minus(TemplateSize, SumOf(PlacedOn(last))) = TemplateSize
        BY <3>4, SumOfNone, WholeMinusNothing, TemplateType
    <3>6. TemplateSize \in [cpu : Int, mem : Int]
        BY TemplateType DEF Resources
    <3>7. Minus(TemplateSize, SumOf(PlacedOn(last)))' = Minus(TemplateSize, Request[p])
      <4>1. PlacedOn(last)' = PlacedOn(last) \cup {p}
          BY <3>1, PlacedOnNext
      <4>2. p \notin PlacedOn(last) /\ PlacedOn(last) \subseteq Pods
          BY <2>1, NotPlaced
      <4>3. Minus(TemplateSize, SumOf(PlacedOn(last) \cup {p}))
                = Minus(Minus(TemplateSize, SumOf(PlacedOn(last))), Request[p])
          BY <3>6, <4>2, MinusMore
      <4> QED
          BY <3>5, <4>1, <4>3 DEF SumOf
    <3>8. \A m \in DOMAIN existing \cup DOMAIN openNewNodes : PlacedOn(m)' = PlacedOn(m)
        BY <3>1, <3>2, <3>3, PlacedOnNext
    <3>9. \A n \in DOMAIN existing' : Minus(FreeOn(n), SumOf(PlacedOn(n)))' = existing'[n]
        BY <2>2, <2>3, <3>1, <3>8 DEF SumOf
    <3>10. \A i \in DOMAIN openNewNodes : Minus(TemplateSize, SumOf(PlacedOn(i)))' = openNewNodes'[i]
        BY <2>2, <3>2, <3>8 DEF SumOf
    <3> QED
        BY <3>2, <3>7, <3>9, <3>10 DEF BinsAccounted, SumOf
  <2> QED
      BY <1>1, <2>5, <2>6, <2>7, <2>8 DEF Place
<1>2. CASE EstimateDetailed
  <2>1. /\ existing' = [n \in ready |-> FreeOn(n)] /\ openNewNodes' = <<>>
        /\ packed' = {} /\ UNCHANGED cluster
      BY <1>2 DEF EstimateDetailed, StartEstimate
  <2>2. ASSUME NEW n \in ready PROVE Minus(FreeOn(n), SumOf(PlacedOn(n)))' = FreeOn(n)
    <3>1. n \in Names
        BY DEF Inv, TypeOK
    <3>2. PlacedOn(n)' = {}
        BY <2>1 DEF PlacedOn
    <3>3. FreeOn(n)' = FreeOn(n) /\ FreeOn(n) \in Resources
        BY <2>1, <3>1, FreeOnType DEF FreeOn, On, cluster
    <3>4. SumOf(PlacedOn(n)') = Nothing
        BY <3>2, SumOfNone
    <3> QED
        BY <3>3, <3>4, WholeMinusNothing DEF SumOf
  <2> QED
      BY <2>1, <2>2
<1>3. CASE UNCHANGED estimate /\ pc = "pack" /\ UNCHANGED place
  <2>1. /\ \A n : FreeOn(n)' = FreeOn(n) /\ PlacedOn(n)' = PlacedOn(n)
        /\ UNCHANGED <<existing, openNewNodes>>
      BY <1>3 DEF estimate, FreeOn, On, PlacedOn
  <2> QED
      BY <1>3, <2>1 DEF BinsAccounted, SumOf
<1> QED
    BY <1>1, <1>2, <1>3, EstimateSteps DEF BinsAccounted

\* Between any two turns of EstimateDetailed, what is free on a node and what was
\* placed on it make up what there was.
THEOREM BinsAccountedHolds == Spec => []BinsAccounted
<1>1. Init => BinsAccounted
    BY DEF Init, BinsAccounted
<1> QED
    BY <1>1, InitInv, NextInv, NextBinsAccounted, PTL DEF Spec

----------------------------------------------------------------------------
(* The recount of the policy *)

\* ceilDiv is no more than any n whose multiple of b covers a, and no less than 1.
LEMMA CeilDivBound ==
    ASSUME NEW a \in Nat, NEW b \in Nat \ {0}, NEW n \in Nat, a <= b * n
    PROVE  ceilDiv(a, b) <= n
<1> DEFINE q == (a + b - 1) \div b
           r == (a + b - 1) % b
<1>1. q \in Nat /\ r \in 0..(b - 1) /\ a + b - 1 = b * q + r
    OBVIOUS
<1> HIDE DEF q, r
<1>2. ASSUME q >= n + 1 PROVE FALSE
  <2>1. b * q >= b * (n + 1)
      BY <1>1, <1>2
  <2>2. b * (n + 1) = b * n + b /\ b * n \in Nat /\ b * q \in Nat
      BY <1>1
  <2> QED
      BY <1>1, <2>1, <2>2
<1> QED
    BY <1>1, <1>2 DEF ceilDiv, q

LEMMA CeilDivPositive ==
    ASSUME NEW a \in Nat \ {0}, NEW b \in Nat \ {0}
    PROVE  ceilDiv(a, b) >= 1
<1> DEFINE q == (a + b - 1) \div b
           r == (a + b - 1) % b
<1>1. q \in Nat /\ r \in 0..(b - 1) /\ a + b - 1 = b * q + r
    OBVIOUS
<1> HIDE DEF q, r
<1>2. q # 0
    BY <1>1
<1> QED
    BY <1>1, <1>2 DEF ceilDiv, q

\* The shortfall of n opened nodes calls for one node at least and for n at most.
LEMMA RecountBound ==
    ASSUME TypeOK, BinsUsed
    PROVE  NeededFor(Delta) \in (IF NodesNeeded = 0 THEN 0 ELSE 1)..NodesNeeded
<1> DEFINE given == [i \in DOMAIN openNewNodes |-> Minus(TemplateSize, openNewNodes[i])]
           c == [i \in DOMAIN given |-> given[i].cpu]
           m == [i \in DOMAIN given |-> given[i].mem]
           S == DOMAIN openNewNodes
<1>1. /\ IsFiniteSet(S) /\ \A i \in S : openNewNodes[i] \in Resources
      /\ NodesNeeded \in Nat /\ S = 1..NodesNeeded
    BY SequenceFinite DEF TypeOK, NodesNeeded
<1>2. Cardinality(S) = NodesNeeded
    BY <1>1, FS_Interval
<1>3. ASSUME NEW i \in S
      PROVE  /\ c[i] \in Nat /\ c[i] <= NodeCPUCapacity
             /\ m[i] \in Nat /\ m[i] <= NodeMemoryCapacity
             /\ c[i] > 0 \/ m[i] > 0
  <2>1. openNewNodes[i] \in Resources /\ Covers(TemplateSize, openNewNodes[i])
        /\ openNewNodes[i] # TemplateSize
      BY <1>1 DEF BinsUsed
  <2>2. c[i] = NodeCPUCapacity - openNewNodes[i].cpu /\ m[i] = NodeMemoryCapacity - openNewNodes[i].mem
      BY DEF Minus, TemplateSize
  <2> QED
      BY <2>1, <2>2, PolicyAssumption DEF Covers, TemplateSize, Resources
<1>4. Delta = [cpu |-> SumFunctionOnSet(c, S), mem |-> SumFunctionOnSet(m, S)]
    BY DEF Delta, SumOver
<1> HIDE DEF given, c, m, S
<1> DEFINE sc == SumFunctionOnSet(c, S)
           sm == SumFunctionOnSet(m, S)
<1>5. sc \in Nat /\ sm \in Nat
    BY <1>1, <1>3, SumNat
<1>6. sc <= NodeCPUCapacity * NodesNeeded /\ sm <= NodeMemoryCapacity * NodesNeeded
    BY <1>1, <1>2, <1>3, SumBound, PolicyAssumption
<1>7. NodesNeeded # 0 => sc > 0 \/ sm > 0
  <2> SUFFICES ASSUME NodesNeeded # 0 PROVE sc > 0 \/ sm > 0
      OBVIOUS
  <2>1. 1 \in S
      BY <1>1
  <2> QED
      BY <1>1, <1>3, <2>1, SumPositive
<1> HIDE DEF sc, sm
<1>8. /\ ceilDiv(sc, NodeCPUCapacity) \in Nat /\ ceilDiv(sm, NodeMemoryCapacity) \in Nat
      /\ ceilDiv(sc, NodeCPUCapacity) <= NodesNeeded /\ ceilDiv(sm, NodeMemoryCapacity) <= NodesNeeded
    BY <1>1, <1>5, <1>6, CeilDivType, CeilDivBound, PolicyAssumption
<1>9. NodesNeeded # 0 => ceilDiv(sc, NodeCPUCapacity) >= 1 \/ ceilDiv(sm, NodeMemoryCapacity) >= 1
    BY <1>5, <1>7, CeilDivPositive, PolicyAssumption
<1>10. NeededFor(Delta) = Larger(ceilDiv(sc, NodeCPUCapacity), ceilDiv(sm, NodeMemoryCapacity))
    BY <1>4 DEF NeededFor, sc, sm
<1> QED
    BY <1>1, <1>8, <1>9, <1>10 DEF Larger

\* The policy, which counts nodes anew from the sums of the report, never asks for
\* more than the bins that EstimateDetailed opened, nor for none if there are any.
THEOREM RecountWithinBinsHolds == Spec => []RecountWithinBins
<1>1. Inv => RecountWithinBins
    BY RecountBound DEF Inv, EstimateInv, RecountWithinBins
<1> QED
    BY <1>1, InitInv, NextInv, PTL DEF Spec

----------------------------------------------------------------------------
(* Estimator and scheduler agree on constraints *)

LEMMA PairIsTuple == ASSUME NEW S, NEW T, NEW x \in S \X T PROVE x = <<x[1], x[2]>>
OBVIOUS

\* A label that is asked for with a value, and found by the estimator, is there.
LEMMA LabelFound ==
    ASSUME NEW labels \in SUBSET Label, NEW s \in Label, s[2] # "", LabelValue(labels, s[1]) = s[2]
    PROVE  s \in labels
<1>1. PICK l \in labels : l[1] = s[1] /\ l[2] = s[2]
    BY DEF LabelValue
<1>2. l = <<l[1], l[2]>> /\ s = <<s[1], s[2]>>
    BY PairIsTuple DEF Label
<1> QED
    BY <1>1, <1>2

\* A pod that says what it wants in full fits, for the estimator, only where the
\* scheduler admits it.
LEMMA FitIsAdmission ==
    ASSUME NEW p \in Pods, NEW n \in Names, Explicit(p), canPodFitConstraints(p, Labels[n], Taints[n])
    PROVE  Admits(n, p)
<1>1. ASSUME NEW s \in NodeSelector[p] PROVE s \in Labels[n]
  <2>1. s \in Label /\ Labels[n] \in SUBSET Label
      BY EstimatorAssumption
  <2> QED
      BY <2>1, LabelFound DEF Explicit, canPodFitConstraints
<1>2. ASSUME NEW t \in Blocking(Taints[n])
      PROVE  \E tol \in Tolerations[p] : Tolerates(tol, t)
    BY DEF canPodFitConstraints, toleratesTaint, Tolerates, Explicit
<1> QED
    BY <1>1, <1>2 DEF Admits

\* Only PlaceOnExisting records a node by its name.
LEMMA NextPlacedWhereSchedulable ==
    Inv /\ PlacedWhereSchedulable /\ [Next]_vars => PlacedWhereSchedulable'
<1> SUFFICES ASSUME Inv, PlacedWhereSchedulable, [Next]_vars, NEW q \in Pods, NEW m \in Names,
                    <<q, m>> \in packed', Explicit(q)
             PROVE  Admits(m, q)
    BY DEF PlacedWhereSchedulable, Explicit, Admits
<1>1. ASSUME NEW p \in Pods, Place(p) PROVE Admits(m, q)
  <2>1. CASE <<q, m>> \in packed
      BY <2>1 DEF PlacedWhereSchedulable
  <2>2. CASE <<q, m>> \notin packed /\ PlaceOnExisting(p)
    <3>1. m \in FitExisting(q)
        BY <2>2 DEF PlaceOnExisting, BestFit, Record
    <3> QED
        BY <3>1, FitIsAdmission DEF FitExisting
  <2>3. CASE <<q, m>> \notin packed /\ (PlaceOnOpened(p) \/ OpenNode(p))
    <3>1. m \in Nat
        BY <2>3 DEF PlaceOnOpened, OpenNode, BestFit, FitOpened, Record, Inv, TypeOK
    <3> QED
        BY <3>1, NamesAssumption
  <2>4. CASE Reject(p)
      BY <2>1, <2>4 DEF Reject
  <2> QED
      BY <1>1, <2>1, <2>2, <2>3, <2>4 DEF Place
<1>2. CASE EstimateDetailed
    BY <1>2, NamesAssumption DEF EstimateDetailed, StartEstimate
<1>3. CASE DropEstimate
    BY <1>3 DEF DropEstimate
<1>4. CASE UNCHANGED estimate
    BY <1>4 DEF estimate, PlacedWhereSchedulable
<1> QED
    BY <1>1, <1>2, <1>3, <1>4, EstimateSteps

\* An explicit pod that the estimate places on an existing node is admitted there
\* by the scheduler: canPodFitConstraints accepts no more than it should for such
\* a pod.
THEOREM PlacedWhereSchedulableHolds == Spec => []PlacedWhereSchedulable
<1>1. Init => PlacedWhereSchedulable
    BY DEF Init, NoEstimate, PlacedWhereSchedulable
<1> QED
    BY <1>1, InitInv, NextInv, NextPlacedWhereSchedulable, PTL DEF Spec

----------------------------------------------------------------------------
(* Estimator and scheduler agree on requests, on the safe side *)

\* The maximum is no smaller for requests that are no smaller.
LEMMA MaxOverGrows ==
    ASSUME NEW r, NEW s, NEW S, IsFiniteSet(S),
           \A i \in S : r[i] \in Resources /\ s[i] \in Resources /\ Covers(s[i], r[i])
    PROVE  Covers(MaxOver(s, S), MaxOver(r, S))
<1> DEFINE rc == {0} \cup {r[i].cpu : i \in S}
           sc == {0} \cup {s[i].cpu : i \in S}
           rm == {0} \cup {r[i].mem : i \in S}
           sm == {0} \cup {s[i].mem : i \in S}
<1>1. /\ rc \subseteq Nat /\ rc # {} /\ IsFiniteSet(rc)
      /\ rm \subseteq Nat /\ rm # {} /\ IsFiniteSet(rm)
    BY ResourcesFinite
<1>2. /\ sc \subseteq Nat /\ sc # {} /\ IsFiniteSet(sc)
      /\ sm \subseteq Nat /\ sm # {} /\ IsFiniteSet(sm)
    BY ResourcesFinite
<1>3. (\A x \in rc : \E y \in sc : x <= y) /\ (\A x \in rm : \E y \in sm : x <= y)
  <2>1. ASSUME NEW i \in S PROVE r[i].cpu <= s[i].cpu /\ r[i].mem <= s[i].mem
      BY DEF Covers
  <2>2. 0 \in sc /\ 0 \in sm /\ 0 <= 0
      OBVIOUS
  <2> QED
      BY <2>1, <2>2
<1> HIDE DEF rc, sc, rm, sm
<1>4. Max(rc) \in rc /\ Max(rm) \in rm
    BY <1>1, MaxInSet
<1>5. Max(sc) \in sc /\ \A x \in sc : x <= Max(sc)
    BY ONLY <1>2, MaxInSet
<1>6. Max(sm) \in sm /\ \A x \in sm : x <= Max(sm)
    BY ONLY <1>2, MaxInSet
<1>7. Max(rc) <= Max(sc)
  <2>1. PICK y \in sc : Max(rc) <= y
      BY <1>3, <1>4
  <2>2. Max(rc) \in Nat /\ y \in Nat /\ Max(sc) \in Nat /\ y <= Max(sc)
      BY <1>1, <1>2, <1>4, <1>5
  <2> QED
      BY <2>1, <2>2
<1>8. Max(rm) <= Max(sm)
  <2>1. PICK y \in sm : Max(rm) <= y
      BY <1>3, <1>4
  <2>2. Max(rm) \in Nat /\ y \in Nat /\ Max(sm) \in Nat /\ y <= Max(sm)
      BY <1>1, <1>2, <1>4, <1>6
  <2> QED
      BY <2>1, <2>2
<1> QED
    BY <1>7, <1>8 DEF MaxOver, Covers, rc, sc, rm, sm

\* The sum likewise.
LEMMA SumOverGrows ==
    ASSUME NEW r, NEW s, NEW S, IsFiniteSet(S), S \subseteq DOMAIN r, S \subseteq DOMAIN s,
           \A i \in S : r[i] \in Resources /\ s[i] \in Resources /\ Covers(s[i], r[i])
    PROVE  Covers(SumOver(s, S), SumOver(r, S))
<1> DEFINE rc == [i \in DOMAIN r |-> r[i].cpu]
           rm == [i \in DOMAIN r |-> r[i].mem]
           sc == [i \in DOMAIN s |-> s[i].cpu]
           sm == [i \in DOMAIN s |-> s[i].mem]
<1>1. \A i \in S : rc[i] \in Nat /\ sc[i] \in Nat /\ rc[i] <= sc[i]
    BY DEF Resources, Covers
<1>2. \A i \in S : rm[i] \in Nat /\ sm[i] \in Nat /\ rm[i] <= sm[i]
    BY DEF Resources, Covers
<1> HIDE DEF rc, rm, sc, sm
<1>3. /\ SumFunctionOnSet(rc, S) <= SumFunctionOnSet(sc, S)
      /\ SumFunctionOnSet(rm, S) <= SumFunctionOnSet(sm, S)
    BY <1>1, <1>2, SumGrows
<1> QED
    BY <1>3 DEF Covers, SumOver, rc, rm, sc, sm

\* The scheduler takes a pod to need no less than the estimator does.
LEMMA NeedsCoverRequest ==
    ASSUME NEW p \in Pods
    PROVE  Needs[p] \in Resources /\ Covers(Needs[p], Request[p])
<1> DEFINE spec == SpecOf[p]
           r == InitRequests(spec)
           beside == [i \in DOMAIN spec.init |->
                        Plus(spec.init[i].req, SumOver(r, Sidecars(spec) \cap 1..(i - 1)))]
           others == DOMAIN spec.init \ Sidecars(spec)
           running == Running(spec)
<1>1. spec.overhead \in Resources
    BY EstimatorAssumption DEF PodSpec
<1>2. running \in Resources
    BY EstimatorAssumption, RunningType
<1>3. /\ IsFiniteSet(DOMAIN spec.init) /\ DOMAIN r = DOMAIN spec.init
      /\ \A i \in DOMAIN spec.init : r[i] \in Resources /\ r[i] = spec.init[i].req
    BY EstimatorAssumption, InitRequestsType
<1>4. IsFiniteSet(others) /\ others \subseteq DOMAIN spec.init
    BY <1>3, FS_Subset
<1>5. ASSUME NEW i \in others
      PROVE  r[i] \in Resources /\ beside[i] \in Resources /\ Covers(beside[i], r[i])
  <2> DEFINE before == Sidecars(spec) \cap 1..(i - 1)
  <2>1. before \subseteq DOMAIN spec.init /\ IsFiniteSet(before)
      BY <1>3, FS_Subset DEF Sidecars
  <2> HIDE DEF r, spec
  <2>2. SumOver(r, before) \in Resources
      BY <1>3, <2>1, SumOverType
  <2>3. beside[i] = Plus(r[i], SumOver(r, before)) /\ r[i] \in Resources
      BY <1>3
  <2> HIDE DEF beside, before
  <2> QED
      BY <2>2, <2>3 DEF Plus, Covers, Resources
<1> HIDE DEF r, beside, others, running
<1>6. /\ MaxOver(r, others) \in Resources /\ MaxOver(beside, others) \in Resources
      /\ Covers(MaxOver(beside, others), MaxOver(r, others))
    BY <1>4, <1>5, MaxOverType, MaxOverGrows
<1>7. /\ Needs[p] = Plus(LargerOf(running, MaxOver(beside, others)), spec.overhead)
      /\ Request[p] = Plus(LargerOf(running, MaxOver(r, others)), spec.overhead)
    BY DEF Needs, Request, SchedulerRequests, podEffectiveRequests, r, beside, others, running
<1> HIDE DEF spec
<1> QED
    BY <1>1, <1>2, <1>6, <1>7 DEF Plus, LargerOf, Larger, Covers, Resources

\* What the scheduler has left on a node is free for the estimator as well.
LEMMA RoomIsFree ==
    ASSUME NEW n \in Names, NEW p \in Pods, HasRoom(n, p)
    PROVE  Covers(FreeOn(n), Request[p])
<1> DEFINE used == SumOf(On(n))
           needed == SumOver(Needs, On(n))
<1>1. IsFiniteSet(On(n)) /\ On(n) \subseteq Pods /\ DOMAIN Needs = Pods /\ DOMAIN Request = Pods
    BY EstimatorAssumption, FS_Subset DEF On, Needs, Request
<1>2. \A q \in Pods : /\ Request[q] \in Resources /\ Needs[q] \in Resources
                      /\ Covers(Needs[q], Request[q])
    BY RequestType, NeedsCoverRequest
<1>3. used \in Resources /\ needed \in Resources /\ Covers(needed, used)
    BY <1>1, <1>2, SumOverType, SumOverGrows DEF SumOf
<1>4. Capacity[n] \in Resources
    BY RoundsAssumption
<1>5. /\ FreeOn(n) = LargerOf(Minus(Capacity[n], used), Nothing)
      /\ Covers(Minus(Capacity[n], needed), Needs[p])
    BY DEF FreeOn, HasRoom
<1> HIDE DEF used, needed
<1>6. Request[p] \in Resources /\ Needs[p] \in Resources /\ Covers(Needs[p], Request[p])
    BY <1>2
<1> QED
    BY <1>3, <1>4, <1>5, <1>6 DEF LargerOf, Larger, Minus, Nothing, Covers, Resources

\* What the scheduler admits to a node, the estimator admits.
LEMMA AdmissionIsFit ==
    ASSUME NEW n \in Names, NEW p \in Pods, Admits(n, p)
    PROVE  canPodFitConstraints(p, Labels[n], Taints[n])
<1>1. ASSUME NEW s \in NodeSelector[p] PROVE LabelValue(Labels[n], s[1]) = s[2]
  <2>1. s \in Labels[n]
      BY DEF Admits
  <2>2. \A l \in Labels[n] : l[1] = s[1] => l = s
      BY <2>1, EstimatorAssumption
  <2>3. (CHOOSE l \in Labels[n] : l[1] = s[1]) = s
      BY <2>1, <2>2
  <2> QED
      BY <2>1, <2>3 DEF LabelValue
<1>2. ASSUME NEW t \in Blocking(Taints[n])
      PROVE  \E tol \in Tolerations[p] : toleratesTaint(tol, t)
    BY DEF Admits, Tolerates, toleratesTaint
<1>3. NodeSelector[p] # {} => Labels[n] # {}
    BY DEF Admits
<1> QED
    BY <1>1, <1>2, <1>3 DEF canPodFitConstraints

\* Where the scheduler would bind a waiting pod, the estimator sees room for it:
\* podEffectiveRequests never counts more than the scheduler, for the pod or for
\* those on the node, and canPodFitConstraints refuses nothing that it admits.
THEOREM RoomIsSeenHolds == Spec => []RoomIsSeen
<1>1. Inv => RoomIsSeen
  <2> SUFFICES ASSUME Inv, NEW p \in WaitingPods \ Unsupported, NEW n \in ready,
                      Admits(n, p), HasRoom(n, p)
               PROVE  canPodFitConstraints(p, Labels[n], Taints[n]) /\ Covers(FreeOn(n), Request[p])
      BY DEF RoomIsSeen
  <2>1. p \in Pods /\ n \in Names
      BY DEF WaitingPods, On, Inv, TypeOK
  <2> QED
      BY <2>1, RoomIsFree, AdmissionIsFit
<1> QED
    BY <1>1, InitInv, NextInv, PTL DEF Spec

----------------------------------------------------------------------------
(* Nodes are created for pods *)

\* The pod for which the first bin was opened stands for the whole round.
LEMMA NextFoundWhenOpened == Inv /\ FoundWhenOpened /\ [Next]_vars => FoundWhenOpened'
<1> SUFFICES ASSUME Inv, FoundWhenOpened, [Next]_vars PROVE FoundWhenOpened'
    OBVIOUS
<1> USE DEF FoundWhenOpened, FeasiblePodFound
<1>1. CASE DetectUnschedulablePods \/ EstimateDetailed
    BY <1>1 DEF DetectUnschedulablePods, EstimateDetailed, StartEstimate, estimate,
                Inv, EstimateInv, EstimateIsLocal
<1>2. ASSUME NEW p \in Pods, Place(p), pc = "pack", UNCHANGED <<cluster, pc, round>>
      PROVE  FoundWhenOpened'
  <2>1. p \in unschedulable \ Unsupported
      BY <1>2 DEF Place, PlaceOnExisting, PlaceOnOpened, Reject, OpenNode, Turn,
                  Inv, EstimateInv, PlacedOnce
  <2>2. openNewNodes # <<>> \/ openNewNodes' = openNewNodes \/ FitsTemplate(p)
      BY <1>2 DEF Place, PlaceOnExisting, PlaceOnOpened, Reject, OpenNode
  <2>3. openNewNodes' = <<>> \/ FeasiblePodFound
      BY <2>1, <2>2
  <2>4. FitsTemplate(p)' = FitsTemplate(p) /\ FeasiblePodFound' = FeasiblePodFound
      BY <1>2 DEF FitsTemplate, round
  <2> QED
      BY <1>2, <2>3, <2>4
<1>3. CASE Pack
    BY <1>2, <1>3 DEF Pack
<1>4. CASE Estimated
  <2>1. CASE NodesNeeded = 0
      BY <1>4, <2>1 DEF Estimated, Return, DropEstimate
  <2>2. CASE NodesNeeded # 0
    <3>1. openNewNodes # <<>>
        BY <2>2 DEF NodesNeeded
    <3> QED
        BY <1>4, <2>2, <3>1 DEF Estimated, round, estimate
  <2> QED
      BY <2>1, <2>2
<1>5. CASE Decide
    BY <1>5 DEF Decide, Return, DropEstimate
<1>6. CASE handleScaleUp
    BY <1>6 DEF handleScaleUp, Return, DropEstimate, estimate
<1>7. CASE CreateNode \/ CreateNodeFails
    BY <1>7 DEF CreateNode, CreateNodeFails, estimate
<1>8. CASE EndScaleUp
    BY <1>8 DEF EndScaleUp, Return, DropEstimate
<1>9. CASE UNCHANGED <<pc, round, estimate>>
    BY <1>9 DEF round, estimate
<1> QED
    BY <1>1, <1>3, <1>4, <1>5, <1>6, <1>7, <1>8, <1>9
    DEF Next, Reconcile, Schedule, Submit, Register, GetReady, vars

\* handleScaleUp starts containers only in a round whose detector found a pod that
\* the template can hold.
THEOREM NodesForFeasiblePodsHolds == Spec => NodesForFeasiblePods
<1> DEFINE Step == nodes' \cup abandoned' # nodes \cup abandoned
                => \E p \in unschedulable \ Unsupported : FitsTemplate(p)
<1>1. Init => FoundWhenOpened
    BY DEF Init, NoEstimate, FoundWhenOpened
<1>2. FoundWhenOpened /\ [Next]_vars => [Step]_vars
  <2>1. [Next]_vars =>
            nodes' \cup abandoned' = nodes \cup abandoned \/ CreateNode \/ CreateNodeFails
      BY DEF Next, Reconcile, DetectUnschedulablePods, EstimateDetailed, Pack, Estimated, Decide,
             handleScaleUp, EndScaleUp, Schedule, Submit, Register, GetReady,
             cluster, vars
  <2>2. CreateNode \/ CreateNodeFails => pc = "create"
      BY DEF CreateNode, CreateNodeFails
  <2> QED
      BY <2>1, <2>2 DEF FoundWhenOpened, FeasiblePodFound
<1> QED
    BY <1>1, <1>2, InitInv, NextInv, NextFoundWhenOpened, PTL DEF Spec, NodesForFeasiblePods
=============================================================================

--------------------------- MODULE ScalingPolicy ---------------------------
(***************************************************************************)
(* The scale-up half of ThresholdPolicy.Evaluate, as a function of the     *)
(* shortfall and of the number of nodes.  CPU is in millicores, memory in  *)
(* MiB.  The scale-down half is left out: the controller asks the policy   *)
(* only while pods wait, and acts on nothing but ScaleUp.                  *)
(***************************************************************************)
EXTENDS PodResources

CONSTANTS
    CPUThresholdMillicores, MemoryThreshold,
    NodeCPUCapacity, NodeMemoryCapacity,    \* the node template
    MaxNodes

ASSUME PolicyAssumption ==
    /\ CPUThresholdMillicores \in Nat /\ MemoryThreshold \in Nat
    /\ NodeCPUCapacity \in Nat \ {0} /\ NodeMemoryCapacity \in Nat \ {0}
    /\ MaxNodes \in Nat

\* The quotient rounded up; the code's test for a zero divisor is for
\* capacities that PolicyAssumption excludes.
ceilDiv(a, b) == (a + b - 1) \div b

Smaller(a, b) == IF a < b THEN a ELSE b

Exceeds(delta) ==
    \/ delta.cpu > CPUThresholdMillicores
    \/ delta.mem > MemoryThreshold

\* Mutant: the nodes for CPU and those for memory are added.
NeededForSum(delta) ==
    ceilDiv(delta.cpu, NodeCPUCapacity) + ceilDiv(delta.mem, NodeMemoryCapacity)

NeededFor(delta) ==
    Larger(ceilDiv(delta.cpu, NodeCPUCapacity), ceilDiv(delta.mem, NodeMemoryCapacity))

\* Mutant: the limit is tested, but the count is not cut down to the headroom.
WithoutHeadroom(needed, current) == needed

WithinHeadroom(needed, current) == Smaller(needed, MaxNodes - current)

\* The decision for a shortfall in a cluster of current nodes.
Evaluate(delta, current) ==
    IF Exceeds(delta) /\ current < MaxNodes
    THEN [ScaleUp |-> TRUE, Count |-> WithinHeadroom(Larger(NeededFor(delta), 1), current)]
    ELSE [ScaleUp |-> FALSE, Count |-> 0]
============================================================================

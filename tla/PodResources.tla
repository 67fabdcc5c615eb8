---------------------------- MODULE PodResources ----------------------------
(***************************************************************************)
(* podEffectiveRequests: what a pod asks for, from the requests of its     *)
(* containers, its init containers in their order and its overhead.  A     *)
(* request that is not given is zero.  Beside it, what the scheduler       *)
(* takes the pod to ask for.                                               *)
(***************************************************************************)
EXTENDS Integers, Sequences, Functions, FiniteSetsExt

\* Resources are pairs of CPU and memory.
Resources == [cpu : Nat, mem : Nat]

PodSpec == [containers : Seq(Resources),
            init : Seq([req : Resources, restartable : BOOLEAN]),
            overhead : Resources]

Nothing == [cpu |-> 0, mem |-> 0]
Plus(a, b) == [cpu |-> a.cpu + b.cpu, mem |-> a.mem + b.mem]

Larger(a, b) == IF a > b THEN a ELSE b
LargerOf(a, b) == [cpu |-> Larger(a.cpu, b.cpu), mem |-> Larger(a.mem, b.mem)]

\* What the r[i] with i \in S request together, and the largest request among
\* them, in each dimension.
SumOver(r, S) ==
    [cpu |-> SumFunctionOnSet([i \in DOMAIN r |-> r[i].cpu], S),
     mem |-> SumFunctionOnSet([i \in DOMAIN r |-> r[i].mem], S)]

MaxOver(r, S) ==
    [cpu |-> Max({0} \cup {r[i].cpu : i \in S}),
     mem |-> Max({0} \cup {r[i].mem : i \in S})]

\* Restartable init containers, the sidecars, run beside the containers.
Sidecars(spec) == {i \in DOMAIN spec.init : spec.init[i].restartable}

InitRequests(spec) == [i \in DOMAIN spec.init |-> spec.init[i].req]

Running(spec) ==
    Plus(SumOver(spec.containers, DOMAIN spec.containers),
         SumOver(InitRequests(spec), Sidecars(spec)))

\* Mutant: the other init containers count as if they ran with the pod.
AllTogether(spec) ==
    LET initial == MaxOver(InitRequests(spec), DOMAIN spec.init \ Sidecars(spec))
    IN  Plus(Plus(Running(spec), initial), spec.overhead)

\* Any other init container counts as if it ran alone.
podEffectiveRequests(spec) ==
    LET initial == MaxOver(InitRequests(spec), DOMAIN spec.init \ Sidecars(spec))
    IN  Plus(LargerOf(Running(spec), initial), spec.overhead)

\* In the scheduler's sum it runs beside the sidecars that precede it.
SchedulerRequests(spec) ==
    LET beside == [i \in DOMAIN spec.init |->
            Plus(spec.init[i].req, SumOver(InitRequests(spec), Sidecars(spec) \cap 1..(i - 1)))]
        initial == MaxOver(beside, DOMAIN spec.init \ Sidecars(spec))
    IN  Plus(LargerOf(Running(spec), initial), spec.overhead)
============================================================================

-------------------------- MODULE MCScaleUpRounds --------------------------
(* Instances of ScaleUpRounds for TLC: the project's defaults for template and
   thresholds, and a large tainted node at the start. *)
EXTENDS ScaleUpRounds

CONSTANTS old, new1, new2, new3, wide, vague, tiny, mini, huge, odd

Size(cpu, mem) == [cpu |-> cpu, mem |-> mem]

\* Two large pods, one of them in memory, which leave a template node no room for
\* the tiny one, though the three together have the volume of two nodes; the mini
\* one, which the scheduler refuses beside the wide one, the estimator does not;
\* and one that only the large node can hold.  The tiny pod is below the
\* thresholds; the odd one, of the same name in another namespace, asks for what
\* the estimator does not know.
Plain(req) == [containers |-> <<req>>, init |-> <<>>, overhead |-> Nothing]

MCSpecOf == [p \in Pods |->
    CASE p = wide -> [containers |-> <<Size(1000, 64), Size(500, 32)>>,
                      init |-> <<[req |-> Size(100, 1900), restartable |-> TRUE],
                                 [req |-> Size(100, 2000), restartable |-> FALSE]>>,
                      overhead |-> Size(100, 16)]
      [] p = vague -> [containers |-> <<Size(700, 3800)>>,
                       init |-> <<[req |-> Size(200, 100), restartable |-> TRUE],
                                  [req |-> Size(900, 200), restartable |-> FALSE]>>,
                       overhead |-> Nothing]
      [] p = tiny -> Plain(Size(400, 256))
      [] p = mini -> [containers |-> <<Size(100, 300)>>,
                      init |-> <<[req |-> Size(300, 64), restartable |-> FALSE]>>,
                      overhead |-> Nothing]
      [] p = huge -> Plain(Size(2500, 1024))
      [] p = odd -> Plain(Size(600, 128))]

MCNameOf == [p \in Pods |-> IF p = odd THEN tiny ELSE p]

MCCapacity == [n \in Names |->
    IF n = old THEN Size(2600, 4000) ELSE Size(NodeCPUCapacity, NodeMemoryCapacity)]

MCTaints == [n \in Names |->
    IF n = old THEN {[key |-> "dedicated", value |-> "batch", effect |-> "NoSchedule"]} ELSE {}]

\* The toleration of the vague pod names another value, without an operator.
MCTolerations == [p \in Pods |->
    {t \in [key : {"dedicated"}, operator : {"Equal", ""}, value : {"batch", "other"}, effect : {""}] :
        \/ p \in {mini, huge} /\ t.operator = "Equal" /\ t.value = "batch"
        \/ p = vague /\ t.operator = "" /\ t.value = "other"}]

MCLabels == [n \in Names |-> IF n = old THEN {<<"disk", "ssd">>} ELSE {}]
MCNodeSelector == [p \in Pods |-> IF p = huge THEN {<<"disk", "ssd">>} ELSE {}]
MCTemplateLabels == {<<"node-role.kubernetes.io/worker", "">>}
============================================================================

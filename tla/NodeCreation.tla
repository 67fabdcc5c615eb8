---------------------------- MODULE NodeCreation ----------------------------
(***************************************************************************)
(* What CreateNode promises, without its steps.  A node is made under a    *)
(* name that was never used before, one call at a time:                    *)
(*                                                                         *)
(*     fresh -> underway -> created | failed | lost                        *)
(*                                                                         *)
(* "created" is reported only of a machine that runs and is a member of    *)
(* the cluster; it stays both until it is expelled and terminated.  A call *)
(* that failed, reported or not, may leave a machine, or a member without  *)
(* one; a call lost in a crash on its way to success leaves its machine;   *)
(* and a machine may still become a member later.  But what a failed call  *)
(* left is never expelled: it is nobody's.  NodeProvisioner implements     *)
(* this.                                                                   *)
(***************************************************************************)
CONSTANT Names

VARIABLES
    stage,      \* [Names -> Stage]
    machine,    \* the names that have a container
    member      \* the names that have a Node object

vars == <<stage, machine, member>>

Stage == {"fresh", "underway", "created", "failed", "lost"}

Init ==
    /\ stage = [n \in Names |-> "fresh"]
    /\ machine = {}
    /\ member = {}

Move(n, from, to) ==
    /\ stage[n] = from
    /\ stage' = [stage EXCEPT ![n] = to]

Begin(n) ==
    /\ \A m \in Names : stage[m] # "underway"
    /\ Move(n, "fresh", "underway")
    /\ UNCHANGED <<machine, member>>

Build(n) ==
    /\ stage[n] = "underway"
    /\ machine' = machine \cup {n}
    /\ UNCHANGED <<stage, member>>

\* The kubelet of a machine registers, in time or late.
Enroll(n) ==
    /\ n \in machine
    /\ member' = member \cup {n}
    /\ UNCHANGED <<stage, machine>>

Succeed(n) ==
    /\ n \in machine \cap member
    /\ Move(n, "underway", "created")
    /\ UNCHANGED <<machine, member>>

\* The machine of the failed call, and no other, may be left or taken away.
Fail(n) ==
    /\ Move(n, "underway", "failed")
    /\ machine' \in {machine \cup {n}, machine \ {n}}
    /\ UNCHANGED member

\* The caller dies; a docker run it has begun may be carried out.
Lose(n) ==
    /\ Move(n, "underway", "lost")
    /\ machine' \in {machine, machine \cup {n}}
    /\ UNCHANGED member

Expel(n) ==
    /\ stage[n] \in {"created", "lost"}
    /\ n \in machine
    /\ member' = member \ {n}
    /\ UNCHANGED <<stage, machine>>

Terminate(n) ==
    /\ stage[n] \in {"created", "lost"}
    /\ n \notin member
    /\ machine' = machine \ {n}
    /\ UNCHANGED <<stage, member>>

Next ==
    \E n \in Names :
        \/ Begin(n) \/ Build(n) \/ Enroll(n)
        \/ Succeed(n) \/ Fail(n) \/ Lose(n)
        \/ Expel(n) \/ Terminate(n)

Spec == Init /\ [][Next]_vars
============================================================================

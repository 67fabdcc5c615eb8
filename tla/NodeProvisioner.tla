-------------------------- MODULE NodeProvisioner --------------------------
(***************************************************************************)
(* CreateNode of the Kind provisioner, one docker or API call a step: join *)
(* command, docker run, kubeadm join with its clean-up, the two waits, the *)
(* annotation; and the end of a node, Cleanup and TerminateNode.  Around   *)
(* it kubelets that register and report late, other writers of the Node    *)
(* objects, calls that fail or whose effect outlives their failure, and a  *)
(* controller that may die between or during any two calls.                *)
(***************************************************************************)
EXTENDS FiniteSets

CONSTANTS
    Names,      \* names that time.Now().UnixNano() may yield
    NoName,
    Crashes     \* may the controller die?

ASSUME ConstantsAssumption ==
    /\ NoName \notin Names
    /\ Crashes \in BOOLEAN

VARIABLES
    \* docker and the API server.
    containers, \* containers docker knows
    joining,    \* containers whose kubelet is configured but has no Node yet
    nodes,      \* Node objects
    ready,      \* those with condition Ready
    managed,    \* those with the managed-by annotation
    \* CreateNode.
    pc,
    name,       \* containerName
    copyFresh,  \* is the Node that annotateNode read still the stored version?
    call,       \* what became of the call for each name
    warned      \* history: names with a warning in the log

world  == <<containers, joining, nodes, ready, managed>>
locals == <<pc, name, copyFresh>>
vars   == <<world, locals, call, warned>>

Steps == {"idle", "token", "run", "join", "cleanup", "register", "waitReady",
          "annotateGet", "annotateUpdate"}

\* An error of CreateNode names the step that failed; a call that a crash cuts
\* off is "unreported", or "unclean" when its join had failed already.
Errors == {"step1", "step2", "step4", "step5", "step6"}
Outcomes == {"unused", "pending", "created", "unreported", "unclean"} \cup Errors

\* Every variable stays in its domain, a Node is Ready or annotated only while
\* it exists, and a call is pending exactly while CreateNode runs for its name.
TypeOK ==
    /\ {containers, joining, nodes} \subseteq SUBSET Names
    /\ ready \subseteq nodes /\ managed \subseteq nodes
    /\ pc \in Steps
    /\ name \in Names \cup {NoName}
    /\ copyFresh \in BOOLEAN
    /\ call \in [Names -> Outcomes]
    /\ warned \subseteq Names
    /\ {n \in Names : call[n] = "pending"} = {name} \ {NoName}
    /\ pc = "idle" <=> name = NoName

Init ==
    /\ containers = {}
    /\ joining = {}
    /\ nodes = {}
    /\ ready = {}
    /\ managed = {}
    /\ pc = "idle"
    /\ name = NoName
    /\ copyFresh = FALSE
    /\ call = [n \in Names |-> "unused"]
    /\ warned = {}

----------------------------------------------------------------------------
(* CreateNode *)

Goto(from, to) ==
    /\ pc = from
    /\ pc' = to
    /\ UNCHANGED <<name, call>>

\* CreateNode returns, or is cut off by a crash, with this outcome.
Return(outcome) ==
    /\ pc' = "idle"
    /\ name' = NoName
    /\ copyFresh' = FALSE
    /\ call' = [call EXCEPT ![name] = outcome]

\* Mutant: two reconciles create nodes at the same time.
CreateNodeUnlocked ==
    /\ \E n \in Names :
        /\ call[n] = "unused"
        /\ name' = n
        /\ call' = [call EXCEPT ![n] = "pending"]
    /\ pc' = "token"
    /\ UNCHANGED <<world, copyFresh, warned>>

\* reconcileMu lets one CreateNode run at a time.
CreateNode ==
    /\ pc = "idle"
    /\ \E n \in Names :
        /\ call[n] = "unused"
        /\ name' = n
        /\ call' = [call EXCEPT ![n] = "pending"]
    /\ pc' = "token"
    /\ UNCHANGED <<world, copyFresh, warned>>

getKubeadmJoinCommand ==
    /\ Goto("token", "run")
    /\ UNCHANGED <<world, copyFresh, warned>>

\* docker exec fails, or prints nothing.
TokenFails ==
    /\ pc = "token"
    /\ Return("step1")
    /\ UNCHANGED <<world, warned>>

createNodeContainer ==
    /\ Goto("run", "join")
    /\ containers' = containers \cup {name}
    /\ UNCHANGED <<joining, nodes, ready, managed, copyFresh, warned>>

\* docker run fails; the container may have been created all the same (it does
\* not start, or the client was killed with its context), and it stays.
RunFails ==
    /\ pc = "run"
    /\ containers' \in {containers, containers \cup {name}}
    /\ Return("step2")
    /\ UNCHANGED <<joining, nodes, ready, managed, warned>>

execKubeadmJoin ==
    /\ Goto("join", "register")
    /\ joining' = joining \cup {name}
    /\ UNCHANGED <<containers, nodes, ready, managed, copyFresh, warned>>

\* The context ends during the initial delay, or kubeadm join fails, perhaps
\* after it has configured the kubelet.
JoinFails ==
    /\ Goto("join", "cleanup")
    /\ joining' \in {joining, joining \cup {name}}
    /\ UNCHANGED <<containers, nodes, ready, managed, copyFresh, warned>>

\* Mutant: a container that does not run any longer is not removed.
RemoveIfJoined == IF name \in joining THEN containers \ {name} ELSE containers

\* docker rm -f.
RemoveContainer == containers \ {name}

ContainerGone ==
    /\ containers' = RemoveContainer
    /\ joining' = joining \ {name}

removeContainer ==
    /\ pc = "cleanup"
    /\ ContainerGone
    /\ Return("step4")
    /\ UNCHANGED <<nodes, ready, managed, warned>>

\* docker rm is reported as failed, with or without its effect.
RemoveContainerFails ==
    /\ pc = "cleanup"
    /\ ContainerGone \/ UNCHANGED <<containers, joining>>
    /\ warned' = warned \cup {name}
    /\ Return("step4")
    /\ UNCHANGED <<nodes, ready, managed>>

\* Mutant: the annotation is made as soon as the Node is seen.
AnnotateOnRegistration ==
    /\ Goto("register", "waitReady")
    /\ name \in nodes
    /\ managed' = managed \cup {name}
    /\ UNCHANGED <<containers, joining, nodes, ready, copyFresh, warned>>

waitForNodeRegistration ==
    /\ Goto("register", "waitReady")
    /\ name \in nodes
    /\ UNCHANGED <<world, copyFresh, warned>>

\* Mutant: the poll has no deadline.
NoRegistrationTimeout == FALSE

\* Mutant: the container is removed here as after a failed join.
RegistrationTimeoutCleansUp ==
    /\ pc = "register"
    /\ containers' = containers \ {name}
    /\ joining' = joining \ {name}
    /\ Return("step5")
    /\ UNCHANGED <<nodes, ready, managed, warned>>

\* Mutant: the error of the wait is dropped.
RegistrationTimeoutIgnored ==
    /\ pc = "register"
    /\ Return("created")
    /\ UNCHANGED <<world, warned>>

\* Five minutes, or the end of the context; the container is left running.
RegistrationTimeout ==
    /\ pc = "register"
    /\ Return("step5")
    /\ UNCHANGED <<world, warned>>

WaitForNodeReady ==
    /\ Goto("waitReady", "annotateGet")
    /\ name \in ready
    /\ UNCHANGED <<world, copyFresh, warned>>

ReadyTimeout ==
    /\ pc = "waitReady"
    /\ Return("step6")
    /\ UNCHANGED <<world, warned>>

annotateGet ==
    /\ Goto("annotateGet", "annotateUpdate")
    /\ copyFresh' = TRUE
    /\ UNCHANGED <<world, warned>>

\* Mutant: the error of annotateNode is not even logged.
AnnotateFailsSilently ==
    /\ pc \in {"annotateGet", "annotateUpdate"}
    /\ Return("created")
    /\ UNCHANGED <<world, warned>>

\* Get or Update fails, or the Update is refused as out of date: non-fatal.
AnnotateFails ==
    /\ pc \in {"annotateGet", "annotateUpdate"}
    /\ warned' = warned \cup {name}
    /\ Return("created")
    /\ UNCHANGED world

\* The reply of the Update may be lost, which is logged like a failure.
annotateUpdate ==
    /\ pc = "annotateUpdate"
    /\ copyFresh
    /\ managed' = managed \cup {name}
    /\ warned' \in {warned, warned \cup {name}}
    /\ Return("created")
    /\ UNCHANGED <<containers, joining, nodes, ready>>

Step ==
    \/ getKubeadmJoinCommand \/ TokenFails
    \/ createNodeContainer \/ RunFails
    \/ execKubeadmJoin \/ JoinFails \/ removeContainer \/ RemoveContainerFails
    \/ waitForNodeRegistration \/ RegistrationTimeout
    \/ WaitForNodeReady \/ ReadyTimeout
    \/ annotateGet \/ annotateUpdate \/ AnnotateFails

----------------------------------------------------------------------------
(* The end of a node; NodeRemoval has the steps in between *)

\* Cleanup deletes the Node object of an annotated node, under the same lock.
Cleanup(n) ==
    /\ pc = "idle"
    /\ n \in managed
    /\ nodes' = nodes \ {n}
    /\ ready' = ready \ {n}
    /\ managed' = managed \ {n}
    /\ UNCHANGED <<containers, joining, locals, call, warned>>

\* The provider's hook, for a node that Cleanup has deleted.
TerminateNode(n) ==
    /\ pc = "idle"
    /\ call[n] \in {"created", "unreported"}
    /\ n \in containers \ (nodes \cup joining)
    /\ containers' = containers \ {n}
    /\ UNCHANGED <<joining, nodes, ready, managed, locals, call, warned>>

----------------------------------------------------------------------------
(* Kubelets, other writers of Node objects, crashes *)

\* A write to the Node makes the copy that annotateNode holds out of date.
Written(n) == copyFresh' = (copyFresh /\ n # name)

Register(n) ==
    /\ n \in joining
    /\ joining' = joining \ {n}
    /\ nodes' = nodes \cup {n}
    /\ UNCHANGED <<containers, ready, managed, locals, call, warned>>

ReportReady(n) ==
    /\ n \in (nodes \cap containers) \ ready
    /\ ready' = ready \cup {n}
    /\ Written(n)
    /\ UNCHANGED <<containers, joining, nodes, managed, pc, name, call, warned>>

\* The kubelet reports a problem, or is not heard of any longer.
LoseReady(n) ==
    /\ n \in ready
    /\ ready' = ready \ {n}
    /\ Written(n)
    /\ UNCHANGED <<containers, joining, nodes, managed, pc, name, call, warned>>

\* Another controller updates the Node, as the one that removes the not-ready
\* taint does as soon as the node is Ready.
Touch(n) ==
    /\ n \in nodes
    /\ copyFresh /\ n = name
    /\ Written(n)
    /\ UNCHANGED <<world, pc, name, call, warned>>

\* docker and the API server carry out a call although its caller is dead.
CarriedOut ==
    \/ /\ pc = "run"
       /\ containers' = containers \cup {name}
       /\ UNCHANGED <<joining, managed>>
    \/ /\ pc = "join"
       /\ joining' = joining \cup {name}
       /\ UNCHANGED <<containers, managed>>
    \/ /\ pc = "cleanup"
       /\ ContainerGone
       /\ UNCHANGED managed
    \/ /\ pc = "annotateUpdate"
       /\ copyFresh
       /\ managed' = managed \cup {name}
       /\ UNCHANGED <<containers, joining>>

\* The process dies, or Run returns on ctx.Done without waiting for reconcile.
Crash ==
    /\ Crashes
    /\ pc # "idle"
    /\ CarriedOut \/ UNCHANGED <<containers, joining, managed>>
    /\ Return(IF pc = "cleanup" THEN "unclean" ELSE "unreported")
    /\ UNCHANGED <<nodes, ready, warned>>

Environment ==
    \/ Crash
    \/ \E n \in Names : Register(n) \/ ReportReady(n) \/ LoseReady(n) \/ Touch(n)

Next ==
    \/ CreateNode \/ Step \/ Environment
    \/ \E n \in Names : Cleanup(n) \/ TerminateNode(n)

Spec == Init /\ [][Next]_vars

\* docker and the API server answer, and the waits have deadlines.
FairSpec == Spec /\ WF_vars(Step)

----------------------------------------------------------------------------
(* Properties *)

\* What an error of CreateNode leaves behind: nothing when there was no join
\* command; at most a container without a kubelet when docker run failed;
\* neither container nor kubelet when the join failed, unless the log has a
\* "cleanup warning"; container and, after step 6, Node when a wait ran out.
FailureLeaves ==
    \A n \in Names :
        /\ call[n] = "step1" => n \notin containers \cup joining \cup nodes
        /\ call[n] = "step2" => n \notin joining \cup nodes
        /\ call[n] = "step4" /\ n \notin warned => n \notin containers \cup joining
        /\ call[n] \in {"step5", "step6"} => n \in containers
        /\ call[n] = "step6" => n \in nodes

\* A Node object without a container, which would be not Ready for ever, has
\* one origin: a join that failed after its kubelet had registered, whether
\* CreateNode returned that error or died in the clean-up.
GhostsFromFailedJoin ==
    \A n \in nodes \ containers : call[n] \in {"step4", "unclean"}

\* "So that the NodeCleanup safety guard permits deletion": what a failed call
\* leaves, reported or cut off in its clean-up, and what joins after that, is
\* never annotated, so that scale-down cannot delete it.
FailedNodesUnmanaged == \A n \in managed : call[n] \in {"created", "unreported"}

\* A node that was reported as created and will be refused by the safety guard
\* has left at least a warning in the log, whoever wrote the Node meanwhile.
UnmanagedNodesLogged ==
    \A n \in nodes : call[n] = "created" /\ n \notin managed => n \in warned

\* However late kubelets are, CreateNode returns, and with it the lock.
CreateNodeReturns == pc # "idle" ~> pc = "idle"

\* The calls of CreateNode implement the contract of NodeCreation.  A call
\* that dies in the clean-up of its failed join has failed.
stage == [n \in Names |->
    CASE call[n] = "unused" -> "fresh"
      [] call[n] = "pending" -> "underway"
      [] call[n] = "created" -> "created"
      [] call[n] = "unreported" -> "lost"
      [] OTHER -> "failed"]

Abstract == INSTANCE NodeCreation WITH stage <- stage, machine <- containers, member <- nodes

ImplementsNodeCreation == Abstract!Spec
============================================================================

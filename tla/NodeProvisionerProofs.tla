----------------------- MODULE NodeProvisionerProofs -----------------------
(***************************************************************************)
(* For any number of names, with and without crashes: what a call of       *)
(* CreateNode leaves behind, who is annotated, and that the steps of the   *)
(* provisioner implement NodeCreation.                                     *)
(***************************************************************************)
EXTENDS NodeProvisioner, TLAPS

----------------------------------------------------------------------------
(* The invariant *)

\* The name of a call that has not begun, or not begun to act, is nowhere.
FreshNowhere ==
    \A n \in Names :
        call[n] = "unused" \/ (n = name /\ pc \in {"token", "run"})
            => n \notin containers \cup joining \cup nodes

\* How far the running call has come.
Progress ==
    /\ pc = "join" => name \notin joining \cup nodes
    /\ pc \in {"join", "cleanup", "register", "waitReady", "annotateGet", "annotateUpdate"}
         => name \in containers
    /\ pc \in {"waitReady", "annotateGet", "annotateUpdate"} => name \in nodes
    /\ copyFresh => pc = "annotateUpdate"

\* A kubelet on its way has a container and no Node yet, and the call of its
\* name did not succeed.
JoiningOK ==
    /\ joining \subseteq containers
    /\ joining \cap nodes = {}
    /\ \A n \in joining : call[n] # "created"

CreationInv ==
    /\ TypeOK
    /\ FreshNowhere
    /\ Progress
    /\ JoiningOK
    /\ FailureLeaves
    /\ GhostsFromFailedJoin
    /\ FailedNodesUnmanaged
    /\ UnmanagedNodesLogged

LEMMA InitInv == Init => CreationInv
<1> SUFFICES ASSUME Init PROVE CreationInv
    OBVIOUS
<1>1. TypeOK
    BY DEF Init, TypeOK, Steps, Outcomes, Errors
<1>2. FreshNowhere /\ Progress /\ JoiningOK
    BY DEF Init, FreshNowhere, Progress, JoiningOK
<1>3. FailureLeaves /\ GhostsFromFailedJoin /\ FailedNodesUnmanaged /\ UnmanagedNodesLogged
    BY DEF Init, FailureLeaves, GhostsFromFailedJoin, FailedNodesUnmanaged, UnmanagedNodesLogged
<1> QED
    BY <1>1, <1>2, <1>3 DEF CreationInv

\* What the end of a call does to the types.
LEMMA ReturnTypes ==
    ASSUME TypeOK, pc # "idle", NEW outcome \in Outcomes \ {"pending"}, Return(outcome)
    PROVE  /\ name \in Names
           /\ pc' \in Steps /\ copyFresh' \in BOOLEAN
           /\ name' \in Names \cup {NoName} /\ pc' = "idle" /\ name' = NoName
           /\ call' \in [Names -> Outcomes]
           /\ {n \in Names : call'[n] = "pending"} = {}
<1>1. name \in Names
    BY DEF TypeOK
<1>2. call' \in [Names -> Outcomes]
    BY DEF TypeOK, Return
<1>3. {n \in Names : call'[n] = "pending"} = {}
    BY <1>1 DEF TypeOK, Return
<1> QED
    BY <1>1, <1>2, <1>3 DEF Return, Steps

LEMMA NextInv == CreationInv /\ [Next]_vars => CreationInv'
<1> SUFFICES ASSUME CreationInv, [Next]_vars PROVE CreationInv'
    OBVIOUS
<1> USE ConstantsAssumption DEF CreationInv, TypeOK, Steps, Outcomes, Errors, FreshNowhere,
        Progress, JoiningOK, FailureLeaves, GhostsFromFailedJoin, FailedNodesUnmanaged,
        UnmanagedNodesLogged, world, locals
<1>1. CASE CreateNode
    BY <1>1 DEF CreateNode
<1>2. CASE getKubeadmJoinCommand
    BY <1>2 DEF getKubeadmJoinCommand, Goto
<1>3. CASE createNodeContainer
    BY <1>3 DEF createNodeContainer, Goto
<1>4. CASE execKubeadmJoin
    BY <1>4 DEF execKubeadmJoin, Goto
<1>5. CASE JoinFails
    BY <1>5 DEF JoinFails, Goto
<1>6. CASE waitForNodeRegistration
    BY <1>6 DEF waitForNodeRegistration, Goto
<1>7. CASE WaitForNodeReady
    BY <1>7 DEF WaitForNodeReady, Goto
<1>8. CASE annotateGet
    BY <1>8 DEF annotateGet, Goto
<1>9. CASE TokenFails
    <2>1. Return("step1") /\ pc # "idle"
        BY <1>9 DEF TokenFails
    <2>2. {containers', joining', nodes'} \subseteq SUBSET Names
        BY <1>9 DEF TokenFails
    <2>3. ready' \subseteq nodes' /\ managed' \subseteq nodes' /\ warned' \subseteq Names
        BY <1>9 DEF TokenFails
    <2>4. TypeOK'
        BY ONLY <2>1, <2>2, <2>3, TypeOK, ReturnTypes, ConstantsAssumption DEF TypeOK, Outcomes, Errors
    <2>5. FreshNowhere' /\ Progress' /\ JoiningOK'
        BY <1>9 DEF TokenFails, Return
    <2>6. FailureLeaves' /\ GhostsFromFailedJoin'
        BY <1>9 DEF TokenFails, Return
    <2>7. FailedNodesUnmanaged' /\ UnmanagedNodesLogged'
        BY <1>9 DEF TokenFails, Return
    <2> QED
        BY ONLY <2>4, <2>5, <2>6, <2>7 DEF CreationInv
<1>10. CASE RunFails
    <2>1. Return("step2") /\ pc # "idle"
        BY <1>10 DEF RunFails
    <2>2. {containers', joining', nodes'} \subseteq SUBSET Names
        BY <1>10 DEF RunFails
    <2>3. ready' \subseteq nodes' /\ managed' \subseteq nodes' /\ warned' \subseteq Names
        BY <1>10 DEF RunFails
    <2>4. TypeOK'
        BY ONLY <2>1, <2>2, <2>3, TypeOK, ReturnTypes, ConstantsAssumption DEF TypeOK, Outcomes, Errors
    <2>5. FreshNowhere' /\ Progress' /\ JoiningOK'
        BY <1>10 DEF RunFails, Return
    <2>6. FailureLeaves' /\ GhostsFromFailedJoin'
        BY <1>10 DEF RunFails, Return
    <2>7. FailedNodesUnmanaged' /\ UnmanagedNodesLogged'
        BY <1>10 DEF RunFails, Return
    <2> QED
        BY ONLY <2>4, <2>5, <2>6, <2>7 DEF CreationInv
<1>11. CASE removeContainer
    <2>1. Return("step4") /\ pc # "idle"
        BY <1>11 DEF removeContainer
    <2>2. {containers', joining', nodes'} \subseteq SUBSET Names
        BY <1>11 DEF removeContainer, ContainerGone, RemoveContainer
    <2>3. ready' \subseteq nodes' /\ managed' \subseteq nodes' /\ warned' \subseteq Names
        BY <1>11 DEF removeContainer, ContainerGone, RemoveContainer
    <2>4. TypeOK'
        BY ONLY <2>1, <2>2, <2>3, TypeOK, ReturnTypes, ConstantsAssumption DEF TypeOK, Outcomes, Errors
    <2>5. FreshNowhere' /\ Progress' /\ JoiningOK'
        BY <1>11 DEF removeContainer, ContainerGone, Return, RemoveContainer
    <2>6. FailureLeaves' /\ GhostsFromFailedJoin'
        BY <1>11 DEF removeContainer, ContainerGone, Return, RemoveContainer
    <2>7. FailedNodesUnmanaged' /\ UnmanagedNodesLogged'
        BY <1>11 DEF removeContainer, ContainerGone, Return, RemoveContainer
    <2> QED
        BY ONLY <2>4, <2>5, <2>6, <2>7 DEF CreationInv
<1>12. CASE RemoveContainerFails
    <2>1. Return("step4") /\ pc # "idle"
        BY <1>12 DEF RemoveContainerFails
    <2>2. {containers', joining', nodes'} \subseteq SUBSET Names
        BY <1>12 DEF RemoveContainerFails, ContainerGone, RemoveContainer
    <2>3. ready' \subseteq nodes' /\ managed' \subseteq nodes' /\ warned' \subseteq Names
        BY <1>12 DEF RemoveContainerFails, ContainerGone, RemoveContainer
    <2>4. TypeOK'
        BY ONLY <2>1, <2>2, <2>3, TypeOK, ReturnTypes, ConstantsAssumption DEF TypeOK, Outcomes, Errors
    <2>5. FreshNowhere' /\ Progress' /\ JoiningOK'
        BY <1>12 DEF RemoveContainerFails, ContainerGone, RemoveContainer, Return
    <2>6. FailureLeaves' /\ GhostsFromFailedJoin'
        BY <1>12 DEF RemoveContainerFails, ContainerGone, RemoveContainer, Return
    <2>7. FailedNodesUnmanaged' /\ UnmanagedNodesLogged'
        BY <1>12 DEF RemoveContainerFails, ContainerGone, RemoveContainer, Return
    <2> QED
        BY ONLY <2>4, <2>5, <2>6, <2>7 DEF CreationInv
<1>13. CASE RegistrationTimeout
    <2>1. Return("step5") /\ pc # "idle"
        BY <1>13 DEF RegistrationTimeout
    <2>2. {containers', joining', nodes'} \subseteq SUBSET Names
        BY <1>13 DEF RegistrationTimeout
    <2>3. ready' \subseteq nodes' /\ managed' \subseteq nodes' /\ warned' \subseteq Names
        BY <1>13 DEF RegistrationTimeout
    <2>4. TypeOK'
        BY ONLY <2>1, <2>2, <2>3, TypeOK, ReturnTypes, ConstantsAssumption DEF TypeOK, Outcomes, Errors
    <2>5. FreshNowhere' /\ Progress' /\ JoiningOK'
        BY <1>13 DEF RegistrationTimeout, Return
    <2>6. FailureLeaves' /\ GhostsFromFailedJoin'
        BY <1>13 DEF RegistrationTimeout, Return
    <2>7. FailedNodesUnmanaged' /\ UnmanagedNodesLogged'
        BY <1>13 DEF RegistrationTimeout, Return
    <2> QED
        BY ONLY <2>4, <2>5, <2>6, <2>7 DEF CreationInv
<1>14. CASE ReadyTimeout
    <2>1. Return("step6") /\ pc # "idle"
        BY <1>14 DEF ReadyTimeout
    <2>2. {containers', joining', nodes'} \subseteq SUBSET Names
        BY <1>14 DEF ReadyTimeout
    <2>3. ready' \subseteq nodes' /\ managed' \subseteq nodes' /\ warned' \subseteq Names
        BY <1>14 DEF ReadyTimeout
    <2>4. TypeOK'
        BY ONLY <2>1, <2>2, <2>3, TypeOK, ReturnTypes, ConstantsAssumption DEF TypeOK, Outcomes, Errors
    <2>5. FreshNowhere' /\ Progress' /\ JoiningOK'
        BY <1>14 DEF ReadyTimeout, Return
    <2>6. FailureLeaves' /\ GhostsFromFailedJoin'
        BY <1>14 DEF ReadyTimeout, Return
    <2>7. FailedNodesUnmanaged' /\ UnmanagedNodesLogged'
        BY <1>14 DEF ReadyTimeout, Return
    <2> QED
        BY ONLY <2>4, <2>5, <2>6, <2>7 DEF CreationInv
<1>15. CASE annotateUpdate
    <2>1. Return("created") /\ pc # "idle"
        BY <1>15 DEF annotateUpdate
    <2>2. {containers', joining', nodes'} \subseteq SUBSET Names
        BY <1>15 DEF annotateUpdate
    <2>3. ready' \subseteq nodes' /\ managed' \subseteq nodes' /\ warned' \subseteq Names
        BY <1>15 DEF annotateUpdate
    <2>4. TypeOK'
        BY ONLY <2>1, <2>2, <2>3, TypeOK, ReturnTypes, ConstantsAssumption DEF TypeOK, Outcomes, Errors
    <2>5. FreshNowhere' /\ Progress' /\ JoiningOK'
        BY <1>15 DEF annotateUpdate, Return
    <2>6. FailureLeaves' /\ GhostsFromFailedJoin'
        BY <1>15 DEF annotateUpdate, Return
    <2>7. FailedNodesUnmanaged' /\ UnmanagedNodesLogged'
        BY <1>15 DEF annotateUpdate, Return
    <2> QED
        BY ONLY <2>4, <2>5, <2>6, <2>7 DEF CreationInv
<1>16. CASE AnnotateFails
    <2>1. Return("created") /\ pc # "idle"
        BY <1>16 DEF AnnotateFails
    <2>2. {containers', joining', nodes'} \subseteq SUBSET Names
        BY <1>16 DEF AnnotateFails
    <2>3. ready' \subseteq nodes' /\ managed' \subseteq nodes' /\ warned' \subseteq Names
        BY <1>16 DEF AnnotateFails
    <2>4. TypeOK'
        BY ONLY <2>1, <2>2, <2>3, TypeOK, ReturnTypes, ConstantsAssumption DEF TypeOK, Outcomes, Errors
    <2>5. FreshNowhere' /\ Progress' /\ JoiningOK'
        BY <1>16 DEF AnnotateFails, Return
    <2>6. FailureLeaves' /\ GhostsFromFailedJoin'
        BY <1>16 DEF AnnotateFails, Return
    <2>7. FailedNodesUnmanaged' /\ UnmanagedNodesLogged'
        BY <1>16 DEF AnnotateFails, Return
    <2> QED
        BY ONLY <2>4, <2>5, <2>6, <2>7 DEF CreationInv
<1>17. CASE Crash
    <2> USE DEF CarriedOut, ContainerGone, RemoveContainer
    <2>1. PICK outcome \in {"unclean", "unreported"} :
             /\ Return(outcome) /\ pc # "idle"
             /\ outcome = "unclean" <=> pc = "cleanup"
        BY <1>17 DEF Crash
    <2>2. {containers', joining', nodes'} \subseteq SUBSET Names
        BY <1>17 DEF Crash
    <2>3. ready' \subseteq nodes' /\ managed' \subseteq nodes' /\ warned' \subseteq Names
        BY <1>17 DEF Crash
    <2>4. TypeOK'
        BY ONLY <2>1, <2>2, <2>3, TypeOK, ReturnTypes, ConstantsAssumption DEF TypeOK, Outcomes, Errors
    <2>5. FreshNowhere' /\ Progress' /\ JoiningOK'
        BY <1>17, <2>1 DEF Crash, Return
    <2>6. FailureLeaves' /\ GhostsFromFailedJoin'
        BY <1>17, <2>1 DEF Crash, Return
    <2>7. FailedNodesUnmanaged' /\ UnmanagedNodesLogged'
        BY <1>17, <2>1 DEF Crash, Return
    <2> QED
        BY ONLY <2>4, <2>5, <2>6, <2>7 DEF CreationInv
<1>18. ASSUME NEW n \in Names, Cleanup(n) PROVE CreationInv'
    BY <1>18 DEF Cleanup
<1>19. ASSUME NEW n \in Names, TerminateNode(n) PROVE CreationInv'
    BY <1>19 DEF TerminateNode
<1>20. ASSUME NEW n \in Names, Register(n) PROVE CreationInv'
    BY <1>20 DEF Register
<1>21. ASSUME NEW n \in Names, ReportReady(n) PROVE CreationInv'
    BY <1>21 DEF ReportReady, Written
<1>22. ASSUME NEW n \in Names, LoseReady(n) PROVE CreationInv'
    BY <1>22 DEF LoseReady, Written
<1>23. ASSUME NEW n \in Names, Touch(n) PROVE CreationInv'
    BY <1>23 DEF Touch, Written
<1>24. CASE UNCHANGED vars
    BY <1>24 DEF vars
<1> QED
    BY <1>1, <1>2, <1>3, <1>4, <1>5, <1>6, <1>7, <1>8, <1>9, <1>10, <1>11, <1>12,
       <1>13, <1>14, <1>15, <1>16, <1>17, <1>18, <1>19, <1>20, <1>21, <1>22, <1>23,
       <1>24 DEF Next, Step, Environment

THEOREM Invariance == Spec => []CreationInv
<1> QED
    BY InitInv, NextInv, PTL DEF Spec

\* Every variable stays in its domain; a call is pending exactly while
\* CreateNode runs for its name.
THEOREM TypeCorrect == Spec => []TypeOK
<1> QED
    BY Invariance, PTL DEF CreationInv

\* What an error of CreateNode leaves behind is what its step can have left,
\* whatever kubelets, other writers and restarts do afterwards.
THEOREM FailureLeavesHolds == Spec => []FailureLeaves
<1> QED
    BY Invariance, PTL DEF CreationInv

\* A Node object without a container comes from a failed join and from nothing
\* else, whatever docker does for a dead or a refused caller.
THEOREM GhostsFromFailedJoinHolds == Spec => []GhostsFromFailedJoin
<1> QED
    BY Invariance, PTL DEF CreationInv

\* What CreateNode reported as failed is never annotated.
THEOREM FailedNodesUnmanagedHolds == Spec => []FailedNodesUnmanaged
<1> QED
    BY Invariance, PTL DEF CreationInv

\* A node reported as created that the safety guard will refuse has left a
\* warning.
THEOREM UnmanagedNodesLoggedHolds == Spec => []UnmanagedNodesLogged
<1> QED
    BY Invariance, PTL DEF CreationInv

----------------------------------------------------------------------------
(* Refinement *)

LEMMA InitRefines == Init => Abstract!Init
<1> QED
    BY DEF Init, Abstract!Init, stage

\* A call whose outcome is set moves its stage and no other.
LEMMA ReturnMoves ==
    ASSUME TypeOK, pc # "idle", NEW outcome \in Outcomes \ {"pending", "unused"}, Return(outcome)
    PROVE  /\ name \in Names
           /\ Abstract!Move(name, "underway",
                IF outcome = "created" THEN "created"
                ELSE IF outcome = "unreported" THEN "lost" ELSE "failed")
<1>1. name \in Names /\ call[name] = "pending"
    BY DEF TypeOK
<1>2. stage[name] = "underway"
    BY <1>1 DEF stage
<1>3. \A n \in Names : call'[n] = IF n = name THEN outcome ELSE call[n]
    BY <1>1 DEF TypeOK, Return
<1>4. \A n \in Names : n # name => stage'[n] = stage[n]
    BY <1>3 DEF stage
<1>5. stage'[name] = IF outcome = "created" THEN "created"
                     ELSE IF outcome = "unreported" THEN "lost" ELSE "failed"
    BY <1>1, <1>3 DEF stage, Outcomes, Errors
<1>6. stage' = [stage EXCEPT ![name] = stage'[name]]
    BY <1>1, <1>4 DEF stage
<1> QED
    BY <1>1, <1>2, <1>5, <1>6 DEF Abstract!Move

LEMMA NextRefines == CreationInv /\ [Next]_vars => [Abstract!Next]_(Abstract!vars)
<1> SUFFICES ASSUME CreationInv, [Next]_vars PROVE [Abstract!Next]_(Abstract!vars)
    OBVIOUS
<1>1. TypeOK /\ FreshNowhere /\ Progress /\ JoiningOK /\ GhostsFromFailedJoin /\ FailedNodesUnmanaged
    BY DEF CreationInv
<1>2. ASSUME UNCHANGED <<containers, nodes, call>> PROVE UNCHANGED Abstract!vars
    BY <1>2 DEF Abstract!vars, stage
<1>3. CASE CreateNode
    <2>1. PICK n \in Names : call[n] = "unused" /\ name' = n /\ call' = [call EXCEPT ![n] = "pending"]
        BY <1>3 DEF CreateNode
    <2>2. \A m \in Names : stage[m] # "underway"
        BY <1>1, <1>3 DEF CreateNode, TypeOK, stage, Outcomes, Errors
    <2>3. stage[n] = "fresh" /\ stage' = [stage EXCEPT ![n] = "underway"]
        BY <1>1, <2>1 DEF TypeOK, stage
    <2>4. Abstract!Begin(n)
        BY <1>3, <2>2, <2>3 DEF CreateNode, Abstract!Begin, Abstract!Move, world
    <2> QED
        BY <2>4 DEF Abstract!Next
<1>4. CASE getKubeadmJoinCommand
    BY <1>2, <1>4 DEF getKubeadmJoinCommand, Goto, world
<1>5. CASE createNodeContainer
    <2>1. name \in Names /\ stage[name] = "underway" /\ UNCHANGED stage
        BY <1>1, <1>5 DEF createNodeContainer, Goto, TypeOK, stage
    <2>2. Abstract!Build(name)
        BY <1>5, <2>1 DEF createNodeContainer, Abstract!Build
    <2> QED
        BY <2>1, <2>2 DEF Abstract!Next
<1>6. CASE execKubeadmJoin \/ JoinFails \/ waitForNodeRegistration \/ WaitForNodeReady \/ annotateGet
    BY <1>2, <1>6 DEF execKubeadmJoin, JoinFails, waitForNodeRegistration, WaitForNodeReady,
                      annotateGet, Goto, world
<1>7. CASE \/ TokenFails \/ RunFails \/ removeContainer \/ RemoveContainerFails
           \/ RegistrationTimeout \/ ReadyTimeout
    <2>1. /\ pc # "idle" /\ UNCHANGED nodes
          /\ \E step \in Errors : Return(step)
        BY <1>7 DEF TokenFails, RunFails, removeContainer, RemoveContainerFails,
                    RegistrationTimeout, ReadyTimeout, Errors, world
    <2>2. PICK step \in Errors : Return(step)
        BY <2>1
    <2>3. name \in Names /\ Abstract!Move(name, "underway", "failed")
        BY <1>1, <2>1, <2>2, ReturnMoves DEF Outcomes, Errors
    <2>4. containers' \in {containers \cup {name}, containers \ {name}}
        BY <1>1, <1>7, <2>3 DEF TokenFails, RunFails, removeContainer, RemoveContainer,
                ContainerGone, RemoveContainerFails, RegistrationTimeout, ReadyTimeout, world, FreshNowhere, Progress
    <2>5. Abstract!Fail(name)
        BY <2>1, <2>3, <2>4 DEF Abstract!Fail
    <2> QED
        BY <2>3, <2>5 DEF Abstract!Next
<1>8. CASE annotateUpdate \/ AnnotateFails
    <2>1. /\ pc # "idle" /\ Return("created")
          /\ name \in containers \cap nodes /\ UNCHANGED <<containers, nodes>>
        BY <1>1, <1>8 DEF annotateUpdate, AnnotateFails, Progress, world
    <2>2. name \in Names /\ Abstract!Move(name, "underway", "created")
        BY <1>1, <2>1, ReturnMoves DEF Outcomes
    <2>3. Abstract!Succeed(name)
        BY <2>1, <2>2 DEF Abstract!Succeed
    <2> QED
        BY <2>2, <2>3 DEF Abstract!Next
<1>9. CASE Crash
    <2> USE DEF CarriedOut, ContainerGone, RemoveContainer
    <2>1. pc # "idle" /\ UNCHANGED nodes
        BY <1>9 DEF Crash
    <2>2. CASE pc = "cleanup"
        <3>1. Return("unclean") /\ containers' \in {containers, containers \ {name}}
            BY <1>9, <2>2 DEF Crash
        <3>2. name \in Names /\ Abstract!Move(name, "underway", "failed")
            BY <1>1, <2>1, <3>1, ReturnMoves DEF Outcomes
        <3>3. containers' \in {containers \cup {name}, containers \ {name}}
            BY <1>1, <2>2, <3>1 DEF Progress
        <3>4. Abstract!Fail(name)
            BY <2>1, <3>2, <3>3 DEF Abstract!Fail
        <3> QED
            BY <3>2, <3>4 DEF Abstract!Next
    <2>3. CASE pc # "cleanup"
        <3>1. Return("unreported") /\ containers' \in {containers, containers \cup {name}}
            BY <1>9, <2>3 DEF Crash
        <3>2. name \in Names /\ Abstract!Move(name, "underway", "lost")
            BY <1>1, <2>1, <3>1, ReturnMoves DEF Outcomes
        <3>3. Abstract!Lose(name)
            BY <2>1, <3>1, <3>2 DEF Abstract!Lose
        <3> QED
            BY <3>2, <3>3 DEF Abstract!Next
    <2> QED
        BY <2>2, <2>3
<1>10. ASSUME NEW n \in Names, Cleanup(n) PROVE Abstract!Next
    <2>1. n \in containers /\ call[n] \in {"created", "unreported"}
        BY <1>1, <1>10 DEF Cleanup, TypeOK, FailedNodesUnmanaged, GhostsFromFailedJoin
    <2>2. stage[n] \in {"created", "lost"} /\ UNCHANGED stage
        BY <1>10, <2>1 DEF Cleanup, stage
    <2>3. Abstract!Expel(n)
        BY <1>10, <2>1, <2>2 DEF Cleanup, Abstract!Expel
    <2> QED
        BY <2>3 DEF Abstract!Next
<1>11. ASSUME NEW n \in Names, TerminateNode(n) PROVE Abstract!Next
    <2>1. stage[n] \in {"created", "lost"} /\ UNCHANGED stage
        BY <1>11 DEF TerminateNode, stage
    <2>2. Abstract!Terminate(n)
        BY <1>11, <2>1 DEF TerminateNode, Abstract!Terminate
    <2> QED
        BY <2>2 DEF Abstract!Next
<1>12. ASSUME NEW n \in Names, Register(n) PROVE Abstract!Next
    <2>1. n \in containers /\ UNCHANGED stage
        BY <1>1, <1>12 DEF Register, JoiningOK, stage
    <2>2. Abstract!Enroll(n)
        BY <1>12, <2>1 DEF Register, Abstract!Enroll
    <2> QED
        BY <2>2 DEF Abstract!Next
<1>13. ASSUME NEW n \in Names, ReportReady(n) \/ LoseReady(n) \/ Touch(n)
       PROVE  UNCHANGED Abstract!vars
    BY <1>2, <1>13 DEF ReportReady, LoseReady, Touch, world
<1>14. CASE UNCHANGED vars
    BY <1>2, <1>14 DEF vars, world
<1> QED
    BY <1>3, <1>4, <1>5, <1>6, <1>7, <1>8, <1>9, <1>10, <1>11, <1>12, <1>13, <1>14
       DEF Next, Step, Environment

\* CreateNode, with all its failures, late kubelets and crashes, keeps the
\* contract of NodeCreation; a failed node is never expelled.
THEOREM Refinement == Spec => ImplementsNodeCreation
<1>1. Spec => Abstract!Init /\ [][Abstract!Next]_(Abstract!vars)
    BY InitRefines, Invariance, NextRefines, PTL DEF Spec
<1> QED
    BY <1>1 DEF ImplementsNodeCreation, Abstract!Spec
============================================================================

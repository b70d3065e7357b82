------------------------ MODULE WorkflowEngineProofs ------------------------
(* Theorems about WorkflowEngine, for every workflow graph, every number of *)
(* executions and every bound.                                              *)
EXTENDS WorkflowEngine, FiniteSetTheorems, TLAPS

(***************************************************************************)
(* Types. Reading the row of the current request needs more than TypeOK:   *)
(* where a thread executes a node, that node exists and its visit was      *)
(* counted and is within the limit. A count goes beyond the limit only     *)
(* when that ends the run.                                                 *)
(***************************************************************************)
EndPcs == {"fail", "failed", "exit", "writeCancelled", "writeCompleted", "cleanup"}

WalkOK ==
  \A e \in Execs :
    /\ pc[e] \in ApprovalPcs \cup {"run", "apprResume"} =>
         node[e] \in Nodes /\ visits[e][node[e]] \in 1..MaxNodeVisits
    /\ pc[e] \notin EndPcs => visits[e] \in [Nodes -> 0..MaxNodeVisits]
    /\ pc[e] \in ApprovalPcs \cup {"apprResume"} => Kind[node[e]] = "approval"

TypeInv == TypeOK /\ WalkOK

\* Routing leads to a node, to a dangling target, or nowhere.
LEMMA FirstEdgeType ==
  ASSUME NEW n \in Nodes, NEW types
  PROVE  FirstEdge(n, types) \in Nodes \cup {NoNode, Dangling}
<1> DEFINE hits  == {i \in DOMAIN Conns[n] : Conns[n][i].type \in types}
           first == {i \in hits : \A j \in hits : i <= j}
<1>1. CASE first = {}
  BY <1>1 DEF FirstEdge
<1>2. CASE first # {}
  <2> DEFINE i == CHOOSE j \in first : TRUE
  <2>1. i \in DOMAIN Conns[n]
    BY <1>2
  <2> DEFINE Edges == [type : {"pass", "fail", "complete"},
                       target : Nodes \cup {Dangling}]
  <2>2. Conns[n] \in Seq(Edges)
    BY GraphAssumption
  <2>3. FirstEdge(n, types) = Conns[n][i].target
    BY <1>2 DEF FirstEdge
  <2>4. Conns[n][i] \in Edges
    <3> HIDE DEF i, Edges
    <3> QED BY <2>1, <2>2
  <2>5. QED
    <3> HIDE DEF i
    <3> QED BY <2>3, <2>4
<1>3. QED
  BY <1>1, <1>2

LEMMA RouteType ==
  ASSUME NEW n \in Nodes
  PROVE  /\ OnSuccess(n) \in Nodes \cup {NoNode, Dangling}
         /\ OnFailure(n) \in Nodes \cup {NoNode, Dangling}
         /\ \A ok \in BOOLEAN : OnVerdict(n, ok) \in Nodes \cup {NoNode, Dangling}
  BY FirstEdgeType DEF OnSuccess, OnFailure, OnVerdict, OrElse

\* The request of the node being executed exists.
LEMMA CurrentType ==
  ASSUME TypeInv, NEW e \in Execs, pc[e] \in ApprovalPcs \cup {"run", "apprResume"}
  PROVE  /\ Current(e) \in Visits
         /\ pc[e] # "run" => Current(e) \in ApprovalVisits
         /\ node[e] \in Nodes
BY DEF TypeInv, WalkOK, Current, Visits, ApprovalVisits

(* What the helpers do to the rows they write. *)

LEMMA LoseWriteType ==
  ASSUME TypeOK, LoseWrite \/ UNCHANGED faults
  PROVE  faults' \in 0..MaxFaults
BY BoundAssumption DEF TypeOK, LoseWrite

LEMMA SetRowType ==
  ASSUME NEW S, NEW T, NEW f \in [Execs -> [S -> T]],
         NEW e \in Execs, NEW v \in S, NEW t \in T
  PROVE  [f EXCEPT ![e][v] = t] \in [Execs -> [S -> T]]
OBVIOUS

LEMMA SetDbType ==
  ASSUME TypeOK, NEW e \in Execs, NEW s \in DbStatus, SetDb(e, s)
  PROVE  db' \in [Execs -> DbStatus] /\ faults' \in 0..MaxFaults
<1>1. db' \in [Execs -> DbStatus]
  <2>1. db \in [Execs -> DbStatus]
    BY DEF TypeOK
  <2>2. QED
    BY <2>1 DEF SetDb
<1>2. QED
  BY <1>1, LoseWriteType DEF SetDb

LEMMA FollowType ==
  ASSUME TypeOK, NEW e \in Execs, Current(e) \in ApprovalVisits, Follow(e)
  PROVE  routed' \in [Execs -> [ApprovalVisits -> {"none", "approved", "rejected"}]]
<1>1. (IF resp[e] \in Approving THEN "approved" ELSE "rejected")
        \in {"none", "approved", "rejected"}
  OBVIOUS
<1>2. QED
  BY <1>1, SetRowType DEF TypeOK, Follow

LEMMA SetStepType ==
  ASSUME TypeOK, NEW e \in Execs, NEW n \in Nodes, NEW s \in StepStatus,
         SetStep(e, n, s)
  PROVE  step' \in [Execs -> [Visits -> StepStatus]] /\ faults' \in 0..MaxFaults
<1>1. ASSUME visits[e][n] \in 1..MaxNodeVisits
      PROVE  <<n, visits[e][n]>> \in Visits
  BY <1>1 DEF Visits
<1>2. step' \in [Execs -> [Visits -> StepStatus]]
  <2>1. CASE UNCHANGED step
    BY <2>1 DEF TypeOK
  <2>2. CASE /\ visits[e][n] \in 1..MaxNodeVisits
             /\ step' = [step EXCEPT ![e][<<n, visits[e][n]>>] = s]
    BY <2>2, <1>1, SetRowType DEF TypeOK
  <2>3. QED
    BY <2>1, <2>2 DEF SetStep
<1>3. QED
  BY <1>2, LoseWriteType DEF SetStep

LEMMA CallType ==
  ASSUME TypeOK, NEW o \in Operations, Call(o)
  PROVE  calls' \in [Operations -> Nat]
BY DEF TypeOK, Call

LEMMA PutType ==
  ASSUME TypeOK, NEW e \in Execs, NEW c \in Commands, Put(e, c)
  PROVE  queue' \in [Execs -> Seq(Commands)]
<1>1. Append(queue[e], c) \in Seq(Commands)
  BY DEF TypeOK
<1>2. QED
  BY <1>1 DEF TypeOK, Put

LEMMA TakeCommandType ==
  ASSUME TypeOK, NEW e \in Execs, queue[e] # <<>>
  PROVE  [queue EXCEPT ![e] = Tail(@)] \in [Execs -> Seq(Commands)]
<1>1. Tail(queue[e]) \in Seq(Commands)
  BY DEF TypeOK
<1>2. QED
  BY <1>1 DEF TypeOK

LEMMA TypeStep ==
  ASSUME TypeInv, NEW e \in Execs, Thread(e) \/ Faulty(e) \/ Request(e)
  PROVE  TypeInv'
<1> USE GraphAssumption, BoundAssumption
        DEF dbVars, flagVars, walkVars, apiVars, peopleVars, PcStates, HolderPcs,
            ApprovalPcs, EndPcs
<1>1. CASE StartWorkflow(e)
  <2>1. TypeOK'
    BY <1>1, CurrentType DEF TypeInv, TypeOK, StartWorkflow, DbStatus
  <2>2. WalkOK'
    BY <1>1 DEF TypeInv, TypeOK, WalkOK, StartWorkflow
  <2>3. QED
    BY <2>1, <2>2 DEF TypeInv
<1>2. CASE AcquireSlot(e)
  <2>1. TypeOK'
    <3>1. pc' \in [Execs -> PcStates] /\ slots' \in Nat
      BY <1>2 DEF TypeInv, TypeOK, AcquireSlot
    <3>2. QED
      BY <1>2, <3>1 DEF TypeInv, TypeOK, AcquireSlot
  <2>2. WalkOK'
    BY <1>2 DEF TypeInv, TypeOK, WalkOK, AcquireSlot
  <2>3. QED
    BY <2>1, <2>2 DEF TypeInv
<1>3. CASE LoadVariables(e)
  <2>1. TypeOK'
    BY <1>3, CurrentType DEF TypeInv, TypeOK, LoadVariables
  <2>2. WalkOK'
    BY <1>3 DEF TypeInv, TypeOK, WalkOK, LoadVariables
  <2>3. QED
    BY <2>1, <2>2 DEF TypeInv
<1>4. CASE ThreadFails(e)
  <2>1. TypeOK'
    <3>1. db' \in [Execs -> DbStatus]
      <4>1. db \in [Execs -> DbStatus] /\ "Failed" \in DbStatus
        BY DEF TypeInv, TypeOK, DbStatus, Terminal
      <4>2. db' = db \/ db' = [db EXCEPT ![e] = "Failed"]
        BY <1>4 DEF ThreadFails
      <4>3. QED
        BY <4>1, <4>2
    <3>2. faults' \in 0..MaxFaults
      BY <1>4, LoseWriteType DEF TypeInv, ThreadFails
    <3>3. pc' \in [Execs -> PcStates]
      BY <1>4 DEF TypeInv, TypeOK, ThreadFails
    <3>4. QED
      BY <1>4, <3>1, <3>2, <3>3 DEF TypeInv, TypeOK, ThreadFails
  <2>2. WalkOK'
    BY <1>4 DEF TypeInv, TypeOK, WalkOK, ThreadFails
  <2>3. QED
    BY <2>1, <2>2 DEF TypeInv
<1>5. CASE LeaveLoop(e)
  <2>1. TypeOK'
    BY <1>5, CurrentType DEF TypeInv, TypeOK, LeaveLoop
  <2>2. WalkOK'
    BY <1>5 DEF TypeInv, TypeOK, WalkOK, LeaveLoop
  <2>3. QED
    BY <2>1, <2>2 DEF TypeInv
<1>6. CASE Park(e)
  <2>1. TypeOK'
    <3>1. step' \in [Execs -> [Visits -> StepStatus]] /\ faults' \in 0..MaxFaults
      BY <1>6, SetStepType, LoseWriteType DEF TypeInv, TypeOK, StepStatus, Park
    <3>2. QED
      BY <1>6, <3>1 DEF TypeInv, TypeOK, Park
  <2>2. WalkOK'
    BY <1>6 DEF TypeInv, TypeOK, WalkOK, Park, InLoop
  <2>3. QED
    BY <2>1, <2>2 DEF TypeInv
<1>7. CASE Unpark(e)
  <2>1. TypeOK'
    <3>1. step' \in [Execs -> [Visits -> StepStatus]] /\ faults' \in 0..MaxFaults
      BY <1>7, SetStepType, LoseWriteType DEF TypeInv, TypeOK, StepStatus, Unpark
    <3>2. queue' \in [Execs -> Seq(Commands)]
      BY <1>7, TakeCommandType DEF TypeInv, Unpark
    <3>3. pc' \in [Execs -> PcStates]
      <4>1. pc' = [pc EXCEPT ![e] = "enter"] \/ pc' = [pc EXCEPT ![e] = "exit"]
        BY <1>7 DEF Unpark
      <4>2. pc \in [Execs -> PcStates]
        BY DEF TypeInv, TypeOK
      <4>3. QED
        BY <4>1, <4>2 DEF PcStates
    <3>4. paused' \in [Execs -> BOOLEAN] /\ cancelled' \in [Execs -> BOOLEAN]
      <4>1. /\ UNCHANGED paused \/ paused' = [paused EXCEPT ![e] = FALSE]
            /\ UNCHANGED cancelled \/ cancelled' = [cancelled EXCEPT ![e] = TRUE]
        BY <1>7 DEF Unpark
      <4>2. paused \in [Execs -> BOOLEAN] /\ cancelled \in [Execs -> BOOLEAN]
        BY DEF TypeInv, TypeOK
      <4>3. QED
        BY <4>1, <4>2
    <3>5. UNCHANGED <<db, appr, past, status, node, visits, resp, routed, slots, apiVars, peopleVars>>
      BY <1>7 DEF Unpark
    <3>6. QED
      BY <3>1, <3>2, <3>3, <3>4, <3>5 DEF TypeInv, TypeOK
  <2>2. WalkOK'
    <3>1. pc' = [pc EXCEPT ![e] = "enter"] \/ pc' = [pc EXCEPT ![e] = "exit"]
      BY <1>7 DEF Unpark
    <3>2. pc[e] = "parked" /\ UNCHANGED <<node, visits>>
      BY <1>7 DEF Unpark
    <3>3. CASE pc' = [pc EXCEPT ![e] = "enter"]
      BY <3>2, <3>3 DEF TypeInv, TypeOK, WalkOK
    <3>4. CASE pc' = [pc EXCEPT ![e] = "exit"]
      BY <3>2, <3>4 DEF TypeInv, TypeOK, WalkOK
    <3>5. QED
      BY <3>1, <3>3, <3>4
  <2>3. QED
    BY <2>1, <2>2 DEF TypeInv
<1>8. CASE RefuseNode(e)
  <2>1. TypeOK'
    <3>1. visits[e] \in [Nodes -> 0..MaxNodeVisits]
      BY <1>8 DEF TypeInv, WalkOK, Entering, InLoop, RefuseNode
    <3>2. visits' \in [Execs -> [Nodes -> 0..(MaxNodeVisits + 1)]]
      <4>1. CASE node[e] \notin Nodes
        BY <1>8, <4>1 DEF TypeInv, TypeOK, RefuseNode
      <4>2. CASE node[e] \in Nodes
        <5>1. visits' = [visits EXCEPT ![e][node[e]] = @ + 1]
          BY <1>8, <4>2 DEF RefuseNode
        <5>2. visits[e][node[e]] + 1 \in 0..(MaxNodeVisits + 1)
          BY <3>1, <4>2
        <5>3. QED
          BY <5>1, <5>2, <4>2, SetRowType DEF TypeInv, TypeOK
      <4>3. QED
        BY <4>1, <4>2
    <3>3. QED
      BY <1>8, <3>2 DEF TypeInv, TypeOK, RefuseNode, Entering, InLoop
  <2>2. WalkOK'
    <3>1. /\ pc' = [pc EXCEPT ![e] = "fail"] /\ UNCHANGED node
          /\ \A f \in Execs \ {e} : visits'[f] = visits[f]
      BY <1>8 DEF TypeInv, TypeOK, RefuseNode
    <3>2. pc'[e] = "fail" /\ \A f \in Execs \ {e} : pc'[f] = pc[f]
      BY <3>1 DEF TypeInv, TypeOK
    <3>3. QED
      BY <3>1, <3>2 DEF TypeInv, WalkOK, ApprovalPcs
  <2>3. QED
    BY <2>1, <2>2 DEF TypeInv
<1>9. CASE EnterNode(e)
  <2>1. TypeOK'
    <3>1. <<node[e], visits[e][node[e]] + 1>> \in Visits
      BY <1>9 DEF TypeInv, TypeOK, Visits, EnterNode
    <3>2. faults' \in 0..MaxFaults
      BY <1>9, LoseWriteType DEF TypeInv, EnterNode
    <3>3. step' \in [Execs -> [Visits -> StepStatus]]
      <4>1. CASE UNCHANGED step
        BY <4>1 DEF TypeInv, TypeOK
      <4>2. CASE step' = [step EXCEPT ![e][<<node[e], visits[e][node[e]] + 1>>]
                            = "Running"]
        BY <4>2, <3>1, SetRowType DEF TypeInv, TypeOK, StepStatus
      <4>3. QED
        BY <1>9, <4>1, <4>2 DEF EnterNode
    <3>4. visits' \in [Execs -> [Nodes -> 0..(MaxNodeVisits + 1)]]
      BY <1>9 DEF TypeInv, TypeOK, EnterNode
    <3>5. QED
      <4>1. pc' \in [Execs -> PcStates]
        BY <1>9 DEF TypeInv, TypeOK, EnterNode
      <4>2. UNCHANGED <<db, appr, past, flagVars, node, resp, routed, slots, apiVars, peopleVars>>
        BY <1>9 DEF EnterNode
      <4>3. QED
        BY <3>2, <3>3, <3>4, <4>1, <4>2 DEF TypeInv, TypeOK
  <2>2. WalkOK'
    <3>1. /\ node[e] \in Nodes /\ UNCHANGED node
          /\ pc' = [pc EXCEPT ![e] = IF Kind[node[e]] = "approval" THEN "apprOpen" ELSE "run"]
             \/ pc' = [pc EXCEPT ![e] = "fail"]
          /\ visits' = [visits EXCEPT ![e][node[e]] = @ + 1]
          /\ visits[e][node[e]] < MaxNodeVisits
      BY <1>9 DEF EnterNode
    <3>2. visits[e] \in [Nodes -> 0..MaxNodeVisits]
      BY <1>9 DEF TypeInv, WalkOK, Entering, InLoop, EnterNode
    <3>3. /\ visits'[e] = [visits[e] EXCEPT ![node[e]] = @ + 1]
          /\ \A f \in Execs \ {e} : visits'[f] = visits[f]
      BY <3>1 DEF TypeInv, TypeOK
    <3>4. visits'[e] \in [Nodes -> 0..MaxNodeVisits] /\ visits'[e][node[e]] \in 1..MaxNodeVisits
      BY <3>1, <3>2, <3>3
    <3>5. /\ \A f \in Execs \ {e} : pc'[f] = pc[f]
          /\ pc'[e] \in {"apprOpen", "run", "fail"}
          /\ pc'[e] = "apprOpen" => Kind[node[e]] = "approval"
      BY <3>1 DEF TypeInv, TypeOK
    <3>6. QED
      BY <3>1, <3>3, <3>4, <3>5 DEF TypeInv, WalkOK
  <2>3. QED
    BY <2>1, <2>2 DEF TypeInv
<1>10. CASE NodeSucceeds(e)
  <2>1. TypeOK'
    <3>1. step' \in [Execs -> [Visits -> StepStatus]] /\ faults' \in 0..MaxFaults
      BY <1>10, CurrentType, SetStepType DEF TypeInv, StepStatus, NodeSucceeds
    <3>2. node' \in [Execs -> Nodes \cup {NoNode, Dangling}]
      BY <1>10, CurrentType, RouteType DEF TypeInv, TypeOK, GoTo, NodeSucceeds
    <3>3. QED
      BY <1>10, <3>1, <3>2 DEF TypeInv, TypeOK, NodeSucceeds, GoTo
  <2>2. WalkOK'
    BY <1>10 DEF TypeInv, TypeOK, WalkOK, NodeSucceeds, GoTo
  <2>3. QED
    BY <2>1, <2>2 DEF TypeInv
<1>11. CASE ConditionIsFalse(e)
  <2>1. TypeOK'
    <3>1. step' \in [Execs -> [Visits -> StepStatus]] /\ faults' \in 0..MaxFaults
      BY <1>11, CurrentType, SetStepType DEF TypeInv, StepStatus, ConditionIsFalse
    <3>2. node' \in [Execs -> Nodes \cup {NoNode, Dangling}]
      BY <1>11, CurrentType, RouteType DEF TypeInv, TypeOK, GoTo, ConditionIsFalse
    <3>3. QED
      BY <1>11, <3>1, <3>2 DEF TypeInv, TypeOK, ConditionIsFalse, GoTo
  <2>2. WalkOK'
    BY <1>11 DEF TypeInv, TypeOK, WalkOK, ConditionIsFalse, GoTo
  <2>3. QED
    BY <2>1, <2>2 DEF TypeInv
<1>12. CASE NodeFails(e)
  <2>1. TypeOK'
    <3>1. step' \in [Execs -> [Visits -> StepStatus]] /\ faults' \in 0..MaxFaults
      BY <1>12, CurrentType, SetStepType DEF TypeInv, StepStatus, NodeFails
    <3>2. OnFailure(node[e]) \in Nodes \cup {NoNode, Dangling}
      BY <1>12, CurrentType, RouteType DEF NodeFails
    <3>3. node' \in [Execs -> Nodes \cup {NoNode, Dangling}]
      <4>1. node' = node \/ node' = [node EXCEPT ![e] = OnFailure(node[e])]
        BY <1>12 DEF GoTo, NodeFails
      <4>2. node \in [Execs -> Nodes \cup {NoNode, Dangling}]
        BY DEF TypeInv, TypeOK
      <4>3. QED
        BY <3>2, <4>1, <4>2
    <3>4. pc' \in [Execs -> PcStates]
      <4>1. pc' = [pc EXCEPT ![e] = "top"] \/ pc' = [pc EXCEPT ![e] = "fail"]
        BY <1>12 DEF NodeFails, GoTo
      <4>2. QED
        BY <4>1 DEF TypeInv, TypeOK
    <3>5. UNCHANGED <<db, appr, past, flagVars, visits, resp, routed, slots, apiVars, peopleVars>>
      BY <1>12 DEF NodeFails
    <3>6. QED
      BY <3>1, <3>3, <3>4, <3>5 DEF TypeInv, TypeOK
  <2>2. WalkOK'
    <3>1. pc' = [pc EXCEPT ![e] = "top"] \/ pc' = [pc EXCEPT ![e] = "fail"]
      BY <1>12 DEF NodeFails, GoTo
    <3>2. /\ pc[e] = "run" /\ UNCHANGED visits
          /\ \A f \in Execs \ {e} : node'[f] = node[f]
      BY <1>12 DEF TypeInv, TypeOK, NodeFails, GoTo
    <3>3. CASE pc' = [pc EXCEPT ![e] = "top"]
      BY <3>2, <3>3 DEF TypeInv, TypeOK, WalkOK
    <3>4. CASE pc' = [pc EXCEPT ![e] = "fail"]
      BY <3>2, <3>4 DEF TypeInv, TypeOK, WalkOK
    <3>5. QED
      BY <3>1, <3>3, <3>4
  <2>3. QED
    BY <2>1, <2>2 DEF TypeInv
<1>13. CASE OpenApproval(e)
  <2>1. TypeOK'
    <3>1. step' \in [Execs -> [Visits -> StepStatus]] /\ faults' \in 0..MaxFaults
      BY <1>13, CurrentType, SetStepType DEF TypeInv, StepStatus, OpenApproval
    <3>2. appr' \in [Execs -> [ApprovalVisits -> ApprovalStatus]]
      BY <1>13, CurrentType DEF TypeInv, TypeOK, ApprovalStatus, OpenApproval
    <3>3. QED
      BY <1>13, <3>1, <3>2 DEF TypeInv, TypeOK, OpenApproval, ApprovalStatus
  <2>2. WalkOK'
    BY <1>13 DEF TypeInv, TypeOK, WalkOK, OpenApproval
  <2>3. QED
    BY <2>1, <2>2 DEF TypeInv
<1>14. CASE AnnounceApproval(e)
  <2>1. TypeOK'
    <3>1. db' \in [Execs -> DbStatus] /\ faults' \in 0..MaxFaults
      BY <1>14, SetDbType DEF TypeInv, DbStatus, AnnounceApproval
    <3>2. QED
      BY <1>14, <3>1 DEF TypeInv, TypeOK, AnnounceApproval
  <2>2. WalkOK'
    BY <1>14 DEF TypeInv, TypeOK, WalkOK, AnnounceApproval
  <2>3. QED
    BY <2>1, <2>2 DEF TypeInv
<1>15. CASE SeeCancel(e)
  <2>1. TypeOK'
    BY <1>15, CurrentType DEF TypeInv, TypeOK, SeeCancel
  <2>2. WalkOK'
    BY <1>15 DEF TypeInv, TypeOK, WalkOK, SeeCancel
  <2>3. QED
    BY <2>1, <2>2 DEF TypeInv
<1>16. CASE SeeTimeout(e)
  <2>1. TypeOK'
    BY <1>16, CurrentType DEF TypeInv, TypeOK, SeeTimeout
  <2>2. WalkOK'
    BY <1>16 DEF TypeInv, TypeOK, WalkOK, SeeTimeout
  <2>3. QED
    BY <2>1, <2>2 DEF TypeInv
<1>17. CASE SeeDecision(e)
  <2>1. TypeOK'
    <3>1. appr[e][Current(e)] \in ApprovalStatus
      BY <1>17, CurrentType DEF TypeInv, TypeOK, SeeDecision
    <3>2. QED
      BY <1>17, <3>1 DEF TypeInv, TypeOK, SeeDecision
  <2>2. WalkOK'
    BY <1>17 DEF TypeInv, TypeOK, WalkOK, SeeDecision
  <2>3. QED
    BY <2>1, <2>2 DEF TypeInv
<1>18. CASE PollQueue(e)
  <2>1. TypeOK'
    <3>1. queue' \in [Execs -> Seq(Commands)]
      BY <1>18, TakeCommandType DEF TypeInv, TypeOK, PollQueue
    <3>2. pc' \in [Execs -> PcStates] /\ cancelled' \in [Execs -> BOOLEAN]
      <4>1. /\ UNCHANGED pc \/ pc' = [pc EXCEPT ![e] = "apprHandle"]
            /\ UNCHANGED cancelled \/ cancelled' = [cancelled EXCEPT ![e] = TRUE]
        BY <1>18 DEF PollQueue
      <4>2. pc \in [Execs -> PcStates] /\ cancelled \in [Execs -> BOOLEAN]
        BY DEF TypeInv, TypeOK
      <4>3. QED
        BY <4>1, <4>2 DEF PcStates
    <3>3. UNCHANGED <<dbVars, status, paused, node, visits, resp, routed, slots, apiVars,
                      peopleVars, faults>>
      BY <1>18 DEF PollQueue
    <3>4. QED
      BY <3>1, <3>2, <3>3 DEF TypeInv, TypeOK
  <2>2. WalkOK'
    <3>1. UNCHANGED pc \/ pc' = [pc EXCEPT ![e] = "apprHandle"]
      BY <1>18 DEF PollQueue
    <3>2. pc[e] = "apprWait" /\ UNCHANGED <<node, visits>>
      BY <1>18 DEF PollQueue
    <3>3. QED
      BY <3>1, <3>2 DEF TypeInv, TypeOK, WalkOK
  <2>3. QED
    BY <2>1, <2>2 DEF TypeInv
<1>19. CASE ApplyTimeout(e)
  <2>1. TypeOK'
    BY <1>19, CurrentType DEF TypeInv, TypeOK, ApplyTimeout, TimeOutRow, TimeoutStatus, ApprovalStatus, Decided, Approving
  <2>2. WalkOK'
    BY <1>19 DEF TypeInv, TypeOK, WalkOK, ApplyTimeout
  <2>3. QED
    BY <2>1, <2>2 DEF TypeInv
<1>20. CASE WithdrawApproval(e)
  <2>1. TypeOK'
    BY <1>20, CurrentType DEF TypeInv, TypeOK, WithdrawApproval, WithdrawRow, GoTo, ApprovalStatus
  <2>2. WalkOK'
    BY <1>20 DEF TypeInv, TypeOK, WalkOK, WithdrawApproval, GoTo
  <2>3. QED
    BY <2>1, <2>2 DEF TypeInv
<1>21. CASE TakeDecision(e)
  <2>1. TypeOK'
    <3>1. step' \in [Execs -> [Visits -> StepStatus]] /\ faults' \in 0..MaxFaults
      BY <1>21, CurrentType, SetStepType DEF TypeInv, StepStatus, TakeDecision
    <3>2. routed' \in [Execs -> [ApprovalVisits -> {"none", "approved", "rejected"}]]
      BY <1>21, CurrentType, FollowType DEF TypeInv, TakeDecision
    <3>3. QED
      BY <1>21, <3>1, <3>2 DEF TypeInv, TypeOK, TakeDecision
  <2>2. WalkOK'
    BY <1>21 DEF TypeInv, TypeOK, WalkOK, TakeDecision
  <2>3. QED
    BY <2>1, <2>2 DEF TypeInv
<1>22. CASE FollowDecision(e)
  <2>1. TypeOK'
    <3>1. db' \in [Execs -> DbStatus] /\ faults' \in 0..MaxFaults
      BY <1>22, SetDbType DEF TypeInv, DbStatus, FollowDecision
    <3>2. OnVerdict(node[e], resp[e] \in Approving) \in Nodes \cup {NoNode, Dangling}
      BY <1>22, CurrentType, FirstEdgeType DEF OnVerdict, FollowDecision
    <3>3. node' \in [Execs -> Nodes \cup {NoNode, Dangling}]
      BY <1>22, <3>2 DEF TypeInv, TypeOK, GoTo, FollowDecision
    <3>4. QED
      BY <1>22, <3>1, <3>2, <3>3 DEF TypeInv, TypeOK, FollowDecision, GoTo
  <2>2. WalkOK'
    BY <1>22 DEF TypeInv, TypeOK, WalkOK, FollowDecision, GoTo
  <2>3. QED
    BY <2>1, <2>2 DEF TypeInv
<1>23. CASE ApprovalFails(e)
  <2>1. TypeOK'
    <3>1. Current(e) \in Visits
      BY <1>23, CurrentType DEF ApprovalFails
    <3>2. faults' \in 0..MaxFaults
      BY <1>23, LoseWriteType DEF TypeInv, ApprovalFails
    <3>3. step' \in [Execs -> [Visits -> StepStatus]]
      <4>1. CASE UNCHANGED step
        BY <4>1 DEF TypeInv, TypeOK
      <4>2. CASE step' = [step EXCEPT ![e][Current(e)] = "Failed"]
        BY <4>2, <3>1, SetRowType DEF TypeInv, TypeOK, StepStatus
      <4>3. QED
        BY <1>23, <4>1, <4>2 DEF ApprovalFails
    <3>4. Current(e) \in ApprovalVisits
      BY <1>23, CurrentType DEF ApprovalFails, ApprovalPcs
    <3>5. appr' \in [Execs -> [ApprovalVisits -> ApprovalStatus]]
      <4>1. CASE UNCHANGED appr
        BY <4>1 DEF TypeInv, TypeOK
      <4>2. CASE appr' = [appr EXCEPT ![e][Current(e)] = "Pending"]
        BY <4>2, <3>4, SetRowType DEF TypeInv, TypeOK, ApprovalStatus
      <4>3. CASE appr' = [appr EXCEPT ![e][Current(e)] = "Cancelled"]
        BY <4>3, <3>4, SetRowType DEF TypeInv, TypeOK, ApprovalStatus
      <4>4. QED
        BY <1>23, <4>1, <4>2, <4>3 DEF ApprovalFails, WithdrawRow
    <3>6. routed' \in [Execs -> [ApprovalVisits -> {"none", "approved", "rejected"}]]
      <4>1. CASE UNCHANGED routed
        BY <4>1 DEF TypeInv, TypeOK
      <4>2. CASE Follow(e)
        BY <4>2, <3>4, FollowType DEF TypeInv
      <4>3. QED
        BY <1>23, <4>1, <4>2 DEF ApprovalFails
    <3>7. QED
      BY <1>23, <3>2, <3>3, <3>5, <3>6 DEF TypeInv, TypeOK, ApprovalFails
  <2>2. WalkOK'
    BY <1>23 DEF TypeInv, TypeOK, WalkOK, ApprovalFails
  <2>3. QED
    BY <2>1, <2>2 DEF TypeInv
<1>24. CASE FailRun(e)
  <2>1. TypeOK'
    <3>1. db' \in [Execs -> DbStatus] /\ faults' \in 0..MaxFaults
      BY <1>24, SetDbType DEF TypeInv, DbStatus, Terminal, FailRun
    <3>2. QED
      BY <1>24, <3>1 DEF TypeInv, TypeOK, FailRun
  <2>2. WalkOK'
    BY <1>24 DEF TypeInv, TypeOK, WalkOK, FailRun
  <2>3. QED
    BY <2>1, <2>2 DEF TypeInv
<1>25. CASE MarkFailed(e)
  <2>1. TypeOK'
    BY <1>25, CurrentType DEF TypeInv, TypeOK, MarkFailed
  <2>2. WalkOK'
    BY <1>25 DEF TypeInv, TypeOK, WalkOK, MarkFailed
  <2>3. QED
    BY <2>1, <2>2 DEF TypeInv
<1>26. CASE ChooseOutcome(e)
  <2>1. TypeOK'
    BY <1>26, CurrentType DEF TypeInv, TypeOK, ChooseOutcome
  <2>2. WalkOK'
    BY <1>26 DEF TypeInv, TypeOK, WalkOK, ChooseOutcome
  <2>3. QED
    BY <2>1, <2>2 DEF TypeInv
<1>27. CASE WriteOutcome(e)
  <2>1. TypeOK'
    <3>1. db' \in [Execs -> DbStatus] /\ faults' \in 0..MaxFaults
      BY <1>27, SetDbType DEF TypeInv, DbStatus, Terminal, WriteOutcome
    <3>2. QED
      BY <1>27, <3>1 DEF TypeInv, TypeOK, WriteOutcome
  <2>2. WalkOK'
    BY <1>27 DEF TypeInv, TypeOK, WalkOK, WriteOutcome
  <2>3. QED
    BY <2>1, <2>2 DEF TypeInv
<1>28. CASE Cleanup(e)
  <2>1. TypeOK'
    BY <1>28, CurrentType DEF TypeInv, TypeOK, Cleanup, ReleaseSlot
  <2>2. WalkOK'
    BY <1>28 DEF TypeInv, TypeOK, WalkOK, Cleanup
  <2>3. QED
    BY <2>1, <2>2 DEF TypeInv
<1>29. CASE PauseWorkflow(e)
  <2>1. TypeOK'
    <3>1. calls' \in [Operations -> Nat]
      BY <1>29, CallType DEF TypeInv, Operations, PauseWorkflow
    <3>2. writes' \in SUBSET (Execs \X {"Paused", "Cancelled"})
      BY <1>29 DEF TypeInv, TypeOK, PauseWorkflow
    <3>3. QED
      BY <1>29, <3>1, <3>2 DEF TypeInv, TypeOK, PauseWorkflow
  <2>2. WalkOK'
    BY <1>29 DEF TypeInv, TypeOK, WalkOK, PauseWorkflow
  <2>3. QED
    BY <2>1, <2>2 DEF TypeInv
<1>30. CASE ResumeWorkflow(e)
  <2>1. TypeOK'
    <3>1. calls' \in [Operations -> Nat]
      BY <1>30, CallType DEF TypeInv, Operations, ResumeWorkflow
    <3>2. queue' \in [Execs -> Seq(Commands)]
      BY <1>30, PutType DEF TypeInv, TypeOK, Commands, ResumeWorkflow
    <3>3. QED
      BY <1>30, <3>1, <3>2 DEF TypeInv, TypeOK, ResumeWorkflow
  <2>2. WalkOK'
    BY <1>30 DEF TypeInv, TypeOK, WalkOK, ResumeWorkflow
  <2>3. QED
    BY <2>1, <2>2 DEF TypeInv
<1>31. CASE CancelWorkflow(e)
  <2>1. TypeOK'
    <3>1. calls' \in [Operations -> Nat]
      BY <1>31, CallType DEF TypeInv, Operations, CancelWorkflow
    <3>2. queue' \in [Execs -> Seq(Commands)]
      BY <1>31, PutType DEF TypeInv, Commands, CancelWorkflow
    <3>3. writes' \in SUBSET (Execs \X {"Paused", "Cancelled"})
      BY <1>31 DEF TypeInv, TypeOK, CancelWorkflow
    <3>4. QED
      BY <1>31, <3>1, <3>2, <3>3 DEF TypeInv, TypeOK, CancelWorkflow
  <2>2. WalkOK'
    BY <1>31 DEF TypeInv, TypeOK, WalkOK, CancelWorkflow
  <2>3. QED
    BY <2>1, <2>2 DEF TypeInv
<1>32. QED
  BY <1>1, <1>2, <1>3, <1>4, <1>5, <1>6, <1>7, <1>8, <1>9, <1>10, <1>11, <1>12, <1>13, <1>14, <1>15, <1>16, <1>17, <1>18, <1>19, <1>20, <1>21, <1>22, <1>23, <1>24, <1>25, <1>26, <1>27, <1>28, <1>29, <1>30, <1>31 DEF Thread, Faulty, Request

\* The same for the requests under way and for the people.
LEMMA TypeOthers ==
  ASSUME TypeInv,
         \/ \E w \in Execs \X {"Paused", "Cancelled"} : FinishRequest(w)
         \/ People
  PROVE  TypeInv'
<1> USE DEF dbVars, flagVars, walkVars, apiVars, peopleVars
<1>1. UNCHANGED walkVars
  BY DEF People, FinishRequest, BulkDecide, CheckPending, SingleDecide, DueDatePasses
<1>2. WalkOK'
  BY <1>1 DEF TypeInv, WalkOK
<1>3. ASSUME NEW w \in Execs \X {"Paused", "Cancelled"}, FinishRequest(w)
      PROVE  TypeOK'
  <2>1. db' \in [Execs -> DbStatus] /\ faults' \in 0..MaxFaults
    BY <1>3, SetDbType DEF TypeInv, FinishRequest, DbStatus, Terminal
  <2>2. QED
    BY <1>3, <2>1 DEF TypeInv, TypeOK, FinishRequest
<1>4. ASSUME NEW e \in Execs, NEW v \in ApprovalVisits, DueDatePasses(e, v)
      PROVE  TypeOK'
  BY <1>4 DEF TypeInv, TypeOK, DueDatePasses
<1>5. ASSUME NEW e \in Execs, NEW v \in ApprovalVisits, NEW verdict \in Verdicts,
             Vote(e, v, verdict)
      PROVE  /\ appr' \in [Execs -> [ApprovalVisits -> ApprovalStatus]]
             /\ votes' \in [Execs -> [ApprovalVisits -> SUBSET Verdicts]]
  <2>1. verdict \in ApprovalStatus
    BY DEF Verdicts, ApprovalStatus, Decided, Approving
  <2>2. votes[e][v] \cup {verdict} \in SUBSET Verdicts
    BY DEF TypeInv, TypeOK
  <2>3. QED
    BY <1>5, <2>1, <2>2, SetRowType DEF TypeInv, TypeOK, Vote
<1>6. ASSUME NEW e \in Execs, NEW v \in ApprovalVisits, NEW verdict \in Verdicts,
             BulkDecide(e, v, verdict)
      PROVE  TypeOK'
  BY <1>5, <1>6 DEF TypeInv, TypeOK, BulkDecide
<1>7. ASSUME NEW d \in Deciders, NEW e \in Execs, NEW v \in ApprovalVisits,
             NEW verdict \in Verdicts, CheckPending(d, e, v, verdict)
      PROVE  TypeOK'
  BY <1>7 DEF TypeInv, TypeOK, CheckPending, Hold
<1>8. ASSUME NEW d \in Deciders, SingleDecide(d)
      PROVE  TypeOK'
  <2>1. held[d] \in Hold
    BY <1>8 DEF TypeInv, TypeOK, SingleDecide, NoHold
  <2>2. /\ appr' \in [Execs -> [ApprovalVisits -> ApprovalStatus]]
        /\ votes' \in [Execs -> [ApprovalVisits -> SUBSET Verdicts]]
    BY <1>5, <1>8, <2>1 DEF SingleDecide, Hold
  <2>3. QED
    BY <1>8, <2>2 DEF TypeInv, TypeOK, SingleDecide
<1>9. QED
  BY <1>2, <1>3, <1>4, <1>6, <1>7, <1>8 DEF People, TypeInv

LEMMA TypeInit == Init => TypeInv
BY GraphAssumption, BoundAssumption
   DEF Init, TypeInv, TypeOK, WalkOK, DbStatus, StepStatus, ApprovalStatus, PcStates,
       HolderPcs, ApprovalPcs, EndPcs, Operations, Passes, Services, RequestSets

LEMMA TypeNext ==
  ASSUME TypeInv, [Next]_vars
  PROVE  TypeInv'
<1>1. CASE Next
  BY <1>1, TypeStep, TypeOthers DEF Next
<1>2. CASE UNCHANGED vars
  BY <1>2 DEF vars, dbVars, flagVars, walkVars, apiVars, peopleVars, TypeInv,
              TypeOK, WalkOK
<1>3. QED
  BY <1>1, <1>2

LEMMA TypeInvariant == Spec => []TypeInv
<1>1. TypeInv /\ [Next]_vars => TypeInv'
  BY TypeNext
<1>2. QED
  BY TypeInit, <1>1, PTL DEF Spec

\* Every variable keeps its type: no status outside the vocabulary is ever
\* written, no row of a node or visit that does not exist is ever touched.
THEOREM TypeCorrect == Spec => []TypeOK
BY TypeInvariant, PTL DEF TypeInv

(***************************************************************************)
(* The concurrency gate. Only AcquireSlot and Cleanup move an execution    *)
(* into or out of the places that hold a slot, and both move one slot.     *)
(***************************************************************************)
Holders == {e \in Execs : HoldsSlot(e)}

LEMMA HoldersFinite == IsFiniteSet(Holders) /\ Cardinality(Holders) \in Nat
<1>1. IsFiniteSet(Holders)
  BY BoundAssumption, FS_Subset DEF Holders
<1>2. QED
  BY <1>1, FS_CardinalityType

\* Every other step of a thread keeps its place on the same side of the gate.
LEMMA GateUntouched ==
  ASSUME TypeInv, NEW e \in Execs, Thread(e) \/ Faulty(e) \/ Request(e),
         ~AcquireSlot(e), ~Cleanup(e)
  PROVE  UNCHANGED slots /\ Holders' = Holders
<1>1. \E q \in PcStates : /\ pc' = [pc EXCEPT ![e] = q]
                          /\ q \in HolderPcs <=> pc[e] \in HolderPcs
  <2> USE DEF HolderPcs, ApprovalPcs, PcStates, TypeInv, TypeOK
  <2>1. CASE StartWorkflow(e)
    BY <2>1 DEF StartWorkflow
  <2>2. CASE LoadVariables(e)
    BY <2>2 DEF LoadVariables
  <2>3. CASE ThreadFails(e)
    BY <2>3 DEF ThreadFails, InLoop
  <2>4. CASE LeaveLoop(e)
    BY <2>4 DEF LeaveLoop
  <2>5. CASE Park(e)
    BY <2>5 DEF Park, InLoop
  <2>6. CASE Unpark(e)
    BY <2>6 DEF Unpark
  <2>7. CASE RefuseNode(e)
    BY <2>7 DEF RefuseNode, Entering, InLoop
  <2>8. CASE EnterNode(e)
    BY <2>8 DEF EnterNode, Entering, InLoop
  <2>9. CASE NodeSucceeds(e)
    BY <2>9 DEF NodeSucceeds, GoTo
  <2>10. CASE ConditionIsFalse(e)
    BY <2>10 DEF ConditionIsFalse, GoTo
  <2>11. CASE NodeFails(e)
    BY <2>11 DEF NodeFails, GoTo
  <2>12. CASE OpenApproval(e)
    BY <2>12 DEF OpenApproval
  <2>13. CASE AnnounceApproval(e)
    BY <2>13 DEF AnnounceApproval
  <2>14. CASE SeeCancel(e)
    BY <2>14 DEF SeeCancel
  <2>15. CASE SeeTimeout(e)
    BY <2>15 DEF SeeTimeout
  <2>16. CASE SeeDecision(e)
    BY <2>16 DEF SeeDecision
  <2>17. CASE PollQueue(e)
    BY <2>17 DEF PollQueue
  <2>18. CASE ApplyTimeout(e)
    BY <2>18 DEF ApplyTimeout
  <2>19. CASE WithdrawApproval(e)
    BY <2>19 DEF WithdrawApproval, GoTo
  <2>20. CASE TakeDecision(e)
    BY <2>20 DEF TakeDecision
  <2>21. CASE FollowDecision(e)
    BY <2>21 DEF FollowDecision, GoTo
  <2>22. CASE ApprovalFails(e)
    BY <2>22 DEF ApprovalFails
  <2>23. CASE FailRun(e)
    BY <2>23 DEF FailRun
  <2>24. CASE MarkFailed(e)
    BY <2>24 DEF MarkFailed
  <2>25. CASE ChooseOutcome(e)
    BY <2>25 DEF ChooseOutcome
  <2>26. CASE WriteOutcome(e)
    BY <2>26 DEF WriteOutcome
  <2>27. CASE PauseWorkflow(e)
    BY <2>27 DEF PauseWorkflow, walkVars
  <2>28. CASE ResumeWorkflow(e)
    BY <2>28 DEF ResumeWorkflow, walkVars
  <2>29. CASE CancelWorkflow(e)
    BY <2>29 DEF CancelWorkflow, walkVars
  <2>30. QED
    BY <2>1, <2>2, <2>3, <2>4, <2>5, <2>6, <2>7, <2>8, <2>9, <2>10, <2>11, <2>12, <2>13, <2>14, <2>15, <2>16, <2>17, <2>18, <2>19, <2>20, <2>21, <2>22, <2>23, <2>24, <2>25, <2>26, <2>27, <2>28, <2>29 DEF Thread, Faulty, Request
<1>2. UNCHANGED slots
  BY DEF Thread, Faulty, Request, walkVars, StartWorkflow, LoadVariables, ThreadFails, LeaveLoop, Park, Unpark, RefuseNode, EnterNode, NodeSucceeds, ConditionIsFalse, NodeFails, OpenApproval, AnnounceApproval, SeeCancel, SeeTimeout, SeeDecision, PollQueue, ApplyTimeout, WithdrawApproval, TakeDecision, FollowDecision, ApprovalFails, FailRun, MarkFailed, ChooseOutcome, WriteOutcome, PauseWorkflow, ResumeWorkflow, CancelWorkflow
<1>3. QED
  BY <1>1, <1>2 DEF Holders, HoldsSlot, TypeInv, TypeOK

LEMMA GateInit == ASSUME Init PROVE SlotsConserved
<1>1. Holders = {}
  BY DEF Init, Holders, HoldsSlot, HolderPcs, ApprovalPcs
<1>2. Cardinality(Holders) = 0
  BY <1>1, FS_EmptySet
<1>3. slots = MaxConcurrent
  BY DEF Init
<1>4. QED
  BY <1>2, <1>3, BoundAssumption DEF SlotsConserved, Holders

LEMMA GateNext ==
  ASSUME TypeInv, SlotsConserved, [Next]_vars
  PROVE  SlotsConserved'
<1>1. slots \in Nat /\ slots + Cardinality(Holders) = MaxConcurrent
  BY DEF TypeInv, TypeOK, SlotsConserved, Holders
<1>2. ASSUME NEW e \in Execs, AcquireSlot(e)
      PROVE  SlotsConserved'
  <2>1. Holders' = Holders \cup {e} /\ e \notin Holders
    BY <1>2 DEF AcquireSlot, Holders, HoldsSlot, HolderPcs, ApprovalPcs, TypeInv, TypeOK
  <2>2. Cardinality(Holders') = Cardinality(Holders) + 1
    BY <2>1, HoldersFinite, FS_AddElement
  <2>3. slots' = slots - 1
    BY <1>2 DEF AcquireSlot
  <2>4. QED
    BY <1>1, <2>2, <2>3, HoldersFinite DEF SlotsConserved, Holders
<1>3. ASSUME NEW e \in Execs, Cleanup(e)
      PROVE  SlotsConserved'
  <2>1. Holders' = Holders \ {e} /\ e \in Holders
    BY <1>3 DEF Cleanup, Holders, HoldsSlot, HolderPcs, ApprovalPcs, TypeInv, TypeOK
  <2>2. Cardinality(Holders') = Cardinality(Holders) - 1
    BY <2>1, HoldersFinite, FS_RemoveElement
  <2>3. slots' = slots + 1
    BY <1>3 DEF Cleanup, ReleaseSlot
  <2>4. QED
    BY <1>1, <2>2, <2>3, HoldersFinite DEF SlotsConserved, Holders
<1>4. CASE UNCHANGED slots /\ Holders' = Holders
  BY <1>1, <1>4 DEF SlotsConserved, Holders
<1>5. CASE UNCHANGED <<slots, pc>>
  BY <1>4, <1>5 DEF Holders, HoldsSlot
<1>6. CASE \E w \in Execs \X {"Paused", "Cancelled"} : FinishRequest(w)
  BY <1>5, <1>6 DEF FinishRequest, walkVars
<1>7. CASE People
  BY <1>5, <1>7 DEF People, BulkDecide, CheckPending, SingleDecide, DueDatePasses,
                    walkVars
<1>8. CASE UNCHANGED vars
  BY <1>5, <1>8 DEF vars, walkVars
<1>9. QED
  BY <1>2, <1>3, <1>4, <1>6, <1>7, <1>8, GateUntouched DEF Next

\* Every way a thread can end gives back the slot it took, and no more than
\* the limit ever run, for any number of executions.
THEOREM SlotsAreConserved == Spec => []SlotsConserved
<1>1. Init => SlotsConserved
  BY GateInit
<1>2. TypeInv /\ SlotsConserved /\ [Next]_vars => SlotsConserved'
  BY GateNext
<1>3. QED
  BY <1>1, <1>2, TypeInvariant, PTL DEF Spec

\* The thread has ended, or was lost in a crash: its counts are reset.
ThreadOver(e) == pc[e] \in {"gone", "lost"}

\* A thread, and the requests to it, end or start nothing but their own run.
LEMMA ThreadStays ==
  ASSUME TypeInv, NEW e \in Execs, Thread(e) \/ Faulty(e) \/ Request(e)
  PROVE  /\ ~ThreadOver(e) /\ pc'[e] \notin {"none", "lost"}
         /\ Active(e) \/ service.pass = "up"
         /\ UNCHANGED service
<1> USE DEF ThreadOver, Active, HolderPcs, ApprovalPcs, TypeInv, TypeOK, apiVars
<1>1. CASE StartWorkflow(e)
  BY <1>1 DEF StartWorkflow
<1>2. CASE AcquireSlot(e)
  BY <1>2 DEF AcquireSlot
<1>3. CASE LoadVariables(e)
  BY <1>3 DEF LoadVariables
<1>4. CASE LeaveLoop(e)
  BY <1>4 DEF LeaveLoop
<1>5. CASE Park(e)
  BY <1>5 DEF Park, InLoop
<1>6. CASE Unpark(e)
  BY <1>6 DEF Unpark
<1>7. CASE RefuseNode(e)
  BY <1>7 DEF RefuseNode, Entering, InLoop
<1>8. CASE EnterNode(e)
  BY <1>8 DEF EnterNode, Entering, InLoop
<1>9. CASE NodeSucceeds(e)
  BY <1>9 DEF NodeSucceeds, GoTo
<1>10. CASE ConditionIsFalse(e)
  BY <1>10 DEF ConditionIsFalse, GoTo
<1>11. CASE NodeFails(e)
  BY <1>11 DEF NodeFails, GoTo
<1>12. CASE OpenApproval(e)
  BY <1>12 DEF OpenApproval
<1>13. CASE AnnounceApproval(e)
  BY <1>13 DEF AnnounceApproval
<1>14. CASE SeeCancel(e)
  BY <1>14 DEF SeeCancel
<1>15. CASE SeeTimeout(e)
  BY <1>15 DEF SeeTimeout
<1>16. CASE SeeDecision(e)
  BY <1>16 DEF SeeDecision
<1>17. CASE PollQueue(e)
  BY <1>17 DEF PollQueue
<1>18. CASE ApplyTimeout(e)
  BY <1>18 DEF ApplyTimeout
<1>19. CASE WithdrawApproval(e)
  BY <1>19 DEF WithdrawApproval, GoTo
<1>20. CASE TakeDecision(e)
  BY <1>20 DEF TakeDecision
<1>21. CASE FollowDecision(e)
  BY <1>21 DEF FollowDecision, GoTo
<1>22. CASE FailRun(e)
  BY <1>22 DEF FailRun
<1>23. CASE MarkFailed(e)
  BY <1>23 DEF MarkFailed
<1>24. CASE ChooseOutcome(e)
  BY <1>24 DEF ChooseOutcome
<1>25. CASE WriteOutcome(e)
  BY <1>25 DEF WriteOutcome
<1>26. CASE Cleanup(e)
  BY <1>26 DEF Cleanup
<1>27. CASE PauseWorkflow(e)
  BY <1>27 DEF PauseWorkflow, walkVars
<1>28. CASE ResumeWorkflow(e)
  BY <1>28 DEF ResumeWorkflow, walkVars
<1>29. CASE CancelWorkflow(e)
  BY <1>29 DEF CancelWorkflow, walkVars
<1>30. CASE ThreadFails(e)
  BY <1>30 DEF ThreadFails, InLoop
<1>31. CASE ApprovalFails(e)
  BY <1>31 DEF ApprovalFails
<1>32. QED
  BY <1>1, <1>2, <1>3, <1>4, <1>5, <1>6, <1>7, <1>8, <1>9, <1>10, <1>11, <1>12, <1>13, <1>14, <1>15, <1>16, <1>17, <1>18, <1>19, <1>20, <1>21, <1>22, <1>23, <1>24, <1>25, <1>26, <1>27, <1>28, <1>29, <1>30, <1>31 DEF Thread, Faulty, Request

(***************************************************************************)
(* No approval edge without an approval. What makes the invariant          *)
(* inductive: wherever an approving verdict is kept (the row, the response *)
(* the thread read, the variables it set), it is justified by a vote or by *)
(* a due date, and a thread that decided to time out saw the date pass.    *)
(* The recovery may also approve a request by default, without asking what *)
(* the node is set to; it does so only for executions without a thread, so *)
(* that no thread follows such a row.                                      *)
(***************************************************************************)
Justified(e, v) ==
  \/ "Approved" \in votes[e][v]
  \/ v \in past[e] /\ OnTimeout[v[1]] = "continue"

AnsweredPcs == {"apprAnnounce", "apprWait", "apprTimeout", "apprHandle", "apprResume"}

ByDefault(e, v) ==
  ThreadOver(e) /\ v \in past[e] /\ <<e, v>> \in service.defaulted

RowsJustified ==
  \A e \in Execs : \A v \in ApprovalVisits :
    appr[e][v] \in Approving => Justified(e, v) \/ ByDefault(e, v)
RoutesJustified ==
  \A e \in Execs : \A v \in ApprovalVisits :
    routed[e][v] = "approved" => Justified(e, v)
TimeoutsSeen ==
  \A e \in Execs : pc[e] = "apprTimeout" => Current(e) \in past[e]
ResponsesJustified ==
  \A e \in Execs :
    pc[e] \in AnsweredPcs /\ resp[e] \in Approving => Justified(e, Current(e))

ApprovalInv == RowsJustified /\ RoutesJustified /\ TimeoutsSeen /\ ResponsesJustified


\* What a step of a thread has to show: it changes only its own execution,
\* and what it leaves there is justified.
StepJustified(e) ==
  /\ UNCHANGED <<votes, past, service>>
  /\ \A f \in Execs \ {e} :
       /\ pc'[f] = pc[f] /\ node'[f] = node[f] /\ visits'[f] = visits[f]
       /\ resp'[f] = resp[f] /\ appr'[f] = appr[f] /\ routed'[f] = routed[f]
  /\ \A v \in ApprovalVisits :
       /\ appr'[e][v] \in Approving => Justified(e, v)
       /\ routed'[e][v] = "approved" => Justified(e, v)
  /\ pc'[e] = "apprTimeout" => Current(e)' \in past[e]
  /\ pc'[e] \in AnsweredPcs /\ resp'[e] \in Approving => Justified(e, Current(e)')

LEMMA StepJustifiedSuffices ==
  ASSUME TypeInv, ApprovalInv, NEW e \in Execs, StepJustified(e)
  PROVE  ApprovalInv'
<1>1. \A f \in Execs : \A v : Justified(f, v)' <=> Justified(f, v)
  BY DEF StepJustified, Justified
<1>2. RowsJustified' /\ RoutesJustified'
  BY <1>1 DEF ApprovalInv, RowsJustified, RoutesJustified, StepJustified, ByDefault, ThreadOver
<1>3. \A f \in Execs \ {e} : Current(f)' = Current(f)
  BY DEF StepJustified, Current
<1>4. TimeoutsSeen'
  BY <1>3 DEF ApprovalInv, TimeoutsSeen, StepJustified
<1>5. ResponsesJustified'
  <2> SUFFICES ASSUME NEW f \in Execs, pc'[f] \in AnsweredPcs, resp'[f] \in Approving
               PROVE  Justified(f, Current(f)')
    BY <1>1 DEF ResponsesJustified, Justified
  <2>1. CASE f = e
    BY <2>1 DEF StepJustified
  <2>2. CASE f # e
    BY <2>2, <1>3 DEF ApprovalInv, ResponsesJustified, StepJustified
  <2>3. QED
    BY <2>1, <2>2
<1>6. QED
  BY <1>2, <1>4, <1>5 DEF ApprovalInv

\* The steps outside the answered part of the node have nothing to show.
LEMMA PlainStep ==
  ASSUME TypeInv, ApprovalInv, NEW e \in Execs, ~ThreadOver(e),
         UNCHANGED <<appr, past, votes, routed, service>>, pc'[e] \notin AnsweredPcs,
         \A f \in Execs \ {e} : /\ pc'[f] = pc[f] /\ node'[f] = node[f]
                                /\ visits'[f] = visits[f] /\ resp'[f] = resp[f]
  PROVE  ApprovalInv'
<1>1. StepJustified(e)
  BY DEF StepJustified, ApprovalInv, RowsJustified, ByDefault, RoutesJustified, AnsweredPcs
<1>2. QED
  BY <1>1, StepJustifiedSuffices

LEMMA ApprovalThread ==
  ASSUME TypeInv, ApprovalInv, NEW e \in Execs, Thread(e) \/ Faulty(e) \/ Request(e)
  PROVE  ApprovalInv'
<1> USE DEF dbVars, flagVars, walkVars, apiVars, peopleVars
<1>0. /\ ~ThreadOver(e) /\ UNCHANGED service
      /\ \A v \in ApprovalVisits : appr[e][v] \in Approving => Justified(e, v)
  BY ThreadStays DEF ApprovalInv, RowsJustified, ByDefault
<1>1. CASE StartWorkflow(e)
  BY <1>0, <1>1, PlainStep DEF TypeInv, TypeOK, StartWorkflow, AnsweredPcs
<1>2. CASE AcquireSlot(e)
  BY <1>0, <1>2, PlainStep DEF TypeInv, TypeOK, AcquireSlot, AnsweredPcs
<1>3. CASE LoadVariables(e)
  BY <1>0, <1>3, PlainStep DEF TypeInv, TypeOK, LoadVariables, AnsweredPcs
<1>4. CASE ThreadFails(e)
  BY <1>0, <1>4, PlainStep DEF TypeInv, TypeOK, ThreadFails, AnsweredPcs
<1>5. CASE LeaveLoop(e)
  BY <1>0, <1>5, PlainStep DEF TypeInv, TypeOK, LeaveLoop, AnsweredPcs
<1>6. CASE Park(e)
  BY <1>0, <1>6, PlainStep DEF TypeInv, TypeOK, Park, InLoop, AnsweredPcs
<1>7. CASE Unpark(e)
  BY <1>0, <1>7, PlainStep DEF TypeInv, TypeOK, Unpark, AnsweredPcs
<1>8. CASE RefuseNode(e)
  BY <1>0, <1>8, PlainStep DEF TypeInv, TypeOK, RefuseNode, Entering, InLoop, AnsweredPcs
<1>9. CASE EnterNode(e)
  BY <1>0, <1>9, PlainStep DEF TypeInv, TypeOK, EnterNode, Entering, InLoop, AnsweredPcs
<1>10. CASE NodeSucceeds(e)
  BY <1>0, <1>10, PlainStep DEF TypeInv, TypeOK, NodeSucceeds, GoTo, AnsweredPcs
<1>11. CASE ConditionIsFalse(e)
  BY <1>0, <1>11, PlainStep DEF TypeInv, TypeOK, ConditionIsFalse, GoTo, AnsweredPcs
<1>12. CASE NodeFails(e)
  BY <1>0, <1>12, PlainStep DEF TypeInv, TypeOK, NodeFails, GoTo, AnsweredPcs
<1>13. CASE FollowDecision(e)
  BY <1>0, <1>13, PlainStep DEF TypeInv, TypeOK, FollowDecision, GoTo, AnsweredPcs
<1>14. CASE ApprovalFails(e)
  <2>1. /\ Current(e) \in ApprovalVisits /\ pc'[e] = "fail"
        /\ UNCHANGED <<votes, past, node, visits, resp>>
    BY <1>0, <1>14, CurrentType DEF TypeInv, TypeOK, ApprovalFails, ApprovalPcs
  <2>2. \A f \in Execs \ {e} :
          pc'[f] = pc[f] /\ appr'[f] = appr[f] /\ routed'[f] = routed[f]
    BY <1>14 DEF TypeInv, TypeOK, ApprovalFails, WithdrawRow, Follow
  <2>3. \A v \in ApprovalVisits :
          appr'[e][v] = appr[e][v] \/ appr'[e][v] \in {"Pending", "Cancelled"}
    BY <1>14, <2>1 DEF TypeInv, TypeOK, ApprovalFails, WithdrawRow
  <2>4. ASSUME UNCHANGED routed
        PROVE  \A v \in ApprovalVisits : routed'[e][v] = "approved" => Justified(e, v)
    BY <2>4 DEF ApprovalInv, RoutesJustified
  <2>5. ASSUME Follow(e), pc[e] = "apprHandle"
        PROVE  \A v \in ApprovalVisits : routed'[e][v] = "approved" => Justified(e, v)
    <3>1. resp[e] \in Approving => Justified(e, Current(e))
      BY <2>5 DEF ApprovalInv, ResponsesJustified, AnsweredPcs
    <3>2. \A v \in ApprovalVisits : routed'[e][v] =
            IF v = Current(e) THEN IF resp[e] \in Approving THEN "approved" ELSE "rejected"
                              ELSE routed[e][v]
      BY <2>1, <2>5 DEF TypeInv, TypeOK, Follow
    <3>3. QED
      BY <3>1, <3>2 DEF ApprovalInv, RoutesJustified
  <2>6. \A v \in ApprovalVisits : routed'[e][v] = "approved" => Justified(e, v)
    BY <1>14, <2>4, <2>5 DEF ApprovalFails
  <2>7. StepJustified(e)
    BY <1>0, <2>1, <2>2, <2>3, <2>6 DEF StepJustified, ApprovalInv, RowsJustified,
       AnsweredPcs, Approving
  <2>8. QED
    BY <2>7, StepJustifiedSuffices
<1>15. CASE FailRun(e)
  BY <1>0, <1>15, PlainStep DEF TypeInv, TypeOK, FailRun, AnsweredPcs
<1>16. CASE MarkFailed(e)
  BY <1>0, <1>16, PlainStep DEF TypeInv, TypeOK, MarkFailed, AnsweredPcs
<1>17. CASE ChooseOutcome(e)
  BY <1>0, <1>17, PlainStep DEF TypeInv, TypeOK, ChooseOutcome, AnsweredPcs
<1>18. CASE WriteOutcome(e)
  BY <1>0, <1>18, PlainStep DEF TypeInv, TypeOK, WriteOutcome, AnsweredPcs
<1>19. CASE Cleanup(e)
  BY <1>0, <1>19, PlainStep DEF TypeInv, TypeOK, Cleanup, AnsweredPcs
<1>20. CASE PauseWorkflow(e)
  BY <1>0, <1>20 DEF PauseWorkflow, ApprovalInv, RowsJustified, RoutesJustified, TimeoutsSeen,
            ResponsesJustified, Justified, ByDefault, ThreadOver, Current
<1>21. CASE ResumeWorkflow(e)
  BY <1>0, <1>21 DEF ResumeWorkflow, ApprovalInv, RowsJustified, RoutesJustified, TimeoutsSeen,
            ResponsesJustified, Justified, ByDefault, ThreadOver, Current
<1>22. CASE CancelWorkflow(e)
  BY <1>0, <1>22 DEF CancelWorkflow, ApprovalInv, RowsJustified, RoutesJustified, TimeoutsSeen,
            ResponsesJustified, Justified, ByDefault, ThreadOver, Current
<1>23. CASE WithdrawApproval(e)
  <2>1. StepJustified(e)
    BY <1>0, <1>23, CurrentType DEF TypeInv, TypeOK, WithdrawApproval, WithdrawRow, GoTo, StepJustified, ApprovalInv, RowsJustified,
       RoutesJustified, TimeoutsSeen, ResponsesJustified, AnsweredPcs, ApprovalPcs,
       Approving, Current
  <2>2. QED
    BY <2>1, StepJustifiedSuffices
<1>24. CASE OpenApproval(e)
  <2>1. StepJustified(e)
    BY <1>0, <1>24, CurrentType DEF TypeInv, TypeOK, OpenApproval, StepJustified, ApprovalInv, RowsJustified,
       RoutesJustified, TimeoutsSeen, ResponsesJustified, AnsweredPcs, ApprovalPcs,
       Approving, Current
  <2>2. QED
    BY <2>1, StepJustifiedSuffices
<1>25. CASE AnnounceApproval(e)
  <2>1. StepJustified(e)
    BY <1>0, <1>25, CurrentType DEF TypeInv, TypeOK, AnnounceApproval, StepJustified, ApprovalInv, RowsJustified,
       RoutesJustified, TimeoutsSeen, ResponsesJustified, AnsweredPcs, ApprovalPcs,
       Approving, Current
  <2>2. QED
    BY <2>1, StepJustifiedSuffices
<1>26. CASE SeeCancel(e)
  <2>1. StepJustified(e)
    BY <1>0, <1>26, CurrentType DEF TypeInv, TypeOK, SeeCancel, StepJustified, ApprovalInv, RowsJustified,
       RoutesJustified, TimeoutsSeen, ResponsesJustified, AnsweredPcs, ApprovalPcs,
       Approving, Current
  <2>2. QED
    BY <2>1, StepJustifiedSuffices
<1>27. CASE SeeTimeout(e)
  <2>1. StepJustified(e)
    BY <1>0, <1>27, CurrentType DEF TypeInv, TypeOK, SeeTimeout, Overdue, StepJustified, ApprovalInv, RowsJustified,
       RoutesJustified, TimeoutsSeen, ResponsesJustified, AnsweredPcs, ApprovalPcs,
       Approving, Current
  <2>2. QED
    BY <2>1, StepJustifiedSuffices
<1>28. CASE SeeDecision(e)
  <2>1. StepJustified(e)
    BY <1>0, <1>28, CurrentType DEF TypeInv, TypeOK, SeeDecision, StepJustified, ApprovalInv, RowsJustified,
       RoutesJustified, TimeoutsSeen, ResponsesJustified, AnsweredPcs, ApprovalPcs,
       Approving, Current
  <2>2. QED
    BY <2>1, StepJustifiedSuffices
<1>29. CASE PollQueue(e)
  <2>1. StepJustified(e)
    BY <1>0, <1>29, CurrentType DEF TypeInv, TypeOK, PollQueue, StepJustified, ApprovalInv, RowsJustified,
       RoutesJustified, TimeoutsSeen, ResponsesJustified, AnsweredPcs, ApprovalPcs,
       Approving, Current
  <2>2. QED
    BY <2>1, StepJustifiedSuffices
<1>30. CASE ApplyTimeout(e)
  <2>1. /\ Current(e) \in ApprovalVisits
        /\ Current(e)[1] = node[e] /\ Current(e)' = Current(e)
    BY <1>30, CurrentType DEF ApplyTimeout, Current, ApprovalPcs
  <2>2. OnTimeout[node[e]] = "continue" => Justified(e, Current(e))
    BY <1>30, <2>1 DEF ApplyTimeout, ApprovalInv, TimeoutsSeen, Justified
  <2>3. appr'[e][Current(e)] = TimeoutStatus(node[e])
    BY <1>30, <2>1 DEF ApplyTimeout, TimeOutRow, TypeInv, TypeOK
  <2>4. \A v \in ApprovalVisits \ {Current(e)} : appr'[e][v] = appr[e][v]
    BY <1>30 DEF ApplyTimeout, TimeOutRow, TypeInv, TypeOK
  <2>5. \A v \in ApprovalVisits : appr'[e][v] \in Approving => Justified(e, v)
    BY <1>0, <2>2, <2>3, <2>4 DEF TimeoutStatus, Approving, ApprovalInv, RowsJustified
  <2>6. resp'[e] \in Approving => Justified(e, Current(e))
    BY <1>30, <2>2 DEF ApplyTimeout, Approving, TypeInv, TypeOK
  <2>7. StepJustified(e)
    BY <1>0, <1>30, <2>1, <2>5, <2>6 DEF ApplyTimeout, TimeOutRow, StepJustified, ApprovalInv,
       RoutesJustified, TypeInv, TypeOK
  <2>8. QED
    BY <2>7, StepJustifiedSuffices
<1>31. CASE TakeDecision(e)
  <2>1. StepJustified(e)
    BY <1>0, <1>31, CurrentType DEF TypeInv, TypeOK, TakeDecision, Follow, StepJustified, ApprovalInv, RowsJustified,
       RoutesJustified, TimeoutsSeen, ResponsesJustified, AnsweredPcs, ApprovalPcs,
       Approving, Current
  <2>2. QED
    BY <2>1, StepJustifiedSuffices
<1>32. QED
  BY <1>1, <1>2, <1>3, <1>4, <1>5, <1>6, <1>7, <1>8, <1>9, <1>10, <1>11, <1>12, <1>13, <1>14, <1>15, <1>16, <1>17, <1>18, <1>19, <1>20, <1>21, <1>22, <1>23, <1>24, <1>25, <1>26, <1>27, <1>28, <1>29, <1>30, <1>31 DEF Thread, Faulty, Request

LEMMA ApprovalPeople ==
  ASSUME TypeInv, ApprovalInv, People
  PROVE  ApprovalInv'
<1> USE DEF walkVars
<1>1. /\ UNCHANGED walkVars /\ UNCHANGED service
      /\ \A e \in Execs : Current(e)' = Current(e)
  BY DEF People, BulkDecide, CheckPending, SingleDecide, DueDatePasses, Current, apiVars
<1>2. ASSUME NEW e \in Execs, NEW v \in ApprovalVisits, DueDatePasses(e, v)
      PROVE  ApprovalInv'
  <2>1. \A f \in Execs : past[f] \subseteq past'[f] /\ UNCHANGED <<votes, appr>>
    BY <1>2 DEF TypeInv, TypeOK, DueDatePasses, peopleVars
  <2>2. QED
    BY <1>1, <2>1 DEF ApprovalInv, RowsJustified, RoutesJustified, TimeoutsSeen,
                      ResponsesJustified, Justified, ByDefault, ThreadOver
<1>3. ASSUME NEW e \in Execs, NEW v \in ApprovalVisits, NEW verdict \in Verdicts,
             Vote(e, v, verdict), UNCHANGED past
      PROVE  ApprovalInv'
  <2>1. \A f \in Execs : \A u \in ApprovalVisits : votes[f][u] \subseteq votes'[f][u]
    BY <1>3 DEF Vote, TypeInv, TypeOK
  <2>2. \A f \in Execs : \A u \in ApprovalVisits : Justified(f, u) => Justified(f, u)'
    BY <1>3, <2>1 DEF Justified
  <2>3. RowsJustified'
    <3>1. ASSUME NEW f \in Execs, NEW u \in ApprovalVisits, <<f, u>> # <<e, v>>
          PROVE  appr'[f][u] = appr[f][u]
      BY <1>3, <3>1 DEF Vote, TypeInv, TypeOK
    <3>2. appr'[e][v] = "Approved" => "Approved" \in votes'[e][v]
      BY <1>3 DEF Vote, TypeInv, TypeOK
    <3>3. appr'[e][v] \in Approving => appr'[e][v] = "Approved"
      BY <1>3 DEF Vote, TypeInv, TypeOK, Verdicts, Approving
    <3>4. ASSUME NEW f \in Execs, NEW u \in ApprovalVisits, ByDefault(f, u)
          PROVE  ByDefault(f, u)'
      BY <1>1, <1>3, <3>4 DEF ByDefault, ThreadOver
    <3>5. QED
      BY <3>1, <3>2, <3>3, <3>4, <2>2 DEF ApprovalInv, RowsJustified, Justified
  <2>4. RoutesJustified'
    BY <1>1, <2>2 DEF ApprovalInv, RoutesJustified
  <2>5. TimeoutsSeen'
    BY <1>1, <1>3 DEF ApprovalInv, TimeoutsSeen
  <2>6. ResponsesJustified'
    <3>1. \A f \in Execs : pc[f] \in AnsweredPcs => Current(f) \in ApprovalVisits
      BY CurrentType DEF AnsweredPcs, ApprovalPcs
    <3>2. ASSUME NEW f \in Execs, Justified(f, Current(f)), Current(f) \in ApprovalVisits
          PROVE  Justified(f, Current(f))'
      BY <1>1, <1>3, <2>1, <3>2 DEF Justified
    <3>3. QED
      BY <1>1, <3>1, <3>2 DEF ApprovalInv, ResponsesJustified
  <2>7. QED
    BY <2>3, <2>4, <2>5, <2>6 DEF ApprovalInv
<1>4. ASSUME NEW d \in Deciders, NEW e \in Execs, NEW v \in ApprovalVisits,
             NEW verdict \in Verdicts, CheckPending(d, e, v, verdict)
      PROVE  ApprovalInv'
  BY <1>1, <1>4 DEF CheckPending, dbVars, ApprovalInv, RowsJustified, RoutesJustified,
                    TimeoutsSeen, ResponsesJustified, Justified, ByDefault, ThreadOver
<1>5. ASSUME NEW d \in Deciders, SingleDecide(d)
      PROVE  ApprovalInv'
  <2>1. held[d] \in Hold
    BY <1>5 DEF TypeInv, TypeOK, SingleDecide, NoHold
  <2>2. QED
    BY <1>3, <1>5, <2>1 DEF SingleDecide, Hold
<1>6. QED
  BY <1>2, <1>3, <1>4, <1>5 DEF People, BulkDecide

LEMMA ApprovalInit == ASSUME Init PROVE ApprovalInv
BY DEF Init, ApprovalInv, RowsJustified, RoutesJustified, TimeoutsSeen,
       ResponsesJustified, Approving

LEMMA ApprovalNext ==
  ASSUME TypeInv, ApprovalInv, [Next]_vars
  PROVE  ApprovalInv'
<1>1. CASE UNCHANGED <<appr, past, votes, service, walkVars>>
  BY <1>1 DEF walkVars, ApprovalInv, RowsJustified, RoutesJustified, TimeoutsSeen,
              ResponsesJustified, Justified, ByDefault, ThreadOver, Current
<1>2. CASE \E w \in Execs \X {"Paused", "Cancelled"} : FinishRequest(w)
  BY <1>1, <1>2 DEF FinishRequest, peopleVars
<1>3. CASE UNCHANGED vars
  BY <1>1, <1>3 DEF vars, dbVars, apiVars, peopleVars
<1>4. QED
  BY <1>2, <1>3, ApprovalThread, ApprovalPeople DEF Next

\* For every graph, any number of approvers and pollers, and whatever faults:
\* the approving edge is taken only over a vote or a passed due date.
THEOREM PassNeedsApproval == Spec => []NoPassWithoutApproval
<1>1. Init => ApprovalInv
  BY ApprovalInit
<1>2. TypeInv /\ ApprovalInv /\ [Next]_vars => ApprovalInv'
  BY ApprovalNext
<1>3. ApprovalInv => NoPassWithoutApproval
  BY DEF ApprovalInv, RoutesJustified, Justified, NoPassWithoutApproval
<1>4. QED
  BY <1>1, <1>2, <1>3, TypeInvariant, PTL DEF Spec

(***************************************************************************)
(* A run without failures. While no database call has failed, three things *)
(* are kept for each execution: an open request has its thread in the      *)
(* node, an open step is the one being executed (or was left behind by a   *)
(* cancel), and what leads to the end of a run leads to an outcome.        *)
(***************************************************************************)
\* No command but a cancel is ever queued: a resume is refused, because the
\* status kept in memory never becomes 'Paused'.
OnlyCancels == \A e \in Execs : queue[e] \in Seq({"cancel"})

AskedPcs == {"apprAnnounce", "apprWait", "apprTimeout", "apprHandle"}

Waited(e) ==
  /\ \A v \in ApprovalVisits :
       appr[e][v] = "Pending" => pc[e] \in AskedPcs /\ v = Current(e)
  /\ pc[e] = "apprHandle" /\ ~cancelled[e] => appr[e][Current(e)] # "Pending"

InNodePcs == AskedPcs \cup {"parked", "run", "apprOpen"}

LeftBehind(e) ==
  /\ cancelled[e]
  /\ \/ pc[e] = "top" /\ node[e] = NoNode
     \/ pc[e] \in {"exit", "writeCancelled", "cleanup", "gone"}

Followed(e) ==
  /\ OpenSteps(e) # {} =>
       (pc[e] \in InNodePcs /\ OpenSteps(e) \subseteq {Current(e)}) \/ LeftBehind(e)
  /\ \A u, v \in OpenSteps(e) : u = v
  /\ db[e] = "Completed" => pc[e] \in {"cleanup", "gone"} /\ OpenSteps(e) = {}

\* Only for executions that nobody paused.
Ended(e) ==
  /\ <<e, "Paused">> \notin writes
  /\ <<e, "Cancelled">> \in writes => cancelled[e]
  /\ paused[e] => pc[e] \in AskedPcs \/ cancelled[e]
  /\ pc[e] = "failed" => db[e] = "Failed" \/ cancelled[e]
  /\ pc[e] = "exit" => \/ cancelled[e]
                       \/ node[e] = NoNode /\ ~paused[e]
                       \/ db[e] = "Failed"
  /\ pc[e] \in {"cleanup", "gone"} =>
       /\ db[e] \in Terminal
       /\ cancelled[e] => \/ db[e] \in {"Cancelled", "Completed"}
                          \/ <<e, "Cancelled">> \in writes

\* What is kept for the executions of a set, and for all of them.
CalmOn(S) ==
  /\ OnlyCancels
  /\ faults = 0 => \A e \in S : Waited(e) /\ Followed(e)
  /\ faults = 0 /\ calls["pause"] = 0 => \A e \in Execs : Ended(e)

CalmInv == CalmOn(Execs)

Untouched(f) ==
  /\ db'[f] = db[f] /\ step'[f] = step[f] /\ appr'[f] = appr[f]
  /\ pc'[f] = pc[f] /\ node'[f] = node[f] /\ visits'[f] = visits[f]
  /\ paused'[f] = paused[f] /\ cancelled'[f] = cancelled[f]
  /\ \A s : <<f, s>> \in writes' <=> <<f, s>> \in writes

\* A thread and the requests about its execution leave the others alone.
LEMMA OthersUntouched ==
  ASSUME TypeInv, NEW e \in Execs, NEW f \in Execs \ {e},
         Thread(e) \/ Faulty(e) \/ Request(e)
  PROVE  Untouched(f)
<1> USE DEF Untouched, TypeInv, TypeOK, dbVars, flagVars, walkVars, apiVars, peopleVars,
            SetStep, SetDb, WithdrawRow, TimeOutRow, GoTo
<1>1. CASE StartWorkflow(e)
  BY <1>1 DEF StartWorkflow
<1>2. CASE AcquireSlot(e)
  BY <1>2 DEF AcquireSlot
<1>3. CASE LoadVariables(e)
  BY <1>3 DEF LoadVariables
<1>4. CASE LeaveLoop(e)
  BY <1>4 DEF LeaveLoop
<1>5. CASE Park(e)
  BY <1>5 DEF Park, InLoop
<1>6. CASE Unpark(e)
  BY <1>6 DEF Unpark
<1>7. CASE RefuseNode(e)
  BY <1>7 DEF RefuseNode, Entering, InLoop
<1>8. CASE EnterNode(e)
  BY <1>8 DEF EnterNode, Entering, InLoop
<1>9. CASE NodeSucceeds(e)
  BY <1>9 DEF NodeSucceeds, GoTo
<1>10. CASE ConditionIsFalse(e)
  BY <1>10 DEF ConditionIsFalse, GoTo
<1>11. CASE NodeFails(e)
  BY <1>11 DEF NodeFails, GoTo
<1>12. CASE OpenApproval(e)
  BY <1>12 DEF OpenApproval
<1>13. CASE AnnounceApproval(e)
  BY <1>13 DEF AnnounceApproval, SetDb
<1>14. CASE SeeCancel(e)
  BY <1>14 DEF SeeCancel
<1>15. CASE SeeTimeout(e)
  BY <1>15 DEF SeeTimeout
<1>16. CASE SeeDecision(e)
  BY <1>16 DEF SeeDecision
<1>17. CASE PollQueue(e)
  BY <1>17 DEF PollQueue
<1>18. CASE ApplyTimeout(e)
  BY <1>18 DEF ApplyTimeout, TimeOutRow, TimeoutStatus
<1>19. CASE WithdrawApproval(e)
  BY <1>19 DEF WithdrawApproval, WithdrawRow, GoTo
<1>20. CASE TakeDecision(e)
  BY <1>20 DEF TakeDecision
<1>21. CASE FollowDecision(e)
  BY <1>21 DEF FollowDecision, GoTo, SetDb
<1>22. CASE FailRun(e)
  BY <1>22 DEF FailRun, SetDb
<1>23. CASE MarkFailed(e)
  BY <1>23 DEF MarkFailed
<1>24. CASE ChooseOutcome(e)
  BY <1>24 DEF ChooseOutcome
<1>25. CASE WriteOutcome(e)
  BY <1>25 DEF WriteOutcome, SetDb
<1>26. CASE Cleanup(e)
  BY <1>26 DEF Cleanup
<1>27. CASE PauseWorkflow(e)
  BY <1>27 DEF PauseWorkflow, Call
<1>28. CASE ResumeWorkflow(e)
  BY <1>28 DEF ResumeWorkflow, Call, Put
<1>29. CASE CancelWorkflow(e)
  BY <1>29 DEF CancelWorkflow, Call, Put
<1>30. CASE Faulty(e)
  BY <1>30 DEF Faulty, ThreadFails, ApprovalFails
<1>31. QED
  BY <1>1, <1>2, <1>3, <1>4, <1>5, <1>6, <1>7, <1>8, <1>9, <1>10, <1>11, <1>12, <1>13, <1>14, <1>15, <1>16, <1>17, <1>18, <1>19, <1>20, <1>21, <1>22, <1>23, <1>24, <1>25, <1>26, <1>27, <1>28, <1>29, <1>30 DEF Thread, Request

LEMMA NoLoss == ASSUME TypeInv, faults' = 0 PROVE ~LoseWrite
BY DEF TypeInv, TypeOK, LoseWrite

LEMMA CancelsStep ==
  ASSUME TypeInv, OnlyCancels, NEW e \in Execs, Thread(e) \/ Faulty(e) \/ Request(e)
  PROVE  OnlyCancels'
<1> USE DEF OnlyCancels, TypeInv, TypeOK, flagVars
<1>1. CASE UNCHANGED queue
  BY <1>1
<1>2. CASE queue[e] # <<>> /\ queue' = [queue EXCEPT ![e] = Tail(@)]
  <2>1. Tail(queue[e]) \in Seq({"cancel"})
    BY <1>2
  <2>2. QED
    BY <1>2, <2>1
<1>3. CASE Put(e, "cancel")
  <2>1. Append(queue[e], "cancel") \in Seq({"cancel"})
    OBVIOUS
  <2>2. QED
    BY <1>3, <2>1 DEF Put
<1>4. CASE queue' = [queue EXCEPT ![e] = <<>>]
  BY <1>4
<1>5. QED
  BY <1>1, <1>2, <1>3, <1>4 DEF Thread, Faulty, Request, StartWorkflow, AcquireSlot, LoadVariables, LeaveLoop, Park, Unpark, RefuseNode, EnterNode, NodeSucceeds, ConditionIsFalse, NodeFails, OpenApproval, AnnounceApproval, SeeCancel, SeeTimeout, SeeDecision, PollQueue, ApplyTimeout, WithdrawApproval, TakeDecision, FollowDecision, FailRun, MarkFailed, ChooseOutcome, WriteOutcome, Cleanup, PauseWorkflow, ResumeWorkflow, CancelWorkflow, ThreadFails, ApprovalFails

LEMMA WaitedStep ==
  ASSUME TypeInv, NEW e \in Execs, Waited(e), faults' = 0,
         Thread(e) \/ Faulty(e) \/ Request(e)
  PROVE  Waited(e)'
<1> USE NoLoss DEF Waited, Current, TypeInv, TypeOK, AskedPcs, dbVars, flagVars, walkVars,
            apiVars, peopleVars
<1>1. CASE StartWorkflow(e)
  BY <1>1 DEF StartWorkflow
<1>2. CASE AcquireSlot(e)
  BY <1>2 DEF AcquireSlot
<1>3. CASE LoadVariables(e)
  BY <1>3 DEF LoadVariables
<1>4. CASE LeaveLoop(e)
  BY <1>4 DEF LeaveLoop
<1>5. CASE Park(e)
  BY <1>5 DEF Park, InLoop
<1>6. CASE Unpark(e)
  BY <1>6 DEF Unpark
<1>7. CASE RefuseNode(e)
  BY <1>7 DEF RefuseNode, Entering, InLoop
<1>8. CASE EnterNode(e)
  BY <1>8 DEF EnterNode, Entering, InLoop
<1>9. CASE NodeSucceeds(e)
  BY <1>9 DEF NodeSucceeds, GoTo
<1>10. CASE ConditionIsFalse(e)
  BY <1>10 DEF ConditionIsFalse, GoTo
<1>11. CASE NodeFails(e)
  BY <1>11 DEF NodeFails, GoTo
<1>12. CASE OpenApproval(e)
  BY <1>12, CurrentType DEF OpenApproval
<1>13. CASE AnnounceApproval(e)
  BY <1>13 DEF AnnounceApproval, SetDb
<1>14. CASE SeeCancel(e)
  BY <1>14 DEF SeeCancel
<1>15. CASE SeeTimeout(e)
  BY <1>15 DEF SeeTimeout
<1>16. CASE SeeDecision(e)
  BY <1>16, CurrentType DEF SeeDecision
<1>17. CASE PollQueue(e)
  BY <1>17 DEF PollQueue
<1>18. CASE ApplyTimeout(e)
  <2>1. /\ Current(e) \in ApprovalVisits /\ Current(e)' = Current(e)
        /\ appr'[e][Current(e)] # "Pending"
        /\ \A v \in ApprovalVisits \ {Current(e)} : appr'[e][v] = appr[e][v]
    BY <1>18, CurrentType DEF ApplyTimeout, TimeOutRow, TimeoutStatus, ApprovalPcs
  <2>2. QED
    BY <1>18, <2>1 DEF ApplyTimeout
<1>19. CASE WithdrawApproval(e)
  BY <1>19, CurrentType DEF WithdrawApproval, WithdrawRow, GoTo
<1>20. CASE TakeDecision(e)
  BY <1>20, CurrentType DEF TakeDecision
<1>21. CASE FollowDecision(e)
  BY <1>21 DEF FollowDecision, GoTo, SetDb
<1>22. CASE FailRun(e)
  BY <1>22 DEF FailRun, SetDb
<1>23. CASE MarkFailed(e)
  BY <1>23 DEF MarkFailed
<1>24. CASE ChooseOutcome(e)
  BY <1>24 DEF ChooseOutcome
<1>25. CASE WriteOutcome(e)
  BY <1>25 DEF WriteOutcome, SetDb
<1>26. CASE Cleanup(e)
  BY <1>26 DEF Cleanup
<1>27. CASE PauseWorkflow(e)
  BY <1>27 DEF PauseWorkflow, Call
<1>28. CASE ResumeWorkflow(e)
  BY <1>28 DEF ResumeWorkflow, Call, Put
<1>29. CASE CancelWorkflow(e)
  BY <1>29 DEF CancelWorkflow, Call, Put
<1>30. CASE Faulty(e)
  BY <1>30 DEF Faulty, ThreadFails, ApprovalFails
<1>31. QED
  BY <1>1, <1>2, <1>3, <1>4, <1>5, <1>6, <1>7, <1>8, <1>9, <1>10, <1>11, <1>12, <1>13, <1>14, <1>15, <1>16, <1>17, <1>18, <1>19, <1>20, <1>21, <1>22, <1>23, <1>24, <1>25, <1>26, <1>27, <1>28, <1>29, <1>30 DEF Thread, Request

\* What a write to the current step does to the open ones.
LEMMA StepWritten ==
  ASSUME TypeInv, NEW e \in Execs, NEW n \in Nodes, NEW s, SetStep(e, n, s), faults' = 0
  PROVE  /\ OpenSteps(e)' \subseteq OpenSteps(e) \cup {<<n, visits[e][n]>>}
         /\ s \notin {"Running", "Paused"} /\ visits[e][n] \in 1..MaxNodeVisits =>
              OpenSteps(e)' = OpenSteps(e) \ {<<n, visits[e][n]>>}
<1>1. visits[e][n] \in 1..MaxNodeVisits => <<n, visits[e][n]>> \in Visits
  BY DEF Visits
<1>2. CASE UNCHANGED step /\ visits[e][n] \notin 1..MaxNodeVisits
  BY <1>2 DEF OpenSteps
<1>3. CASE /\ visits[e][n] \in 1..MaxNodeVisits
           /\ step' = [step EXCEPT ![e][<<n, visits[e][n]>>] = s]
  <2> DEFINE w == <<n, visits[e][n]>>
  <2>1. step'[e][w] = s /\ \A v \in Visits \ {w} : step'[e][v] = step[e][v]
    BY <1>1, <1>3 DEF TypeInv, TypeOK
  <2>2. QED
    <3> HIDE DEF w
    <3>1. /\ OpenSteps(e)' \subseteq OpenSteps(e) \cup {w}
          /\ s \notin {"Running", "Paused"} => OpenSteps(e)' = OpenSteps(e) \ {w}
      BY <2>1 DEF OpenSteps
    <3>2. QED
      BY <3>1 DEF w
<1>4. QED
  BY <1>2, <1>3, NoLoss DEF SetStep

LEMMA FollowedStep ==
  ASSUME TypeInv, OnlyCancels, NEW e \in Execs, Followed(e), faults' = 0,
         Thread(e) \/ Faulty(e) \/ Request(e)
  PROVE  Followed(e)'
<1> USE NoLoss DEF Followed, LeftBehind, Current, TypeInv, TypeOK, InNodePcs, AskedPcs, dbVars,
            flagVars, walkVars, apiVars, peopleVars
<1>1. CASE StartWorkflow(e)
  <2>1. OpenSteps(e)' = OpenSteps(e)
    BY <1>1 DEF StartWorkflow, OpenSteps
  <2>2. QED
    BY <1>1, <2>1 DEF StartWorkflow
<1>2. CASE AcquireSlot(e)
  <2>1. OpenSteps(e)' = OpenSteps(e)
    BY <1>2 DEF AcquireSlot, OpenSteps
  <2>2. QED
    BY <1>2, <2>1 DEF AcquireSlot
<1>3. CASE LoadVariables(e)
  <2>1. OpenSteps(e)' = OpenSteps(e)
    BY <1>3 DEF LoadVariables, OpenSteps
  <2>2. QED
    BY <1>3, <2>1 DEF LoadVariables
<1>4. CASE LeaveLoop(e)
  <2>1. OpenSteps(e)' = OpenSteps(e)
    BY <1>4 DEF LeaveLoop, OpenSteps
  <2>2. QED
    BY <1>4, <2>1 DEF LeaveLoop
<1>5. CASE Park(e)
  <2>1. OpenSteps(e)' \subseteq {Current(e)} /\ UNCHANGED <<db, node, visits>>
    <3>1. OpenSteps(e) = {}
      BY <1>5 DEF Park, InLoop
    <3>2. CASE node[e] \in Nodes
      BY <1>5, <3>1, <3>2, StepWritten DEF Park
    <3>3. CASE node[e] \notin Nodes
      BY <1>5, <3>1, <3>3 DEF Park, OpenSteps
    <3>4. QED
      BY <3>2, <3>3
  <2>2. QED
    BY <1>5, <2>1 DEF Park, InLoop
<1>6. CASE Unpark(e)
  <2>1. Head(queue[e]) = "cancel"
    BY <1>6 DEF Unpark, OnlyCancels
  <2>2. OpenSteps(e)' = OpenSteps(e)
    BY <1>6, <2>1 DEF Unpark, OpenSteps
  <2>3. QED
    BY <1>6, <2>1, <2>2 DEF Unpark
<1>7. CASE RefuseNode(e)
  <2>1. OpenSteps(e)' = OpenSteps(e)
    BY <1>7 DEF RefuseNode, Entering, InLoop, OpenSteps
  <2>2. QED
    BY <1>7, <2>1 DEF RefuseNode, Entering, InLoop
<1>8. CASE EnterNode(e)
  <2>1. /\ OpenSteps(e) = {} /\ UNCHANGED <<db, node>>
        /\ visits'[e][node[e]] = visits[e][node[e]] + 1
    BY <1>8 DEF EnterNode, Entering, InLoop
  <2>2. OpenSteps(e)' \subseteq {Current(e)'}
    BY <1>8, <2>1 DEF EnterNode, OpenSteps
  <2>3. pc'[e] \in InNodePcs /\ db[e] # "Completed"
    BY <1>8 DEF EnterNode, Entering, InLoop
  <2>4. QED
    BY <2>1, <2>2, <2>3
<1>9. CASE NodeSucceeds(e)
  <2>1. OpenSteps(e)' = OpenSteps(e) \ {Current(e)} /\ UNCHANGED <<db, cancelled>>
    <3>1. node[e] \in Nodes /\ visits[e][node[e]] \in 1..MaxNodeVisits
      BY <1>9 DEF NodeSucceeds, GoTo, WalkOK, ApprovalPcs
    <3>2. SetStep(e, node[e], "Completed") /\ UNCHANGED <<db, cancelled>>
      BY <1>9 DEF NodeSucceeds, GoTo
    <3>3. QED
      <4> HIDE DEF Followed, LeftBehind, InNodePcs, AskedPcs, TypeInv, TypeOK
      <4> QED BY <3>1, <3>2, StepWritten
  <2>2. QED
    BY <1>9, <2>1 DEF NodeSucceeds, GoTo
<1>10. CASE ConditionIsFalse(e)
  <2>1. OpenSteps(e)' = OpenSteps(e) \ {Current(e)} /\ UNCHANGED <<db, cancelled>>
    <3>1. node[e] \in Nodes /\ visits[e][node[e]] \in 1..MaxNodeVisits
      BY <1>10 DEF ConditionIsFalse, GoTo, WalkOK, ApprovalPcs
    <3>2. SetStep(e, node[e], "Completed") /\ UNCHANGED <<db, cancelled>>
      BY <1>10 DEF ConditionIsFalse, GoTo
    <3>3. QED
      <4> HIDE DEF Followed, LeftBehind, InNodePcs, AskedPcs, TypeInv, TypeOK
      <4> QED BY <3>1, <3>2, StepWritten
  <2>2. QED
    BY <1>10, <2>1 DEF ConditionIsFalse, GoTo
<1>11. CASE NodeFails(e)
  <2>1. OpenSteps(e)' = OpenSteps(e) \ {Current(e)} /\ UNCHANGED <<db, cancelled>>
    <3>1. node[e] \in Nodes /\ visits[e][node[e]] \in 1..MaxNodeVisits
      BY <1>11 DEF NodeFails, GoTo, WalkOK, ApprovalPcs
    <3>2. SetStep(e, node[e], "Failed") /\ UNCHANGED <<db, cancelled>>
      BY <1>11 DEF NodeFails, GoTo
    <3>3. QED
      <4> HIDE DEF Followed, LeftBehind, InNodePcs, AskedPcs, TypeInv, TypeOK
      <4> QED BY <3>1, <3>2, StepWritten
  <2>2. QED
    BY <1>11, <2>1 DEF NodeFails, GoTo
<1>12. CASE OpenApproval(e)
  <2>1. OpenSteps(e)' \subseteq OpenSteps(e) \cup {Current(e)} /\ UNCHANGED <<db, cancelled>>
    <3>1. node[e] \in Nodes /\ visits[e][node[e]] \in 1..MaxNodeVisits
      BY <1>12 DEF OpenApproval, WalkOK, ApprovalPcs
    <3>2. SetStep(e, node[e], "Paused") /\ UNCHANGED <<db, cancelled>>
      BY <1>12 DEF OpenApproval
    <3>3. QED
      <4> HIDE DEF Followed, LeftBehind, InNodePcs, AskedPcs, TypeInv, TypeOK
      <4> QED BY <3>1, <3>2, StepWritten
  <2>2. QED
    BY <1>12, <2>1 DEF OpenApproval
<1>13. CASE AnnounceApproval(e)
  <2>1. OpenSteps(e)' = OpenSteps(e)
    BY <1>13 DEF AnnounceApproval, SetDb, OpenSteps
  <2>2. QED
    BY <1>13, <2>1 DEF AnnounceApproval, SetDb
<1>14. CASE SeeCancel(e)
  <2>1. OpenSteps(e)' = OpenSteps(e)
    BY <1>14 DEF SeeCancel, OpenSteps
  <2>2. QED
    BY <1>14, <2>1 DEF SeeCancel
<1>15. CASE SeeTimeout(e)
  <2>1. OpenSteps(e)' = OpenSteps(e)
    BY <1>15 DEF SeeTimeout, OpenSteps
  <2>2. QED
    BY <1>15, <2>1 DEF SeeTimeout
<1>16. CASE SeeDecision(e)
  <2>1. OpenSteps(e)' = OpenSteps(e)
    BY <1>16 DEF SeeDecision, OpenSteps
  <2>2. QED
    BY <1>16, <2>1 DEF SeeDecision
<1>17. CASE PollQueue(e)
  <2>1. OpenSteps(e)' = OpenSteps(e)
    BY <1>17 DEF PollQueue, OpenSteps
  <2>2. QED
    BY <1>17, <2>1 DEF PollQueue
<1>18. CASE ApplyTimeout(e)
  <2>1. OpenSteps(e)' = OpenSteps(e)
    BY <1>18 DEF ApplyTimeout, TimeOutRow, TimeoutStatus, OpenSteps
  <2>2. QED
    BY <1>18, <2>1 DEF ApplyTimeout, TimeOutRow, TimeoutStatus
<1>19. CASE WithdrawApproval(e)
  <2>1. OpenSteps(e)' = OpenSteps(e)
    BY <1>19 DEF WithdrawApproval, WithdrawRow, GoTo, OpenSteps
  <2>2. QED
    BY <1>19, <2>1 DEF WithdrawApproval, WithdrawRow, GoTo
<1>20. CASE TakeDecision(e)
  <2>1. OpenSteps(e)' = OpenSteps(e) \ {Current(e)} /\ UNCHANGED <<db, cancelled>>
    <3>1. node[e] \in Nodes /\ visits[e][node[e]] \in 1..MaxNodeVisits
      BY <1>20 DEF TakeDecision, WalkOK, ApprovalPcs
    <3>2. SetStep(e, node[e], "Completed") /\ UNCHANGED <<db, cancelled>>
      BY <1>20 DEF TakeDecision
    <3>3. QED
      <4> HIDE DEF Followed, LeftBehind, InNodePcs, AskedPcs, TypeInv, TypeOK
      <4> QED BY <3>1, <3>2, StepWritten
  <2>2. QED
    BY <1>20, <2>1 DEF TakeDecision
<1>21. CASE FollowDecision(e)
  <2>1. OpenSteps(e)' = OpenSteps(e)
    BY <1>21 DEF FollowDecision, GoTo, SetDb, OpenSteps
  <2>2. QED
    BY <1>21, <2>1 DEF FollowDecision, GoTo, SetDb
<1>22. CASE FailRun(e)
  <2>1. OpenSteps(e)' = OpenSteps(e)
    BY <1>22 DEF FailRun, SetDb, OpenSteps
  <2>2. QED
    BY <1>22, <2>1 DEF FailRun, SetDb
<1>23. CASE MarkFailed(e)
  <2>1. OpenSteps(e)' = OpenSteps(e)
    BY <1>23 DEF MarkFailed, OpenSteps
  <2>2. QED
    BY <1>23, <2>1 DEF MarkFailed
<1>24. CASE ChooseOutcome(e)
  <2>1. OpenSteps(e)' = OpenSteps(e)
    BY <1>24 DEF ChooseOutcome, OpenSteps
  <2>2. QED
    BY <1>24, <2>1 DEF ChooseOutcome
<1>25. CASE WriteOutcome(e)
  <2>1. OpenSteps(e)' = OpenSteps(e)
    BY <1>25 DEF WriteOutcome, SetDb, OpenSteps
  <2>2. QED
    BY <1>25, <2>1 DEF WriteOutcome, SetDb
<1>26. CASE Cleanup(e)
  <2>1. OpenSteps(e)' = OpenSteps(e)
    BY <1>26 DEF Cleanup, OpenSteps
  <2>2. QED
    BY <1>26, <2>1 DEF Cleanup
<1>27. CASE PauseWorkflow(e)
  <2>1. OpenSteps(e)' = OpenSteps(e)
    BY <1>27 DEF PauseWorkflow, Call, OpenSteps
  <2>2. QED
    BY <1>27, <2>1 DEF PauseWorkflow, Call
<1>28. CASE ResumeWorkflow(e)
  <2>1. OpenSteps(e)' = OpenSteps(e)
    BY <1>28 DEF ResumeWorkflow, Call, Put, OpenSteps
  <2>2. QED
    BY <1>28, <2>1 DEF ResumeWorkflow, Call, Put
<1>29. CASE CancelWorkflow(e)
  <2>1. OpenSteps(e)' = OpenSteps(e)
    BY <1>29 DEF CancelWorkflow, Call, Put, OpenSteps
  <2>2. QED
    BY <1>29, <2>1 DEF CancelWorkflow, Call, Put
<1>30. CASE Faulty(e)
  BY <1>30 DEF Faulty, ThreadFails, ApprovalFails
<1>31. QED
  BY <1>1, <1>2, <1>3, <1>4, <1>5, <1>6, <1>7, <1>8, <1>9, <1>10, <1>11, <1>12, <1>13, <1>14, <1>15, <1>16, <1>17, <1>18, <1>19, <1>20, <1>21, <1>22, <1>23, <1>24, <1>25, <1>26, <1>27, <1>28, <1>29, <1>30 DEF Thread, Request

LEMMA EndedStep ==
  ASSUME TypeInv, OnlyCancels, NEW e \in Execs, Ended(e), faults' = 0, calls'["pause"] = 0,
         Thread(e) \/ Faulty(e) \/ Request(e)
  PROVE  Ended(e)'
<1> USE NoLoss DEF Ended, TypeInv, TypeOK, AskedPcs, dbVars, flagVars, walkVars,
            apiVars, peopleVars, Terminal, Operations
<1>1. CASE StartWorkflow(e)
  BY <1>1 DEF StartWorkflow
<1>2. CASE AcquireSlot(e)
  BY <1>2 DEF AcquireSlot
<1>3. CASE LoadVariables(e)
  BY <1>3 DEF LoadVariables
<1>4. CASE LeaveLoop(e)
  BY <1>4 DEF LeaveLoop
<1>5. CASE Park(e)
  BY <1>5 DEF Park, InLoop
<1>6. CASE Unpark(e)
  <2>1. Head(queue[e]) = "cancel"
    BY <1>6 DEF Unpark, OnlyCancels
  <2>2. QED
    BY <1>6, <2>1 DEF Unpark
<1>7. CASE RefuseNode(e)
  BY <1>7 DEF RefuseNode, Entering, InLoop
<1>8. CASE EnterNode(e)
  BY <1>8 DEF EnterNode, Entering, InLoop
<1>9. CASE NodeSucceeds(e)
  BY <1>9 DEF NodeSucceeds, GoTo
<1>10. CASE ConditionIsFalse(e)
  BY <1>10 DEF ConditionIsFalse, GoTo
<1>11. CASE NodeFails(e)
  BY <1>11 DEF NodeFails, GoTo
<1>12. CASE OpenApproval(e)
  BY <1>12 DEF OpenApproval
<1>13. CASE AnnounceApproval(e)
  BY <1>13 DEF AnnounceApproval, SetDb
<1>14. CASE SeeCancel(e)
  BY <1>14 DEF SeeCancel
<1>15. CASE SeeTimeout(e)
  BY <1>15 DEF SeeTimeout
<1>16. CASE SeeDecision(e)
  BY <1>16 DEF SeeDecision
<1>17. CASE PollQueue(e)
  BY <1>17 DEF PollQueue
<1>18. CASE ApplyTimeout(e)
  BY <1>18 DEF ApplyTimeout, TimeOutRow, TimeoutStatus
<1>19. CASE WithdrawApproval(e)
  BY <1>19 DEF WithdrawApproval, WithdrawRow, GoTo
<1>20. CASE TakeDecision(e)
  BY <1>20 DEF TakeDecision
<1>21. CASE FollowDecision(e)
  BY <1>21 DEF FollowDecision, GoTo, SetDb
<1>22. CASE FailRun(e)
  BY <1>22 DEF FailRun, SetDb
<1>23. CASE MarkFailed(e)
  BY <1>23 DEF MarkFailed
<1>24. CASE ChooseOutcome(e)
  BY <1>24 DEF ChooseOutcome
<1>25. CASE WriteOutcome(e)
  BY <1>25 DEF WriteOutcome, SetDb
<1>26. CASE Cleanup(e)
  BY <1>26 DEF Cleanup
<1>27. CASE PauseWorkflow(e)
  BY <1>27 DEF PauseWorkflow, Call
<1>28. CASE ResumeWorkflow(e)
  BY <1>28 DEF ResumeWorkflow, Call, Put
<1>29. CASE CancelWorkflow(e)
  BY <1>29 DEF CancelWorkflow, Call, Put
<1>30. CASE Faulty(e)
  BY <1>30 DEF Faulty, ThreadFails, ApprovalFails
<1>31. QED
  BY <1>1, <1>2, <1>3, <1>4, <1>5, <1>6, <1>7, <1>8, <1>9, <1>10, <1>11, <1>12, <1>13, <1>14, <1>15, <1>16, <1>17, <1>18, <1>19, <1>20, <1>21, <1>22, <1>23, <1>24, <1>25, <1>26, <1>27, <1>28, <1>29, <1>30 DEF Thread, Request

\* Neither people nor the late writes of requests disturb any of it.
LEMMA CalmOthers ==
  ASSUME TypeInv, NEW S \in SUBSET Execs, CalmOn(S),
         \/ \E w \in Execs \X {"Paused", "Cancelled"} : FinishRequest(w)
         \/ People
  PROVE  CalmOn(S)'
<1> USE DEF dbVars, flagVars, walkVars, apiVars, peopleVars
<1>1. OnlyCancels'
  BY DEF CalmOn, OnlyCancels, FinishRequest, People, BulkDecide, CheckPending, SingleDecide,
         DueDatePasses
<1>2. ASSUME NEW w \in Execs \X {"Paused", "Cancelled"}, FinishRequest(w)
      PROVE  CalmOn(S)'
  <2>1. ASSUME NEW e \in Execs, faults' = 0, Waited(e) /\ Followed(e)
        PROVE  Waited(e)' /\ Followed(e)'
    <3>1. OpenSteps(e)' = OpenSteps(e)
      BY <1>2 DEF FinishRequest, OpenSteps
    <3>2. db'[e] = "Completed" => db[e] = "Completed"
      BY <1>2, <2>1, NoLoss DEF FinishRequest, SetDb, TypeInv, TypeOK
    <3>3. QED
      BY <1>2, <2>1, <3>1, <3>2 DEF FinishRequest, Waited, Followed, LeftBehind, Current
  <2>2. ASSUME NEW e \in Execs, faults' = 0, calls["pause"] = 0, Ended(e)
        PROVE  Ended(e)'
    <3>1. /\ UNCHANGED <<pc, node, paused, cancelled>> /\ w \in writes
          /\ writes' = writes \ {w} /\ db' = [db EXCEPT ![w[1]] = w[2]]
      BY <1>2, <2>2, NoLoss DEF FinishRequest, SetDb
    <3>2. CASE w[1] = e
      <4>1. w = <<e, "Cancelled">>
        BY <2>2, <3>1, <3>2 DEF Ended
      <4>2. db'[e] = "Cancelled"
        BY <3>1, <4>1 DEF TypeInv, TypeOK
      <4>3. QED
        BY <2>2, <3>1, <4>1, <4>2 DEF Ended, Terminal
    <3>3. CASE w[1] # e
      <4>1. db'[e] = db[e] /\ \A s : <<e, s>> \in writes' <=> <<e, s>> \in writes
        BY <3>1, <3>3 DEF TypeInv, TypeOK
      <4>2. QED
        BY <2>2, <3>1, <4>1 DEF Ended
    <3>4. QED
      BY <3>2, <3>3
  <2>3. faults' = 0 => faults = 0
    BY <1>2 DEF FinishRequest, SetDb, LoseWrite, TypeInv, TypeOK
  <2>4. UNCHANGED calls
    BY <1>2 DEF FinishRequest
  <2>5. QED
    BY <1>1, <2>1, <2>2, <2>3, <2>4 DEF CalmOn
<1>3. CASE People
  <2>1. /\ UNCHANGED <<db, step, pc, node, visits, paused, cancelled, writes, calls, faults>>
        /\ \A e \in Execs : \A v \in ApprovalVisits :
             appr'[e][v] = "Pending" => appr[e][v] = "Pending"
    <3>1. ASSUME NEW e \in Execs, NEW v \in ApprovalVisits, NEW verdict \in Verdicts,
                 Vote(e, v, verdict), NEW f \in Execs, NEW u \in ApprovalVisits,
                 appr'[f][u] = "Pending"
          PROVE  appr[f][u] = "Pending"
      BY <3>1 DEF Vote, Verdicts, TypeInv, TypeOK
    <3>2. ASSUME NEW d \in Deciders, SingleDecide(d)
          PROVE  \E e \in Execs, v \in ApprovalVisits, verdict \in Verdicts : Vote(e, v, verdict)
      <4>1. held[d] \in Hold
        BY <3>2 DEF SingleDecide, NoHold, TypeInv, TypeOK
      <4>2. /\ held[d].exec \in Execs /\ held[d].visit \in ApprovalVisits
            /\ held[d].verdict \in Verdicts
        BY <4>1 DEF Hold
      <4>3. QED
        BY <3>2, <4>2 DEF SingleDecide
    <3>3. QED
      BY <1>3, <3>1, <3>2 DEF People, BulkDecide, CheckPending, SingleDecide, DueDatePasses
  <2>2. \A e \in Execs : Current(e)' = Current(e) /\ OpenSteps(e)' = OpenSteps(e)
    BY <2>1 DEF Current, OpenSteps
  <2>3. ASSUME NEW e \in Execs, Current(e) \in ApprovalVisits \/ pc[e] # "apprHandle", Waited(e)
        PROVE  Waited(e)'
    BY <2>1, <2>2, <2>3 DEF Waited
  <2>4. \A e \in Execs : Followed(e) => Followed(e)'
    BY <2>1, <2>2 DEF Followed, LeftBehind
  <2>5. \A e \in Execs : Ended(e) => Ended(e)'
    BY <2>1 DEF Ended
  <2>6. \A e \in Execs : Current(e) \in ApprovalVisits \/ pc[e] # "apprHandle"
    BY CurrentType DEF ApprovalPcs
  <2>7. QED
    BY <1>1, <2>1, <2>3, <2>4, <2>5, <2>6 DEF CalmOn
<1>4. QED
  BY <1>2, <1>3

LEMMA CalmInit == ASSUME Init PROVE CalmInv
BY DEF Init, CalmInv, CalmOn, OnlyCancels, Waited, Followed, OpenSteps, Ended, AskedPcs

LEMMA FaultsStay ==
  ASSUME TypeInv, [Next]_vars, faults' = 0
  PROVE  faults = 0
<1>1. ASSUME NEW e \in Execs, Thread(e) \/ Faulty(e) \/ Request(e)
      PROVE  faults = 0
  BY <1>1 DEF TypeInv, TypeOK, Thread, Faulty, Request, LoseWrite, SetStep, SetDb, StartWorkflow, AcquireSlot, LoadVariables, LeaveLoop, Park, Unpark, RefuseNode, EnterNode, NodeSucceeds, ConditionIsFalse, NodeFails, OpenApproval, AnnounceApproval, SeeCancel, SeeTimeout, SeeDecision, PollQueue, ApplyTimeout, WithdrawApproval, TakeDecision, FollowDecision, FailRun, MarkFailed, ChooseOutcome, WriteOutcome, Cleanup, PauseWorkflow, ResumeWorkflow, CancelWorkflow, ThreadFails, ApprovalFails
<1>2. ASSUME NEW w \in Execs \X {"Paused", "Cancelled"}, FinishRequest(w)
      PROVE  faults = 0
  BY <1>2 DEF FinishRequest, SetDb, LoseWrite, TypeInv, TypeOK
<1>3. CASE People
  BY <1>3 DEF People, BulkDecide, CheckPending, SingleDecide, DueDatePasses
<1>4. CASE UNCHANGED vars
  BY <1>4 DEF vars
<1>5. QED
  BY <1>1, <1>2, <1>3, <1>4 DEF Next

LEMMA CalmNext ==
  ASSUME TypeInv, NEW S \in SUBSET Execs, CalmOn(S), [Next]_vars
  PROVE  CalmOn(S)'
<1>1. ASSUME NEW e \in Execs, Thread(e) \/ Faulty(e) \/ Request(e)
      PROVE  CalmOn(S)'
  <2>1. OnlyCancels'
    BY <1>1, CancelsStep DEF CalmOn
  <2>2. faults' = 0 => faults = 0
    BY FaultsStay
  <2>3. calls'["pause"] = 0 => calls["pause"] = 0
    BY <1>1 DEF TypeInv, TypeOK, Operations, apiVars, Thread, Faulty, Request, Call, StartWorkflow, AcquireSlot, LoadVariables, LeaveLoop, Park, Unpark, RefuseNode, EnterNode, NodeSucceeds, ConditionIsFalse, NodeFails, OpenApproval, AnnounceApproval, SeeCancel, SeeTimeout, SeeDecision, PollQueue, ApplyTimeout, WithdrawApproval, TakeDecision, FollowDecision, FailRun, MarkFailed, ChooseOutcome, WriteOutcome, Cleanup, PauseWorkflow, ResumeWorkflow, CancelWorkflow, ThreadFails, ApprovalFails
  <2>4. ASSUME NEW f \in Execs \ {e}
        PROVE  /\ Waited(f) => Waited(f)'
               /\ Followed(f) => Followed(f)'
               /\ Ended(f) => Ended(f)'
    <3>1. Untouched(f)
      BY <1>1, OthersUntouched
    <3>2. QED
      BY <3>1 DEF Untouched, Waited, Followed, LeftBehind, OpenSteps, Ended, Current
  <2>5. QED
    BY <1>1, <2>1, <2>2, <2>3, <2>4, WaitedStep, FollowedStep, EndedStep DEF CalmOn
<1>2. CASE UNCHANGED vars
  BY <1>2 DEF vars, dbVars, flagVars, walkVars, apiVars, peopleVars, CalmOn, OnlyCancels,
              Waited, Followed, LeftBehind, OpenSteps, Ended, Current
<1>3. QED
  BY <1>1, <1>2, CalmOthers DEF Next

LEMMA CalmInvariant == Spec => []CalmInv
<1>1. Init => CalmInv
  BY CalmInit
<1>2. TypeInv /\ CalmInv /\ [Next]_vars => CalmInv'
  BY CalmNext DEF CalmInv
<1>3. QED
  BY <1>1, <1>2, TypeInvariant, PTL DEF Spec

\* While no database call fails, an open request always has its thread in the
\* approval node: none stays in My Approvals that nothing will act on.
THEOREM OpenRequestsAreAwaited == Spec => []PendingHasWaiter
<1>1. CalmInv => PendingHasWaiter
  BY DEF CalmInv, CalmOn, Waited, PendingHasWaiter, AskedPcs, ApprovalPcs
<1>2. QED
  BY <1>1, CalmInvariant, PTL

\* While no database call fails, an execution shows one step in progress at
\* most, and none once it is Completed.
THEOREM OneStepInProgress == Spec => []StepsFollowTheThread
<1>1. ASSUME NEW e \in Execs, Followed(e)
      PROVE  Cardinality(OpenSteps(e)) <= 1
  <2>1. CASE OpenSteps(e) = {}
    BY <2>1, FS_EmptySet
  <2>2. CASE OpenSteps(e) # {}
    <3>1. PICK v \in OpenSteps(e) : OpenSteps(e) = {v}
      BY <1>1, <2>2 DEF Followed
    <3>2. Cardinality({v}) = 1
      BY FS_Singleton
    <3>3. QED
      BY <3>1, <3>2
  <2>3. QED
    BY <2>1, <2>2
<1>2. CalmInv => StepsFollowTheThread
  BY <1>1 DEF CalmInv, CalmOn, Followed, StepsFollowTheThread
<1>3. QED
  BY <1>2, CalmInvariant, PTL

\* While no database call fails and nobody has asked to pause, a run whose
\* thread is gone shows an outcome, and never Failed after a cancel.
THEOREM QuietRunsHaveOutcomes == Spec => []QuietRunHasOutcome
<1>1. CalmInv => QuietRunHasOutcome
  BY DEF CalmInv, CalmOn, Ended, QuietRunHasOutcome, Quiet
<1>2. QED
  BY <1>1, CalmInvariant, PTL

=============================================================================

----------------------- MODULE WorkflowEngineContract -----------------------
(* The Human Approval node implements ApprovalContract as long as every    *)
(* decision goes through the conditional UPDATE of the bulk endpoint. The  *)
(* second half is about the executor with restarts: what the engine keeps  *)
(* while it is up survives crashes and the three recovery passes.          *)
EXTENDS WorkflowEngineProofs, WorkflowRecovery

(***************************************************************************)
(* The refinement needs to know what the row of a request can hold at each *)
(* point of its node: nothing before the node opens it (each visit has a   *)
(* request of its own), a request or a decision while the thread polls,    *)
(* the decision the thread has read once it stops, and for ever after.     *)
(***************************************************************************)
TakenMatches(e) ==
  \A v \in ApprovalVisits : routed[e][v] # "none" =>
    /\ appr[e][v] \in Decided
    /\ routed[e][v] = IF appr[e][v] \in Approving THEN "approved" ELSE "rejected"

LaterVisitsFresh(e) ==
  ~ThreadOver(e) =>
    \A v \in ApprovalVisits : v[2] > visits[e][v[1]] =>
      appr[e][v] = "none" /\ routed[e][v] = "none"

CurrentOpen(e) ==
  pc[e] \in ApprovalPcs =>
    /\ routed[e][Current(e)] = "none"
    /\ IF pc[e] = "apprOpen" THEN appr[e][Current(e)] = "none"
                             ELSE appr[e][Current(e)] \in {"Pending"} \cup Decided

AnswerMatches(e) ==
  pc[e] = "apprHandle" /\ ~cancelled[e] =>
    /\ appr[e][Current(e)] \in Decided
    /\ resp[e] \in Approving <=> appr[e][Current(e)] \in Approving

ExecInv(e) == /\ TakenMatches(e) /\ LaterVisitsFresh(e)
              /\ CurrentOpen(e) /\ AnswerMatches(e)

ContractInv == \A e \in Execs : ExecInv(e)

\* What one execution looks like; the steps of the others leave it alone.
Alone(e) ==
  \A f \in Execs \ {e} :
    /\ pc'[f] = pc[f] /\ node'[f] = node[f] /\ visits'[f] = visits[f]
    /\ resp'[f] = resp[f] /\ appr'[f] = appr[f] /\ routed'[f] = routed[f]
    /\ cancelled'[f] = cancelled[f]

LEMMA OthersKeepInv ==
  ASSUME ContractInv, NEW e \in Execs, Alone(e), ExecInv(e)'
  PROVE  ContractInv'
<1> SUFFICES ASSUME NEW f \in Execs, f # e PROVE ExecInv(f)'
  BY DEF ContractInv
<1>1. Current(f)' = Current(f)
  BY DEF Current, Alone
<1>2. QED
  BY <1>1 DEF ContractInv, ExecInv, TakenMatches, LaterVisitsFresh, ThreadOver, CurrentOpen,
              AnswerMatches, Alone

(* The steps of the contract, as updates of the rows. *)

LEMMA RecordUpdate ==
  ASSUME TypeInv, NEW e \in Execs, NEW v \in ApprovalVisits, NEW s,
         appr' = [appr EXCEPT ![e][v] = s]
  PROVE  Record' = [Record EXCEPT ![<<e, v>>] = RecordOf(s)]
<1>1. \A r \in Requests : appr'[r[1]][r[2]] = IF r = <<e, v>> THEN s ELSE appr[r[1]][r[2]]
  BY DEF TypeInv, TypeOK, Requests
<1>2. \A r \in Requests : RecordOf(appr'[r[1]][r[2]]) =
        IF r = <<e, v>> THEN RecordOf(s) ELSE RecordOf(appr[r[1]][r[2]])
  BY <1>1
<1>3. QED
  BY <1>2 DEF Record, Requests

LEMMA TakenUpdate ==
  ASSUME TypeInv, NEW e \in Execs, NEW v \in ApprovalVisits, NEW d,
         routed' = [routed EXCEPT ![e][v] = d]
  PROVE  Taken' = [Taken EXCEPT ![<<e, v>>] = d]
<1>1. \A r \in Requests :
        routed'[r[1]][r[2]] = IF r = <<e, v>> THEN d ELSE routed[r[1]][r[2]]
  BY DEF TypeInv, TypeOK, Requests
<1>2. QED
  BY <1>1 DEF Taken

LEMMA RecordOfRow ==
  /\ RecordOf("none") = "none"
  /\ RecordOf("Pending") = "open"
  /\ RecordOf("Cancelled") = "withdrawn"
BY DEF RecordOf, Approving

LEMMA RowsUnchanged ==
  ASSUME UNCHANGED <<appr, routed>>
  PROVE  UNCHANGED <<Record, Taken>>
BY DEF Record, Taken


\* A step outside the node, which at most counts a visit.
LEMMA PlainKeeps ==
  ASSUME TypeInv, ContractInv, NEW e \in Execs, Alone(e), UNCHANGED <<appr, routed>>,
         pc'[e] \notin ApprovalPcs,
         visits'[e] \in [Nodes -> Nat],
         ~ThreadOver(e)' => /\ ~ThreadOver(e)
                            /\ \A n \in Nodes : visits[e][n] <= visits'[e][n]
  PROVE  ContractInv'
<1>1. TakenMatches(e)'
  BY DEF ContractInv, ExecInv, TakenMatches
<1>2. LaterVisitsFresh(e)'
  <2> SUFFICES ASSUME ~ThreadOver(e)', NEW v \in ApprovalVisits,
                      v[2] > visits'[e][v[1]]
               PROVE  appr[e][v] = "none" /\ routed[e][v] = "none"
    BY DEF LaterVisitsFresh
  <2>1. v[1] \in Nodes /\ v[2] \in Nat
    BY BoundAssumption DEF ApprovalVisits, Visits
  <2>2. visits[e][v[1]] \in Nat
    BY <2>1, BoundAssumption DEF TypeInv, TypeOK
  <2>3. v[2] > visits[e][v[1]]
    BY <2>1, <2>2
  <2>4. QED
    BY <2>3 DEF ContractInv, ExecInv, LaterVisitsFresh
<1>3. CurrentOpen(e)' /\ AnswerMatches(e)'
  BY DEF CurrentOpen, AnswerMatches, ApprovalPcs
<1>4. QED
  BY <1>1, <1>2, <1>3, OthersKeepInv DEF ExecInv

Outside(e) ==
  /\ Alone(e) /\ UNCHANGED <<appr, routed, visits>>
  /\ ~ThreadOver(e) /\ pc'[e] \notin ApprovalPcs

LEMMA OutsideKeeps ==
  ASSUME TypeInv, ContractInv, NEW e \in Execs, Outside(e)
  PROVE  ContractInv'
<1>1. visits[e] \in [Nodes -> Nat]
  BY BoundAssumption DEF TypeInv, TypeOK
<1>2. \A n \in Nodes : visits[e][n] <= visits[e][n]
  BY <1>1
<1>3. QED
  BY <1>1, <1>2, PlainKeeps DEF Outside

\* A step inside the node that leaves the walk where it is.
LEMMA NodeKeeps ==
  ASSUME ContractInv, NEW e \in Execs, Alone(e), UNCHANGED <<node, visits>>,
         ~ThreadOver(e), TakenMatches(e)', CurrentOpen(e)', AnswerMatches(e)',
         \A v \in ApprovalVisits : v[2] > visits[e][v[1]] =>
           appr'[e][v] = appr[e][v] /\ routed'[e][v] = routed[e][v]
  PROVE  ContractInv'
<1>1. LaterVisitsFresh(e)'
  BY DEF ContractInv, ExecInv, LaterVisitsFresh
<1>2. QED
  BY <1>1, OthersKeepInv DEF ExecInv

\* Waiting for the row of the request, or going on to act on what it says.
LEMMA WaitKeeps ==
  ASSUME ContractInv, NEW e \in Execs, Alone(e),
         UNCHANGED <<appr, routed, node, visits>>,
         pc[e] \in ApprovalPcs \ {"apprOpen"}, pc'[e] \in ApprovalPcs \ {"apprOpen"},
         pc'[e] = "apprHandle" /\ ~cancelled'[e] =>
           /\ appr[e][Current(e)] \in Decided
           /\ resp'[e] \in Approving <=> appr[e][Current(e)] \in Approving
  PROVE  ContractInv'
<1>1. Current(e)' = Current(e)
  BY DEF Current
<1>2. TakenMatches(e) /\ CurrentOpen(e)
  BY DEF ContractInv, ExecInv
<1>3. TakenMatches(e)'
  BY <1>2 DEF TakenMatches
<1>4. CurrentOpen(e)' /\ AnswerMatches(e)'
  BY <1>1, <1>2 DEF CurrentOpen, AnswerMatches
<1>5. ~ThreadOver(e)
  BY DEF ThreadOver, ApprovalPcs
<1>6. QED
  BY <1>3, <1>4, <1>5, NodeKeeps

\* The request of the node being executed is not one of a later visit.
LEMMA CurrentIsNotLater ==
  ASSUME TypeInv, NEW e \in Execs, pc[e] \in ApprovalPcs,
         NEW v \in ApprovalVisits, v[2] > visits[e][v[1]]
  PROVE  v # Current(e)
BY BoundAssumption DEF Current, TypeInv, WalkOK, ApprovalPcs, ApprovalVisits, Visits


\* The three ways a database call can raise after a write of the node went
\* through: the write stays, and the run fails.
OpenFails(e) ==
  /\ ApprovalFails(e) /\ pc[e] = "apprOpen" /\ UNCHANGED routed
  /\ appr' = [appr EXCEPT ![e][Current(e)] = "Pending"]
WithdrawFails(e) ==
  /\ ApprovalFails(e) /\ pc[e] = "apprHandle" /\ cancelled[e]
  /\ WithdrawRow(e) /\ UNCHANGED routed
TakeFails(e) ==
  /\ ApprovalFails(e) /\ pc[e] = "apprHandle" /\ ~cancelled[e]
  /\ Follow(e) /\ UNCHANGED appr

\* The steps that write the row or act on it.
RowStep(e) ==
  \/ OpenApproval(e) \/ ApplyTimeout(e) \/ WithdrawApproval(e) \/ TakeDecision(e)
  \/ OpenFails(e) \/ WithdrawFails(e) \/ TakeFails(e)

\* The steps of a thread or of a request to it that leave the rows alone.
LEMMA QuietSteps ==
  ASSUME TypeInv, ContractInv, NEW e \in Execs, Thread(e) \/ Faulty(e) \/ Request(e),
         ~RowStep(e)
  PROVE  ContractInv' /\ UNCHANGED <<appr, routed>>
<1> USE DEF dbVars, flagVars, walkVars, apiVars, peopleVars
<1>1. visits[e] \in [Nodes -> Nat]
  BY BoundAssumption DEF TypeInv, TypeOK
<1>2. CASE StartWorkflow(e)
  <2>1. Outside(e)
    BY <1>2 DEF ThreadOver, TypeInv, TypeOK, Outside, Alone, StartWorkflow, ApprovalPcs
  <2>2. QED
    BY <1>2, <2>1, OutsideKeeps DEF Outside
<1>3. CASE AcquireSlot(e)
  <2>1. Outside(e)
    BY <1>3 DEF ThreadOver, TypeInv, TypeOK, Outside, Alone, AcquireSlot, ApprovalPcs
  <2>2. QED
    BY <1>3, <2>1, OutsideKeeps DEF Outside
<1>4. CASE LoadVariables(e)
  <2>1. Outside(e)
    BY <1>4 DEF ThreadOver, TypeInv, TypeOK, Outside, Alone, LoadVariables, ApprovalPcs
  <2>2. QED
    BY <1>4, <2>1, OutsideKeeps DEF Outside
<1>5. CASE ThreadFails(e)
  <2>1. Outside(e)
    BY <1>5 DEF ThreadOver, TypeInv, TypeOK, Outside, Alone, ThreadFails, InLoop, ApprovalPcs
  <2>2. QED
    BY <1>5, <2>1, OutsideKeeps DEF Outside
<1>6. CASE LeaveLoop(e)
  <2>1. Outside(e)
    BY <1>6 DEF ThreadOver, TypeInv, TypeOK, Outside, Alone, LeaveLoop, ApprovalPcs
  <2>2. QED
    BY <1>6, <2>1, OutsideKeeps DEF Outside
<1>7. CASE Park(e)
  <2>1. Outside(e)
    BY <1>7 DEF ThreadOver, TypeInv, TypeOK, Outside, Alone, Park, InLoop, ApprovalPcs
  <2>2. QED
    BY <1>7, <2>1, OutsideKeeps DEF Outside
<1>8. CASE Unpark(e)
  <2>1. Outside(e)
    BY <1>8 DEF ThreadOver, TypeInv, TypeOK, Outside, Alone, Unpark, ApprovalPcs
  <2>2. QED
    BY <1>8, <2>1, OutsideKeeps DEF Outside
<1>9. CASE RefuseNode(e)
  <2>1. /\ Alone(e) /\ UNCHANGED <<appr, routed>>
        /\ ~ThreadOver(e) /\ pc'[e] \notin ApprovalPcs
    BY <1>9 DEF TypeInv, TypeOK, Alone, RefuseNode, Entering, InLoop, ThreadOver, ApprovalPcs
  <2>2. \/ visits'[e] = visits[e]
        \/ node[e] \in Nodes /\ visits'[e] = [visits[e] EXCEPT ![node[e]] = @ + 1]
    BY <1>9 DEF TypeInv, TypeOK, RefuseNode
  <2>3. /\ visits'[e] \in [Nodes -> Nat]
        /\ \A n \in Nodes : visits[e][n] <= visits'[e][n]
    BY <1>1, <2>2
  <2>4. QED
    BY <2>1, <2>3, PlainKeeps
<1>10. CASE NodeSucceeds(e)
  <2>1. Outside(e)
    BY <1>10 DEF ThreadOver, TypeInv, TypeOK, Outside, Alone, NodeSucceeds, GoTo, ApprovalPcs
  <2>2. QED
    BY <1>10, <2>1, OutsideKeeps DEF Outside
<1>11. CASE ConditionIsFalse(e)
  <2>1. Outside(e)
    BY <1>11 DEF ThreadOver, TypeInv, TypeOK, Outside, Alone, ConditionIsFalse, GoTo, ApprovalPcs
  <2>2. QED
    BY <1>11, <2>1, OutsideKeeps DEF Outside
<1>12. CASE NodeFails(e)
  <2>1. Outside(e)
    BY <1>12 DEF ThreadOver, TypeInv, TypeOK, Outside, Alone, NodeFails, GoTo, ApprovalPcs
  <2>2. QED
    BY <1>12, <2>1, OutsideKeeps DEF Outside
<1>13. CASE FollowDecision(e)
  <2>1. Outside(e)
    BY <1>13 DEF ThreadOver, TypeInv, TypeOK, Outside, Alone, FollowDecision, GoTo, ApprovalPcs
  <2>2. QED
    BY <1>13, <2>1, OutsideKeeps DEF Outside
<1>14. CASE ApprovalFails(e)
  <2>0. UNCHANGED <<appr, routed>>
    BY <1>14 DEF ApprovalFails, RowStep, OpenFails, WithdrawFails, TakeFails
  <2>1. Outside(e)
    BY <1>14, <2>0 DEF ThreadOver, TypeInv, TypeOK, Outside, Alone, ApprovalFails, ApprovalPcs
  <2>2. QED
    BY <1>14, <2>1, OutsideKeeps DEF Outside
<1>15. CASE FailRun(e)
  <2>1. Outside(e)
    BY <1>15 DEF ThreadOver, TypeInv, TypeOK, Outside, Alone, FailRun, ApprovalPcs
  <2>2. QED
    BY <1>15, <2>1, OutsideKeeps DEF Outside
<1>16. CASE MarkFailed(e)
  <2>1. Outside(e)
    BY <1>16 DEF ThreadOver, TypeInv, TypeOK, Outside, Alone, MarkFailed, ApprovalPcs
  <2>2. QED
    BY <1>16, <2>1, OutsideKeeps DEF Outside
<1>17. CASE ChooseOutcome(e)
  <2>1. Outside(e)
    BY <1>17 DEF ThreadOver, TypeInv, TypeOK, Outside, Alone, ChooseOutcome, ApprovalPcs
  <2>2. QED
    BY <1>17, <2>1, OutsideKeeps DEF Outside
<1>18. CASE WriteOutcome(e)
  <2>1. Outside(e)
    BY <1>18 DEF ThreadOver, TypeInv, TypeOK, Outside, Alone, WriteOutcome, ApprovalPcs
  <2>2. QED
    BY <1>18, <2>1, OutsideKeeps DEF Outside
<1>19. CASE Cleanup(e)
  <2>1. /\ Alone(e) /\ UNCHANGED <<appr, routed>> /\ pc'[e] = "gone"
        /\ visits'[e] \in [Nodes -> Nat]
    BY <1>19 DEF TypeInv, TypeOK, Alone, Cleanup
  <2>2. QED
    BY <2>1, PlainKeeps DEF ThreadOver, ApprovalPcs
<1>20. CASE EnterNode(e)
  <2>1. Alone(e) /\ UNCHANGED <<appr, routed, node, cancelled>>
    BY <1>20 DEF TypeInv, TypeOK, Alone, EnterNode
  <2>2. /\ node[e] \in Nodes /\ pc[e] \in {"top", "enter"}
        /\ visits'[e] = [visits[e] EXCEPT ![node[e]] = @ + 1]
    BY <1>20 DEF TypeInv, TypeOK, EnterNode, Entering, InLoop
  <2>3. CASE pc'[e] \notin ApprovalPcs
    <3>1. ~ThreadOver(e)
      BY <2>2 DEF ThreadOver
    <3>2. visits'[e] \in [Nodes -> Nat] /\ \A n \in Nodes : visits[e][n] <= visits'[e][n]
      BY <1>1, <2>2
    <3>3. QED
      BY <2>1, <2>3, <3>1, <3>2, PlainKeeps
  <2>4. CASE pc'[e] \in ApprovalPcs
    <3>1. pc'[e] = "apprOpen" /\ Kind[node[e]] = "approval"
      BY <1>20, <2>4 DEF TypeInv, TypeOK, EnterNode, ApprovalPcs
    <3>2. Current(e)' = <<node[e], visits[e][node[e]] + 1>>
      BY <1>1, <2>1, <2>2 DEF Current
    <3>3. Current(e)' \in ApprovalVisits
      BY <1>1, <1>20, <2>2, <3>1, <3>2, BoundAssumption
      DEF EnterNode, ApprovalVisits, Visits
    <3>4. appr[e][Current(e)'] = "none" /\ routed[e][Current(e)'] = "none"
      BY <1>1, <2>2, <3>2, <3>3 DEF ContractInv, ExecInv, LaterVisitsFresh, ThreadOver
    <3>5. CurrentOpen(e)' /\ AnswerMatches(e)'
      BY <2>1, <3>1, <3>4 DEF CurrentOpen, AnswerMatches
    <3>6. TakenMatches(e)'
      BY <2>1 DEF ContractInv, ExecInv, TakenMatches
    <3>7. LaterVisitsFresh(e)'
      <4> SUFFICES ASSUME NEW v \in ApprovalVisits, v[2] > visits'[e][v[1]]
                   PROVE  v[2] > visits[e][v[1]]
        BY <2>1, <2>2 DEF LaterVisitsFresh, ThreadOver, ContractInv, ExecInv
      <4>1. v[1] \in Nodes /\ v[2] \in Nat
        BY BoundAssumption DEF ApprovalVisits, Visits
      <4>2. QED
        BY <1>1, <2>2, <4>1
    <3>8. QED
      BY <2>1, <3>5, <3>6, <3>7, OthersKeepInv DEF ExecInv
  <2>5. QED
    BY <2>1, <2>3, <2>4
<1>21. CASE AnnounceApproval(e)
  <2>1. /\ Alone(e) /\ UNCHANGED <<appr, routed, node, visits>>
        /\ pc[e] \in ApprovalPcs \ {"apprOpen"} /\ pc'[e] \in ApprovalPcs \ {"apprOpen"}
        /\ pc'[e] = "apprHandle" => cancelled'[e]
    BY <1>21 DEF TypeInv, TypeOK, Alone, AnnounceApproval, ApprovalPcs
  <2>2. QED
    BY <2>1, WaitKeeps
<1>22. CASE SeeCancel(e)
  <2>1. /\ Alone(e) /\ UNCHANGED <<appr, routed, node, visits>>
        /\ pc[e] \in ApprovalPcs \ {"apprOpen"} /\ pc'[e] \in ApprovalPcs \ {"apprOpen"}
        /\ pc'[e] = "apprHandle" => cancelled'[e]
    BY <1>22 DEF TypeInv, TypeOK, Alone, SeeCancel, ApprovalPcs
  <2>2. QED
    BY <2>1, WaitKeeps
<1>23. CASE SeeTimeout(e)
  <2>1. /\ Alone(e) /\ UNCHANGED <<appr, routed, node, visits>>
        /\ pc[e] \in ApprovalPcs \ {"apprOpen"} /\ pc'[e] \in ApprovalPcs \ {"apprOpen"}
        /\ pc'[e] = "apprHandle" => cancelled'[e]
    BY <1>23 DEF TypeInv, TypeOK, Alone, SeeTimeout, ApprovalPcs
  <2>2. QED
    BY <2>1, WaitKeeps
<1>24. CASE SeeDecision(e)
  <2>1. /\ Alone(e) /\ UNCHANGED <<appr, routed, node, visits>>
        /\ pc[e] = "apprWait" /\ pc'[e] = "apprHandle"
        /\ resp'[e] = appr[e][Current(e)] /\ appr[e][Current(e)] # "Pending"
    BY <1>24 DEF TypeInv, TypeOK, Alone, SeeDecision
  <2>2. appr[e][Current(e)] \in Decided
    BY <2>1 DEF ContractInv, ExecInv, CurrentOpen, ApprovalPcs
  <2>3. QED
    BY <2>1, <2>2, WaitKeeps DEF ApprovalPcs
<1>25. CASE PollQueue(e)
  <2>1. /\ Alone(e) /\ UNCHANGED <<appr, routed, node, visits>>
        /\ pc[e] = "apprWait" /\ pc'[e] \in {"apprWait", "apprHandle"}
        /\ pc'[e] = "apprHandle" => cancelled'[e]
    BY <1>25 DEF TypeInv, TypeOK, Alone, PollQueue
  <2>2. QED
    BY <2>1, WaitKeeps DEF ApprovalPcs
<1>26. CASE PauseWorkflow(e)
  BY <1>26 DEF PauseWorkflow, ContractInv, ExecInv, TakenMatches, LaterVisitsFresh, ThreadOver, CurrentOpen,
            AnswerMatches, Current
<1>27. CASE ResumeWorkflow(e)
  BY <1>27 DEF ResumeWorkflow, ContractInv, ExecInv, TakenMatches, LaterVisitsFresh, ThreadOver, CurrentOpen,
            AnswerMatches, Current
<1>28. CASE CancelWorkflow(e)
  <2>1. cancelled'[e] /\ \A f \in Execs \ {e} : cancelled'[f] = cancelled[f]
    BY <1>28 DEF TypeInv, TypeOK, CancelWorkflow
  <2>2. UNCHANGED <<appr, routed, walkVars>>
    BY <1>28 DEF CancelWorkflow
  <2>3. QED
    BY <2>1, <2>2 DEF ContractInv, ExecInv, TakenMatches, LaterVisitsFresh, ThreadOver, CurrentOpen,
                      AnswerMatches, Current
<1>29. QED
  BY <1>2, <1>3, <1>4, <1>5, <1>6, <1>7, <1>8, <1>9, <1>10, <1>11, <1>12, <1>13, <1>14, <1>15, <1>16, <1>17, <1>18, <1>19, <1>20, <1>21, <1>22, <1>23, <1>24, <1>25, <1>26, <1>27, <1>28 DEF Thread, Faulty, Request, RowStep

\* The steps of a thread that write the row or act on it keep the invariant
\* and are steps of the contract.
LEMMA RowSteps ==
  ASSUME TypeInv, ContractInv, NEW e \in Execs, RowStep(e)
  PROVE  ContractInv' /\ Contract!Next
<1> USE DEF flagVars, apiVars, peopleVars
<1> DEFINE v == Current(e)
           r == <<e, v>>
<1>1. /\ v \in ApprovalVisits /\ r \in Requests /\ v[1] = node[e]
      /\ v[1] \in Nodes /\ pc[e] \in ApprovalPcs
  BY CurrentType DEF RowStep, OpenApproval, ApplyTimeout, WithdrawApproval, TakeDecision,
     OpenFails, WithdrawFails, TakeFails, ApprovalPcs, Requests, Current
<1>2. \A u \in ApprovalVisits : u[2] > visits[e][u[1]] => u # v
  BY <1>1, CurrentIsNotLater
<1>3. CurrentOpen(e) /\ TakenMatches(e) /\ AnswerMatches(e)
  BY DEF ContractInv, ExecInv
<1>4. Record[r] = RecordOf(appr[e][v]) /\ Taken[r] = "none"
  BY <1>1, <1>3 DEF Record, Taken, CurrentOpen
<1> HIDE DEF r
<1>5. CASE OpenApproval(e) \/ OpenFails(e)
  <2>1. /\ Alone(e) /\ UNCHANGED <<node, visits, routed>>
        /\ pc'[e] \in {"apprAnnounce", "fail"}
        /\ appr' = [appr EXCEPT ![e][v] = "Pending"]
    <3>1. CASE OpenApproval(e)
      BY <3>1 DEF OpenApproval, Alone, TypeInv, TypeOK
    <3>2. CASE OpenFails(e)
      BY <3>2 DEF OpenFails, ApprovalFails, Alone, TypeInv, TypeOK
    <3>3. QED
      BY <1>5, <3>1, <3>2
  <2>2. /\ appr'[e][v] = "Pending"
        /\ \A u \in ApprovalVisits \ {v} : appr'[e][u] = appr[e][u]
    BY <1>1, <2>1 DEF TypeInv, TypeOK
  <2>3. Current(e)' = v
    BY <2>1 DEF Current
  <2>4. TakenMatches(e)' /\ CurrentOpen(e)' /\ AnswerMatches(e)'
    BY <1>1, <1>3, <2>1, <2>2, <2>3
    DEF TakenMatches, CurrentOpen, AnswerMatches, ApprovalPcs
  <2>5. ContractInv'
    <3>1. \A u \in ApprovalVisits : u[2] > visits[e][u[1]] =>
            appr'[e][u] = appr[e][u] /\ routed'[e][u] = routed[e][u]
      BY <1>2, <2>1, <2>2
    <3>2. ~ThreadOver(e)
      BY <1>1 DEF ThreadOver, ApprovalPcs
    <3>3. QED
      BY <2>1, <2>4, <3>1, <3>2, NodeKeeps
  <2>6. appr[e][v] = "none"
    BY <1>3, <1>5 DEF CurrentOpen, OpenApproval, OpenFails, ApprovalPcs
  <2>7. Record' = [Record EXCEPT ![r] = "open"] /\ UNCHANGED Taken
    <3>1. Record' = [Record EXCEPT ![<<e, v>>] = RecordOf("Pending")]
      <4>1. v \in ApprovalVisits /\ appr' = [appr EXCEPT ![e][v] = "Pending"]
        BY <1>1, <2>1
      <4> HIDE DEF v
      <4>2. QED
        BY <4>1, RecordUpdate
    <3>2. UNCHANGED Taken
      BY <2>1 DEF Taken
    <3>3. QED
      BY <3>1, <3>2, RecordOfRow DEF r
  <2>8. Contract!Open(r)
    BY <1>4, <2>6, <2>7, RecordOfRow DEF Contract!Open
  <2>9. QED
    BY <1>1, <2>5, <2>8 DEF Contract!Next
<1>6. CASE ApplyTimeout(e)
  <2> DEFINE s == TimeoutStatus(node[e])
  <2>1. /\ Alone(e) /\ UNCHANGED <<node, visits, routed>> /\ pc'[e] = "apprHandle"
        /\ appr' = [appr EXCEPT ![e][v] = s]
        /\ resp'[e] \in Approving <=> s \in Approving
    BY <1>6 DEF ApplyTimeout, TimeOutRow, Alone, TypeInv, TypeOK, TimeoutStatus, Approving
  <2>2. s \in Decided
    BY DEF TimeoutStatus, Decided, Approving
  <2> HIDE DEF s
  <2>3. appr'[e][v] = s /\ \A u \in ApprovalVisits \ {v} : appr'[e][u] = appr[e][u]
    BY <1>1, <2>1 DEF TypeInv, TypeOK
  <2>4. Current(e)' = v
    BY <2>1 DEF Current
  <2>5. TakenMatches(e)' /\ CurrentOpen(e)' /\ AnswerMatches(e)'
    BY <1>1, <1>3, <2>1, <2>2, <2>3, <2>4
    DEF TakenMatches, CurrentOpen, AnswerMatches, ApprovalPcs
  <2>6. ContractInv'
    BY <1>1, <1>2, <2>1, <2>3, <2>5, NodeKeeps DEF ThreadOver, ApprovalPcs
  <2>7. Record' = [Record EXCEPT ![r] = RecordOf(s)] /\ UNCHANGED Taken
    BY <1>1, <2>1, RecordUpdate DEF Taken, r
  <2>8. RecordOf(s) \in Contract!Decisions
    BY <2>2 DEF RecordOf, Decided, Approving, Contract!Decisions
  <2>9. appr[e][v] \in {"Pending"} \cup Decided
    BY <1>1, <1>3, <1>6 DEF CurrentOpen, ApplyTimeout
  <2>10. Record[r] \in {"open"} \cup Contract!Decisions
    BY <1>4, <2>9 DEF RecordOf, Decided, Approving, Contract!Decisions
  <2>11. Contract!Decide(r, RecordOf(s))
    BY <1>4, <2>7, <2>10 DEF Contract!Decide
  <2>12. QED
    BY <1>1, <2>6, <2>8, <2>11 DEF Contract!Next
<1>7. CASE WithdrawApproval(e) \/ WithdrawFails(e)
  <2>1. /\ Alone(e) /\ UNCHANGED <<visits, routed>> /\ pc'[e] \in {"top", "fail"}
        /\ cancelled[e] /\ pc[e] = "apprHandle"
        /\ appr' = [appr EXCEPT ![e][v] = "Cancelled"]
    <3>1. CASE WithdrawApproval(e)
      BY <3>1 DEF WithdrawApproval, WithdrawRow, GoTo, Alone, TypeInv, TypeOK
    <3>2. CASE WithdrawFails(e)
      BY <3>2 DEF WithdrawFails, ApprovalFails, WithdrawRow, Alone, TypeInv, TypeOK
    <3>3. QED
      BY <1>7, <3>1, <3>2
  <2>2. \A u \in ApprovalVisits \ {v} : appr'[e][u] = appr[e][u]
    BY <1>1, <2>1 DEF TypeInv, TypeOK
  <2>3. TakenMatches(e)' /\ CurrentOpen(e)' /\ AnswerMatches(e)'
    BY <1>1, <1>3, <2>1, <2>2 DEF TakenMatches, CurrentOpen, AnswerMatches, ApprovalPcs
  <2>4. LaterVisitsFresh(e)'
    BY <1>1, <1>2, <2>1, <2>2 DEF LaterVisitsFresh, ThreadOver, ContractInv, ExecInv, ApprovalPcs
  <2>5. ContractInv'
    BY <2>1, <2>3, <2>4, OthersKeepInv DEF ExecInv
  <2>6. Record' = [Record EXCEPT ![r] = "withdrawn"] /\ UNCHANGED Taken
    <3>1. appr' = [appr EXCEPT ![e][v] = "Cancelled"] /\ UNCHANGED routed
      BY <2>1
    <3>2. Record' = [Record EXCEPT ![<<e, v>>] = RecordOf("Cancelled")]
      BY <1>1, <3>1, RecordUpdate
    <3>3. QED
      BY <3>1, <3>2, RecordOfRow DEF Taken, r
  <2>7. appr[e][v] \in {"Pending"} \cup Decided
    BY <1>1, <1>3, <2>1 DEF CurrentOpen
  <2>8. Record[r] \in {"open"} \cup Contract!Decisions
    BY <1>4, <2>7 DEF RecordOf, Decided, Approving, Contract!Decisions
  <2>9. Contract!Withdraw(r)
    BY <1>4, <2>6, <2>8 DEF Contract!Withdraw
  <2>10. QED
    BY <1>1, <2>5, <2>9 DEF Contract!Next
<1>8. CASE TakeDecision(e) \/ TakeFails(e)
  <2> DEFINE d == IF resp[e] \in Approving THEN "approved" ELSE "rejected"
  <2>1. /\ Alone(e) /\ UNCHANGED <<node, visits, appr>>
        /\ pc'[e] \in {"apprResume", "fail"} /\ pc[e] = "apprHandle" /\ ~cancelled[e]
        /\ routed' = [routed EXCEPT ![e][v] = d]
    <3>1. CASE TakeDecision(e)
      BY <3>1 DEF TakeDecision, Follow, Alone, TypeInv, TypeOK
    <3>2. CASE TakeFails(e)
      BY <3>2 DEF TakeFails, ApprovalFails, Follow, Alone, TypeInv, TypeOK
    <3>3. QED
      BY <1>8, <3>1, <3>2
  <2>2. /\ appr[e][v] \in Decided
        /\ d = IF appr[e][v] \in Approving THEN "approved" ELSE "rejected"
    BY <1>3, <2>1 DEF AnswerMatches
  <2>3. d = RecordOf(appr[e][v]) /\ RecordOf(appr[e][v]) \in Contract!Decisions
    BY <2>2 DEF RecordOf, Decided, Approving, Contract!Decisions
  <2> HIDE DEF d
  <2>4. routed'[e][v] = d /\ \A u \in ApprovalVisits \ {v} : routed'[e][u] = routed[e][u]
    BY <1>1, <2>1 DEF TypeInv, TypeOK
  <2>5. TakenMatches(e)' /\ CurrentOpen(e)' /\ AnswerMatches(e)'
    BY <1>1, <1>3, <2>1, <2>2, <2>4 DEF TakenMatches, CurrentOpen, AnswerMatches, ApprovalPcs
  <2>6. ContractInv'
    BY <1>1, <1>2, <2>1, <2>4, <2>5, NodeKeeps DEF ThreadOver, ApprovalPcs
  <2>7. Taken' = [Taken EXCEPT ![r] = d] /\ UNCHANGED Record
    BY <1>1, <2>1, TakenUpdate DEF Record, r
  <2>8. Contract!Take(r)
    BY <1>4, <2>3, <2>7 DEF Contract!Take
  <2>9. QED
    BY <1>1, <2>6, <2>8 DEF Contract!Next
<1>9. QED
  BY <1>5, <1>6, <1>7, <1>8 DEF RowStep

\* A decision through the conditional UPDATE is a step of the contract: the
\* row was Pending, so no run has acted on it and no thread has read it.
LEMMA BulkStep ==
  ASSUME TypeInv, ContractInv, NEW e \in Execs, NEW v \in ApprovalVisits,
         NEW verdict \in Verdicts, BulkDecide(e, v, verdict)
  PROVE  ContractInv' /\ Contract!Next
<1>1. /\ appr[e][v] = "Pending" /\ appr' = [appr EXCEPT ![e][v] = verdict]
      /\ UNCHANGED <<walkVars, cancelled>>
  BY DEF BulkDecide, Vote, flagVars
<1>2. verdict \in Decided
  BY DEF Verdicts, Decided, Approving
<1>3. appr'[e][v] = verdict /\ \A u \in ApprovalVisits \ {v} : appr'[e][u] = appr[e][u]
  BY <1>1 DEF TypeInv, TypeOK
<1>4. routed[e][v] = "none"
  BY <1>1 DEF ContractInv, ExecInv, TakenMatches, Decided, Approving
<1>5. Alone(e) /\ UNCHANGED <<pc, node, visits, resp, routed, cancelled>>
  BY <1>1 DEF Alone, walkVars, TypeInv, TypeOK
<1>6. Current(e)' = Current(e)
  BY <1>5 DEF Current
<1>7. TakenMatches(e)'
  BY <1>3, <1>4, <1>5 DEF ContractInv, ExecInv, TakenMatches
<1>8. LaterVisitsFresh(e)'
  BY <1>1, <1>3, <1>5 DEF ContractInv, ExecInv, LaterVisitsFresh, ThreadOver
<1>9. pc[e] \in ApprovalPcs => Current(e) \in ApprovalVisits
  BY CurrentType DEF ApprovalPcs
<1>10. CurrentOpen(e)'
  BY <1>1, <1>2, <1>3, <1>5, <1>6, <1>9 DEF ContractInv, ExecInv, CurrentOpen
<1>11. AnswerMatches(e)'
  BY <1>1, <1>3, <1>5, <1>6, <1>9
  DEF ContractInv, ExecInv, AnswerMatches, Decided, Approving, ApprovalPcs
<1>12. ContractInv'
  BY <1>5, <1>7, <1>8, <1>10, <1>11, OthersKeepInv DEF ExecInv
<1> DEFINE r == <<e, v>>
<1>13. r \in Requests /\ Record[r] = "open" /\ Taken[r] = "none"
  BY <1>1, <1>4, RecordOfRow DEF Requests, Record, Taken
<1>14. Record' = [Record EXCEPT ![r] = RecordOf(verdict)] /\ UNCHANGED Taken
  BY <1>1, <1>5, RecordUpdate DEF Taken
<1>15. RecordOf(verdict) \in Contract!Decisions
  BY <1>2 DEF RecordOf, Decided, Approving, Contract!Decisions
<1> HIDE DEF r
<1>16. Contract!Decide(r, RecordOf(verdict))
  BY <1>13, <1>14 DEF Contract!Decide
<1>17. QED
  BY <1>12, <1>13, <1>15, <1>16 DEF Contract!Next

LEMMA ContractInit == Init => ContractInv /\ Contract!Init
<1> SUFFICES ASSUME Init PROVE ContractInv /\ Contract!Init
  OBVIOUS
<1>1. ContractInv
  BY DEF Init, ContractInv, ExecInv, TakenMatches, LaterVisitsFresh, CurrentOpen,
         AnswerMatches, ApprovalPcs
<1>2. Contract!Init
  BY RecordOfRow DEF Init, Contract!Init, Record, Taken, Requests
<1>3. QED
  BY <1>1, <1>2

\* Steps that concern neither the rows nor the threads.
LEMMA UnseenKeeps ==
  ASSUME ContractInv, UNCHANGED <<appr, routed, pc, node, visits, resp, cancelled>>
  PROVE  ContractInv' /\ [Contract!Next]_(Contract!contractVars)
<1>1. ContractInv'
  BY DEF ContractInv, ExecInv, TakenMatches, LaterVisitsFresh, ThreadOver, CurrentOpen,
         AnswerMatches, Current
<1>2. QED
  BY <1>1, RowsUnchanged DEF Contract!contractVars

\* Without the unconditional UPDATE of the single-decision endpoint, every
\* step of the engine keeps the invariant and is a contract step or a stutter.
LEMMA ContractStep ==
  ASSUME Deciders = {}, TypeInv, ContractInv, [Next]_vars
  PROVE  ContractInv' /\ [Contract!Next]_(Contract!contractVars)
<1>1. CASE UNCHANGED <<appr, routed, pc, node, visits, resp, cancelled>>
  BY <1>1, UnseenKeeps
<1>2. ASSUME NEW e \in Execs, Thread(e) \/ Faulty(e) \/ Request(e)
      PROVE  ContractInv' /\ [Contract!Next]_(Contract!contractVars)
  BY <1>2, QuietSteps, RowSteps, RowsUnchanged DEF Contract!contractVars
<1>3. CASE \E w \in Execs \X {"Paused", "Cancelled"} : FinishRequest(w)
  BY <1>1, <1>3 DEF FinishRequest, flagVars, walkVars
<1>4. CASE People
  <2>1. ASSUME NEW e \in Execs, NEW v \in ApprovalVisits, DueDatePasses(e, v)
        PROVE  UNCHANGED <<appr, routed, pc, node, visits, resp, cancelled>>
    BY <2>1 DEF DueDatePasses, flagVars, walkVars
  <2>2. QED
    BY <1>1, <1>4, <2>1, BulkStep DEF People
<1>5. CASE UNCHANGED vars
  BY <1>1, <1>5 DEF vars, dbVars, flagVars, walkVars
<1>6. QED
  BY <1>2, <1>3, <1>4, <1>5 DEF Next

\* The approval node implements its contract, for every graph, every number
\* of executions and approvers in the bulk view, and whatever database
\* calls fail.
THEOREM KeepsContractAlways ==
  ASSUME Deciders = {}
  PROVE  Spec => KeepsContract
<1>1. TypeInv /\ ContractInv /\ [Next]_vars
        => ContractInv' /\ [Contract!Next]_(Contract!contractVars)
  BY ContractStep
<1>2. QED
  BY <1>1, ContractInit, TypeInvariant, PTL DEF Spec, KeepsContract, Contract!Spec

\* With the same assumption the record and the edge the run followed agree,
\* in every state.
THEOREM RoutesMatchRecords ==
  ASSUME Deciders = {}
  PROVE  Spec => []RoutedAsRecorded
<1>1. TypeInv /\ ContractInv /\ [Next]_vars => ContractInv'
  BY ContractStep
<1>2. ContractInv => RoutedAsRecorded
  BY DEF ContractInv, ExecInv, TakenMatches, RoutedAsRecorded
<1>3. QED
  BY <1>1, <1>2, ContractInit, TypeInvariant, PTL DEF Spec

-----------------------------------------------------------------------------
(***************************************************************************)
(* Over restarts. RSpec adds the crash and the recovery passes to the      *)
(* engine's steps. While the service is not up it has no threads and no    *)
(* request under way, so that the passes meet only the people who decide.  *)
(* Each pass reads in one step and writes in another. What the first one   *)
(* has selected is overdue and belongs to executions that lost their       *)
(* thread; the steps the second one is about to settle still show Paused,  *)
(* and the executions that it and the third one are about to settle still  *)
(* show no outcome.                                                        *)
(***************************************************************************)
Overtaken(r) == r \in Requests /\ ThreadOver(r[1]) /\ r[2] \in past[r[1]]

Unsettled(r) == r \in Requests /\ Live(r[1]) /\ step[r[1]][r[2]] = "Paused"

Begun ==
  \A e \in Execs : pc[e] = "none" =>
    db[e] = "none" /\ \A s : <<e, s>> \notin writes

ServiceInv ==
  /\ svc # "up" => writes = {} /\ \A e \in Execs : ~Active(e)
  /\ svc = "timeouts" => \A r \in service.todo : Overtaken(r)
  /\ svc = "settling" => \A r \in service.todo : Unsettled(r)
  /\ svc = "closing" => \A e \in service.stale : Live(e)
  /\ Begun

RecoveryStep == Recovery \/ PassFails

LEMMA EngineKeepsService ==
  ASSUME TypeInv, Next
  PROVE  UNCHANGED service
<1>1. ASSUME NEW e \in Execs, Thread(e) \/ Faulty(e) \/ Request(e)
      PROVE  UNCHANGED service
  BY <1>1, ThreadStays
<1>2. ASSUME NEW w \in Execs \X {"Paused", "Cancelled"}, FinishRequest(w)
      PROVE  UNCHANGED service
  BY <1>2 DEF FinishRequest
<1>3. CASE People
  BY <1>3 DEF People, BulkDecide, CheckPending, SingleDecide, DueDatePasses, apiVars
<1>4. QED
  BY <1>1, <1>2, <1>3 DEF Next

\* While the service is not up, only people act.
LEMMA StillWhileDown ==
  ASSUME TypeInv, ServiceInv, svc # "up", Next
  PROVE  People
<1>1. ASSUME NEW e \in Execs, Thread(e) \/ Faulty(e) \/ Request(e)
      PROVE  FALSE
  BY <1>1, ThreadStays DEF ServiceInv, svc
<1>2. ASSUME NEW w \in Execs \X {"Paused", "Cancelled"}, FinishRequest(w)
      PROVE  FALSE
  BY <1>2 DEF ServiceInv, FinishRequest
<1>3. QED
  BY <1>1, <1>2 DEF Next

LEMMA PeopleLeave ==
  ASSUME TypeInv, People
  PROVE  /\ UNCHANGED <<db, step, flagVars, walkVars, apiVars, faults>>
         /\ \A e \in Execs : past[e] \subseteq past'[e]
<1> USE DEF dbVars, apiVars, TypeInv, TypeOK
<1>1. ASSUME NEW e \in Execs, NEW v \in ApprovalVisits, DueDatePasses(e, v)
      PROVE  /\ UNCHANGED <<db, step, flagVars, walkVars, apiVars, faults>>
             /\ \A f \in Execs : past[f] \subseteq past'[f]
  BY <1>1 DEF DueDatePasses
<1>2. CASE UNCHANGED past
  BY <1>2 DEF People, BulkDecide, CheckPending, SingleDecide, DueDatePasses
<1>3. QED
  BY <1>1, <1>2 DEF People, BulkDecide, CheckPending, SingleDecide

\* What the first pass keeps of what it selected: all but the row it wrote.
LEMMA TimeoutService ==
  ASSUME TypeInv, NEW r \in Requests, NEW resolved \in BOOLEAN, RecoverTimeout(r, resolved)
  PROVE  /\ service' \in Services
         /\ svc = "timeouts" /\ svc' = "timeouts"
         /\ service'.todo \subseteq service.todo
         /\ service.defaulted \subseteq service'.defaulted
         /\ UNCHANGED appr \/ resolved \/ r \in service'.defaulted
<1> DEFINE less == service.todo \ {r}
           more == service.defaulted \cup {r}
<1>1. /\ service \in Services /\ less \in RequestSets /\ more \in RequestSets
      /\ service.pass = "timeouts" /\ less \subseteq service.todo
      /\ service.defaulted \subseteq more /\ r \in more
  BY DEF RecoverTimeout, svc, TypeInv, TypeOK, Services, RequestSets, Requests
<1>2. \/ service' = [service EXCEPT !.todo = less]
      \/ service' = [service EXCEPT !.todo = less, !.defaulted = service.defaulted]
      \/ service' = [service EXCEPT !.todo = less, !.defaulted = more]
  BY DEF RecoverTimeout
<1>3. UNCHANGED appr \/ resolved
        \/ service' = [service EXCEPT !.todo = less, !.defaulted = more]
  BY DEF RecoverTimeout
<1> HIDE DEF less, more
<1>4. CASE service' = [service EXCEPT !.todo = less, !.defaulted = more]
  BY <1>1, <1>4 DEF Services, svc
<1>5. CASE \/ service' = [service EXCEPT !.todo = less]
           \/ service' = [service EXCEPT !.todo = less, !.defaulted = service.defaulted]
  BY <1>1, <1>3, <1>5 DEF Services, svc
<1>6. QED
  BY <1>2, <1>4, <1>5

\* What the passes leave alone: everything but the rows, and of the rows of
\* executions those that show an outcome.
LEMMA RecoveryLeaves ==
  ASSUME TypeInv, ServiceInv, RecoveryStep
  PROVE  /\ UNCHANGED <<past, flagVars, walkVars, writes, calls, peopleVars>>
         /\ svc # "up"
         /\ \A e \in Execs : db'[e] # db[e] => Live(e)
         /\ \/ UNCHANGED appr /\ service'.defaulted = service.defaulted
            \/ \E r \in Requests, resolved \in BOOLEAN : RecoverTimeout(r, resolved)
<1> USE DEF dbVars, TypeInv, TypeOK, Services
<1>1. CASE SelectTimeouts
  BY <1>1 DEF SelectTimeouts
<1>2. CASE EndTimeouts
  BY <1>2 DEF EndTimeouts
<1>3. CASE SelectResponses
  BY <1>3 DEF SelectResponses
<1>4. CASE CommitResponses
  <2>1. PICK last \in [{r[1] : r \in service.todo} -> service.todo] :
          /\ \A e \in DOMAIN last : last[e][1] = e
          /\ db' = [e \in Execs |-> IF e \in DOMAIN last THEN OutcomeOf(last[e]) ELSE db[e]]
    BY <1>4 DEF CommitResponses
  <2>2. ASSUME NEW e \in Execs, db'[e] # db[e]
        PROVE  Live(e)
    <3>1. e \in DOMAIN last
      BY <2>1, <2>2
    <3>2. last[e] \in service.todo /\ last[e][1] = e
      BY <2>1, <3>1
    <3>3. QED
      BY <1>4, <3>2 DEF CommitResponses, ServiceInv, Unsettled
  <2>3. QED
    BY <1>4, <2>2 DEF CommitResponses
<1>5. CASE SelectStale
  BY <1>5 DEF SelectStale
<1>6. CASE CommitStale
  BY <1>6 DEF CommitStale, ServiceInv
<1>7. ASSUME NEW r \in Requests, NEW resolved \in BOOLEAN, RecoverTimeout(r, resolved)
      PROVE  /\ UNCHANGED <<db, past, flagVars, walkVars, writes, calls, peopleVars>>
             /\ svc # "up"
  BY <1>7 DEF RecoverTimeout
<1>8. CASE PassFails
  BY <1>8 DEF PassFails
<1>9. QED
  BY <1>1, <1>2, <1>3, <1>4, <1>5, <1>6, <1>7, <1>8 DEF RecoveryStep, Recovery

LEMMA ServiceInit == ASSUME Init PROVE ServiceInv
BY DEF Init, ServiceInv, svc, Begun

\* Only a start, or a request about a run that was started, gives an
\* execution a row.
LEMMA BegunNext ==
  ASSUME TypeInv, ServiceInv, Next
  PROVE  Begun'
<1>1. ASSUME NEW e \in Execs, Thread(e) \/ Faulty(e) \/ Request(e)
      PROVE  Begun'
  <2>1. pc'[e] # "none"
    BY <1>1, ThreadStays
  <2>2. \A f \in Execs \ {e} : Untouched(f)
    BY <1>1, OthersUntouched
  <2>3. QED
    BY <2>1, <2>2 DEF ServiceInv, Begun, Untouched
<1>2. ASSUME NEW w \in Execs \X {"Paused", "Cancelled"}, FinishRequest(w)
      PROVE  Begun'
  <2>1. w \in writes /\ w = <<w[1], w[2]>> /\ w[1] \in Execs
    BY <1>2 DEF FinishRequest
  <2>2. pc[w[1]] # "none"
    BY <2>1 DEF ServiceInv, Begun
  <2>3. /\ UNCHANGED pc /\ writes' \subseteq writes
        /\ \A f \in Execs \ {w[1]} : db'[f] = db[f]
    BY <1>2, <2>1 DEF FinishRequest, SetDb, walkVars, TypeInv, TypeOK
  <2>4. QED
    BY <2>2, <2>3 DEF ServiceInv, Begun
<1>3. CASE People
  BY <1>3, PeopleLeave DEF ServiceInv, Begun, walkVars, apiVars
<1>4. QED
  BY <1>1, <1>2, <1>3 DEF Next

LEMMA ServiceNext ==
  ASSUME TypeInv, ServiceInv, [RNext]_vars
  PROVE  ServiceInv'
<1> USE DEF svc
<1>1. CASE Next
  <2>1. CASE svc = "up"
    BY <1>1, <2>1, EngineKeepsService, BegunNext DEF ServiceInv
  <2>2. CASE svc # "up"
    <3>1. /\ UNCHANGED <<db, step, pc, writes, service>>
          /\ \A e \in Execs : past[e] \subseteq past'[e]
      BY <1>1, <2>2, StillWhileDown, PeopleLeave DEF apiVars, walkVars
    <3>2. \A r : /\ Overtaken(r) => Overtaken(r)'
                 /\ Unsettled(r) => Unsettled(r)'
      BY <3>1 DEF Overtaken, Unsettled, Requests, ThreadOver, Live
    <3>3. \A e \in Execs : ~Active(e) => ~Active(e)'
      BY <3>1 DEF Active
    <3>4. \A e : Live(e) => Live(e)'
      BY <3>1 DEF Live
    <3>5. QED
      BY <1>1, <2>2, <3>1, <3>2, <3>3, <3>4, BegunNext DEF ServiceInv
  <2>3. QED
    BY <2>1, <2>2
<1>2. CASE Crash
  <2>1. /\ service'.pass = "down" /\ writes' = {} /\ UNCHANGED db
        /\ pc' = [e \in Execs |-> IF Active(e) THEN "lost" ELSE pc[e]]
    BY <1>2 DEF Crash, dbVars, TypeInv, TypeOK, Services
  <2>2. \A e \in Execs : ~Active(e)'
    BY <2>1 DEF Active, HolderPcs, ApprovalPcs
  <2>3. Begun'
    BY <2>1 DEF ServiceInv, Begun
  <2>4. QED
    BY <2>1, <2>2, <2>3 DEF ServiceInv
<1>3. CASE RecoveryStep
  <2>1. /\ writes' = {} /\ \A e \in Execs : ~Active(e)'
        /\ UNCHANGED <<past, pc>>
        /\ \A e \in Execs : db'[e] # db[e] => Live(e)
    BY <1>3, RecoveryLeaves DEF ServiceInv, Active, walkVars
  <2>2. Begun'
    BY <2>1 DEF ServiceInv, Begun, Live
  <2>3. svc' = "timeouts" => \A r \in service'.todo : Overtaken(r)'
    <3>1. CASE SelectTimeouts
      <4>1. service'.todo = OverduePending
        BY <3>1 DEF SelectTimeouts, TypeInv, TypeOK, Services
      <4>2. ASSUME NEW r \in OverduePending
            PROVE  Overtaken(r)
        <5>1. r[1] \in Execs /\ Live(r[1]) /\ ~Active(r[1])
          BY <1>3, RecoveryLeaves DEF OverduePending, Requests, ServiceInv
        <5>2. pc[r[1]] \in {"gone", "lost"}
          BY <5>1 DEF ServiceInv, Begun, Live, Active, PcStates, TypeInv, TypeOK
        <5>3. QED
          BY <5>2 DEF OverduePending, Overtaken, ThreadOver
      <4>3. QED
        BY <2>1, <4>1, <4>2 DEF Overtaken, ThreadOver
    <3>2. ASSUME NEW r \in Requests, NEW resolved \in BOOLEAN, RecoverTimeout(r, resolved)
          PROVE  svc = "timeouts" /\ service'.todo \subseteq service.todo
      BY <3>2, TimeoutService
    <3>3. CASE \/ EndTimeouts \/ SelectResponses \/ CommitResponses
               \/ SelectStale \/ CommitStale \/ PassFails
      BY <3>3 DEF EndTimeouts, SelectResponses, CommitResponses, SelectStale, CommitStale,
                  PassFails, TypeInv, TypeOK, Services
    <3>4. QED
      BY <1>3, <2>1, <3>1, <3>2, <3>3
      DEF RecoveryStep, Recovery, ServiceInv, Overtaken, ThreadOver
  <2>4. /\ svc' = "settling" => \A r \in service'.todo : Unsettled(r)'
        /\ svc' = "closing" => \A e \in service'.stale : Live(e)'
    <3>1. CASE SelectResponses
      BY <3>1 DEF SelectResponses, Answered, Unsettled, Live, Requests, dbVars,
                  TypeInv, TypeOK, Services
    <3>2. CASE SelectStale
      BY <3>2 DEF SelectStale, Live, dbVars, TypeInv, TypeOK, Services
    <3>3. ASSUME NEW r \in Requests, NEW resolved \in BOOLEAN, RecoverTimeout(r, resolved)
          PROVE  svc' = "timeouts"
      BY <3>3 DEF RecoverTimeout, TypeInv, TypeOK, Services
    <3>4. CASE SelectTimeouts \/ EndTimeouts \/ CommitResponses \/ CommitStale \/ PassFails
      BY <3>4 DEF SelectTimeouts, EndTimeouts, CommitResponses, CommitStale,
                  PassFails, TypeInv, TypeOK, Services
    <3>5. QED
      BY <1>3, <3>1, <3>2, <3>3, <3>4 DEF RecoveryStep, Recovery
  <2>5. QED
    BY <2>1, <2>2, <2>3, <2>4 DEF ServiceInv
<1>4. CASE UNCHANGED vars
  BY <1>4 DEF ServiceInv, Active, Begun, Overtaken, Unsettled, ThreadOver, Live, Requests,
              vars, dbVars, walkVars, apiVars
<1>5. QED
  BY <1>1, <1>2, <1>3, <1>4 DEF RNext, RecoveryStep

LEMMA TypeRecovery ==
  ASSUME TypeInv, ServiceInv, [RNext]_vars
  PROVE  TypeInv'
<1> USE DEF dbVars, flagVars, walkVars, apiVars, peopleVars, svc
<1>1. CASE Crash
  <2>1. /\ pc' \in [Execs -> {"lost", "none", "gone"}]
        /\ visits' \in [Execs -> [Nodes -> 0..MaxNodeVisits]]
    BY <1>1, BoundAssumption
    DEF Crash, Active, HolderPcs, PcStates, TypeInv, TypeOK
  <2>2. service' \in Services
    <3>1. service \in Services
      BY DEF TypeInv, TypeOK
    <3>2. service' = [service EXCEPT !.pass = "down", !.todo = {}, !.approved = {},
                               !.stale = {}, !.unanswered = {}, !.crashes = service.crashes + 1]
      BY <1>1 DEF Crash
    <3>3. service.crashes + 1 \in Nat /\ "down" \in Passes /\ {} \in RequestSets
      BY <3>1 DEF Services, RequestSets, Passes
    <3>4. QED
      BY <3>1, <3>2, <3>3 DEF Services
  <2>3. visits' \in [Execs -> [Nodes -> 0..(MaxNodeVisits + 1)]]
    BY <2>1, BoundAssumption
  <2>4. queue' \in [Execs -> Seq(Commands)]
    BY <1>1 DEF Crash
  <2>5. pc' \in [Execs -> PcStates]
    BY <2>1 DEF PcStates
  <2>6. TypeOK'
    BY <1>1, <2>2, <2>3, <2>4, <2>5, BoundAssumption
    DEF Crash, TypeInv, TypeOK, ApprovalStatus
  <2>7. WalkOK'
    BY <2>1 DEF WalkOK, ApprovalPcs
  <2>8. QED
    BY <2>6, <2>7 DEF TypeInv
<1>2. CASE RecoveryStep
  <2>1. WalkOK'
    BY <1>2, RecoveryLeaves DEF TypeInv, WalkOK
  <2>2. faults' \in 0..MaxFaults
    BY <1>2, LoseWriteType
    DEF TypeInv, RecoveryStep, Recovery, SelectTimeouts, EndTimeouts, SelectResponses,
        CommitResponses, SelectStale, CommitStale, RecoverTimeout, PassFails
  <2>3. service' \in Services
    <3> USE DEF TypeInv, TypeOK, Services, RequestSets, Passes
    <3>1. CASE SelectTimeouts
      BY <3>1 DEF SelectTimeouts, OverduePending, Requests
    <3>2. CASE EndTimeouts
      BY <3>2 DEF EndTimeouts
    <3>3. CASE SelectResponses
      BY <3>3 DEF SelectResponses, Requests
    <3>4. CASE CommitResponses
      BY <3>4 DEF CommitResponses
    <3>5. CASE SelectStale
      BY <3>5 DEF SelectStale
    <3>6. CASE CommitStale
      BY <3>6 DEF CommitStale
    <3>7. ASSUME NEW r \in Requests, NEW resolved \in BOOLEAN, RecoverTimeout(r, resolved)
          PROVE  service' \in Services
      BY <3>7, TimeoutService DEF TypeInv, TypeOK
    <3>8. CASE PassFails
      BY <3>8 DEF PassFails
    <3>9. QED
      BY <1>2, <3>1, <3>2, <3>3, <3>4, <3>5, <3>6, <3>7, <3>8 DEF RecoveryStep, Recovery
  <2>4. appr' \in [Execs -> [ApprovalVisits -> ApprovalStatus]]
    <3>1. CASE UNCHANGED appr
      BY <3>1 DEF TypeInv, TypeOK
    <3>2. ASSUME NEW r \in Requests, NEW resolved \in BOOLEAN, RecoverTimeout(r, resolved)
          PROVE  appr' \in [Execs -> [ApprovalVisits -> ApprovalStatus]]
      <4>1. RecoveredStatus(r, resolved) \in ApprovalStatus
        BY DEF RecoveredStatus, TimeoutStatus, ApprovalStatus, Decided, Approving
      <4>2. r[1] \in Execs /\ r[2] \in ApprovalVisits
        BY DEF Requests
      <4>3. \/ UNCHANGED appr
            \/ appr' = [appr EXCEPT ![r[1]][r[2]] = RecoveredStatus(r, resolved)]
        BY <3>2 DEF RecoverTimeout
      <4>4. appr \in [Execs -> [ApprovalVisits -> ApprovalStatus]]
        BY DEF TypeInv, TypeOK
      <4>5. [appr EXCEPT ![r[1]][r[2]] = RecoveredStatus(r, resolved)]
              \in [Execs -> [ApprovalVisits -> ApprovalStatus]]
        BY <4>1, <4>2, <4>4, SetRowType
      <4>6. QED
        BY <4>3, <4>4, <4>5
    <3>3. QED
      BY <1>2, <3>1, <3>2, RecoveryLeaves
  <2>5. step' \in [Execs -> [Visits -> StepStatus]] /\ db' \in [Execs -> DbStatus]
    <3> USE DEF TypeInv, TypeOK
    <3>1. CASE UNCHANGED <<step, db>>
      BY <3>1
    <3>2. CASE CommitResponses
      <4>1. \A r : OutcomeOf(r) \in StepStatus /\ OutcomeOf(r) \in DbStatus
        BY DEF OutcomeOf, StepStatus, DbStatus, Terminal
      <4>2. QED
        BY <3>2, <4>1 DEF CommitResponses
    <3>3. CASE CommitStale
      BY <3>3 DEF CommitStale, StepStatus, DbStatus, Terminal
    <3>4. QED
      BY <1>2, <3>1, <3>2, <3>3
      DEF RecoveryStep, Recovery, SelectTimeouts, EndTimeouts, SelectResponses, SelectStale,
          RecoverTimeout, PassFails
  <2>6. TypeOK'
    BY <1>2, <2>2, <2>3, <2>4, <2>5, RecoveryLeaves DEF TypeInv, TypeOK
  <2>7. QED
    BY <2>1, <2>6 DEF TypeInv
<1>3. CASE [Next]_vars
  BY <1>3, TypeNext
<1>4. QED
  BY <1>1, <1>2, <1>3 DEF RNext, RecoveryStep

\* Both services together: every variable keeps its type over any number of
\* crashes and interrupted recoveries.
LEMMA RestartInvariant == RSpec => [](TypeInv /\ ServiceInv)
<1>1. TypeInv /\ ServiceInv /\ [RNext]_vars => (TypeInv /\ ServiceInv)'
  BY TypeRecovery, ServiceNext
<1>2. Init => TypeInv /\ ServiceInv
  BY TypeInit, ServiceInit
<1>3. QED
  BY <1>1, <1>2, PTL DEF RSpec

THEOREM RecoveryTypeCorrect == RSpec => []TypeOK
BY RestartInvariant, PTL DEF TypeInv

\* The crash gives back all slots at once, and its threads are gone with them:
\* after it the gate lets in as many as before.
THEOREM SlotsSurviveRestarts == RSpec => []SlotsConserved
<1>1. ASSUME TypeInv, ServiceInv, SlotsConserved, [RNext]_vars
      PROVE  SlotsConserved'
  <2>1. CASE Crash
    <3>1. Holders' = {}
      <4>1. \A e \in Execs : pc'[e] \notin HolderPcs
        BY <2>1 DEF Crash, Active, HolderPcs, ApprovalPcs
      <4>2. QED
        BY <4>1 DEF Holders, HoldsSlot
    <3>2. Cardinality(Holders') = 0
      BY <3>1, FS_EmptySet
    <3>3. slots' = MaxConcurrent
      BY <2>1 DEF Crash
    <3>4. QED
      BY <3>2, <3>3, BoundAssumption DEF SlotsConserved, Holders
  <2>2. CASE RecoveryStep
    <3>1. UNCHANGED <<slots, pc>>
      BY <1>1, <2>2, RecoveryLeaves DEF walkVars
    <3>2. Holders' = Holders
      BY <3>1 DEF Holders, HoldsSlot
    <3>3. QED
      BY <1>1, <3>1, <3>2 DEF SlotsConserved, Holders
  <2>3. QED
    BY <1>1, <2>1, <2>2, GateNext DEF RNext, RecoveryStep
<1>2. Init => SlotsConserved
  BY GateInit
<1>3. QED
  BY <1>1, <1>2, RestartInvariant, PTL DEF RSpec

\* An outcome recorded before a crash survives the crash, all passes of the
\* recovery and whatever people do meanwhile.
THEOREM OutcomesSurviveRestarts == RSpec => OutcomeSurvivesRestart
<1>1. ASSUME TypeInv, ServiceInv, [RNext]_vars, svc # "up",
             NEW e \in Execs, db[e] \in Terminal
      PROVE  db'[e] = db[e]
  <2>1. CASE Next
    BY <1>1, <2>1, StillWhileDown, PeopleLeave
  <2>2. CASE Crash
    BY <2>2 DEF Crash, dbVars
  <2>3. CASE RecoveryStep
    BY <1>1, <2>3, RecoveryLeaves DEF Live, Terminal
  <2>4. CASE UNCHANGED vars
    BY <2>4 DEF vars, dbVars
  <2>5. QED
    BY <1>1, <2>1, <2>2, <2>3, <2>4 DEF RNext, RecoveryStep
<1>2. TypeInv /\ ServiceInv /\ [RNext]_vars =>
        [svc # "up" => \A e \in Execs : db[e] \in Terminal => db'[e] = db[e]]_vars
  BY <1>1
<1>3. QED
  BY <1>2, RestartInvariant, PTL DEF RSpec, OutcomeSurvivesRestart

\* The verdicts stay justified: what the first pass writes is overdue, and a
\* crash forgets what the threads had read.
LEMMA ApprovalRestart ==
  ASSUME TypeInv, ServiceInv, ApprovalInv, [RNext]_vars
  PROVE  ApprovalInv'
<1>1. CASE Crash
  <2>1. /\ UNCHANGED <<appr, past, votes, routed>>
        /\ service'.defaulted = service.defaulted
    BY <1>1 DEF Crash, dbVars, peopleVars, TypeInv, TypeOK, Services
  <2>2. \A e \in Execs : pc'[e] \notin AnsweredPcs /\ (ThreadOver(e) => ThreadOver(e)')
    BY <1>1 DEF Crash, Active, HolderPcs, ApprovalPcs, AnsweredPcs, ThreadOver, TypeInv, TypeOK
  <2>3. QED
    BY <2>1, <2>2 DEF ApprovalInv, RowsJustified, RoutesJustified, TimeoutsSeen,
                      ResponsesJustified, Justified, ByDefault, AnsweredPcs
<1>2. CASE RecoveryStep
  <2>1. UNCHANGED <<past, votes, walkVars>>
    BY <1>2, RecoveryLeaves DEF peopleVars
  <2>2. RoutesJustified' /\ TimeoutsSeen' /\ ResponsesJustified'
    BY <2>1 DEF walkVars, ApprovalInv, RoutesJustified, TimeoutsSeen, ResponsesJustified,
                Justified, Current
  <2>3. ASSUME UNCHANGED appr, service.defaulted \subseteq service'.defaulted
        PROVE  RowsJustified'
    BY <2>1, <2>3 DEF walkVars, ApprovalInv, RowsJustified, Justified, ByDefault, ThreadOver
  <2>4. ASSUME NEW r \in Requests, NEW resolved \in BOOLEAN, RecoverTimeout(r, resolved)
        PROVE  RowsJustified'
    <3>1. Overtaken(r)
      BY <2>4 DEF RecoverTimeout, ServiceInv
    <3>2. /\ service.defaulted \subseteq service'.defaulted
          /\ ~UNCHANGED appr /\ ~resolved => r \in service'.defaulted
      BY <2>4, TimeoutService
    <3>3. CASE appr' = [appr EXCEPT ![r[1]][r[2]] = RecoveredStatus(r, resolved)]
      <4>1. r[1] \in Execs /\ r[2] \in ApprovalVisits /\ r = <<r[1], r[2]>>
        BY DEF Requests
      <4>2. \A e \in Execs : \A v \in ApprovalVisits : appr'[e][v] =
              IF e = r[1] /\ v = r[2] THEN RecoveredStatus(r, resolved) ELSE appr[e][v]
        BY <3>3, <4>1 DEF TypeInv, TypeOK
      <4>3. resolved /\ RecoveredStatus(r, resolved) \in Approving => Justified(r[1], r[2])'
        BY <2>1, <3>1 DEF RecoveredStatus, TimeoutStatus, Approving, Justified, Overtaken
      <4>4. \A e \in Execs : \A v \in ApprovalVisits :
              /\ Justified(e, v) => Justified(e, v)'
              /\ ByDefault(e, v) => ByDefault(e, v)'
        BY <2>1, <3>2 DEF Justified, ByDefault, ThreadOver, walkVars
      <4>5. CASE UNCHANGED appr
        BY <2>3, <3>2, <4>5
      <4>6. CASE ~UNCHANGED appr /\ ~resolved
        <5>1. ByDefault(r[1], r[2])'
          BY <2>1, <3>1, <3>2, <4>1, <4>6 DEF ByDefault, Overtaken, ThreadOver, walkVars
        <5>2. QED
          BY <4>2, <4>4, <5>1 DEF ApprovalInv, RowsJustified
      <4>7. CASE resolved
        BY <4>2, <4>3, <4>4, <4>7 DEF ApprovalInv, RowsJustified
      <4>8. QED
        BY <4>5, <4>6, <4>7
    <3>4. QED
      BY <2>3, <2>4, <3>2, <3>3 DEF RecoverTimeout
  <2>5. QED
    BY <1>2, <2>2, <2>3, <2>4, RecoveryLeaves DEF ApprovalInv
<1>3. QED
  BY <1>1, <1>2, ApprovalNext DEF RNext, RecoveryStep

LEMMA ApprovalOverRestarts == RSpec => []ApprovalInv
<1>1. TypeInv /\ ServiceInv /\ ApprovalInv /\ [RNext]_vars => ApprovalInv'
  BY ApprovalRestart
<1>2. Init => ApprovalInv
  BY ApprovalInit
<1>3. QED
  BY <1>1, <1>2, RestartInvariant, PTL DEF RSpec

\* No restart opens a way to the approving edge without an approval.
THEOREM PassNeedsApprovalOverRestarts == RSpec => []NoPassWithoutApproval
<1>1. ApprovalInv => NoPassWithoutApproval
  BY DEF ApprovalInv, RoutesJustified, Justified, NoPassWithoutApproval
<1>2. QED
  BY <1>1, ApprovalOverRestarts, PTL

\* What the second pass takes for approved stays justified until it commits:
\* votes and passed due dates are not taken back, and no thread comes back.
ApprovedJustified ==
  svc = "settling" => \A r \in service.approved :
    r \in Requests /\ (Justified(r[1], r[2]) \/ ByDefault(r[1], r[2]))

LEMMA ApprovedNext ==
  ASSUME TypeInv, ServiceInv, ApprovalInv, ApprovedJustified, [RNext]_vars
  PROVE  ApprovedJustified'
<1>1. CASE SelectResponses
  <2>1. /\ service'.approved \subseteq {r \in Requests : appr[r[1]][r[2]] \in Approving}
        /\ service'.defaulted = service.defaulted
        /\ UNCHANGED <<past, votes, pc>>
    BY <1>1 DEF SelectResponses, dbVars, walkVars, peopleVars, TypeInv, TypeOK, Services
  <2>2. QED
    BY <2>1 DEF ApprovedJustified, ApprovalInv, RowsJustified, Justified, ByDefault,
                ThreadOver, Requests
<1>2. CASE svc' # "settling"
  BY <1>2 DEF ApprovedJustified
<1>3. CASE svc' = "settling" /\ ~SelectResponses
  <2>1. ~Crash /\ ~RecoveryStep
    <3>1. service \in Services
      BY DEF TypeInv, TypeOK
    <3>2. ASSUME NEW r \in Requests, NEW resolved \in BOOLEAN, RecoverTimeout(r, resolved)
          PROVE  svc' = "timeouts"
      BY <3>2, TimeoutService
    <3>3. ~(\E r \in Requests, resolved \in BOOLEAN : RecoverTimeout(r, resolved))
      BY <1>3, <3>2
    <3>4. /\ Crash => svc' = "down"
          /\ SelectTimeouts => svc' = "timeouts"
          /\ EndTimeouts => svc' = "responses"
          /\ CommitResponses => svc' = "stale"
      <4>1. Crash => svc' = "down"
        BY <3>1 DEF Crash, svc, Services
      <4>2. SelectTimeouts => svc' = "timeouts"
        BY <3>1 DEF SelectTimeouts, svc, Services
      <4>3. EndTimeouts => svc' = "responses"
        BY <3>1 DEF EndTimeouts, svc, Services
      <4>4. CommitResponses => svc' = "stale"
        BY <3>1 DEF CommitResponses, svc, Services
      <4>5. QED
        BY <4>1, <4>2, <4>3, <4>4
    <3>5. ~SelectStale /\ ~CommitStale /\ ~PassFails
      BY <1>3, <3>1 DEF SelectStale, CommitStale, PassFails, svc, Services
    <3>6. QED
      BY <1>3, <3>3, <3>4, <3>5 DEF RecoveryStep, Recovery
  <2>2. CASE Next
    <3>1. UNCHANGED service
      BY <2>2, EngineKeepsService
    <3>2. People
      BY <1>3, <2>2, <3>1, StillWhileDown DEF svc
    <3>3. UNCHANGED pc /\ \A e \in Execs : past[e] \subseteq past'[e]
      BY <3>2, PeopleLeave DEF walkVars
    <3>4. \A e \in Execs : \A v \in ApprovalVisits : votes[e][v] \subseteq votes'[e][v]
      <4>1. ASSUME NEW e \in Execs, NEW v \in ApprovalVisits, NEW verdict \in Verdicts,
                   Vote(e, v, verdict)
            PROVE  \A f \in Execs : \A u \in ApprovalVisits : votes[f][u] \subseteq votes'[f][u]
        BY <4>1 DEF Vote, TypeInv, TypeOK
      <4>2. ASSUME NEW d \in Deciders, SingleDecide(d)
            PROVE  \A f \in Execs : \A u \in ApprovalVisits : votes[f][u] \subseteq votes'[f][u]
        <5>1. held[d] \in Hold
          BY <4>2 DEF TypeInv, TypeOK, SingleDecide, NoHold
        <5>2. QED
          BY <4>1, <4>2, <5>1 DEF SingleDecide, Hold
      <4>3. QED
        BY <3>2, <4>1, <4>2 DEF People, BulkDecide, DueDatePasses, CheckPending, peopleVars
    <3>5. \A e \in Execs : \A v \in ApprovalVisits :
            Justified(e, v) \/ ByDefault(e, v) => Justified(e, v)' \/ ByDefault(e, v)'
      BY <3>1, <3>3, <3>4 DEF Justified, ByDefault, ThreadOver
    <3>6. QED
      BY <1>3, <3>1, <3>5 DEF ApprovedJustified, svc, Requests
  <2>3. CASE UNCHANGED vars
    BY <2>3 DEF vars, dbVars, walkVars, apiVars, peopleVars, ApprovedJustified, svc,
                Justified, ByDefault, ThreadOver, Requests
  <2>4. QED
    BY <2>1, <2>2, <2>3 DEF RNext, RecoveryStep
<1>4. QED
  BY <1>1, <1>2, <1>3

\* The recovery completes an execution only over a vote or a passed due date,
\* however people and the pass before it changed the rows meanwhile; and a due
\* date on a node set to fail counts only where the recovery could not ask for
\* the node's timeout action.
THEOREM CompletionNeedsApproval == RSpec => RecoveredNeedsApproval
<1> DEFINE Approved(e) == \E v \in ApprovalVisits :
      /\ step[e][v] = "Paused"
      /\ \/ "Approved" \in votes[e][v]
         \/ /\ v \in past[e]
            /\ OnTimeout[v[1]] = "continue" \/ <<e, v>> \in service.defaulted
<1>1. ASSUME TypeInv, ServiceInv, ApprovedJustified, [RNext]_vars, svc # "up",
             NEW e \in Execs, db[e] # db'[e], db'[e] = "Completed"
      PROVE  Approved(e)
  <2>1. ~Next
    BY <1>1, StillWhileDown, PeopleLeave
  <2>2. ~Crash
    BY <1>1 DEF Crash, dbVars
  <2>3. ~UNCHANGED vars
    BY <1>1 DEF vars, dbVars
  <2>4. ~CommitStale
    BY <1>1 DEF CommitStale
  <2>5. CommitResponses
    BY <1>1, <2>1, <2>2, <2>3, <2>4
    DEF RNext, Recovery, SelectTimeouts, EndTimeouts, SelectResponses, SelectStale,
        RecoverTimeout, PassFails, dbVars
  <2>6. PICK last \in [{r[1] : r \in service.todo} -> service.todo] :
          /\ \A f \in DOMAIN last : last[f][1] = f
          /\ db' = [f \in Execs |-> IF f \in DOMAIN last THEN OutcomeOf(last[f]) ELSE db[f]]
    BY <2>5 DEF CommitResponses
  <2>7. e \in DOMAIN last /\ OutcomeOf(last[e]) = "Completed"
    BY <1>1, <2>6
  <2>8. PICK r \in service.todo : r[1] = e /\ r \in service.approved
    BY <2>6, <2>7 DEF OutcomeOf
  <2>9. Unsettled(r) /\ (Justified(e, r[2]) \/ ByDefault(e, r[2]))
    BY <1>1, <2>5, <2>8 DEF CommitResponses, ServiceInv, ApprovedJustified
  <2>10. r[2] \in ApprovalVisits /\ step[e][r[2]] = "Paused"
    BY <2>8, <2>9 DEF Unsettled, Requests
  <2>11. QED
    BY <2>9, <2>10 DEF Justified, ByDefault
<1>2. TypeInv /\ ServiceInv /\ ApprovedJustified /\ [RNext]_vars =>
        [svc # "up" => \A e \in Execs :
           db[e] # db'[e] /\ db'[e] = "Completed" => Approved(e)]_vars
  BY <1>1
<1>3. TypeInv /\ ServiceInv /\ ApprovalInv /\ ApprovedJustified /\ [RNext]_vars
        => ApprovedJustified'
  BY ApprovedNext
<1>4. Init => ApprovedJustified
  BY DEF Init, ApprovedJustified, svc
<1>5. QED
  BY <1>2, <1>3, <1>4, RestartInvariant, ApprovalOverRestarts, PTL
  DEF RSpec, RecoveredNeedsApproval

(***************************************************************************)
(* The contract over restarts. A lost thread never comes back to its node, *)
(* so that a record it had not acted on may still change; what the first   *)
(* pass writes is a request that was open when it was selected and that    *)
(* nobody has acted on since, as there is no thread to act.                *)
(***************************************************************************)
SelectedOpen ==
  svc = "timeouts" => \A r \in service.todo :
    /\ appr[r[1]][r[2]] \in {"Pending"} \cup Decided
    /\ routed[r[1]][r[2]] = "none"

\* The visits of an execution that was not started are still to come.
Unstarted == \A e \in Execs : pc[e] = "none" => visits[e] = [n \in Nodes |-> 0]

RestartContract == ContractInv /\ SelectedOpen /\ Unstarted

LEMMA ContractEngine ==
  ASSUME Deciders = {}, TypeInv, ServiceInv, RestartContract, Next
  PROVE  RestartContract' /\ [Contract!Next]_(Contract!contractVars)
<1>1. ContractInv' /\ [Contract!Next]_(Contract!contractVars)
  BY ContractStep DEF RestartContract
<1>2. SelectedOpen'
  <2>1. CASE svc # "timeouts"
    BY <2>1, EngineKeepsService DEF SelectedOpen, svc
  <2>2. CASE svc = "timeouts"
    <3>1. People /\ UNCHANGED <<service, routed>>
      BY <2>2, StillWhileDown, PeopleLeave DEF apiVars, walkVars
    <3>2. ASSUME NEW e \in Execs, NEW v \in ApprovalVisits,
                 appr[e][v] \in {"Pending"} \cup Decided
          PROVE  appr'[e][v] \in {"Pending"} \cup Decided
      <4>1. ASSUME NEW f \in Execs, NEW u \in ApprovalVisits, NEW verdict \in Verdicts,
                   Vote(f, u, verdict)
            PROVE  appr'[e][v] \in {"Pending"} \cup Decided
        BY <3>2, <4>1 DEF Vote, Verdicts, Decided, Approving, TypeInv, TypeOK
      <4>2. CASE UNCHANGED appr
        BY <3>2, <4>2
      <4>3. QED
        BY <3>1, <4>1, <4>2 DEF People, BulkDecide, DueDatePasses, CheckPending, dbVars
    <3>3. \A r \in service.todo : r[1] \in Execs /\ r[2] \in ApprovalVisits
      BY <2>2 DEF ServiceInv, Overtaken, Requests
    <3>4. QED
      BY <2>2, <3>1, <3>2, <3>3 DEF RestartContract, SelectedOpen
  <2>3. QED
    BY <2>1, <2>2
<1>3. Unstarted'
  <2>1. ASSUME NEW e \in Execs, Thread(e) \/ Faulty(e) \/ Request(e)
        PROVE  Unstarted'
    <3>1. pc'[e] # "none"
      BY <2>1, ThreadStays
    <3>2. \A f \in Execs \ {e} : pc'[f] = pc[f] /\ visits'[f] = visits[f]
      BY <2>1, OthersUntouched DEF Untouched
    <3>3. QED
      BY <3>1, <3>2 DEF RestartContract, Unstarted
  <2>2. CASE UNCHANGED walkVars
    BY <2>2 DEF RestartContract, Unstarted, walkVars
  <2>3. QED
    BY <2>1, <2>2, PeopleLeave DEF Next, FinishRequest
<1>4. QED
  BY <1>1, <1>2, <1>3 DEF RestartContract

LEMMA ContractCrash ==
  ASSUME TypeInv, RestartContract, Crash
  PROVE  RestartContract' /\ [Contract!Next]_(Contract!contractVars)
<1>1. /\ UNCHANGED <<appr, routed, node>> /\ service'.pass = "down"
      /\ visits' = [e \in Execs |-> [n \in Nodes |-> 0]]
  BY DEF Crash, dbVars
<1>2. \A e \in Execs : pc'[e] \in {"lost", "gone"} \/ (pc'[e] = "none" /\ pc[e] = "none")
  BY DEF Crash, Active, HolderPcs, PcStates, TypeInv, TypeOK
<1>3. ASSUME NEW e \in Execs
      PROVE  ExecInv(e)'
  <2>1. TakenMatches(e)'
    BY <1>1 DEF RestartContract, ContractInv, ExecInv, TakenMatches
  <2>2. LaterVisitsFresh(e)'
    BY <1>1, <1>2
    DEF RestartContract, Unstarted, ContractInv, ExecInv, LaterVisitsFresh, ThreadOver
  <2>3. CurrentOpen(e)' /\ AnswerMatches(e)'
    BY <1>2 DEF CurrentOpen, AnswerMatches, ApprovalPcs
  <2>4. QED
    BY <2>1, <2>2, <2>3 DEF ExecInv
<1>4. SelectedOpen' /\ Unstarted'
  BY <1>1 DEF SelectedOpen, Unstarted, svc
<1>5. QED
  BY <1>1, <1>3, <1>4, RowsUnchanged DEF RestartContract, ContractInv, Contract!contractVars

\* A timeout that the recovery records is a decision of the contract.
LEMMA ContractTimeout ==
  ASSUME TypeInv, ServiceInv, RestartContract, NEW e \in Execs, NEW v \in ApprovalVisits,
         NEW s \in Decided, NEW resolved \in BOOLEAN,
         RecoverTimeout(<<e, v>>, resolved), appr' = [appr EXCEPT ![e][v] = s]
  PROVE  ContractInv' /\ SelectedOpen' /\ Contract!Next
<1> DEFINE r == <<e, v>>
<1>1. r \in Requests /\ r[1] = e /\ r[2] = v
  BY DEF Requests
<1>2. s \in Decided
  OBVIOUS
<1>3. appr' = [appr EXCEPT ![e][v] = s]
  OBVIOUS
<1>4. /\ svc = "timeouts" /\ r \in service.todo
      /\ service'.todo \subseteq service.todo
      /\ UNCHANGED <<walkVars, flagVars>>
  BY <1>1, TimeoutService DEF RecoverTimeout
<1>5. /\ appr[e][v] \in {"Pending"} \cup Decided
      /\ routed[e][v] = "none"
  BY <1>1, <1>4 DEF RestartContract, SelectedOpen
<1>6. pc[e] \notin ApprovalPcs
  BY <1>1, <1>4 DEF ServiceInv, Active, HolderPcs
<1>7. appr'[e][v] = s /\ \A u \in ApprovalVisits \ {v} : appr'[e][u] = appr[e][u]
  BY <1>1, <1>3 DEF TypeInv, TypeOK
<1>8. Alone(e) /\ UNCHANGED <<pc, node, visits, resp, routed, cancelled>>
  BY <1>1, <1>3, <1>4 DEF Alone, walkVars, flagVars, TypeInv, TypeOK
<1>9. ExecInv(e)'
  <2>1. TakenMatches(e)'
    BY <1>1, <1>5, <1>7, <1>8 DEF RestartContract, ContractInv, ExecInv, TakenMatches
  <2>2. LaterVisitsFresh(e)'
    BY <1>1, <1>5, <1>7, <1>8
    DEF RestartContract, ContractInv, ExecInv, LaterVisitsFresh, ThreadOver, Decided, Approving
  <2>3. CurrentOpen(e)' /\ AnswerMatches(e)'
    BY <1>6, <1>8 DEF CurrentOpen, AnswerMatches, ApprovalPcs
  <2>4. QED
    BY <2>1, <2>2, <2>3 DEF ExecInv
<1>10. ContractInv'
  BY <1>1, <1>8, <1>9, OthersKeepInv DEF RestartContract
<1>11. SelectedOpen'
  <2>1. \A q \in service.todo : q[1] \in Execs /\ q[2] \in ApprovalVisits
    BY <1>4 DEF ServiceInv, Overtaken, Requests
  <2>2. \A f \in Execs : \A u \in ApprovalVisits :
          appr'[f][u] = IF f = e /\ u = v THEN s ELSE appr[f][u]
    BY <1>1, <1>3 DEF TypeInv, TypeOK
  <2>3. QED
    BY <1>2, <1>4, <1>8, <2>1, <2>2 DEF RestartContract, SelectedOpen
<1>12. Record' = [Record EXCEPT ![r] = RecordOf(s)] /\ UNCHANGED Taken
  <2>1. Record' = [Record EXCEPT ![<<e, v>>] = RecordOf(s)]
    BY RecordUpdate
  <2>2. UNCHANGED Taken
    BY <1>8 DEF Taken
  <2>3. QED
    BY <1>1, <2>1, <2>2
<1> HIDE DEF r
<1>13. RecordOf(s) \in Contract!Decisions
  BY <1>2 DEF RecordOf, Decided, Approving, Contract!Decisions
<1>14. Record[r] = RecordOf(appr[e][v]) /\ Taken[r] = "none"
  BY <1>1, <1>5 DEF Record, Taken
<1>15. Record[r] \in {"open"} \cup Contract!Decisions
  BY <1>5, <1>14 DEF RecordOf, Decided, Approving, Contract!Decisions
<1>16. Contract!Decide(r, RecordOf(s))
  BY <1>12, <1>14, <1>15 DEF Contract!Decide
<1>17. QED
  BY <1>1, <1>10, <1>11, <1>13, <1>16 DEF Contract!Next

LEMMA ContractRecovery ==
  ASSUME TypeInv, ServiceInv, RestartContract, RecoveryStep
  PROVE  RestartContract' /\ [Contract!Next]_(Contract!contractVars)
<1>1. UNCHANGED <<walkVars, flagVars>>
  BY RecoveryLeaves
<1>2. Unstarted'
  BY <1>1 DEF RestartContract, Unstarted, walkVars
<1>3. CASE UNCHANGED appr
  <2>1. ContractInv' /\ [Contract!Next]_(Contract!contractVars)
    BY <1>1, <1>3, UnseenKeeps DEF RestartContract, walkVars, flagVars
  <2>2. CASE SelectTimeouts
    <3>1. \A r \in OverduePending : routed[r[1]][r[2]] = "none" /\ appr[r[1]][r[2]] = "Pending"
      BY DEF OverduePending, Requests, RestartContract, ContractInv, ExecInv, TakenMatches,
             Decided, Approving
    <3>2. service'.todo = OverduePending
      BY <2>2 DEF SelectTimeouts, TypeInv, TypeOK, Services
    <3>3. SelectedOpen'
      BY <1>1, <1>3, <3>1, <3>2 DEF SelectedOpen, walkVars
    <3>4. QED
      BY <1>2, <2>1, <3>3 DEF RestartContract
  <2>3. CASE \/ EndTimeouts \/ SelectResponses \/ CommitResponses
             \/ SelectStale \/ CommitStale \/ PassFails
    <3>1. svc' # "timeouts"
      BY <2>3 DEF EndTimeouts, SelectResponses, CommitResponses, SelectStale, CommitStale,
                  PassFails, svc, TypeInv, TypeOK, Services
    <3>2. QED
      BY <1>2, <2>1, <3>1 DEF RestartContract, SelectedOpen
  <2>4. ASSUME NEW r \in Requests, NEW resolved \in BOOLEAN, RecoverTimeout(r, resolved)
        PROVE  SelectedOpen'
    <3>1. service'.todo \subseteq service.todo /\ svc = "timeouts"
      BY <2>4, TimeoutService
    <3>2. QED
      BY <1>1, <1>3, <3>1 DEF RestartContract, SelectedOpen, walkVars
  <2>5. QED
    BY <1>2, <2>1, <2>2, <2>3, <2>4 DEF RecoveryStep, Recovery, RestartContract
<1>4. ASSUME NEW r \in Requests, NEW resolved \in BOOLEAN, RecoverTimeout(r, resolved),
             ~UNCHANGED appr
      PROVE  RestartContract' /\ [Contract!Next]_(Contract!contractVars)
  <2>1. appr' = [appr EXCEPT ![r[1]][r[2]] = RecoveredStatus(r, resolved)]
    BY <1>4 DEF RecoverTimeout
  <2>2. r[1] \in Execs /\ r[2] \in ApprovalVisits /\ r = <<r[1], r[2]>>
    BY DEF Requests
  <2>3. RecoveredStatus(r, resolved) \in Decided
    BY DEF RecoveredStatus, TimeoutStatus, Decided, Approving
  <2>4. ContractInv' /\ SelectedOpen' /\ Contract!Next
    BY <1>4, <2>1, <2>2, <2>3, ContractTimeout
  <2>5. QED
    BY <1>2, <2>4 DEF RestartContract
<1>5. QED
  BY <1>3, <1>4, RecoveryLeaves

LEMMA ContractRestart ==
  ASSUME Deciders = {}, TypeInv, ServiceInv, RestartContract, [RNext]_vars
  PROVE  RestartContract' /\ [Contract!Next]_(Contract!contractVars)
<1>1. CASE UNCHANGED vars
  <2>1. UNCHANGED <<appr, routed, pc, node, visits, resp, cancelled, service>>
    BY <1>1 DEF vars, dbVars, walkVars, flagVars, apiVars
  <2>2. ContractInv' /\ [Contract!Next]_(Contract!contractVars)
    BY <2>1, UnseenKeeps DEF RestartContract
  <2>3. QED
    BY <2>1, <2>2 DEF RestartContract, SelectedOpen, Unstarted, svc
<1>2. QED
  BY <1>1, ContractEngine, ContractCrash, ContractRecovery DEF RNext, RecoveryStep

LEMMA RestartContractInit == ASSUME Init PROVE RestartContract
<1>1. SelectedOpen /\ Unstarted
  BY DEF Init, SelectedOpen, Unstarted, svc
<1>2. QED
  BY <1>1, ContractInit DEF RestartContract

\* With every decision made through the bulk endpoint, crashes and recoveries
\* are steps of the contract or stutter: a run never takes a decision that
\* differs from the record, also not from what the recovery records later.
THEOREM KeepsContractOverRestarts ==
  ASSUME Deciders = {}
  PROVE  RSpec => KeepsContract
<1>1. TypeInv /\ ServiceInv /\ RestartContract /\ [RNext]_vars
        => RestartContract' /\ [Contract!Next]_(Contract!contractVars)
  BY ContractRestart
<1>2. Init => RestartContract /\ Contract!Init
  BY RestartContractInit, ContractInit
<1>3. QED
  BY <1>1, <1>2, RestartInvariant, PTL DEF RSpec, KeepsContract, Contract!Spec

\* So the record and the edge the run followed agree, restarts included.
THEOREM RoutesMatchOverRestarts ==
  ASSUME Deciders = {}
  PROVE  RSpec => []RoutedAsRecorded
<1>1. TypeInv /\ ServiceInv /\ RestartContract /\ [RNext]_vars => RestartContract'
  BY ContractRestart
<1>2. RestartContract => RoutedAsRecorded
  BY DEF RestartContract, ContractInv, ExecInv, TakenMatches, RoutedAsRecorded
<1>3. QED
  BY <1>1, <1>2, RestartContractInit, RestartInvariant, PTL DEF RSpec

(***************************************************************************)
(* A run without failures, over restarts. What is kept for an execution    *)
(* while its thread is there (Waited, Followed) says nothing of a lost     *)
(* one, whose flags are reset; what remains is that it shows one open step *)
(* at most, and that what the engine still owes at its end (Ended) is owed *)
(* to threads that are gone with the crash.                                *)
(***************************************************************************)
OneOpen(e) ==
  /\ \A u, v \in OpenSteps(e) : u = v
  /\ db[e] = "Completed" => OpenSteps(e) = {}

Threaded == {e \in Execs : ~ThreadOver(e)}

RestartCalm ==
  /\ CalmOn(Threaded)
  /\ faults = 0 => \A e \in Execs : OneOpen(e)

LEMMA FollowedIsOne == ASSUME NEW e, Followed(e) PROVE OneOpen(e)
BY DEF Followed, OneOpen

\* The engine's steps: a thread that is over stays so, and nothing completes
\* an execution without one.
LEMMA CalmEngine ==
  ASSUME TypeInv, RestartCalm, Next
  PROVE  RestartCalm'
<1>1. PICK S \in SUBSET Execs : S = Threaded
  BY DEF Threaded
<1>2. CalmOn(S)'
  BY <1>1, CalmNext DEF RestartCalm
<1>3. ASSUME NEW e \in Execs, ThreadOver(e)
      PROVE  /\ ThreadOver(e)'
             /\ faults' = 0 /\ OneOpen(e) => OneOpen(e)'
  <2>1. ASSUME NEW f \in Execs, Thread(f) \/ Faulty(f) \/ Request(f)
        PROVE  Untouched(e)
    BY <1>3, <2>1, ThreadStays, OthersUntouched
  <2>2. CASE Untouched(e)
    BY <1>3, <2>2 DEF Untouched, ThreadOver, OneOpen, OpenSteps
  <2>3. ASSUME NEW w \in Execs \X {"Paused", "Cancelled"}, FinishRequest(w)
        PROVE  /\ ThreadOver(e)'
               /\ faults' = 0 /\ OneOpen(e) => OneOpen(e)'
    <3>1. UNCHANGED <<pc, step>> /\ OpenSteps(e)' = OpenSteps(e)
      BY <2>3 DEF FinishRequest, OpenSteps, walkVars
    <3>2. faults' = 0 /\ db'[e] = "Completed" => db[e] = "Completed"
      BY <2>3, NoLoss DEF FinishRequest, SetDb, TypeInv, TypeOK
    <3>3. QED
      BY <1>3, <3>1, <3>2 DEF ThreadOver, OneOpen
  <2>4. CASE People
    BY <1>3, <2>4, PeopleLeave DEF walkVars, ThreadOver, OneOpen, OpenSteps
  <2>5. QED
    BY <2>1, <2>2, <2>3, <2>4 DEF Next
<1>4. Threaded' \subseteq S
  BY <1>1, <1>3 DEF Threaded
<1>5. CalmOn(Threaded)'
  BY <1>2, <1>4 DEF CalmOn
<1>6. ASSUME faults' = 0, NEW e \in Execs
      PROVE  OneOpen(e)'
  <2>1. CASE e \in S
    <3>1. Followed(e)'
      BY <1>2, <1>6, <2>1 DEF CalmOn
    <3>2. QED
      BY <3>1 DEF Followed, OneOpen
  <2>2. CASE e \notin S
    <3>1. faults = 0
      BY <1>6, FaultsStay
    <3>2. ThreadOver(e) /\ OneOpen(e)
      BY <1>1, <2>2, <3>1 DEF Threaded, RestartCalm
    <3>3. QED
      BY <1>3, <1>6, <3>2
  <2>3. QED
    BY <2>1, <2>2
<1>7. QED
  BY <1>5, <1>6 DEF RestartCalm

\* Executions that were not started yet are the only ones a crash leaves in
\* the hands of the engine.
LEMMA CalmCrash ==
  ASSUME TypeInv, RestartCalm, Crash
  PROVE  RestartCalm'
<1>1. /\ UNCHANGED <<db, step, appr, node, faults, calls>> /\ writes' = {}
      /\ \A e \in Execs : queue'[e] = <<>> /\ ~paused'[e] /\ ~cancelled'[e]
  BY DEF Crash, dbVars
<1>2. \A e \in Execs : \/ pc'[e] = pc[e] /\ pc[e] \in {"none", "gone", "lost"}
                       \/ pc'[e] = "lost"
  BY DEF Crash, Active, HolderPcs, PcStates, TypeInv, TypeOK
<1>3. \A e \in Execs : OpenSteps(e)' = OpenSteps(e)
  BY <1>1 DEF OpenSteps
<1>4. OnlyCancels'
  <2>1. <<>> \in Seq({"cancel"})
    OBVIOUS
  <2>2. \A e \in Execs : queue'[e] = <<>>
    BY <1>1
  <2>3. QED
    BY <2>1, <2>2 DEF OnlyCancels
<1>5. ASSUME faults = 0, NEW e \in Execs, ~ThreadOver(e)'
      PROVE  Waited(e)' /\ Followed(e)'
  <2>1. pc[e] = "none" /\ pc'[e] = "none"
    BY <1>2, <1>5 DEF ThreadOver
  <2>2. Waited(e) /\ Followed(e)
    BY <1>5, <2>1 DEF RestartCalm, CalmOn, Threaded, ThreadOver
  <2>3. Waited(e)'
    BY <1>1, <2>1, <2>2 DEF Waited, AskedPcs
  <2>4. OpenSteps(e) = {} /\ db[e] # "Completed"
    BY <2>1, <2>2 DEF Followed, LeftBehind, InNodePcs, AskedPcs
  <2>5. QED
    BY <1>1, <1>3, <2>3, <2>4 DEF Followed
<1>6. ASSUME faults = 0, calls["pause"] = 0, NEW e \in Execs
      PROVE  Ended(e)'
  <2>1. Ended(e)
    BY <1>6 DEF RestartCalm, CalmOn
  <2>2. QED
    BY <1>1, <1>2, <2>1 DEF Ended
<1>7. CalmOn(Threaded)'
  BY <1>1, <1>4, <1>5, <1>6 DEF CalmOn, Threaded
<1>8. QED
  BY <1>1, <1>3, <1>7 DEF RestartCalm, OneOpen

\* What a pass does to the steps of an execution it completes or fails.
LEMMA RecoveredSteps ==
  ASSUME TypeInv, ServiceInv, RecoveryStep, faults' = 0, NEW e \in Execs, OneOpen(e)
  PROVE  /\ OpenSteps(e)' \subseteq OpenSteps(e)
         /\ db'[e] = "Completed" => OpenSteps(e)' = {}
         /\ db'[e] = "Completed" /\ db[e] # "Completed" => OpenSteps(e) # {}
<1>1. CASE UNCHANGED <<db, step>>
  BY <1>1 DEF OneOpen, OpenSteps
<1>2. CASE CommitStale
  <2>1. OpenSteps(e)' \subseteq OpenSteps(e)
    BY <1>2 DEF CommitStale, OpenSteps
  <2>2. db'[e] = "Completed" => db[e] = "Completed"
    BY <1>2 DEF CommitStale
  <2>3. QED
    BY <2>1, <2>2 DEF OneOpen
<1>3. CASE CommitResponses
  <2>1. \A r : OutcomeOf(r) \notin {"Running", "Paused"}
    BY DEF OutcomeOf
  <2>2. \A v \in Visits : step'[e][v] =
          IF <<e, v>> \in service.todo THEN OutcomeOf(<<e, v>>) ELSE step[e][v]
    BY <1>3 DEF CommitResponses
  <2>3. OpenSteps(e)' \subseteq OpenSteps(e)
    BY <2>1, <2>2 DEF OpenSteps
  <2>4. CASE db'[e] = db[e]
    BY <2>3, <2>4 DEF OneOpen
  <2>5. CASE db'[e] # db[e]
    <3>1. PICK last \in [{r[1] : r \in service.todo} -> service.todo] :
            /\ \A f \in DOMAIN last : last[f][1] = f
            /\ db' = [f \in Execs |-> IF f \in DOMAIN last THEN OutcomeOf(last[f]) ELSE db[f]]
      BY <1>3 DEF CommitResponses
    <3>2. e \in DOMAIN last
      BY <2>5, <3>1
    <3>3. PICK r \in service.todo : r[1] = e
      BY <3>1, <3>2
    <3>4. Unsettled(r) /\ r = <<e, r[2]>> /\ r[2] \in Visits
      BY <1>3, <3>3 DEF CommitResponses, ServiceInv, Unsettled, Requests, ApprovalVisits
    <3>5. r[2] \in OpenSteps(e)
      BY <3>3, <3>4 DEF Unsettled, OpenSteps
    <3>6. r[2] \notin OpenSteps(e)'
      BY <2>1, <2>2, <3>3, <3>4 DEF OpenSteps
    <3>7. OpenSteps(e)' = {}
      BY <2>3, <3>5, <3>6 DEF OneOpen
    <3>8. QED
      BY <2>3, <3>5, <3>7
  <2>6. QED
    BY <2>4, <2>5
<1>4. QED
  BY <1>1, <1>2, <1>3
  DEF RecoveryStep, Recovery, SelectTimeouts, EndTimeouts, SelectResponses, SelectStale,
      RecoverTimeout, PassFails, dbVars

LEMMA CalmRecovery ==
  ASSUME TypeInv, ServiceInv, RestartCalm, RecoveryStep
  PROVE  RestartCalm'
<1>1. /\ UNCHANGED <<pc, node, visits, paused, cancelled, queue, writes, calls>>
      /\ \A e \in Execs : db'[e] # db[e] => Live(e)
  BY RecoveryLeaves DEF flagVars, walkVars
<1>2. \A e \in Execs : pc[e] \in {"none", "gone", "lost"}
  BY RecoveryLeaves DEF ServiceInv, Active, HolderPcs, PcStates, TypeInv, TypeOK
<1>3. faults' = 0 => faults = 0
  <2>1. UNCHANGED faults \/ LoseWrite
    BY DEF RecoveryStep, Recovery, SelectTimeouts, EndTimeouts, SelectResponses,
           CommitResponses, SelectStale, CommitStale, RecoverTimeout, PassFails
  <2>2. QED
    BY <2>1, NoLoss
<1>4. ASSUME NEW e \in Execs, NEW v \in ApprovalVisits, appr'[e][v] = "Pending"
      PROVE  appr[e][v] = "Pending"
  <2>1. CASE UNCHANGED appr
    BY <1>4, <2>1
  <2>2. ASSUME NEW r \in Requests, NEW resolved \in BOOLEAN,
               appr' = [appr EXCEPT ![r[1]][r[2]] = RecoveredStatus(r, resolved)]
        PROVE  appr[e][v] = "Pending"
    BY <1>4, <2>2 DEF RecoveredStatus, TimeoutStatus, Requests, TypeInv, TypeOK
  <2>3. QED
    BY <2>1, <2>2, RecoveryLeaves DEF RecoverTimeout
<1>5. OnlyCancels'
  BY <1>1 DEF RestartCalm, CalmOn, OnlyCancels
<1>6. ASSUME faults' = 0, NEW e \in Execs
      PROVE  OneOpen(e)'
  <2>1. OneOpen(e)
    BY <1>3, <1>6 DEF RestartCalm
  <2>2. QED
    BY <1>6, <2>1, RecoveredSteps DEF OneOpen
<1>7. ASSUME faults' = 0, NEW e \in Execs, ~ThreadOver(e)'
      PROVE  Waited(e)' /\ Followed(e)'
  <2>1. pc[e] = "none" /\ pc'[e] = "none"
    BY <1>1, <1>2, <1>7 DEF ThreadOver
  <2>2. Waited(e) /\ Followed(e)
    BY <1>3, <1>7, <2>1 DEF RestartCalm, CalmOn, Threaded, ThreadOver
  <2>3. Waited(e)'
    BY <1>1, <1>4, <2>1, <2>2 DEF Waited, AskedPcs
  <2>4. OpenSteps(e) = {} /\ db[e] # "Completed"
    BY <2>1, <2>2 DEF Followed, LeftBehind, InNodePcs, AskedPcs
  <2>5. OpenSteps(e)' = {} /\ db'[e] # "Completed"
    BY <1>7, <2>2, <2>4, RecoveredSteps, FollowedIsOne
  <2>6. QED
    BY <2>3, <2>5 DEF Followed
<1>8. ASSUME faults' = 0, calls["pause"] = 0, NEW e \in Execs
      PROVE  Ended(e)'
  <2>1. Ended(e)
    BY <1>3, <1>8 DEF RestartCalm, CalmOn
  <2>2. CASE pc[e] = "gone"
    <3>1. db'[e] = db[e]
      BY <1>1, <2>1, <2>2 DEF Ended, Live, Terminal
    <3>2. QED
      BY <1>1, <2>1, <2>2, <3>1 DEF Ended
  <2>3. CASE pc[e] \in {"none", "lost"}
    BY <1>1, <2>1, <2>3 DEF Ended
  <2>4. QED
    BY <1>2, <2>2, <2>3
<1>9. CalmOn(Threaded)'
  BY <1>1, <1>5, <1>7, <1>8 DEF CalmOn, Threaded
<1>10. QED
  BY <1>6, <1>9 DEF RestartCalm

LEMMA CalmOverRestarts == RSpec => []RestartCalm
<1>1. ASSUME TypeInv, ServiceInv, RestartCalm, [RNext]_vars
      PROVE  RestartCalm'
  <2>1. CASE UNCHANGED vars
    BY <1>1, <2>1
    DEF vars, dbVars, flagVars, walkVars, apiVars, peopleVars, RestartCalm, CalmOn, OnlyCancels,
        Waited, Followed, LeftBehind, OpenSteps, Ended, Current, Threaded, ThreadOver, OneOpen
  <2>2. QED
    BY <1>1, <2>1, CalmEngine, CalmCrash, CalmRecovery DEF RNext, RecoveryStep
<1>2. ASSUME Init
      PROVE  RestartCalm
  <2>1. CalmOn(Threaded)
    BY <1>2, CalmInit DEF CalmInv, CalmOn, Threaded
  <2>2. \A e \in Execs : OneOpen(e)
    BY <1>2 DEF Init, OneOpen, OpenSteps
  <2>3. QED
    BY <2>1, <2>2 DEF RestartCalm
<1>3. QED
  BY <1>1, <1>2, RestartInvariant, PTL DEF RSpec

\* While no database call fails, an execution shows one step in progress at
\* most, and none once it is Completed, also by the recovery.
THEOREM OneStepOverRestarts == RSpec => []StepsFollowTheThread
<1>1. ASSUME NEW e \in Execs, OneOpen(e)
      PROVE  Cardinality(OpenSteps(e)) <= 1
  <2>1. CASE OpenSteps(e) = {}
    BY <2>1, FS_EmptySet
  <2>2. CASE OpenSteps(e) # {}
    <3>1. PICK v \in OpenSteps(e) : OpenSteps(e) = {v}
      BY <1>1, <2>2 DEF OneOpen
    <3>2. Cardinality({v}) = 1
      BY FS_Singleton
    <3>3. QED
      BY <3>1, <3>2
  <2>3. QED
    BY <2>1, <2>2
<1>2. RestartCalm => StepsFollowTheThread
  BY <1>1 DEF RestartCalm, OneOpen, StepsFollowTheThread
<1>3. QED
  BY <1>2, CalmOverRestarts, PTL

\* While no database call fails and nobody has asked to pause, a run whose
\* thread ended by itself shows an outcome: what a crash can still take from it
\* is a later write of a cancel, and no pass of the recovery replaces it.
THEOREM QuietRunsOverRestarts == RSpec => []QuietRunHasOutcome
<1>1. RestartCalm => QuietRunHasOutcome
  BY DEF RestartCalm, CalmOn, Ended, QuietRunHasOutcome, Quiet
<1>2. QED
  BY <1>1, CalmOverRestarts, PTL

(***************************************************************************)
(* An approval is honoured by the recovery. From the moment the second     *)
(* pass has looked, a request that is still Pending was Pending then; an   *)
(* approved one whose step is Paused is about to be settled, or was        *)
(* Pending then; and what is about to be settled as rejected is rejected   *)
(* still, as only the single endpoint replaces an answer.                  *)
(***************************************************************************)
LookedAt ==
  faults = 0 /\ svc \in {"settling", "stale", "closing"} =>
    \A e \in Execs : \A v \in ApprovalVisits :
      /\ appr[e][v] = "Pending" => <<e, v>> \in service.unanswered
      /\ Live(e) /\ appr[e][v] \in Approving /\ step[e][v] = "Paused" =>
           \/ <<e, v>> \in service.unanswered
           \/ svc = "settling" /\ <<e, v>> \in service.todo
      /\ svc = "settling" /\ <<e, v>> \in service.todo \ service.approved =>
           appr[e][v] \in {"Rejected", "Timeout-Rejected"}

LEMMA LookedPeople ==
  ASSUME Deciders = {}, TypeInv, LookedAt, People
  PROVE  LookedAt'
<1>1. UNCHANGED <<db, step, service, faults>>
  BY PeopleLeave DEF apiVars
<1>2. ASSUME NEW e \in Execs, NEW v \in ApprovalVisits
      PROVE  \/ appr'[e][v] = appr[e][v]
             \/ appr[e][v] = "Pending" /\ appr'[e][v] \in Verdicts
  <2>1. ASSUME NEW f \in Execs, NEW u \in ApprovalVisits, NEW verdict \in Verdicts,
               BulkDecide(f, u, verdict)
        PROVE  \/ appr'[e][v] = appr[e][v]
               \/ appr[e][v] = "Pending" /\ appr'[e][v] \in Verdicts
    BY <2>1 DEF BulkDecide, Vote, TypeInv, TypeOK
  <2>2. QED
    BY <2>1 DEF People, DueDatePasses, CheckPending
<1>3. \A e : Live(e)' <=> Live(e)
  BY <1>1 DEF Live
<1>4. QED
  BY <1>1, <1>2, <1>3 DEF LookedAt, svc, Verdicts, Approving

LEMMA LookedRecovery ==
  ASSUME TypeInv, ServiceInv, LookedAt, Recovery, UNCHANGED faults
  PROVE  LookedAt'
<1> USE DEF svc
<1>1. CASE SelectResponses
  <2> DEFINE found == {r \in Requests : Live(r[1]) /\ r[2] \in Answered(r[1])}
  <2>1. /\ svc' = "settling" /\ service'.todo = found
        /\ service'.approved = {r \in found : appr[r[1]][r[2]] \in Approving}
        /\ service'.unanswered = {r \in Requests : appr[r[1]][r[2]] = "Pending"}
    BY <1>1 DEF SelectResponses, TypeInv, TypeOK, Services
  <2>2. ASSUME NEW e \in Execs, NEW v \in ApprovalVisits
        PROVE  /\ <<e, v>> \in Requests
               /\ <<e, v>> \in found <=>
                    Live(e) /\ appr[e][v] \in Decided /\ step[e][v] = "Paused"
    BY DEF Requests, Answered
  <2>3. UNCHANGED <<appr, step>> /\ \A e : Live(e)' <=> Live(e)
    BY <1>1 DEF SelectResponses, dbVars, Live
  <2>4. ASSUME NEW e \in Execs, NEW v \in ApprovalVisits
        PROVE  <<e, v>> \in service'.approved <=>
                 <<e, v>> \in found /\ appr[e][v] \in Approving
    BY <2>1
  <2>5. ASSUME NEW e \in Execs, NEW v \in ApprovalVisits
        PROVE  <<e, v>> \in service'.unanswered <=> appr[e][v] = "Pending"
    BY <2>1, <2>2
  <2>6. SUFFICES ASSUME NEW e \in Execs, NEW v \in ApprovalVisits
                 PROVE  /\ appr'[e][v] = "Pending" => <<e, v>> \in service'.unanswered
                        /\ Live(e)' /\ appr'[e][v] \in Approving /\ step'[e][v] = "Paused"
                             => <<e, v>> \in service'.todo
                        /\ <<e, v>> \in service'.todo \ service'.approved =>
                             appr'[e][v] \in {"Rejected", "Timeout-Rejected"}
    BY <2>1 DEF LookedAt
  <2> HIDE DEF found
  <2>7. QED
    BY <2>1, <2>2, <2>3, <2>4, <2>5 DEF Decided, Approving
<1>2. CASE CommitResponses
  <2>1. /\ svc = "settling" /\ svc' = "stale"
        /\ service'.unanswered = service.unanswered /\ UNCHANGED appr
    BY <1>2 DEF CommitResponses, TypeInv, TypeOK, Services
  <2>2. ASSUME NEW e \in Execs, NEW v \in ApprovalVisits, step'[e][v] = "Paused"
        PROVE  step[e][v] = "Paused" /\ <<e, v>> \notin service.todo
    <3>1. OutcomeOf(<<e, v>>) # "Paused"
      BY DEF OutcomeOf
    <3>2. v \in Visits
      BY DEF ApprovalVisits
    <3>3. QED
      BY <1>2, <2>2, <3>1, <3>2 DEF CommitResponses
  <2>3. ASSUME NEW e \in Execs, Live(e)'
        PROVE  Live(e)
    BY <1>2, <2>3, RecoveryLeaves DEF RecoveryStep, Live
  <2>4. QED
    BY <2>1, <2>2, <2>3 DEF LookedAt
<1>3. CASE SelectStale
  <2>1. /\ svc = "stale" /\ svc' = "closing"
        /\ service'.unanswered = service.unanswered /\ UNCHANGED <<appr, step, db>>
    BY <1>3 DEF SelectStale, dbVars, TypeInv, TypeOK, Services
  <2>2. QED
    BY <2>1 DEF LookedAt, Live
<1>4. CASE SelectTimeouts \/ EndTimeouts \/ CommitStale
  <2>1. svc' \in {"timeouts", "responses", "up"}
    BY <1>4 DEF SelectTimeouts, EndTimeouts, CommitStale, TypeInv, TypeOK, Services
  <2>2. QED
    BY <2>1 DEF LookedAt
<1>5. ASSUME NEW r \in Requests, NEW resolved \in BOOLEAN, RecoverTimeout(r, resolved)
      PROVE  LookedAt'
  BY <1>5, TimeoutService DEF LookedAt
<1>6. QED
  BY <1>1, <1>2, <1>3, <1>4, <1>5 DEF Recovery

LEMMA LookedNext ==
  ASSUME Deciders = {}, TypeInv, ServiceInv, LookedAt, [RNext]_vars
  PROVE  LookedAt'
<1>1. CASE Next
  <2>1. CASE svc = "up"
    BY <1>1, <2>1, EngineKeepsService DEF LookedAt, svc
  <2>2. QED
    BY <1>1, <2>1, StillWhileDown, LookedPeople
<1>2. CASE Crash
  BY <1>2 DEF Crash, LookedAt, svc, TypeInv, TypeOK, Services
<1>3. CASE Recovery /\ UNCHANGED faults
  BY <1>3, LookedRecovery
<1>4. CASE LoseWrite
  <2>1. faults' # 0
    BY <1>4 DEF LoseWrite, TypeInv, TypeOK
  <2>2. QED
    BY <2>1 DEF LookedAt
<1>5. CASE UNCHANGED vars
  BY <1>5 DEF vars, dbVars, apiVars, LookedAt, Live, svc
<1>6. CASE RecoveryStep
  <2>1. UNCHANGED faults \/ LoseWrite
    BY <1>6 DEF RecoveryStep, Recovery, SelectTimeouts, EndTimeouts, SelectResponses,
                CommitResponses, SelectStale, CommitStale, RecoverTimeout, PassFails
  <2>2. Recovery \/ LoseWrite
    BY <1>6 DEF RecoveryStep, PassFails
  <2>3. QED
    BY <1>3, <1>4, <2>1, <2>2
<1>7. QED
  BY <1>1, <1>2, <1>5, <1>6 DEF RNext, RecoveryStep

\* With decisions through the bulk endpoint and no failed database call, the
\* recovery fails no execution over an approved request, unless nobody had
\* answered that request when the second pass looked: for every workflow, any
\* number of executions lost at once and whatever people decide meanwhile.
THEOREM ApprovalsSurviveRestarts ==
  ASSUME Deciders = {}
  PROVE  RSpec => ApprovedRunIsNotFailed
<1> DEFINE Kept(e) == \A v \in ApprovalVisits :
      appr[e][v] \in Approving /\ step[e][v] = "Paused" => <<e, v>> \in service.unanswered
<1>1. ASSUME TypeInv, ServiceInv, RestartCalm, LookedAt, [RNext]_vars, svc # "up",
             faults' = 0, NEW e \in Execs, db[e] # db'[e], db'[e] = "Failed"
      PROVE  Kept(e)
  <2>1. faults = 0
    <3>1. CASE RecoveryStep
      <4>1. UNCHANGED faults \/ LoseWrite
        BY <3>1 DEF RecoveryStep, Recovery, SelectTimeouts, EndTimeouts, SelectResponses,
                    CommitResponses, SelectStale, CommitStale, RecoverTimeout, PassFails
      <4>2. QED
        BY <1>1, <4>1, NoLoss
    <3>2. CASE [Next]_vars
      BY <1>1, <3>2, FaultsStay DEF vars
    <3>3. CASE Crash
      BY <1>1, <3>3 DEF Crash
    <3>4. QED
      BY <1>1, <3>1, <3>2, <3>3 DEF RNext, RecoveryStep
  <2>2. ~Next
    BY <1>1, StillWhileDown, PeopleLeave
  <2>3. ~Crash /\ ~UNCHANGED vars
    BY <1>1 DEF Crash, vars, dbVars
  <2>4. CommitResponses \/ CommitStale
    BY <1>1, <2>2, <2>3
    DEF RNext, Recovery, SelectTimeouts, EndTimeouts, SelectResponses, SelectStale,
        RecoverTimeout, PassFails, dbVars
  <2>5. ASSUME NEW v \in ApprovalVisits, appr[e][v] \in Approving, step[e][v] = "Paused"
        PROVE  <<e, v>> \in service.unanswered
    <3>1. CASE CommitStale
      <4>1. svc = "closing" /\ Live(e)
        BY <1>1, <3>1 DEF CommitStale, ServiceInv
      <4>2. QED
        BY <1>1, <2>1, <2>5, <4>1 DEF LookedAt
    <3>2. CASE CommitResponses
      <4>1. PICK last \in [{r[1] : r \in service.todo} -> service.todo] :
              /\ \A f \in DOMAIN last : last[f][1] = f
              /\ db' = [f \in Execs |-> IF f \in DOMAIN last THEN OutcomeOf(last[f]) ELSE db[f]]
        BY <3>2 DEF CommitResponses
      <4>2. e \in DOMAIN last /\ OutcomeOf(last[e]) = "Failed"
        BY <1>1, <4>1
      <4>3. PICK r \in service.todo : r[1] = e /\ r \notin service.approved
        BY <4>1, <4>2 DEF OutcomeOf
      <4>4. svc = "settling" /\ Unsettled(r)
        BY <1>1, <3>2, <4>3 DEF CommitResponses, ServiceInv
      <4>5. r[2] \in ApprovalVisits /\ r = <<e, r[2]>> /\ step[e][r[2]] = "Paused"
        BY <4>3, <4>4 DEF Unsettled, Requests
      <4>6. r[2] = v
        BY <1>1, <2>1, <2>5, <4>5 DEF RestartCalm, OneOpen, OpenSteps, ApprovalVisits
      <4>7. appr[e][v] \in {"Rejected", "Timeout-Rejected"}
        BY <1>1, <2>1, <4>3, <4>4, <4>5, <4>6 DEF LookedAt
      <4>8. QED
        BY <2>5, <4>7 DEF Approving
    <3>3. QED
      BY <2>4, <3>1, <3>2
  <2>6. QED
    BY <2>5
<1>2. TypeInv /\ ServiceInv /\ RestartCalm /\ LookedAt /\ [RNext]_vars =>
        [svc # "up" /\ faults' = 0 => \A e \in Execs :
           db[e] # db'[e] /\ db'[e] = "Failed" => Kept(e)]_vars
  BY <1>1
<1>3. TypeInv /\ ServiceInv /\ LookedAt /\ [RNext]_vars => LookedAt'
  BY LookedNext
<1>4. Init => LookedAt
  BY DEF Init, LookedAt, svc
<1>5. QED
  BY <1>2, <1>3, <1>4, RestartInvariant, CalmOverRestarts, PTL DEF RSpec, ApprovedRunIsNotFailed

=============================================================================

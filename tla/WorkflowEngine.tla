--------------------------- MODULE WorkflowEngine ---------------------------
(***************************************************************************)
(* The workflow executor of the AI Hub (src/workflow_execution.py): one    *)
(* thread per execution walks a workflow graph, a semaphore bounds how     *)
(* many threads run, HTTP handlers pause, resume and cancel executions     *)
(* through unlocked flags and a command queue, and a Human Approval node   *)
(* polls a database row that people decide through the main application.   *)
(*                                                                         *)
(* State is grouped by where it lives: rows of the database (they survive  *)
(* a restart), the engine's in-memory maps and thread locals (they do not),*)
(* the HTTP requests in flight, and the people who decide approvals.       *)
(***************************************************************************)
EXTENDS Naturals, Sequences, FiniteSets

CONSTANTS
  Execs,           \* execution ids, one WorkflowExecutions row each
  Nodes,           \* the nodes of the workflow definition
  StartNode,       \* the node marked isStart
  NoNode,          \* "no next node": None in the code
  Dangling,        \* a connection target that is not a node of the definition
  Kind,            \* Nodes -> {"action", "conditional", "approval"}
  Conns,           \* Nodes -> its outgoing connections, in definition order
  HasDue,          \* the approval nodes with dueHours or timeoutMinutes set
  OnTimeout,       \* Nodes -> timeoutAction, "continue" or "fail"
  MaxConcurrent,   \* cfg.MAX_CONCURRENT_WORKFLOWS
  MaxNodeVisits,   \* _max_node_visits
  Deciders,        \* people using the single-decision endpoint
  MaxCalls,        \* bound: how often each engine operation is requested
  MaxFaults        \* bound: how many database calls of the engine fail

Terminal       == {"Completed", "Failed", "Cancelled"}
DbStatus       == {"none", "Running", "Paused"} \cup Terminal
StepStatus     == {"none", "Running", "Paused", "Completed", "Failed"}
Approving      == {"Approved", "Timeout-Approved"}
Decided        == Approving \cup {"Rejected", "Timeout-Rejected"}
ApprovalStatus == {"none", "Pending", "Cancelled"} \cup Decided
Verdicts       == {"Approved", "Rejected"}
Commands       == {"cancel", "resume"}
Operations     == {"pause", "resume", "cancel"}
Passes         == {"up", "down", "timeouts", "responses", "settling", "stale", "closing"}

\* A step or an approval request of an execution: a node and its visit number.
Visits         == Nodes \X (1..MaxNodeVisits)
ApprovalVisits == {v \in Visits : Kind[v[1]] = "approval"}
NoHold         == [held |-> FALSE]
\* The executor service, as its startup recovery sees it.
RequestSets    == SUBSET (Execs \X ApprovalVisits)
Services       == [pass : Passes, todo : RequestSets, approved : RequestSets,
                   stale : SUBSET Execs, unanswered : RequestSets,
                   defaulted : RequestSets, crashes : Nat]
Hold           == [held : {TRUE}, exec : Execs, visit : ApprovalVisits,
                   verdict : Verdicts]

ASSUME GraphAssumption ==
  /\ StartNode \in Nodes
  /\ NoNode \notin Nodes /\ Dangling \notin Nodes /\ NoNode # Dangling
  /\ Kind \in [Nodes -> {"action", "conditional", "approval"}]
  /\ Conns \in [Nodes -> Seq([type : {"pass", "fail", "complete"},
                              target : Nodes \cup {Dangling}])]
  /\ HasDue \in SUBSET Nodes
  /\ OnTimeout \in [Nodes -> {"continue", "fail"}]

ASSUME BoundAssumption ==
  /\ IsFiniteSet(Execs)
  /\ MaxConcurrent \in Nat \ {0}
  /\ MaxNodeVisits \in Nat \ {0}
  /\ MaxCalls \in [Operations -> Nat]
  /\ MaxFaults \in Nat

VARIABLES
  (* rows of the database *)
  db,         \* WorkflowExecutions.status
  step,       \* StepExecutions.status
  appr,       \* ApprovalRequests.status
  past,       \* the requests whose due_date has passed
  (* the engine's memory *)
  pc,         \* where the execution's thread is
  node,       \* current_node_id
  status,     \* _active_executions[id]['status']
  paused,     \* _active_executions[id]['paused']
  cancelled,  \* _active_executions[id]['cancelled']
  queue,      \* _execution_queues[id]
  visits,     \* _node_visit_counts[id]
  resp,       \* approval_response of the node being executed
  routed,     \* variables["<node>_approved"], the verdict the run followed
  slots,      \* free slots of _workflow_semaphore
  (* HTTP requests in flight *)
  writes,     \* status writes that pause/cancel requests still have to do
  calls,      \* requests made so far, per operation (bounded by MaxCalls)
  service,    \* the executor service: up, or in a pass of its recovery after a
              \* crash (WorkflowRecovery; here it stays up)
  (* people *)
  held,       \* what a decider read before its UPDATE
  votes,      \* every verdict ever written to a request
  (* environment *)
  faults      \* failed database calls so far (bounded by MaxFaults)

dbVars     == <<db, step, appr, past>>
flagVars   == <<status, paused, cancelled, queue>>
walkVars   == <<pc, node, visits, resp, routed, slots>>
apiVars    == <<writes, calls, service>>
peopleVars == <<held, votes>>
vars == <<dbVars, flagVars, walkVars, apiVars, peopleVars, faults>>

ApprovalPcs == {"apprOpen", "apprAnnounce", "apprWait", "apprTimeout", "apprHandle"}
HolderPcs   == ApprovalPcs \cup
  {"load", "top", "parked", "enter", "run", "apprResume", "fail", "failed",
   "exit", "writeCancelled", "writeCompleted", "cleanup"}
PcStates    == HolderPcs \cup {"none", "acquire", "gone", "lost"}

HoldsSlot(e) == pc[e] \in HolderPcs
\* execution_id in self._active_executions
Active(e)    == pc[e] \in HolderPcs \cup {"acquire"}
\* The step and the request of the node being executed.
Current(e)   == <<node[e], visits[e][node[e]]>>

-----------------------------------------------------------------------------
(* Routing over the connections of a node. *)

FirstEdge(n, types) ==
  LET hits  == {i \in DOMAIN Conns[n] : Conns[n][i].type \in types}
      first == {i \in hits : \A j \in hits : i <= j}
  IN IF first = {} THEN NoNode ELSE Conns[n][CHOOSE i \in first : TRUE].target

OrElse(a, b) == IF a # NoNode THEN a ELSE b

OnSuccess(n) == OrElse(FirstEdge(n, {"pass"}), FirstEdge(n, {"complete"}))
OnFailure(n) == OrElse(FirstEdge(n, {"fail"}), FirstEdge(n, {"complete"}))
OnVerdict(n, approved) ==
  FirstEdge(n, {IF approved THEN "pass" ELSE "fail", "complete"})

-----------------------------------------------------------------------------
(* Database writes whose errors the engine swallows: they happen, or a     *)
(* fault loses them and the caller goes on.                                *)

LoseWrite == faults < MaxFaults /\ faults' = faults + 1

SetDb(e, s) ==
  \/ db' = [db EXCEPT ![e] = s] /\ UNCHANGED faults
  \/ LoseWrite /\ UNCHANGED db

\* A slip: the oldest row instead of the newest (ORDER BY started_at).
SetOldestStep(e, n, s) ==
  /\ step' = IF visits[e][n] \in 1..MaxNodeVisits
             THEN [step EXCEPT ![e][<<n, 1>>] = s]
             ELSE step
  /\ UNCHANGED faults

\* The newest step row of the node; without a row nothing is written.
SetStep(e, n, s) ==
  \/ /\ step' = IF visits[e][n] \in 1..MaxNodeVisits
                THEN [step EXCEPT ![e][<<n, visits[e][n]>>] = s]
                ELSE step
     /\ UNCHANGED faults
  \/ LoseWrite /\ UNCHANGED step

-----------------------------------------------------------------------------
(* Starting an execution and entering the node loop. *)

StartWorkflow(e) ==
  /\ service.pass = "up"
  /\ pc[e] = "none"
  /\ db' = [db EXCEPT ![e] = "Running"]
  /\ status' = [status EXCEPT ![e] = "Running"]
  /\ node' = [node EXCEPT ![e] = StartNode]
  /\ pc' = [pc EXCEPT ![e] = "acquire"]
  /\ UNCHANGED <<step, appr, past, paused, cancelled, queue, visits, resp,
                 routed, slots, apiVars, peopleVars, faults>>

AcquireSlot(e) ==
  /\ pc[e] = "acquire"
  /\ slots > 0
  /\ slots' = slots - 1
  /\ pc' = [pc EXCEPT ![e] = "load"]
  /\ UNCHANGED <<dbVars, flagVars, node, visits, resp, routed, apiVars,
                 peopleVars, faults>>

LoadVariables(e) ==
  /\ pc[e] = "load"
  /\ pc' = [pc EXCEPT ![e] = "top"]
  /\ UNCHANGED <<dbVars, flagVars, node, visits, resp, routed, slots, apiVars,
                 peopleVars, faults>>

LeaveLoop(e) ==
  /\ pc[e] = "top"
  /\ node[e] = NoNode \/ cancelled[e]
  /\ pc' = [pc EXCEPT ![e] = "exit"]
  /\ UNCHANGED <<dbVars, flagVars, node, visits, resp, routed, slots, apiVars,
                 peopleVars, faults>>

InLoop(e) == pc[e] = "top" /\ node[e] # NoNode /\ ~cancelled[e]

\* The next node's newest step row, if it has one, is shown as Paused and the
\* thread blocks on its queue. A dangling target has no rows at all.
Park(e) ==
  /\ InLoop(e)
  /\ paused[e]
  /\ IF node[e] \in Nodes THEN SetStep(e, node[e], "Paused")
                          ELSE UNCHANGED <<step, faults>>
  /\ pc' = [pc EXCEPT ![e] = "parked"]
  /\ UNCHANGED <<db, appr, past, flagVars, node, visits, resp, routed, slots,
                 apiVars, peopleVars>>

\* After a resume the node is executed without looking at the flags again.
Unpark(e) ==
  /\ pc[e] = "parked"
  /\ queue[e] # <<>>
  /\ queue' = [queue EXCEPT ![e] = Tail(@)]
  /\ IF Head(queue[e]) = "resume"
     THEN /\ paused' = [paused EXCEPT ![e] = FALSE]
          /\ IF node[e] \in Nodes THEN SetStep(e, node[e], "Running")
                                  ELSE UNCHANGED <<step, faults>>
          /\ pc' = [pc EXCEPT ![e] = "enter"]
          /\ UNCHANGED cancelled
     ELSE /\ cancelled' = [cancelled EXCEPT ![e] = TRUE]
          /\ pc' = [pc EXCEPT ![e] = "exit"]
          /\ UNCHANGED <<paused, step, faults>>
  /\ UNCHANGED <<db, appr, past, status, node, visits, resp, routed, slots,
                 apiVars, peopleVars>>

Entering(e) == (InLoop(e) /\ ~paused[e]) \/ pc[e] = "enter"

\* A target that is not in the definition, or a node visited too often.
RefuseNode(e) ==
  /\ Entering(e)
  /\ \/ node[e] \notin Nodes /\ UNCHANGED visits
     \/ /\ node[e] \in Nodes
        /\ visits[e][node[e]] >= MaxNodeVisits
        /\ visits' = [visits EXCEPT ![e][node[e]] = @ + 1]
  /\ pc' = [pc EXCEPT ![e] = "fail"]
  /\ UNCHANGED <<dbVars, flagVars, node, resp, routed, slots, apiVars,
                 peopleVars, faults>>

\* Count the visit and insert the step row; a failed insert fails the run.
EnterNode(e) ==
  /\ Entering(e)
  /\ node[e] \in Nodes
  /\ visits[e][node[e]] < MaxNodeVisits
  /\ visits' = [visits EXCEPT ![e][node[e]] = @ + 1]
  /\ \/ /\ step' = [step EXCEPT ![e][<<node[e], visits[e][node[e]] + 1>>] = "Running"]
        /\ pc' = [pc EXCEPT ![e] = IF Kind[node[e]] = "approval"
                                   THEN "apprOpen" ELSE "run"]
        /\ UNCHANGED faults
     \/ /\ LoseWrite
        /\ pc' = [pc EXCEPT ![e] = "fail"]
        /\ UNCHANGED step
  /\ UNCHANGED <<db, appr, past, flagVars, node, resp, routed, slots, apiVars,
                 peopleVars>>

-----------------------------------------------------------------------------
(* Ordinary nodes. *)

GoTo(e, n) ==
  /\ node' = [node EXCEPT ![e] = n]
  /\ pc' = [pc EXCEPT ![e] = "top"]

NodeSucceeds(e) ==
  /\ pc[e] = "run"
  /\ SetStep(e, node[e], "Completed")
  /\ GoTo(e, OnSuccess(node[e]))
  /\ UNCHANGED <<db, appr, past, flagVars, visits, resp, routed, slots, apiVars,
                 peopleVars>>

\* A false condition is a completed step when an edge takes it.
ConditionIsFalse(e) ==
  /\ pc[e] = "run"
  /\ Kind[node[e]] = "conditional"
  /\ OnFailure(node[e]) # NoNode
  /\ SetStep(e, node[e], "Completed")
  /\ GoTo(e, OnFailure(node[e]))
  /\ UNCHANGED <<db, appr, past, flagVars, visits, resp, routed, slots, apiVars,
                 peopleVars>>

\* Follow the fail edge, else the complete edge, else fail the run.
NodeFails(e) ==
  /\ pc[e] = "run"
  /\ SetStep(e, node[e], "Failed")
  /\ IF OnFailure(node[e]) # NoNode
     THEN GoTo(e, OnFailure(node[e]))
     ELSE pc' = [pc EXCEPT ![e] = "fail"] /\ UNCHANGED node
  /\ UNCHANGED <<db, appr, past, flagVars, visits, resp, routed, slots, apiVars,
                 peopleVars>>

-----------------------------------------------------------------------------
(* The Human Approval node. It is executed outside the handler that        *)
(* follows fail edges, so an exception here fails the whole run.           *)

\* INSERT the request and commit; then the step and the in-memory flag.
OpenApproval(e) ==
  /\ pc[e] = "apprOpen"
  /\ appr' = [appr EXCEPT ![e][Current(e)] = "Pending"]
  /\ SetStep(e, node[e], "Paused")
  /\ paused' = [paused EXCEPT ![e] = TRUE]
  /\ resp' = [resp EXCEPT ![e] = "none"]
  /\ pc' = [pc EXCEPT ![e] = "apprAnnounce"]
  /\ UNCHANGED <<db, past, status, cancelled, queue, node, visits, routed,
                 slots, apiVars, peopleVars>>

AnnounceApproval(e) ==
  /\ pc[e] = "apprAnnounce"
  /\ SetDb(e, "Paused")
  /\ pc' = [pc EXCEPT ![e] = "apprWait"]
  /\ UNCHANGED <<step, appr, past, flagVars, node, visits, resp, routed, slots,
                 apiVars, peopleVars>>

\* A slip: a due date compared with a clock of another zone.
OverdueAtOnce(e) == node[e] \in HasDue

Overdue(e) == node[e] \in HasDue /\ Current(e) \in past[e]

\* One pass of the wait loop looks at the cancel flag, then at the clock,
\* then at the row, and then waits for a command.
SeeCancel(e) ==
  /\ pc[e] = "apprWait"
  /\ cancelled[e]
  /\ pc' = [pc EXCEPT ![e] = "apprHandle"]
  /\ UNCHANGED <<dbVars, flagVars, node, visits, resp, routed, slots, apiVars,
                 peopleVars, faults>>

SeeTimeout(e) ==
  /\ pc[e] = "apprWait"
  /\ ~cancelled[e]
  /\ Overdue(e)
  /\ pc' = [pc EXCEPT ![e] = "apprTimeout"]
  /\ UNCHANGED <<dbVars, flagVars, node, visits, resp, routed, slots, apiVars,
                 peopleVars, faults>>

SeeDecision(e) ==
  /\ pc[e] = "apprWait"
  /\ ~cancelled[e]
  /\ ~Overdue(e)
  /\ appr[e][Current(e)] # "Pending"
  /\ resp' = [resp EXCEPT ![e] = appr[e][Current(e)]]
  /\ pc' = [pc EXCEPT ![e] = "apprHandle"]
  /\ UNCHANGED <<dbVars, flagVars, node, visits, routed, slots, apiVars,
                 peopleVars, faults>>

\* The pass blocks on the queue after it looked at flag, clock and row: what
\* they are by now is not asked again. Any command but 'cancel' is ignored.
PollQueue(e) ==
  /\ pc[e] = "apprWait"
  /\ queue[e] # <<>>
  /\ queue' = [queue EXCEPT ![e] = Tail(@)]
  /\ IF Head(queue[e]) = "cancel"
     THEN /\ cancelled' = [cancelled EXCEPT ![e] = TRUE]
          /\ pc' = [pc EXCEPT ![e] = "apprHandle"]
     ELSE UNCHANGED <<cancelled, pc>>
  /\ UNCHANGED <<dbVars, status, paused, node, visits, resp, routed, slots,
                 apiVars, peopleVars, faults>>

\* A slip: the spelling an earlier recovery service wrote.
LegacyTimeoutStatus(n) ==
  IF OnTimeout[n] = "continue" THEN "Timeout-Approve" ELSE "Timeout-Reject"

TimeoutStatus(n) ==
  IF OnTimeout[n] = "continue" THEN "Timeout-Approved" ELSE "Timeout-Rejected"

\* A slip: the row is kept when it was answered, the run is not told.
TimeOutPendingRow(e) ==
  appr' = [appr EXCEPT ![e][Current(e)] =
             IF @ = "Pending" THEN TimeoutStatus(node[e]) ELSE @]

\* The UPDATE names the request only: it replaces whatever the row holds.
TimeOutRow(e) == appr' = [appr EXCEPT ![e][Current(e)] = TimeoutStatus(node[e])]

ApplyTimeout(e) ==
  /\ pc[e] = "apprTimeout"
  /\ TimeOutRow(e)
  /\ resp' = [resp EXCEPT ![e] = IF OnTimeout[node[e]] = "continue"
                                 THEN "Approved" ELSE "Rejected"]
  /\ pc' = [pc EXCEPT ![e] = "apprHandle"]
  /\ UNCHANGED <<db, step, past, flagVars, node, visits, routed, slots, apiVars,
                 peopleVars, faults>>

\* A slip: a cancelled run leaves its request behind.
LeaveRow(e) == UNCHANGED appr

WithdrawRow(e) == appr' = [appr EXCEPT ![e][Current(e)] = "Cancelled"]

\* A cancelled execution withdraws the request, decided or not, leaves the
\* step row as it is and has no next node.
WithdrawApproval(e) ==
  /\ pc[e] = "apprHandle"
  /\ cancelled[e]
  /\ WithdrawRow(e)
  /\ GoTo(e, NoNode)
  /\ UNCHANGED <<db, step, past, flagVars, visits, resp, routed, slots, apiVars,
                 peopleVars, faults>>

Follow(e) ==
  routed' = [routed EXCEPT ![e][Current(e)] =
               IF resp[e] \in Approving THEN "approved" ELSE "rejected"]

\* Record the verdict in the variables, complete the step, clear the pause
\* flag: also one that a pause request set meanwhile.
TakeDecision(e) ==
  /\ pc[e] = "apprHandle"
  /\ ~cancelled[e]
  /\ Follow(e)
  /\ SetStep(e, node[e], "Completed")
  /\ paused' = [paused EXCEPT ![e] = FALSE]
  /\ pc' = [pc EXCEPT ![e] = "apprResume"]
  /\ UNCHANGED <<db, appr, past, status, cancelled, queue, node, visits, resp,
                 slots, apiVars, peopleVars>>

FollowDecision(e) ==
  /\ pc[e] = "apprResume"
  /\ SetDb(e, "Running")
  /\ GoTo(e, OnVerdict(node[e], resp[e] \in Approving))
  /\ UNCHANGED <<step, appr, past, flagVars, visits, resp, routed, slots,
                 apiVars, peopleVars>>

\* A database call raises: before the node's next write, or after it.
ApprovalFails(e) ==
  /\ pc[e] \in ApprovalPcs \cup {"apprResume"}
  /\ LoseWrite
  /\ \/ UNCHANGED <<appr, routed>>
     \/ /\ pc[e] = "apprOpen"
        /\ appr' = [appr EXCEPT ![e][Current(e)] = "Pending"]
        /\ UNCHANGED routed
     \/ pc[e] = "apprHandle" /\ cancelled[e] /\ WithdrawRow(e) /\ UNCHANGED routed
     \/ pc[e] = "apprHandle" /\ ~cancelled[e] /\ Follow(e) /\ UNCHANGED appr
  /\ \/ step' = [step EXCEPT ![e][Current(e)] = "Failed"]
     \/ UNCHANGED step
  /\ pc' = [pc EXCEPT ![e] = "fail"]
  /\ UNCHANGED <<db, past, flagVars, node, visits, resp, slots, apiVars,
                 peopleVars>>

-----------------------------------------------------------------------------
(* The end of an execution. *)

\* A slip: the loop breaks without a status, as for a missing node once.
FailRunUnrecorded(e) ==
  /\ pc[e] = "fail"
  /\ pc' = [pc EXCEPT ![e] = "failed"]
  /\ UNCHANGED <<dbVars, flagVars, node, visits, resp, routed, slots, apiVars,
                 peopleVars, faults>>

FailRun(e) ==
  /\ pc[e] = "fail"
  /\ SetDb(e, "Failed")
  /\ pc' = [pc EXCEPT ![e] = "failed"]
  /\ UNCHANGED <<step, appr, past, flagVars, node, visits, resp, routed, slots,
                 apiVars, peopleVars>>

MarkFailed(e) ==
  /\ pc[e] = "failed"
  /\ status' = [status EXCEPT ![e] = "Failed"]
  /\ pc' = [pc EXCEPT ![e] = "exit"]
  /\ UNCHANGED <<dbVars, paused, cancelled, queue, node, visits, resp, routed,
                 slots, apiVars, peopleVars, faults>>

\* A run that ends while its pause flag is set writes no outcome.
ChooseOutcome(e) ==
  /\ pc[e] = "exit"
  /\ pc' = [pc EXCEPT ![e] =
              IF cancelled[e] THEN "writeCancelled"
              ELSE IF node[e] = NoNode /\ ~paused[e] THEN "writeCompleted"
              ELSE "cleanup"]
  /\ UNCHANGED <<dbVars, flagVars, node, visits, resp, routed, slots, apiVars,
                 peopleVars, faults>>

\* The status kept in memory is set to the same outcome right after. From then
\* on it only refuses requests, as Cleanup does, and is merged with Cleanup.
WriteOutcome(e) ==
  /\ pc[e] \in {"writeCancelled", "writeCompleted"}
  /\ SetDb(e, IF pc[e] = "writeCancelled" THEN "Cancelled" ELSE "Completed")
  /\ pc' = [pc EXCEPT ![e] = "cleanup"]
  /\ UNCHANGED <<step, appr, past, flagVars, node, visits, resp, routed, slots,
                 apiVars, peopleVars>>

\* The database cannot be reached, so that the thread's handlers raise too: the
\* outermost one ends the run as Failed, without looking at 'cancelled'.
ThreadFails(e) ==
  /\ \/ pc[e] \in {"load", "enter", "run", "fail", "writeCancelled", "writeCompleted"}
     \/ pc[e] = "parked" /\ queue[e] # <<>>
     \/ InLoop(e)
  /\ LoseWrite
  /\ \/ db' = [db EXCEPT ![e] = "Failed"]
     \/ UNCHANGED db
  /\ status' = [status EXCEPT ![e] = "Failed"]
  /\ pc' = [pc EXCEPT ![e] = "cleanup"]
  /\ UNCHANGED <<step, appr, past, paused, cancelled, queue, node, visits, resp,
                 routed, slots, apiVars, peopleVars>>

\* A slip: the slot of a failed execution is never given back.
ReleaseUnlessFailed(e) ==
  slots' = IF status[e] = "Failed" THEN slots ELSE slots + 1

ReleaseSlot(e) == slots' = slots + 1

\* Forget the execution, empty its queue and free the slot.
Cleanup(e) ==
  /\ pc[e] = "cleanup"
  /\ pc' = [pc EXCEPT ![e] = "gone"]
  /\ queue' = [queue EXCEPT ![e] = <<>>]
  /\ visits' = [visits EXCEPT ![e] = [n \in Nodes |-> 0]]
  /\ ReleaseSlot(e)
  /\ UNCHANGED <<dbVars, status, paused, cancelled, node, resp, routed, apiVars,
                 peopleVars, faults>>

-----------------------------------------------------------------------------
(* Requests to the executor: the flags are set at once, the database row   *)
(* is written by a later step of the same request.                         *)

Call(o) == calls[o] < MaxCalls[o] /\ calls' = [calls EXCEPT ![o] = @ + 1]

\* A slip: commands only reach a thread that polls for an approval.
PutIfPolling(e, command) ==
  queue' = IF pc[e] = "apprWait" THEN [queue EXCEPT ![e] = Append(@, command)]
           ELSE queue

Put(e, command) == queue' = [queue EXCEPT ![e] = Append(@, command)]

PauseWorkflow(e) ==
  /\ Active(e)
  /\ status[e] = "Running"
  /\ Call("pause")
  /\ paused' = [paused EXCEPT ![e] = TRUE]
  /\ writes' = writes \cup {<<e, "Paused">>}
  /\ UNCHANGED <<dbVars, status, cancelled, queue, walkVars, service, peopleVars,
                 faults>>

\* Refused unless status is 'Paused'.
ResumeWorkflow(e) ==
  /\ Active(e)
  /\ Call("resume")
  /\ IF status[e] = "Paused" THEN Put(e, "resume") ELSE UNCHANGED queue
  /\ UNCHANGED <<dbVars, status, paused, cancelled, walkVars, writes, service,
                 peopleVars, faults>>

CancelWorkflow(e) ==
  /\ Active(e)
  /\ status[e] \notin Terminal
  /\ Call("cancel")
  /\ Put(e, "cancel")
  /\ cancelled' = [cancelled EXCEPT ![e] = TRUE]
  /\ writes' = writes \cup {<<e, "Cancelled">>}
  /\ UNCHANGED <<dbVars, status, paused, walkVars, service, peopleVars, faults>>

FinishRequest(w) ==
  /\ w \in writes
  /\ writes' = writes \ {w}
  /\ SetDb(w[1], w[2])
  /\ UNCHANGED <<step, appr, past, flagVars, walkVars, calls, service,
                 peopleVars>>

-----------------------------------------------------------------------------
(* The approvers, who act through the main application. *)

Vote(e, v, verdict) ==
  /\ appr' = [appr EXCEPT ![e][v] = verdict]
  /\ votes' = [votes EXCEPT ![e][v] = @ \cup {verdict}]

\* The bulk endpoint: UPDATE ... WHERE status = 'Pending'.
BulkDecide(e, v, verdict) ==
  /\ appr[e][v] = "Pending"
  /\ Vote(e, v, verdict)
  /\ UNCHANGED <<db, step, past, flagVars, walkVars, apiVars, held, faults>>

\* The single endpoint: SELECT ... WHERE status = 'Pending', then an UPDATE
\* that names the request only.
CheckPending(d, e, v, verdict) ==
  /\ ~held[d].held
  /\ appr[e][v] = "Pending"
  /\ held' = [held EXCEPT ![d] = [held |-> TRUE, exec |-> e, visit |-> v,
                                  verdict |-> verdict]]
  /\ UNCHANGED <<dbVars, flagVars, walkVars, apiVars, votes, faults>>

SingleDecide(d) ==
  /\ held[d].held
  /\ Vote(held[d].exec, held[d].visit, held[d].verdict)
  /\ held' = [held EXCEPT ![d] = NoHold]
  /\ UNCHANGED <<db, step, past, flagVars, walkVars, apiVars, faults>>

DueDatePasses(e, v) ==
  /\ appr[e][v] = "Pending"
  /\ v[1] \in HasDue
  /\ v \notin past[e]
  /\ past' = [past EXCEPT ![e] = @ \cup {v}]
  /\ UNCHANGED <<db, step, appr, flagVars, walkVars, apiVars, peopleVars, faults>>

-----------------------------------------------------------------------------
Init ==
  /\ db = [e \in Execs |-> "none"]
  /\ step = [e \in Execs |-> [v \in Visits |-> "none"]]
  /\ appr = [e \in Execs |-> [v \in ApprovalVisits |-> "none"]]
  /\ past = [e \in Execs |-> {}]
  /\ pc = [e \in Execs |-> "none"]
  /\ node = [e \in Execs |-> NoNode]
  /\ status = [e \in Execs |-> "none"]
  /\ paused = [e \in Execs |-> FALSE]
  /\ cancelled = [e \in Execs |-> FALSE]
  /\ queue = [e \in Execs |-> <<>>]
  /\ visits = [e \in Execs |-> [n \in Nodes |-> 0]]
  /\ resp = [e \in Execs |-> "none"]
  /\ routed = [e \in Execs |-> [v \in ApprovalVisits |-> "none"]]
  /\ slots = MaxConcurrent
  /\ writes = {}
  /\ calls = [o \in Operations |-> 0]
  /\ service = [pass |-> "up", todo |-> {}, approved |-> {}, stale |-> {},
                unanswered |-> {}, defaulted |-> {}, crashes |-> 0]
  /\ held = [d \in Deciders |-> NoHold]
  /\ votes = [e \in Execs |-> [v \in ApprovalVisits |-> {}]]
  /\ faults = 0

\* The steps of an execution's thread that need no fault to happen.
Thread(e) ==
  \/ AcquireSlot(e) \/ LoadVariables(e) \/ LeaveLoop(e) \/ Park(e) \/ Unpark(e)
  \/ RefuseNode(e) \/ EnterNode(e) \/ NodeSucceeds(e) \/ ConditionIsFalse(e)
  \/ NodeFails(e) \/ OpenApproval(e) \/ AnnounceApproval(e) \/ SeeCancel(e)
  \/ SeeTimeout(e) \/ SeeDecision(e) \/ PollQueue(e) \/ ApplyTimeout(e)
  \/ WithdrawApproval(e) \/ TakeDecision(e) \/ FollowDecision(e) \/ FailRun(e)
  \/ MarkFailed(e) \/ ChooseOutcome(e) \/ WriteOutcome(e) \/ Cleanup(e)

Faulty(e) == ThreadFails(e) \/ ApprovalFails(e)

Request(e) ==
  StartWorkflow(e) \/ PauseWorkflow(e) \/ ResumeWorkflow(e) \/ CancelWorkflow(e)

People ==
  \/ \E e \in Execs, v \in ApprovalVisits :
       \/ DueDatePasses(e, v)
       \/ \E verdict \in Verdicts :
            \/ BulkDecide(e, v, verdict)
            \/ \E d \in Deciders : CheckPending(d, e, v, verdict)
  \/ \E d \in Deciders : SingleDecide(d)

Next ==
  \/ \E e \in Execs : Thread(e) \/ Faulty(e) \/ Request(e)
  \/ \E w \in Execs \X {"Paused", "Cancelled"} : FinishRequest(w)
  \/ People

Spec == Init /\ [][Next]_vars

\* Threads are run by the operating system, node code is assumed to return,
\* a request once accepted runs to its end, and time passes. People and the
\* callers of pause, resume and cancel promise nothing.
Fairness ==
  /\ \A e \in Execs : WF_vars(Thread(e))
  /\ \A w \in Execs \X {"Paused", "Cancelled"} : WF_vars(FinishRequest(w))
  /\ \A e \in Execs, v \in ApprovalVisits : WF_vars(DueDatePasses(e, v))

FairSpec == Spec /\ Fairness

-----------------------------------------------------------------------------
(* Properties. *)

TypeOK ==
  /\ db \in [Execs -> DbStatus]
  /\ step \in [Execs -> [Visits -> StepStatus]]
  /\ appr \in [Execs -> [ApprovalVisits -> ApprovalStatus]]
  /\ past \in [Execs -> SUBSET ApprovalVisits]
  /\ pc \in [Execs -> PcStates]
  /\ node \in [Execs -> Nodes \cup {NoNode, Dangling}]
  /\ status \in [Execs -> {"none", "Running", "Failed"}]
  /\ paused \in [Execs -> BOOLEAN]
  /\ cancelled \in [Execs -> BOOLEAN]
  /\ queue \in [Execs -> Seq(Commands)]
  /\ visits \in [Execs -> [Nodes -> 0..(MaxNodeVisits + 1)]]
  /\ resp \in [Execs -> ApprovalStatus]
  /\ routed \in [Execs -> [ApprovalVisits -> {"none", "approved", "rejected"}]]
  /\ slots \in Nat
  /\ writes \in SUBSET (Execs \X {"Paused", "Cancelled"})
  /\ calls \in [Operations -> Nat]
  /\ service \in Services
  /\ held \in [Deciders -> Hold \cup {NoHold}]
  /\ votes \in [Execs -> [ApprovalVisits -> SUBSET Verdicts]]
  /\ faults \in 0..MaxFaults

\* The concurrency gate: every way a thread can end, also the failing ones,
\* gives back exactly the slot it took, so slots and holders add up to the
\* limit and no more than the limit ever run (_execute_workflow_thread).
SlotsConserved ==
  slots + Cardinality({e \in Execs : HoldsSlot(e)}) = MaxConcurrent

\* A run follows the approving edge of a Human Approval node only if someone
\* approved that very request, or its due date passed on a node set to
\* continue, whatever races with the poll (_execute_human_approval_node).
NoPassWithoutApproval ==
  \A e \in Execs : \A v \in ApprovalVisits :
    routed[e][v] = "approved" =>
      \/ "Approved" \in votes[e][v]
      \/ v \in past[e] /\ OnTimeout[v[1]] = "continue"

\* A request is Pending only while a thread waits on it: no request is left
\* in My Approvals that nothing will ever act on. A failed database call in
\* the node breaks it, so it is stated for executions without one.
PendingHasWaiter ==
  faults = 0 =>
    \A e \in Execs : \A v \in ApprovalVisits :
      appr[e][v] = "Pending" => pc[e] \in ApprovalPcs /\ v = Current(e)

OpenSteps(e) == {v \in Visits : step[e][v] \in {"Running", "Paused"}}

\* An execution shows at most one step in progress, and a Completed one none
\* (step rows are found by newest started_at, _update_step_status).
StepsFollowTheThread ==
  faults = 0 =>
    \A e \in Execs :
      /\ Cardinality(OpenSteps(e)) <= 1
      /\ db[e] = "Completed" => OpenSteps(e) = {}

Quiet(e) == pc[e] = "gone" /\ \A s \in {"Paused", "Cancelled"} : <<e, s>> \notin writes

\* Once the thread is gone and no request is under way, the row of an
\* execution nobody paused shows an outcome; after an accepted cancel it is
\* Cancelled, or Completed if the run was already past its last look at the
\* flag, never Failed.
QuietRunHasOutcome ==
  faults = 0 /\ calls["pause"] = 0 =>
    \A e \in Execs : Quiet(e) =>
      /\ db[e] \in Terminal
      /\ cancelled[e] => db[e] \in {"Cancelled", "Completed"}

\* The record of an approval and the edge its run followed agree.
RoutedAsRecorded ==
  \A e \in Execs : \A v \in ApprovalVisits :
    routed[e][v] # "none" =>
      (routed[e][v] = "approved" <=> appr[e][v] \in Approving)

\* The approval node as the contract sees it.
Requests == Execs \X ApprovalVisits

RecordOf(s) ==
  CASE s = "none" -> "none"
    [] s = "Pending" -> "open"
    [] s = "Cancelled" -> "withdrawn"
    [] s \in Approving -> "approved"
    [] OTHER -> "rejected"

Record == [r \in Requests |-> RecordOf(appr[r[1]][r[2]])]
Taken  == [r \in Requests |-> routed[r[1]][r[2]]]

Contract == INSTANCE ApprovalContract WITH record <- Record, taken <- Taken

\* With every decision made through the conditional UPDATE of the bulk
\* endpoint, the node keeps the approval contract: it takes a decision once,
\* and never one that differs from the record then or later.
KeepsContract == Contract!Spec

\* A cancel reaches a running thread wherever it is: waiting for a person,
\* parked by a pause, between nodes or in one (cancel_workflow, the queue).
CancelStopsHolder ==
  \A e \in Execs : (cancelled[e] /\ HoldsSlot(e)) ~> ~HoldsSlot(e)

\* When approvals have due dates, every execution gets its turn through the
\* gate and its row stays at an outcome, graph cycles too, unless somebody
\* pauses an execution: a parked one holds its slot until it is cancelled.
EveryRunEnds ==
  \A e \in Execs :
    pc[e] = "acquire" ~> ([](db[e] \in Terminal) \/ calls["pause"] > 0)

\* The promise of resume_workflow: an execution that somebody resumes while it
\* is parked goes on. The resume comes after the thread has parked: it is there
\* with p pauses and r resumes asked for, and later, not paused again since,
\* with more resumes.
ResumeEndsPause ==
  \A e \in Execs, p \in 0..MaxCalls["pause"], r \in 0..MaxCalls["resume"] :
    [](pc[e] = "parked" /\ calls["pause"] = p /\ calls["resume"] = r =>
         [](calls["pause"] = p /\ calls["resume"] > r => <>(pc[e] # "parked")))
=============================================================================

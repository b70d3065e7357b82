-------------------------- MODULE WorkflowRecovery --------------------------
(***************************************************************************)
(* The executor service over restarts: WorkflowEngine plus a crash that    *)
(* loses everything in memory, and the one-time startup recovery of        *)
(* src/workflow_recovery_service.py, three passes over the database that   *)
(* finish before the service takes requests. The people deciding approvals *)
(* use the main application, which stays up meanwhile.                     *)
(***************************************************************************)
EXTENDS WorkflowEngine

CONSTANT MaxCrashes   \* bound: how often the service goes down

ASSUME CrashAssumption == MaxCrashes \in Nat

\* The variable service: the pass the starting service is in, or "up"; what its
\* SELECT has returned (todo, and which of it reads as approved; stale); the
\* crashes so far; and two histories: the requests nobody had answered when the
\* second pass looked (unanswered), and those the first pass settled by default,
\* without the node's own timeout action (defaulted).
svc == service.pass

\* A slip: every execution that is not Completed counts as live.
NotCompleted(e) == db[e] \notin {"none", "Completed"}

\* we.status IN ('Running', 'Paused')
Live(e) == db[e] \in {"Running", "Paused"}

\* A slip: any request keeps an execution alive, answered or not.
HasRequest(e) == \E v \in ApprovalVisits : appr[e][v] # "none"

\* EXISTS a Pending request of the execution.
Awaited(e) == \E v \in ApprovalVisits : appr[e][v] = "Pending"

\* Threads, flags, queues, the semaphore and HTTP requests are gone; rows and
\* the people at the main application stay. Bound: a crash after the first one
\* comes while the recovery from the one before it is under way.
Crash ==
  /\ svc # "down"
  /\ service.crashes < MaxCrashes
  /\ svc = "up" => service.crashes = 0
  /\ service' = [service EXCEPT !.pass = "down", !.todo = {}, !.approved = {},
                               !.stale = {}, !.unanswered = {}, !.crashes = @ + 1]
  /\ pc' = [e \in Execs |-> IF Active(e) THEN "lost" ELSE pc[e]]
  /\ status' = [e \in Execs |-> "none"]
  /\ paused' = [e \in Execs |-> FALSE]
  /\ cancelled' = [e \in Execs |-> FALSE]
  /\ queue' = [e \in Execs |-> <<>>]
  /\ visits' = [e \in Execs |-> [n \in Nodes |-> 0]]
  /\ resp' = [e \in Execs |-> "none"]
  /\ slots' = MaxConcurrent
  /\ writes' = {}
  /\ UNCHANGED <<dbVars, node, routed, calls, peopleVars, faults>>

\* A slip: requests are selected by their due date only.
OverdueAnswered == {r \in Requests : r[2] \in past[r[1]] /\ Live(r[1])}

OverduePending ==
  {r \in Requests : /\ appr[r[1]][r[2]] = "Pending"
                    /\ r[2] \in past[r[1]]
                    /\ Live(r[1])}

\* Pass 1 selects the overdue Pending requests of live executions ...
SelectTimeouts ==
  /\ svc = "down"
  /\ service' = [service EXCEPT !.pass = "timeouts", !.todo = OverduePending]
  /\ UNCHANGED <<dbVars, flagVars, walkVars, writes, calls, peopleVars, faults>>

\* What the first pass records: the node's timeout action, or "continue" when
\* the stored workflow is gone or no longer has the node (it can be edited while
\* its executions run).
RecoveredStatus(r, resolved) ==
  IF resolved THEN TimeoutStatus(r[2][1]) ELSE "Timeout-Approved"

\* ... and settles them one by one, each UPDATE naming the request only; a
\* row whose processing fails is skipped.
RecoverTimeout(r, resolved) ==
  /\ svc = "timeouts"
  /\ r \in service.todo
  /\ \/ /\ appr' = [appr EXCEPT ![r[1]][r[2]] = RecoveredStatus(r, resolved)]
        /\ service' = [service EXCEPT !.todo = @ \ {r},
             !.defaulted = IF resolved THEN @ ELSE @ \cup {r}]
        /\ UNCHANGED faults
     \/ /\ LoseWrite
        /\ service' = [service EXCEPT !.todo = @ \ {r}]
        /\ UNCHANGED appr
  /\ UNCHANGED <<db, step, past, flagVars, walkVars, writes, calls, peopleVars>>

EndTimeouts ==
  /\ svc = "timeouts"
  /\ service.todo = {}
  /\ service' = [service EXCEPT !.pass = "responses"]
  /\ UNCHANGED <<dbVars, flagVars, walkVars, writes, calls, peopleVars, faults>>

\* A slip: the answers are read as the single endpoint writes them, and a
\* timeout is none of them.
AnsweredByPeople(e) ==
  {v \in ApprovalVisits : appr[e][v] \in Verdicts /\ step[e][v] = "Paused"}

\* The decided requests whose step still shows Paused.
Answered(e) == {v \in ApprovalVisits : appr[e][v] \in Decided /\ step[e][v] = "Paused"}

\* Pass 2 selects the answered requests of live executions ...
SelectResponses ==
  /\ svc = "responses"
  /\ LET found == {r \in Requests : Live(r[1]) /\ r[2] \in Answered(r[1])}
     IN service' = [service EXCEPT
          !.pass = "settling",
          !.todo = found,
          !.approved = {r \in found : appr[r[1]][r[2]] \in Approving},
          !.unanswered = {r \in Requests : appr[r[1]][r[2]] = "Pending"}]
  /\ UNCHANGED <<dbVars, flagVars, walkVars, writes, calls, peopleVars, faults>>

\* A slip: only an explicit rejection fails the execution.
FailedIfRejected(r) ==
  IF appr[r[1]][r[2]] = "Rejected" THEN "Failed" ELSE "Completed"

OutcomeOf(r) == IF r \in service.approved THEN "Completed" ELSE "Failed"

\* ... and settles them in one transaction: an approved step is Completed and so
\* is its execution, a rejected one is Failed; of several the last one counts.
\* Nothing downstream is run.
CommitResponses ==
  /\ svc = "settling"
  /\ step' = [e \in Execs |-> [v \in Visits |->
       IF <<e, v>> \in service.todo THEN OutcomeOf(<<e, v>>) ELSE step[e][v]]]
  /\ \E last \in [{r[1] : r \in service.todo} -> service.todo] :
       /\ \A e \in DOMAIN last : last[e][1] = e
       /\ db' = [e \in Execs |-> IF e \in DOMAIN last THEN OutcomeOf(last[e]) ELSE db[e]]
  /\ service' = [service EXCEPT !.pass = "stale", !.todo = {}, !.approved = {}]
  /\ UNCHANGED <<appr, past, flagVars, walkVars, writes, calls, peopleVars, faults>>

\* Pass 3 selects the live executions without a Pending request ...
SelectStale ==
  /\ svc = "stale"
  /\ service' = [service EXCEPT !.pass = "closing",
                               !.stale = {e \in Execs : Live(e) /\ ~Awaited(e)}]
  /\ UNCHANGED <<dbVars, flagVars, walkVars, writes, calls, peopleVars, faults>>

\* ... and fails them and their open steps in one transaction. Then the service
\* takes requests.
CommitStale ==
  /\ svc = "closing"
  /\ db' = [e \in Execs |-> IF e \in service.stale THEN "Failed" ELSE db[e]]
  /\ step' = [e \in Execs |-> [v \in Visits |->
       IF e \in service.stale /\ v \in OpenSteps(e) THEN "Failed" ELSE step[e][v]]]
  /\ service' = [service EXCEPT !.pass = "up", !.stale = {}]
  /\ UNCHANGED <<appr, past, flagVars, walkVars, writes, calls, peopleVars, faults>>

\* The database fails a whole pass, which is logged; the next one runs.
PassFails ==
  /\ svc \in {"down", "responses", "settling", "stale", "closing"}
  /\ LoseWrite
  /\ service' = [service EXCEPT
       !.pass = CASE @ = "down" -> "responses"
                  [] @ \in {"responses", "settling"} -> "stale"
                  [] @ \in {"stale", "closing"} -> "up",
       !.todo = {}, !.approved = {}, !.stale = {}]
  /\ UNCHANGED <<dbVars, flagVars, walkVars, writes, calls, peopleVars>>

Recovery ==
  \/ SelectTimeouts \/ EndTimeouts
  \/ SelectResponses \/ CommitResponses
  \/ SelectStale \/ CommitStale
  \/ \E r \in Requests, resolved \in BOOLEAN : RecoverTimeout(r, resolved)

\* A service that is down has no threads and refuses requests. People act, and
\* due dates pass, whether it runs or not.
RNext == Next \/ Crash \/ Recovery \/ PassFails

RSpec == Init /\ [][RNext]_vars

\* The engine's fairness while it is up; a service that is down is started
\* again and recovers.
RFairness ==
  /\ \A e \in Execs : WF_vars(Thread(e))
  /\ \A w \in Execs \X {"Paused", "Cancelled"} : WF_vars(FinishRequest(w))
  /\ WF_vars(Recovery)

RFairSpec == RSpec /\ RFairness

-----------------------------------------------------------------------------
(* Properties. *)

\* An approval given before the recovery looks for answers is honoured: however
\* the crash, the three passes and the people deciding between them fall, the
\* recovery fails no execution over a request that is approved, unless nobody
\* had answered it when the second pass looked. A failed database call of the
\* run or of the recovery breaks it (a second pass that fails leaves the
\* approved run to the third), so it is stated without one.
ApprovedRunIsNotFailed ==
  [][svc # "up" /\ faults' = 0 =>
       \A e \in Execs : db[e] # db'[e] /\ db'[e] = "Failed" =>
         \A v \in ApprovalVisits :
           appr[e][v] \in Approving /\ step[e][v] = "Paused" =>
             <<e, v>> \in service.unanswered]_vars

\* Recovery completes an execution only over an approval: somebody approved
\* the request it was paused on, or that one timed out, on a node set to
\* continue or on one that the stored workflow no longer describes when the
\* recovery asks for its timeout action.
RecoveredNeedsApproval ==
  [][svc # "up" =>
       \A e \in Execs : db[e] # db'[e] /\ db'[e] = "Completed" =>
         \E v \in ApprovalVisits :
           /\ step[e][v] = "Paused"
           /\ \/ "Approved" \in votes[e][v]
              \/ /\ v \in past[e]
                 /\ OnTimeout[v[1]] = "continue" \/ <<e, v>> \in service.defaulted]_vars

\* An outcome recorded before a crash is not changed by the crash or by any
\* pass of the recovery, which only touch rows that show Running or Paused.
OutcomeSurvivesRestart ==
  [][svc # "up" => \A e \in Execs : db[e] \in Terminal => db'[e] = db[e]]_vars

\* Every execution that lost its thread is settled when the service takes
\* requests again, or it had a request nobody had answered when the second pass
\* looked; unless the database failed the recovery or the run before it.
LostRunIsSettled ==
  \A e \in Execs :
    (pc[e] = "lost" /\ svc # "up") ~>
      \/ faults > 0
      \/ /\ svc = "up"
         /\ db[e] \in Terminal \/ \E v \in ApprovalVisits : <<e, v>> \in service.unanswered

\* The recovery service says that after it the engine handles all approval
\* monitoring: an execution whose approval is decided does not stay Paused.
DecidedRunMovesOn ==
  \A e \in Execs :
    (db[e] = "Paused" /\ Answered(e) # {}) ~> db[e] # "Paused"
=============================================================================

---------------------------- MODULE DocumentQueue ----------------------------
(***************************************************************************)
(* The queue of document jobs: rows of DocumentJobExecutions, and the one  *)
(* process (src/app_doc_job_q.py) that takes them one after the other. The *)
(* rows of a job are told apart by their status only.                      *)
(***************************************************************************)
EXTENDS Integers

CONSTANTS
  Documents,   \* rows of DocumentJobs
  MaxRows      \* bound: rows of a job that are queued, or left RUNNING

ASSUME QueueAssumption == MaxRows \in Nat

VARIABLES
  queued,   \* the rows of a job that are QUEUED
  running,  \* those that are RUNNING
  worker,   \* the job whose row the process works on, if any
  known,    \* jobs that have, or had, a row
  owed      \* history: jobs asked for since they were last taken up

queueVars == <<queued, running, worker, known, owed>>

Queued(j) == queued[j] > 0

Insert(j) ==
  /\ queued[j] < MaxRows
  /\ queued' = [queued EXCEPT ![j] = @ + 1]
  /\ known' = known \cup {j}

SetRunning(j) ==
  /\ queued' = [queued EXCEPT ![j] = @ - 1]
  /\ running' = [running EXCEPT ![j] = @ + 1]

\* A slip: the job is taken up whether a row is queued or not.
TakeableOnce(j, active) == worker = {} /\ j \in active

\* SELECT any queued row whose document job is active, then UPDATE by its id.
Takeable(j, active) == worker = {} /\ Queued(j) /\ j \in active

Claim(j, active) ==
  /\ Takeable(j, active)
  /\ SetRunning(j)
  /\ worker' = {j}
  /\ owed' = owed \ {j}
  /\ UNCHANGED known

\* An exception in between, which is taken for an empty queue: the update may
\* have been committed all the same.
ClaimFails(j, active) ==
  /\ Takeable(j, active)
  /\ SetRunning(j) \/ UNCHANGED <<queued, running>>
  /\ UNCHANGED <<worker, known, owed>>

\* COMPLETED or FAILED, by the id of the row.
Finish(j) ==
  /\ j \in worker
  /\ running' = [running EXCEPT ![j] = @ - 1]
  /\ worker' = {}
  /\ UNCHANGED <<queued, known, owed>>

\* _update_job_execution swallows its error, or the process is stopped: nothing
\* takes up a row that is left RUNNING.
LeaveRunning ==
  /\ worker # {}
  /\ worker' = {}
  /\ UNCHANGED <<queued, running, known, owed>>

QueueInit ==
  /\ queued = [j \in Documents |-> 0]
  /\ running = [j \in Documents |-> 0]
  /\ worker = {}
  /\ known = {}
  /\ owed = {}

QueueTypeOK ==
  /\ queued \in [Documents -> 0..MaxRows]
  /\ running \in [Documents -> Nat]
  /\ worker \subseteq Documents
  /\ known \subseteq Documents
  /\ owed \subseteq Documents
=============================================================================

-------------------------- MODULE ScheduledDocuments --------------------------
(***************************************************************************)
(* Scheduled document jobs: a fire of JobScheduler asks the main           *)
(* application (execute_document_job_api in src/app.py), which puts a row  *)
(* into DocumentQueue unless one is queued already; people put rows there  *)
(* as well, and can switch the document job off.                           *)
(***************************************************************************)
EXTENDS JobScheduler, DocumentQueue

ASSUME SameJobs == Documents = Jobs

VARIABLES
  asking,   \* fires whose request found nothing queued
  loose     \* jobs of such requests whose caller has crashed

requestVars == <<asking, loose>>
vars == <<schedulerVars, queueVars, requestVars>>

Active == {j \in Jobs : target[j] = "on"}

Of(f) == JobOf[f[1]]

\* A slip: a running execution is as good as a queued one.
QueuedOrRunning(j) == queued[j] + running[j] > 0

\* SELECT ... AND Status = 'QUEUED'.
InQueue(j) == Queued(j)

\* 404 without a document job, 409 with a queued row.
Ask(f) ==
  /\ fire[f].pc = "dispatch"
  /\ f \notin asking
  /\ IF target[Of(f)] = "gone"
     THEN Dispatch(f) /\ UNCHANGED <<owed, asking, faults>>
     ELSE /\ owed' = owed \cup {Of(f)}
          /\ IF InQueue(Of(f))
             THEN Dispatch(f) /\ UNCHANGED <<asking, faults>>
             ELSE asking' = asking \cup {f} /\ UNCHANGED schedulerVars
  /\ UNCHANGED <<queued, running, worker, known, loose>>

\* The insert, in the same request but not the same transaction.
Enqueue(f) ==
  /\ f \in asking
  /\ asking' = asking \ {f}
  /\ \/ Dispatch(f) /\ Insert(Of(f)) /\ UNCHANGED faults
     \/ Dispatch(f) /\ Fault /\ UNCHANGED <<queued, known>>
  /\ UNCHANGED <<running, worker, owed, loose>>

\* The requests of an engine that crashes go on without it.
CrashAsking ==
  /\ Crash
  /\ asking' = {}
  /\ loose' = loose \cup {Of(f) : f \in asking}
  /\ UNCHANGED queueVars

EnqueueLoose(j) ==
  /\ j \in loose
  /\ loose' = loose \ {j}
  /\ Insert(j)
  /\ UNCHANGED <<schedulerVars, running, worker, owed, asking>>

\* Run on the job's page: no check.
RunByHand(j) ==
  /\ target[j] # "gone"
  /\ Event
  /\ Insert(j)
  /\ owed' = owed \cup {j}
  /\ UNCHANGED <<rowVars, bookVars, reg, pass, wait, fire, route, faults, history,
                 running, worker, requestVars>>

\* A document job that has run is not deleted but switched off.
SwitchDocuments(j) ==
  /\ \E t \in {"on", "off", "gone"} :
       /\ t = "gone" => j \notin known
       /\ SetTarget(j, t)
  /\ UNCHANGED <<queueVars, requestVars>>

Processor ==
  \E j \in Jobs : Claim(j, Active) \/ Finish(j)

ProcessorFails ==
  /\ Fault
  /\ LeaveRunning \/ \E j \in Jobs : ClaimFails(j, Active)

Init == SchedulerInit /\ QueueInit /\ asking = {} /\ loose = {}

Next ==
  \/ (Clockwork \/ PollFails \/ People) /\ UNCHANGED <<queueVars, requestVars>>
  \/ \E f \in Slots : Ask(f) \/ Enqueue(f)
  \/ \E j \in Jobs : RunByHand(j) \/ SwitchDocuments(j) \/ EnqueueLoose(j)
  \/ CrashAsking
  \/ Processor /\ UNCHANGED <<schedulerVars, requestVars>>
  \/ ProcessorFails
     /\ UNCHANGED <<rowVars, bookVars, reg, pass, wait, fire, route, events, history,
                    requestVars>>

Spec == Init /\ [][Next]_vars

Alone(A) == A /\ UNCHANGED <<queueVars, requestVars>>

\* The scheduler keeps up with its clock, which waits for nothing but what is
\* due; requests are answered, and the queue's process goes on taking rows.
Fairness ==
  /\ WF_vars(Alone(Clockwork) \/ \E f \in Slots : Ask(f) \/ Enqueue(f))
  /\ WF_vars(Processor /\ UNCHANGED <<schedulerVars, requestVars>>)

FairSpec == Spec /\ Fairness

-----------------------------------------------------------------------------
(* Properties.                                                             *)

TypeOK ==
  /\ SchedulerTypeOK
  /\ QueueTypeOK
  /\ asking \subseteq {f \in Slots : fire[f].pc = "dispatch"}
  /\ loose \subseteq Jobs

\* No request is lost: after a fire has asked for a job's documents, or a
\* person has, the queue takes the job up once more, also if the request was
\* refused because of a queued row (execute_document_job_api), unless the
\* document job is switched off or something fails.
EveryAskIsServed ==
  \A j \in Jobs : j \in owed ~> j \notin owed \/ target[j] # "on" \/ faults > 0
=============================================================================

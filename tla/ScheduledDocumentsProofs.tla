----------------------- MODULE ScheduledDocumentsProofs -----------------------
(***************************************************************************)
(* Proofs about the scheduler and the document queue together, for any     *)
(* jobs, schedules, threads and bounds: the types, and that what a pass    *)
(* has found stopped never comes back to memory. The latter needs to say   *)
(* what a pass under way knows of the schedules it found stopped (Dying),  *)
(* whatever people, fires and failures do between its steps.               *)
(***************************************************************************)
EXTENDS ScheduledDocuments, TLAPS

-----------------------------------------------------------------------------
(* Types of the scheduler.                                                 *)

\* The bounds are numbers.
LEMMA Bounds ==
  /\ MaxRuns \in Nat /\ Every \in Nat \ {0}
  /\ MaxFaults \in Nat /\ MaxEvents \in Nat
  /\ JobOf \in [Schedules -> Jobs]
  /\ Documents = Jobs /\ MaxRows \in Nat
BY ScheduleAssumption, SameJobs, QueueAssumption

\* A failure is counted within its bound.
LEMMA FaultType ==
  ASSUME SchedulerTypeOK, Fault
  PROVE  faults' \in 0..MaxFaults
BY Bounds DEF SchedulerTypeOK, Fault

LEMMA EventType ==
  ASSUME SchedulerTypeOK, Event
  PROVE  events' \in 0..MaxEvents
BY Bounds DEF SchedulerTypeOK, Event

\* What APScheduler holds, with nothing in it.
LEMMA NoJobType == NoJob \in JobRows
BY DEF NoJob, JobRows, Found, LongPast

\* What a pass that is at rest, or just begun, remembers.
LEMMA IdleType ==
  ASSUME NEW D \in SUBSET Schedules
  PROVE  /\ Idle \in Passes
         /\ [Idle EXCEPT !.pc = "rows", !.dead = D] \in Passes
         /\ [Idle EXCEPT !.pc = "down"] \in Passes
BY DEF Idle, Passes, Found

\* Dropping schedules keeps the type of APScheduler's memory.
LEMMA ForgetType ==
  ASSUME SchedulerTypeOK, NEW S, ForgetAll(S)
  PROVE  /\ reg' \in [Schedules -> JobRows]
         /\ \A s \in Schedules : reg'[s].live => reg'[s] = reg[s] /\ s \notin S
BY NoJobType DEF SchedulerTypeOK, ForgetAll, NoJob

\* The steps of a pass keep the scheduler's types.
LEMMA PollTypes ==
  ASSUME SchedulerTypeOK, Poll \/ PollFails
  PROVE  SchedulerTypeOK'
<1> USE Bounds
<1>1. CASE PollReaps
  <2>1. pass' \in Passes
    BY <1>1, IdleType DEF PollReaps, Stopped
  <2>2. reg' \in [Schedules -> JobRows]
    BY <1>1, ForgetType DEF PollReaps, SchedulerTypeOK
  <2>3. faults' \in 0..MaxFaults
    BY <1>1, FaultType DEF PollReaps, SchedulerTypeOK
  <2> QED
    BY <1>1, <2>1, <2>2, <2>3
    DEF PollReaps, SchedulerTypeOK, PollEvery, bookVars, history
<1>2. CASE PollReadsRows
  <2>1. pass' \in Passes
    BY <1>2 DEF PollReadsRows, SchedulerTypeOK, Passes
  <2> QED
    BY <1>2, <2>1 DEF PollReadsRows, SchedulerTypeOK, rowVars, bookVars, boundVars, history
<1>3. CASE PollReadsParams
  <2>0. par \in [Jobs -> Found]
    BY DEF SchedulerTypeOK, Found
  <2>1. pass' \in Passes
    BY <1>3, <2>0 DEF PollReadsParams, SchedulerTypeOK, Passes
  <2>2. faults' \in 0..MaxFaults
    BY <1>3, FaultType DEF PollReadsParams, SchedulerTypeOK
  <2> QED
    BY <1>3, <2>1, <2>2 DEF PollReadsParams, SchedulerTypeOK, rowVars, bookVars, history
<1>4. ASSUME NEW s \in Schedules, PollSyncs(s) PROVE SchedulerTypeOK'
  <2> USE <1>4
  <2>1. pass' \in Passes
    <3>1. pass \in Passes /\ pass.rows \ {s} \in SUBSET Schedules
          /\ pass.dead \ {s} \in SUBSET Schedules
      BY DEF SchedulerTypeOK, Passes
    <3>2. /\ [pass EXCEPT !.rows = @ \ {s}] \in Passes
          /\ [pass EXCEPT !.rows = @ \ {s}, !.dead = @ \ {s}] \in Passes
      BY <3>1 DEF Passes
    <3> QED
      BY <3>2 DEF PollSyncs
  <2>2. faults' \in 0..MaxFaults
    BY FaultType DEF PollSyncs, RowIsSpent, Register, SchedulerTypeOK
  <2>3. sched' \in [Schedules -> {"none", "on", "off", "gone"}]
    BY DEF PollSyncs, RowIsSpent, SchedulerTypeOK
  <2>4. ASSUME Register(s) PROVE reg' \in [Schedules -> JobRows]
    <3>1. PICK due \in IF s \in Recurring THEN 1..Every ELSE {start[s]},
               read \in {par[JobOf[s]], NoValue} :
            reg' = [reg EXCEPT ![s] = [due |-> due, args |-> read,
                                       print |-> pass.params[JobOf[s]], live |-> TRUE]]
      BY <2>4 DEF Register
    <3>2. due \in Int /\ read \in Found /\ pass.params[JobOf[s]] \in Found
      BY DEF SchedulerTypeOK, Passes, Found
    <3> QED
      BY <3>1, <3>2 DEF SchedulerTypeOK, JobRows
  <2>5. reg' \in [Schedules -> JobRows]
    BY <2>4, NoJobType DEF PollSyncs, RowIsSpent, Forget, SchedulerTypeOK
  <2> QED
    BY <2>1, <2>2, <2>3, <2>5 DEF PollSyncs, SchedulerTypeOK, bookVars, history
<1>5. CASE PollDropsInactive
  <2>1. pass' \in Passes
    BY <1>5 DEF PollDropsInactive, SchedulerTypeOK, Passes
  <2>2. reg' \in [Schedules -> JobRows]
    BY <1>5, ForgetType DEF PollDropsInactive
  <2> QED
    BY <1>5, <2>1, <2>2
    DEF PollDropsInactive, SchedulerTypeOK, rowVars, bookVars, boundVars, history
<1>6. CASE PollDropsOrphans
  <2>1. pass' \in Passes
    BY <1>6, IdleType DEF PollDropsOrphans
  <2>2. reg' \in [Schedules -> JobRows]
    BY <1>6, NoJobType DEF PollDropsOrphans, SchedulerTypeOK
  <2>3. quiet' \subseteq Schedules
    BY <1>6 DEF PollDropsOrphans, SchedulerTypeOK, Passes
  <2> QED
    BY <1>6, <2>1, <2>2, <2>3
    DEF PollDropsOrphans, SchedulerTypeOK, rowVars, bookVars, boundVars
<1>7. CASE PollFails
  <2>1. pass' \in Passes /\ faults' \in 0..MaxFaults
    BY <1>7, IdleType, FaultType DEF PollFails
  <2> QED
    BY <1>7, <2>1 DEF PollFails, SchedulerTypeOK, rowVars, bookVars, history
<1> QED
  BY <1>1, <1>2, <1>3, <1>4, <1>5, <1>6, <1>7 DEF Poll

\* The steps of fires, of the clock and of the process keep the types.
LEMMA FireTypes ==
  ASSUME SchedulerTypeOK,
         \/ \E s \in Schedules : FireDue(s)
         \/ \E f \in Slots : Thread(f) \/ (Dispatch(f) /\ (Fault \/ UNCHANGED faults))
         \/ Tick \/ Crash \/ Restart
  PROVE  SchedulerTypeOK'
<1> USE Bounds
<1>0. /\ NoThread \in Threads
      /\ \A s : [pc |-> FirstStep(s), rec |-> "none"] \in Threads
      /\ [pc |-> "mark", rec |-> "pending"] \in Threads
      /\ \A t \in Threads : /\ [t EXCEPT !.pc = "mark"] \in Threads
                            /\ [t EXCEPT !.pc = "dispatch"] \in Threads
                            /\ [t EXCEPT !.pc = "end"] \in Threads
                            /\ [pc |-> "dispatch", rec |-> t.rec] \in Threads
                            /\ [pc |-> "dispatch", rec |-> "running"] \in Threads
  BY DEF Threads, NoThread, FirstStep
<1>1. ASSUME NEW s \in Schedules, FireDue(s) PROVE SchedulerTypeOK'
  <2>1. [reg[s] EXCEPT !.due = Every] \in JobRows
    BY DEF SchedulerTypeOK, JobRows
  <2>2. reg' \in [Schedules -> JobRows]
    BY <1>1, <2>1, NoJobType DEF FireDue, SchedulerTypeOK
  <2>3. \A i \in Free(s) : <<s, i>> \in Slots
    BY DEF Free, Slots
  <2>4. ASSUME NEW i \in Free(s)
        PROVE  [fire EXCEPT ![<<s, i>>] = [pc |-> FirstStep(s), rec |-> "none"]]
                 \in [Slots -> Threads]
    BY <1>0, <2>3 DEF SchedulerTypeOK
  <2>5. \/ UNCHANGED fire
        \/ \E i \in Free(s) :
             fire' = [fire EXCEPT ![<<s, i>>] = [pc |-> FirstStep(s), rec |-> "none"]]
    BY <1>1 DEF FireDue
  <2>7. fire' \in [Slots -> Threads]
    BY <2>4, <2>5 DEF SchedulerTypeOK
  <2>6. fired' \in [Schedules -> 0..2]
    BY <1>1 DEF FireDue, SchedulerTypeOK
  <2> QED
    BY <1>1, <2>2, <2>6, <2>7 DEF FireDue, SchedulerTypeOK, rowVars, bookVars, boundVars
<1>2. ASSUME NEW f \in Slots, CreateRecord(f) PROVE SchedulerTypeOK'
  <2>0. fire \in [Slots -> Threads] /\ [fire[f] EXCEPT !.pc = "mark"] \in Threads
    BY <1>0 DEF SchedulerTypeOK
  <2>1. fire' \in [Slots -> Threads]
    BY <1>0, <1>2, <2>0 DEF CreateRecord
  <2>2. faults' \in 0..MaxFaults
    BY <1>2, FaultType DEF CreateRecord, SchedulerTypeOK
  <2> QED
    BY <1>2, <2>1, <2>2 DEF CreateRecord, SchedulerTypeOK, rowVars, bookVars, history
<1>3. ASSUME NEW f \in Slots, MarkRunning(f) PROVE SchedulerTypeOK'
  <2>0. /\ fire \in [Slots -> Threads] /\ fire[f] \in Threads
        /\ [pc |-> "dispatch", rec |-> IF fire[f].rec = "pending" THEN "running"
                                       ELSE fire[f].rec] \in Threads
        /\ [fire[f] EXCEPT !.pc = "dispatch"] \in Threads
    BY <1>0 DEF SchedulerTypeOK
  <2>1. fire' \in [Slots -> Threads]
    BY <1>3, <2>0 DEF MarkRunning
  <2>2. faults' \in 0..MaxFaults
    BY <1>3, FaultType DEF MarkRunning, SchedulerTypeOK
  <2> QED
    BY <1>3, <2>1, <2>2 DEF MarkRunning, SchedulerTypeOK, rowVars, bookVars, history
<1>4. ASSUME NEW f \in Slots, EndFire(f) PROVE SchedulerTypeOK'
  <2>1. fire' \in [Slots -> Threads]
    BY <1>0, <1>4 DEF EndFire, SchedulerTypeOK
  <2>2. faults' \in 0..MaxFaults
    BY <1>4, FaultType DEF EndFire, SchedulerTypeOK
  <2>3. f[1] \in Schedules
    BY DEF Slots
  <2>4. runs' \in [Schedules -> 0..MaxRuns] /\ stuck' \subseteq Schedules
    BY <1>4, <2>3 DEF EndFire, CountRun, Abandon, SchedulerTypeOK
  <2> QED
    BY <1>4, <2>1, <2>2, <2>4 DEF EndFire, SchedulerTypeOK, rowVars, history
<1>5. ASSUME NEW f \in Slots, Dispatch(f), Fault \/ UNCHANGED faults PROVE SchedulerTypeOK'
  <2>1. fire' \in [Slots -> Threads]
    BY <1>0, <1>5 DEF Dispatch, SchedulerTypeOK
  <2>2. faults' \in 0..MaxFaults
    BY <1>5, FaultType DEF SchedulerTypeOK
  <2> QED
    BY <1>5, <2>1, <2>2 DEF Dispatch, SchedulerTypeOK, rowVars, bookVars, history
<1>6. CASE Tick
  <2>1. \A s \in Schedules : [reg[s] EXCEPT !.due = @ - 1] \in JobRows
    BY DEF SchedulerTypeOK, JobRows
  <2>2. reg' \in [Schedules -> JobRows]
    BY <1>6, <2>1, NoJobType DEF Tick, SchedulerTypeOK
  <2>3. start' \in [Schedules -> Int]
    BY <1>6 DEF Tick, SchedulerTypeOK
  <2>4. wait' \in 0..PollEvery
    BY <1>6 DEF Tick, SchedulerTypeOK, PollEvery
  <2>5. events' \in 0..MaxEvents
    BY <1>6, EventType DEF Tick, SchedulerTypeOK
  <2>6. UNCHANGED <<job, target, par, sched, limit, bookVars, pass, fire, route, faults,
                    history>>
    BY <1>6 DEF Tick
  <2>7. /\ SchedulerTypeOK
        /\ UNCHANGED <<job, target, par, sched, limit, runs, stuck, pass, fire, route, faults>>
        /\ UNCHANGED <<fired, asked, had, back, quiet>>
    BY <2>6 DEF bookVars, history
  <2> QED
    BY <2>2, <2>3, <2>4, <2>5, <2>7 DEF SchedulerTypeOK
<1>7. CASE Crash
  <2>0. pass' \in Passes
    BY <1>7, IdleType DEF Crash
  <2>1. faults' \in 0..MaxFaults
    BY <1>7, FaultType DEF Crash
  <2>2. fire' \in [Slots -> Threads] /\ reg' \in [Schedules -> JobRows]
    BY <1>0, <1>7, NoJobType DEF Crash
  <2>3. \A f \in Slots : f[1] \in Schedules
    BY DEF Slots
  <2>4. stuck' \subseteq Schedules
    BY <1>7, <2>3 DEF Crash, Abandon, SchedulerTypeOK
  <2> QED
    BY <1>7, <2>0, <2>1, <2>2, <2>4 DEF Crash, SchedulerTypeOK, rowVars, history
<1>8. CASE Restart
  <2>1. pass' \in Passes
    BY <1>8, IdleType DEF Restart
  <2> QED
    BY <1>8, <2>1
    DEF Restart, SchedulerTypeOK, PollEvery, rowVars, bookVars, boundVars, history
<1> QED
  BY <1>1, <1>2, <1>3, <1>4, <1>5, <1>6, <1>7, <1>8 DEF Thread

\* The routes keep the types.
LEMMA PeopleTypes ==
  ASSUME SchedulerTypeOK, People
  PROVE  SchedulerTypeOK'
<1> USE Bounds
<1>1. ASSUME NEW j \in Jobs, SwitchJob(j) PROVE SchedulerTypeOK'
  BY <1>1, EventType DEF SwitchJob, SchedulerTypeOK, bookVars, history
<1>2. ASSUME NEW j \in Jobs, DeleteJob(j) PROVE SchedulerTypeOK'
  BY <1>2, EventType DEF DeleteJob, SchedulerTypeOK, bookVars, history
<1>3. ASSUME NEW j \in Jobs, NEW v \in Values, EditParams(j, v) PROVE SchedulerTypeOK'
  <2>1. had' \in [Jobs -> SUBSET Values] /\ back' \subseteq Jobs
    BY <1>3 DEF EditParams, SchedulerTypeOK
  <2> QED
    BY <1>3, <2>1, EventType DEF EditParams, SchedulerTypeOK, bookVars
<1>4. ASSUME NEW s \in Schedules, SwitchSchedule(s) PROVE SchedulerTypeOK'
  <2>1. pass' \in Passes
    BY <1>4 DEF SwitchSchedule, SchedulerTypeOK, Passes
  <2> QED
    BY <1>4, <2>1, EventType DEF SwitchSchedule, SchedulerTypeOK, bookVars
<1>5. ASSUME NEW s \in Schedules, NEW n \in 0..MaxRuns, SetLimit(s, n) PROVE SchedulerTypeOK'
  <2>1. pass' \in Passes
    BY <1>5 DEF SetLimit, SchedulerTypeOK, Passes
  <2> QED
    BY <1>5, <2>1, EventType DEF SetLimit, SchedulerTypeOK, bookVars
<1>6. ASSUME NEW s \in Schedules, DeleteSchedule(s) PROVE SchedulerTypeOK'
  BY <1>6, EventType DEF DeleteSchedule, SchedulerTypeOK, bookVars, history
<1>7. ASSUME NEW s \in Schedules, RunOnce(s) PROVE SchedulerTypeOK'
  BY <1>7, EventType DEF RunOnce, SchedulerTypeOK, bookVars, Lead
<1>8. ASSUME NEW s \in Schedules, RunNow(s) PROVE SchedulerTypeOK'
  <2>1. route' \in Routes
    BY <1>8 DEF RunNow, Routes
  <2> QED
    BY <1>8, <2>1, EventType DEF RunNow, SchedulerTypeOK, bookVars, history
<1>9. CASE RunNowRecords
  <2>1. route' \in Routes
    BY <1>9 DEF RunNowRecords, SchedulerTypeOK, Routes, NoRoute
  <2> QED
    BY <1>9, <2>1, FaultType DEF RunNowRecords, SchedulerTypeOK, rowVars, bookVars, history
<1>10. CASE RunNowFinishes
  <2>1. route' \in Routes /\ stuck' \subseteq Schedules
    BY <1>10 DEF RunNowFinishes, SchedulerTypeOK, Routes, NoRoute
  <2> QED
    BY <1>10, <2>1, FaultType DEF RunNowFinishes, SchedulerTypeOK, rowVars, history
<1> QED
  BY <1>1, <1>2, <1>3, <1>4, <1>5, <1>6, <1>7, <1>8, <1>9, <1>10 DEF People

-----------------------------------------------------------------------------
(* Types of the queue and the requests, and the fact they rest on.         *)

\* The row the processor works on is RUNNING.
WorkerRuns == \A j \in worker : running[j] > 0

Requests ==
  /\ asking \subseteq {f \in Slots : fire[f].pc = "dispatch"}
  /\ loose \subseteq Jobs

DocumentsInv == TypeOK /\ WorkerRuns

\* A row that is queued, or set RUNNING, keeps the queue's types.
LEMMA InsertType ==
  ASSUME QueueTypeOK, NEW j \in Jobs, Insert(j)
  PROVE  queued' \in [Documents -> 0..MaxRows] /\ known' \subseteq Documents
BY Bounds DEF QueueTypeOK, Insert

LEMMA SetRunningType ==
  ASSUME QueueTypeOK, WorkerRuns, NEW j \in Jobs, Queued(j), SetRunning(j)
  PROVE  /\ queued' \in [Documents -> 0..MaxRows] /\ running' \in [Documents -> Nat]
         /\ running'[j] > 0 /\ \A i \in worker : running'[i] > 0
BY Bounds DEF QueueTypeOK, SetRunning, Queued, WorkerRuns

\* The steps of the processor, failing ones included.
LEMMA ProcessorTypes ==
  ASSUME QueueTypeOK, WorkerRuns,
         \/ Processor
         \/ LeaveRunning
         \/ \E j \in Jobs : ClaimFails(j, Active)
  PROVE  QueueTypeOK' /\ WorkerRuns'
<1> USE Bounds
<1>1. ASSUME NEW j \in Jobs, Claim(j, Active) PROVE QueueTypeOK' /\ WorkerRuns'
  <2>1. Queued(j) /\ SetRunning(j)
    BY <1>1 DEF Claim, Takeable
  <2> QED
    BY <1>1, <2>1, SetRunningType DEF Claim, QueueTypeOK, WorkerRuns
<1>2. ASSUME NEW j \in Jobs, ClaimFails(j, Active) PROVE QueueTypeOK' /\ WorkerRuns'
  <2>1. Queued(j)
    BY <1>2 DEF ClaimFails, Takeable
  <2> QED
    BY <1>2, <2>1, SetRunningType DEF ClaimFails, QueueTypeOK, WorkerRuns
<1>3. ASSUME NEW j \in Jobs, Finish(j) PROVE QueueTypeOK' /\ WorkerRuns'
  BY <1>3 DEF Finish, QueueTypeOK, WorkerRuns
<1>4. CASE LeaveRunning
  BY <1>4 DEF LeaveRunning, QueueTypeOK, WorkerRuns
<1> QED
  BY <1>1, <1>2, <1>3, <1>4 DEF Processor

\* A step of the scheduler leaves the fires that ask where they are.
LEMMA AskersStay ==
  ASSUME SchedulerTypeOK, Requests, UNCHANGED requestVars,
         Clockwork \/ PollFails \/ People
  PROVE  Requests'
<1>1. ASSUME NEW f \in asking, fire'[f] = fire[f] PROVE fire'[f].pc = "dispatch"
  BY <1>1 DEF Requests
<1>2. \A f \in asking : f \in Slots /\ fire[f].pc = "dispatch"
  BY DEF Requests
<1>3. ASSUME UNCHANGED fire PROVE Requests'
  BY <1>3 DEF Requests, requestVars
<1>4. ASSUME NEW f \in Slots, Thread(f) PROVE Requests'
  <2>1. f \notin asking
    BY <1>2, <1>4 DEF Thread, CreateRecord, MarkRunning, EndFire
  <2>2. \A g \in asking : fire'[g] = fire[g]
    BY <1>2, <1>4, <2>1 DEF Thread, CreateRecord, MarkRunning, EndFire, SchedulerTypeOK
  <2> QED
    BY <2>2 DEF Requests, requestVars
<1>5. ASSUME NEW s \in Schedules, FireDue(s) PROVE Requests'
  <2>1. \/ UNCHANGED fire
        \/ \E i \in Free(s) :
             fire' = [fire EXCEPT ![<<s, i>>] = [pc |-> FirstStep(s), rec |-> "none"]]
    BY <1>5 DEF FireDue
  <2>2. \A i \in Free(s) : <<s, i>> \notin asking
    BY <1>2 DEF Free
  <2>3. \A g \in asking : fire'[g] = fire[g]
    BY <1>2, <2>1, <2>2 DEF SchedulerTypeOK
  <2> QED
    BY <2>3 DEF Requests, requestVars
<1>6. ASSUME Poll \/ PollFails \/ People \/ Tick \/ Restart PROVE UNCHANGED fire
  BY <1>6
  DEF Poll, PollReaps, PollReadsRows, PollReadsParams, PollSyncs, PollDropsInactive,
      PollDropsOrphans, PollFails, People, SwitchJob, DeleteJob, EditParams, SwitchSchedule,
      DeleteSchedule, RunOnce, RunNow, SetLimit, RunNowRecords, RunNowFinishes, Tick, Restart
<1> QED
  BY <1>3, <1>4, <1>5, <1>6 DEF Clockwork

\* Only events and failures are counted.
LEMMA CountersTypes ==
  ASSUME SchedulerTypeOK, UNCHANGED <<rowVars, bookVars, reg, pass, wait, fire, route, history>>,
         \/ Event /\ UNCHANGED faults
         \/ Fault /\ UNCHANGED events
  PROVE  SchedulerTypeOK'
BY FaultType, EventType DEF SchedulerTypeOK, rowVars, bookVars, history

\* Nothing of the scheduler changes.
LEMMA SchedulerStays ==
  ASSUME SchedulerTypeOK, UNCHANGED schedulerVars
  PROVE  SchedulerTypeOK'
BY DEF SchedulerTypeOK, schedulerVars, rowVars, bookVars, boundVars, history

\* The scheduler's part of a step of the whole.
SchedulerStep ==
  \/ Clockwork \/ PollFails \/ People
  \/ Crash
  \/ \E f \in Slots : Dispatch(f) /\ (Fault \/ UNCHANGED faults)
  \/ \E j \in Jobs : \E t \in {"on", "off", "gone"} : SetTarget(j, t)
  \/ /\ UNCHANGED <<rowVars, bookVars, reg, pass, wait, fire, route, history>>
     /\ \/ Event /\ UNCHANGED faults
        \/ Fault /\ UNCHANGED events
  \/ UNCHANGED schedulerVars

LEMMA StepsOfScheduler == ASSUME [Next]_vars PROVE SchedulerStep
<1>1. ASSUME NEW f \in Slots, Ask(f) \/ Enqueue(f) PROVE SchedulerStep
  BY <1>1 DEF Ask, Enqueue, SchedulerStep
<1>2. ASSUME NEW j \in Jobs, RunByHand(j) \/ SwitchDocuments(j) \/ EnqueueLoose(j)
      PROVE  SchedulerStep
  BY <1>2 DEF RunByHand, SwitchDocuments, EnqueueLoose, SchedulerStep
<1>3. CASE CrashAsking
  BY <1>3 DEF CrashAsking, SchedulerStep
<1>4. CASE Processor /\ UNCHANGED <<schedulerVars, requestVars>>
  BY <1>4 DEF SchedulerStep
<1>5. CASE ProcessorFails /\ UNCHANGED <<rowVars, bookVars, reg, pass, wait, fire, route,
                                         events, history, requestVars>>
  BY <1>5 DEF ProcessorFails, SchedulerStep
<1>6. CASE UNCHANGED vars
  BY <1>6 DEF vars, SchedulerStep
<1>7. CASE (Clockwork \/ PollFails \/ People) /\ UNCHANGED <<queueVars, requestVars>>
  BY <1>7 DEF SchedulerStep
<1> QED
  BY <1>1, <1>2, <1>3, <1>4, <1>5, <1>6, <1>7 DEF Next

LEMMA SchedulerTypes ==
  ASSUME SchedulerTypeOK, SchedulerStep
  PROVE  SchedulerTypeOK'
<1>1. CASE Clockwork
  BY <1>1, PollTypes, FireTypes DEF Clockwork
<1>2. CASE Crash \/ \E f \in Slots : Dispatch(f) /\ (Fault \/ UNCHANGED faults)
  BY <1>2, FireTypes
<1>3. ASSUME NEW j \in Jobs, NEW t \in {"on", "off", "gone"}, SetTarget(j, t)
      PROVE  SchedulerTypeOK'
  BY <1>3, EventType DEF SetTarget, SchedulerTypeOK, bookVars, history
<1> QED
  BY <1>1, <1>2, <1>3, PollTypes, PeopleTypes, CountersTypes, SchedulerStays DEF SchedulerStep

\* The steps of the requests and of the queue.
LEMMA QueueTypes ==
  ASSUME DocumentsInv, [Next]_vars
  PROVE  QueueTypeOK' /\ WorkerRuns' /\ Requests'
<1> USE Bounds
<1>0. SchedulerTypeOK /\ QueueTypeOK /\ WorkerRuns /\ Requests
  BY DEF DocumentsInv, TypeOK, Requests
<1>1. CASE (Clockwork \/ PollFails \/ People) /\ UNCHANGED <<queueVars, requestVars>>
  BY <1>0, <1>1, AskersStay DEF QueueTypeOK, WorkerRuns, queueVars
<1>2. ASSUME NEW f \in Slots, Ask(f) PROVE QueueTypeOK' /\ WorkerRuns' /\ Requests'
  <2>1. JobOf[f[1]] \in Jobs
    BY DEF Slots
  <2>2. QueueTypeOK' /\ WorkerRuns'
    BY <1>0, <1>2, <2>1 DEF Ask, Of, QueueTypeOK, WorkerRuns
  <2>3. fire[f].pc = "dispatch" /\ f \notin asking /\ UNCHANGED loose
    BY <1>2 DEF Ask
  <2>4. \/ UNCHANGED fire /\ asking' = asking \cup {f}
        \/ Dispatch(f) /\ UNCHANGED asking
    BY <1>2 DEF Ask, schedulerVars
  <2>5. \A g \in asking : fire'[g] = fire[g]
    BY <1>0, <2>3, <2>4 DEF Dispatch, Requests, SchedulerTypeOK
  <2> QED
    BY <1>0, <2>2, <2>3, <2>4, <2>5 DEF Requests
<1>3. ASSUME NEW f \in Slots, Enqueue(f) PROVE QueueTypeOK' /\ WorkerRuns' /\ Requests'
  <2>1. JobOf[f[1]] \in Jobs
    BY DEF Slots
  <2>2. QueueTypeOK' /\ WorkerRuns'
    BY <1>0, <1>3, <2>1, InsertType DEF Enqueue, Of, QueueTypeOK, WorkerRuns
  <2>3. Dispatch(f) /\ asking' = asking \ {f} /\ UNCHANGED loose
    BY <1>3 DEF Enqueue
  <2>4. \A g \in asking \ {f} : fire'[g] = fire[g]
    BY <1>0, <2>3 DEF Dispatch, Requests, SchedulerTypeOK
  <2> QED
    BY <1>0, <2>2, <2>3, <2>4 DEF Requests
<1>4. CASE CrashAsking
  <2>1. \A f \in Slots : Of(f) \in Jobs
    BY DEF Slots, Of
  <2> QED
    BY <1>0, <1>4, <2>1 DEF CrashAsking, Requests, QueueTypeOK, WorkerRuns, queueVars
<1>5. ASSUME NEW j \in Jobs, RunByHand(j) PROVE QueueTypeOK' /\ WorkerRuns' /\ Requests'
  BY <1>0, <1>5, InsertType DEF RunByHand, QueueTypeOK, WorkerRuns, Requests, requestVars
<1>6. ASSUME NEW j \in Jobs, SwitchDocuments(j) PROVE QueueTypeOK' /\ WorkerRuns' /\ Requests'
  BY <1>0, <1>6
  DEF SwitchDocuments, SetTarget, QueueTypeOK, WorkerRuns, Requests, queueVars, requestVars
<1>7. ASSUME NEW j \in Jobs, EnqueueLoose(j) PROVE QueueTypeOK' /\ WorkerRuns' /\ Requests'
  BY <1>0, <1>7, InsertType DEF EnqueueLoose, QueueTypeOK, WorkerRuns, Requests, schedulerVars
<1>8. CASE Processor /\ UNCHANGED <<schedulerVars, requestVars>>
  BY <1>0, <1>8, ProcessorTypes DEF Requests, schedulerVars, requestVars
<1>9. CASE ProcessorFails /\ UNCHANGED <<rowVars, bookVars, reg, pass, wait, fire, route,
                                         events, history, requestVars>>
  BY <1>0, <1>9, ProcessorTypes DEF ProcessorFails, Requests, requestVars
<1>10. CASE UNCHANGED vars
  BY <1>0, <1>10
  DEF vars, schedulerVars, queueVars, requestVars, QueueTypeOK, WorkerRuns, Requests
<1> QED
  BY <1>1, <1>2, <1>3, <1>4, <1>5, <1>6, <1>7, <1>8, <1>9, <1>10 DEF Next

LEMMA DocumentsInit == Init => DocumentsInv
<1> SUFFICES ASSUME Init PROVE DocumentsInv
  OBVIOUS
<1>1. (CHOOSE v \in Values : TRUE) \in Values
  BY ScheduleAssumption
<1>2. SchedulerTypeOK
  <2>1. /\ job \in [Jobs -> {"on", "off", "gone"}]
        /\ target \in [Jobs -> {"on", "off", "gone"}]
        /\ par \in [Jobs -> Values]
        /\ sched \in [Schedules -> {"none", "on", "off", "gone"}]
        /\ start \in [Schedules -> Int]
    BY <1>1 DEF Init, SchedulerInit
  <2>2. /\ limit \in [Schedules -> 0..MaxRuns]
        /\ runs \in [Schedules -> 0..MaxRuns]
        /\ fired \in [Schedules -> 0..2]
        /\ events \in 0..MaxEvents /\ faults \in 0..MaxFaults
        /\ wait \in 0..PollEvery
    BY Bounds DEF Init, SchedulerInit, PollEvery
  <2>3. /\ stuck \subseteq Schedules /\ asked \subseteq Schedules
        /\ back \subseteq Jobs /\ quiet \subseteq Schedules
    BY DEF Init, SchedulerInit
  <2>4. had \in [Jobs -> SUBSET Values]
    BY <2>1 DEF Init, SchedulerInit
  <2>5. reg \in [Schedules -> JobRows] /\ pass \in Passes
    BY NoJobType, IdleType DEF Init, SchedulerInit
  <2>6. fire \in [Slots -> Threads] /\ route \in Routes
    BY DEF Init, SchedulerInit, NoThread, Threads, NoRoute, Routes
  <2> QED
    BY <2>1, <2>2, <2>3, <2>4, <2>5, <2>6 DEF SchedulerTypeOK
<1>3. QueueTypeOK /\ WorkerRuns
  BY Bounds DEF Init, QueueInit, QueueTypeOK, WorkerRuns
<1> QED
  BY <1>2, <1>3 DEF Init, DocumentsInv, TypeOK

\* Every variable of the scheduler, the queue and the requests between them
\* keeps its type: no row is taken that is not queued, none is finished that is
\* not RUNNING, and only a fire that has come to its call is in a request
\* (_get_next_job_from_queue, execute_document_job_api).
THEOREM DocumentsTypeCorrect == Spec => []TypeOK
<1>1. DocumentsInv /\ [Next]_vars => DocumentsInv'
  BY StepsOfScheduler, SchedulerTypes, QueueTypes DEF DocumentsInv, TypeOK, Requests
<1>2. DocumentsInv => TypeOK
  BY DEF DocumentsInv
<1> QED
  BY <1>1, <1>2, DocumentsInit, PTL DEF Spec

-----------------------------------------------------------------------------
(* What is stopped stays stopped.                                          *)

\* The row of s is off, deleted or at its limit.
Off(s) ==
  \/ sched[s] \in {"off", "gone"}
  \/ sched[s] = "on" /\ limit[s] > 0 /\ runs[s] >= limit[s]

\* A pass that has read the row of s will switch it off, not register it.
NotRegistered(s) == pass.pc \in {"params", "sync"} /\ s \in pass.rows => s \in pass.spent

\* What holds of a schedule once it is quiet ...
Quiet(s) == Off(s) /\ ~reg[s].live /\ NotRegistered(s)

\* ... and of one the pass under way found stopped: what later steps of the
\* pass will drop from memory, and what has been dropped by now.
Dying(s) ==
  /\ Off(s)
  /\ NotRegistered(s)
  /\ pass.pc = "rows" => sched[s] \in {"off", "gone"}
  /\ pass.pc \in {"params", "sync"} /\ sched[s] = "on" => s \in pass.rows \/ ~reg[s].live
  /\ pass.pc = "orphans" /\ sched[s] \in {"on", "off"} => ~reg[s].live

StoppedInv ==
  /\ \A s \in quiet : Quiet(s)
  /\ \A s \in pass.dead : Dying(s)

\* A step that leaves the pass where it is, or ends it, keeps all that, as long
\* as it neither revives nor registers a schedule that stays in the books.
LEMMA Calm ==
  ASSUME SchedulerTypeOK, StoppedInv,
         quiet' \subseteq quiet,
         \/ pass'.dead = {} /\ pass'.pc \in {"idle", "down"}
         \/ /\ pass'.dead \subseteq pass.dead /\ pass'.pc = pass.pc
            /\ pass'.rows = pass.rows /\ pass'.spent = pass.spent,
         \A s \in quiet' \cup pass'.dead :
           /\ sched[s] # "none" => sched'[s] \in {sched[s], "gone"}
           /\ limit'[s] = limit[s]
           /\ runs'[s] \in Int /\ runs'[s] >= runs[s]
           /\ reg'[s].live => reg[s].live
  PROVE  StoppedInv'
<1>1. \A s \in quiet : s \in Schedules
  BY DEF SchedulerTypeOK
<1>2. \A s \in pass.dead : s \in Schedules
  BY DEF SchedulerTypeOK, Passes
<1>3. ASSUME NEW s \in Schedules, s \in quiet' \cup pass'.dead, Off(s) PROVE Off(s)'
  BY <1>3 DEF Off, SchedulerTypeOK
<1>4. ASSUME NEW s \in quiet' PROVE Quiet(s)'
  <2>1. Quiet(s) /\ s \in Schedules
    BY <1>1 DEF StoppedInv
  <2> QED
    BY <1>3, <2>1 DEF Quiet, NotRegistered
<1>5. ASSUME NEW s \in pass'.dead PROVE Dying(s)'
  <2>1. Dying(s) /\ s \in Schedules
    BY <1>2 DEF StoppedInv
  <2>2. Off(s)' /\ sched[s] # "none" /\ (sched'[s] = sched[s] \/ sched'[s] = "gone")
    BY <1>3, <2>1 DEF Dying, Off
  <2>3. reg'[s].live => reg[s].live
    OBVIOUS
  <2> QED
    BY <2>1, <2>2, <2>3 DEF Dying, NotRegistered
<1> QED
  BY <1>4, <1>5 DEF StoppedInv

\* Steps of a pass. A row whose switching-off fails stays at its limit, out of
\* memory; a row that raises is taken off the pass's books.
LEMMA PollStops ==
  ASSUME SchedulerTypeOK, StoppedInv, Poll
  PROVE  StoppedInv'
<1>1. CASE PollReaps
  <2>1. \A s \in quiet : s \in Schedules /\ Quiet(s)
    BY DEF SchedulerTypeOK, StoppedInv
  <2>2. pass'.pc = "rows" /\ pass'.dead = Stopped /\ UNCHANGED <<quiet, limit, runs>>
    BY <1>1 DEF PollReaps, Idle, rowVars, bookVars, history
  <2>3. \A s \in Schedules : /\ sched'[s] \in {sched[s], "gone"}
                             /\ reg'[s].live => reg[s].live
    BY <1>1, ForgetType DEF PollReaps, SchedulerTypeOK
  <2>4. ASSUME NEW s \in quiet PROVE Quiet(s)'
    BY <2>1, <2>2, <2>3 DEF Quiet, Off, NotRegistered
  <2>5. ASSUME NEW s \in Stopped PROVE Dying(s)'
    <3>1. s \in Schedules /\ sched'[s] \in {"off", "gone"}
      BY <2>3 DEF Stopped
    <3> QED
      BY <2>2, <3>1 DEF Dying, Off, NotRegistered
  <2> QED
    BY <2>2, <2>4, <2>5 DEF StoppedInv
<1>2. CASE PollReadsRows
  <2> DEFINE active == {s \in Schedules : sched[s] = "on" /\ job[JobOf[s]] = "on"}
             spent  == {s \in active : limit[s] > 0 /\ runs[s] >= limit[s]}
  <2>1. /\ pass'.pc = "params" /\ pass'.rows = active /\ pass'.spent = spent
        /\ pass'.dead = pass.dead \cup spent
        /\ UNCHANGED <<quiet, sched, limit, runs, reg>>
    BY <1>2 DEF PollReadsRows, SchedulerTypeOK, Passes, rowVars, bookVars, history
  <2>2. \A s \in Schedules : Off(s) /\ s \in active => s \in spent
    BY DEF Off
  <2>3. ASSUME NEW s \in quiet PROVE Quiet(s)'
    <3>1. s \in Schedules /\ Quiet(s)
      BY DEF SchedulerTypeOK, StoppedInv
    <3> QED
      BY <2>1, <2>2, <3>1 DEF Quiet, Off, NotRegistered
  <2>4. ASSUME NEW s \in pass.dead PROVE Dying(s)'
    <3>1. s \in Schedules /\ Dying(s) /\ sched[s] \in {"off", "gone"}
      BY <1>2 DEF SchedulerTypeOK, Passes, StoppedInv, Dying, PollReadsRows
    <3> QED
      BY <2>1, <3>1 DEF Dying, Off, NotRegistered
  <2>5. ASSUME NEW s \in spent PROVE Dying(s)'
    BY <2>1 DEF Dying, Off, NotRegistered
  <2> HIDE DEF spent
  <2> QED
    BY <2>1, <2>3, <2>4, <2>5 DEF StoppedInv
<1>3. CASE PollReadsParams
  <2>1. /\ pass.pc = "params" /\ pass'.pc = "sync" /\ pass'.rows = pass.rows
        /\ pass'.spent = pass.spent /\ pass'.dead = pass.dead
        /\ UNCHANGED <<quiet, sched, limit, runs, reg>>
    BY <1>3 DEF PollReadsParams, SchedulerTypeOK, Passes, rowVars, bookVars, history
  <2> QED
    BY <2>1 DEF StoppedInv, Quiet, Dying, Off, NotRegistered
<1>4. ASSUME NEW t \in Schedules, PollSyncs(t) PROVE StoppedInv'
  <2>0. /\ pass \in Passes /\ pass.pc = "sync" /\ t \in pass.rows
        /\ \/ pass' = [pass EXCEPT !.rows = @ \ {t}]
           \/ /\ pass' = [pass EXCEPT !.rows = @ \ {t}, !.dead = @ \ {t}]
              /\ reg' = reg
    BY <1>4 DEF PollSyncs, SchedulerTypeOK
  <2>1. /\ pass.pc = "sync" /\ pass'.pc = "sync" /\ t \in pass.rows
        /\ pass'.rows = pass.rows \ {t} /\ pass'.spent = pass.spent
        /\ pass'.dead \subseteq pass.dead
        /\ UNCHANGED <<quiet, limit, runs>>
    BY <1>4, <2>0 DEF PollSyncs, Passes, bookVars, history
  <2>2. \A s \in Schedules : \/ sched'[s] = sched[s]
                             \/ s = t /\ sched[s] = "on" /\ sched'[s] = "off"
    BY <1>4 DEF PollSyncs, RowIsSpent, SchedulerTypeOK
  <2>3. \A s \in Schedules : s # t => reg'[s] = reg[s]
    BY <1>4 DEF PollSyncs, RowIsSpent, Forget, Register, SchedulerTypeOK
  <2>4. t \in pass.spent => ~reg'[t].live \/ (reg' = reg /\ t \notin pass'.dead)
    <3>1. CASE RowIsSpent(t)
      BY <3>1 DEF RowIsSpent, Forget, SchedulerTypeOK, NoJob
    <3>2. CASE reg' = reg /\ pass' = [pass EXCEPT !.rows = @ \ {t}, !.dead = @ \ {t}]
      BY <2>0, <3>2 DEF Passes
    <3> QED
      BY <1>4, <3>1, <3>2 DEF PollSyncs
  <2>5. ASSUME NEW s \in quiet PROVE Quiet(s)'
    <3>1. s \in Schedules /\ Quiet(s)
      BY DEF SchedulerTypeOK, StoppedInv
    <3>2. ~reg'[s].live
      BY <2>1, <2>3, <2>4, <3>1 DEF Quiet, NotRegistered
    <3> QED
      BY <2>1, <2>2, <3>1, <3>2 DEF Quiet, Off, NotRegistered
  <2>6. ASSUME NEW s \in pass'.dead PROVE Dying(s)'
    <3>1. s \in Schedules /\ s \in pass.dead /\ Dying(s)
      BY <2>1 DEF SchedulerTypeOK, Passes, StoppedInv
    <3>2. CASE s = t
      <4>1. ~reg'[s].live
        BY <2>1, <2>4, <3>1, <3>2 DEF Dying, NotRegistered
      <4> QED
        BY <2>1, <2>2, <3>1, <4>1 DEF Dying, Off, NotRegistered
    <3>3. CASE s # t
      BY <2>1, <2>2, <2>3, <3>1, <3>3 DEF Dying, Off, NotRegistered
    <3> QED
      BY <3>2, <3>3
  <2> QED
    BY <2>1, <2>5, <2>6 DEF StoppedInv
<1>5. CASE PollDropsInactive
  <2>1. /\ pass.pc = "sync" /\ pass.rows = {} /\ pass'.pc = "orphans"
        /\ pass'.dead = pass.dead /\ UNCHANGED <<quiet, sched, limit, runs>>
    BY <1>5 DEF PollDropsInactive, SchedulerTypeOK, Passes, rowVars, bookVars, history
  <2>2. \A s \in Schedules : /\ reg'[s].live => reg[s].live
                             /\ sched[s] = "off" => ~reg'[s].live
    BY <1>5, ForgetType DEF PollDropsInactive, SwitchedOff, NoJob, SchedulerTypeOK
  <2>3. ASSUME NEW s \in quiet PROVE Quiet(s)'
    <3>1. s \in Schedules /\ Quiet(s)
      BY DEF SchedulerTypeOK, StoppedInv
    <3> QED
      BY <2>1, <2>2, <3>1 DEF Quiet, Off, NotRegistered
  <2>4. ASSUME NEW s \in pass.dead PROVE Dying(s)'
    <3>1. s \in Schedules /\ Dying(s)
      BY DEF SchedulerTypeOK, Passes, StoppedInv
    <3> QED
      BY <2>1, <2>2, <3>1 DEF Dying, Off, NotRegistered
  <2> QED
    BY <2>1, <2>3, <2>4 DEF StoppedInv
<1>6. CASE PollDropsOrphans
  <2>1. /\ pass.pc = "orphans" /\ pass'.pc = "idle" /\ pass'.dead = {}
        /\ quiet' = quiet \cup pass.dead /\ UNCHANGED <<sched, limit, runs>>
    BY <1>6 DEF PollDropsOrphans, Idle, rowVars, bookVars
  <2>2. \A s \in Schedules : /\ reg'[s].live => reg[s].live
                             /\ sched[s] \in {"none", "gone"} => ~reg'[s].live
    BY <1>6 DEF PollDropsOrphans, NoJob
  <2>3. ASSUME NEW s \in quiet \cup pass.dead PROVE Quiet(s)'
    <3>1. s \in Schedules /\ (Quiet(s) \/ Dying(s))
      BY DEF SchedulerTypeOK, Passes, StoppedInv
    <3>2. Off(s) /\ ~reg'[s].live
      BY <2>1, <2>2, <3>1 DEF Quiet, Dying, Off
    <3> QED
      BY <2>1, <3>2 DEF Quiet, Off, NotRegistered
  <2> QED
    BY <2>1, <2>3 DEF StoppedInv
<1> QED
  BY <1>1, <1>2, <1>3, <1>4, <1>5, <1>6 DEF Poll

\* Every other step of the scheduler is calm.
LEMMA OthersStop ==
  ASSUME SchedulerTypeOK, StoppedInv, SchedulerStep, ~Poll
  PROVE  StoppedInv'
<1> DEFINE Calmly ==
      /\ quiet' \subseteq quiet
      /\ \/ pass'.dead = {} /\ pass'.pc \in {"idle", "down"}
         \/ /\ pass'.dead \subseteq pass.dead /\ pass'.pc = pass.pc
            /\ pass'.rows = pass.rows /\ pass'.spent = pass.spent
      /\ \A s \in quiet' \cup pass'.dead :
           /\ sched[s] # "none" => sched'[s] \in {sched[s], "gone"}
           /\ limit'[s] = limit[s]
           /\ runs'[s] \in Int /\ runs'[s] >= runs[s]
           /\ reg'[s].live => reg[s].live
<1>0. /\ \A s \in quiet \cup pass.dead : s \in Schedules /\ runs[s] \in Int
      /\ Idle.dead = {} /\ Idle.pc = "idle" /\ [Idle EXCEPT !.pc = "down"].pc = "down"
      /\ [Idle EXCEPT !.pc = "down"].dead = {} /\ ~NoJob.live
  BY DEF SchedulerTypeOK, Passes, Idle, NoJob
<1>1. ASSUME PollFails \/ Crash \/ Restart PROVE Calmly
  <2>1. pass'.dead = {} /\ pass'.pc \in {"idle", "down"}
    BY <1>0, <1>1 DEF PollFails, Crash, Restart
  <2>2. UNCHANGED <<sched, limit, runs, quiet>>
    BY <1>1 DEF PollFails, Crash, Restart, rowVars, bookVars, history
  <2>3. \A u \in Schedules : reg'[u].live => reg[u].live
    BY <1>0, <1>1 DEF PollFails, Crash, Restart
  <2> QED
    BY <1>0, <2>1, <2>2, <2>3
<1>2. ASSUME NEW s \in Schedules, FireDue(s) PROVE Calmly
  <2>1. \A u \in Schedules : reg'[u].live => reg[u].live
    BY <1>0, <1>2 DEF FireDue, Due, SchedulerTypeOK
  <2> QED
    BY <1>0, <1>2, <2>1 DEF FireDue, rowVars, bookVars
<1>3. ASSUME NEW f \in Slots, CreateRecord(f) \/ MarkRunning(f) \/ Dispatch(f) PROVE Calmly
  BY <1>0, <1>3 DEF CreateRecord, MarkRunning, Dispatch, rowVars, bookVars, history
<1>4. ASSUME NEW f \in Slots, EndFire(f) PROVE Calmly
  <2>1. \A u \in Schedules : runs'[u] \in Int /\ runs'[u] >= runs[u]
    BY <1>4 DEF EndFire, CountRun, SchedulerTypeOK
  <2> QED
    BY <1>0, <1>4, <2>1 DEF EndFire, rowVars, history
<1>5. ASSUME Tick PROVE Calmly
  <2>1. \A u \in Schedules : reg'[u].live => reg[u].live
    BY <1>0, <1>5 DEF Tick, SchedulerTypeOK
  <2> QED
    BY <1>0, <1>5, <2>1 DEF Tick, bookVars, history
<1>6. ASSUME NEW s \in Schedules, SwitchSchedule(s) \/ \E n \in 0..MaxRuns : SetLimit(s, n)
      PROVE  Calmly
  <2>1. /\ pass'.dead = pass.dead \ {s} /\ pass'.pc = pass.pc /\ pass'.rows = pass.rows
        /\ pass'.spent = pass.spent /\ quiet' = quiet \ {s}
    BY <1>6 DEF SwitchSchedule, SetLimit, SchedulerTypeOK, Passes
  <2>2. \A u \in Schedules : u # s => sched'[u] = sched[u] /\ limit'[u] = limit[u]
    BY <1>6 DEF SwitchSchedule, SetLimit, SchedulerTypeOK
  <2>3. UNCHANGED <<runs, reg>>
    BY <1>6 DEF SwitchSchedule, SetLimit, bookVars
  <2> QED
    BY <1>0, <2>1, <2>2, <2>3
<1>7. ASSUME NEW s \in Schedules, DeleteSchedule(s) \/ RunOnce(s) \/ RunNow(s) PROVE Calmly
  <2>1. \A u \in Schedules : sched[u] # "none" => sched'[u] \in {sched[u], "gone"}
    BY <1>7 DEF DeleteSchedule, RunOnce, RunNow, SchedulerTypeOK
  <2>2. UNCHANGED <<limit, runs, reg, pass, quiet>>
    BY <1>7 DEF DeleteSchedule, RunOnce, RunNow, bookVars, history
  <2> QED
    BY <1>0, <2>1, <2>2
<1>8. ASSUME NEW j \in Jobs, DeleteJob(j) PROVE Calmly
  <2>1. \A u \in Schedules : sched'[u] \in {sched[u], "gone"}
    BY <1>8 DEF DeleteJob
  <2>2. UNCHANGED <<limit, runs, reg, pass, quiet>>
    BY <1>8 DEF DeleteJob, bookVars, history
  <2> QED
    BY <1>0, <2>1, <2>2
<1>9. ASSUME NEW j \in Jobs,
             \/ SwitchJob(j) \/ \E v \in Values : EditParams(j, v)
             \/ \E t \in {"on", "off", "gone"} : SetTarget(j, t)
      PROVE  Calmly
  BY <1>0, <1>9 DEF SwitchJob, EditParams, SetTarget, bookVars, history
<1>10. ASSUME RunNowRecords \/ RunNowFinishes PROVE Calmly
  BY <1>0, <1>10 DEF RunNowRecords, RunNowFinishes, rowVars, bookVars, history
<1>11. ASSUME UNCHANGED <<rowVars, bookVars, reg, pass, wait, fire, route, history>> PROVE Calmly
  BY <1>0, <1>11 DEF rowVars, bookVars, history
<1>12. ASSUME UNCHANGED schedulerVars PROVE Calmly
  BY <1>0, <1>12 DEF schedulerVars, rowVars, bookVars, history
<1>13. Calmly
  <2>1. CASE Clockwork
    BY <1>1, <1>2, <1>3, <1>4, <1>5, <2>1 DEF Clockwork, Thread
  <2>2. CASE People
    BY <1>6, <1>7, <1>8, <1>9, <1>10, <2>2 DEF People
  <2> QED
    BY <1>1, <1>3, <1>9, <1>11, <1>12, <2>1, <2>2 DEF SchedulerStep
<1> QED
  BY <1>13, Calm

\* Once a pass has gone through without a failure, a schedule that was off,
\* deleted or at its limit when the pass read it is not in memory any more and
\* never comes back, unless it is switched on again
\* (_update_schedules_from_db).
THEOREM StoppedStays == Spec => []StoppedStaysStopped
<1>1. Init => StoppedInv
  BY DEF Init, SchedulerInit, StoppedInv, Idle
<1>2. DocumentsInv /\ StoppedInv /\ [Next]_vars => DocumentsInv' /\ StoppedInv'
  BY StepsOfScheduler, SchedulerTypes, QueueTypes, PollStops, OthersStop
  DEF DocumentsInv, TypeOK, Requests
<1>3. StoppedInv => StoppedStaysStopped
  BY DEF StoppedInv, Quiet, StoppedStaysStopped
<1> QED
  BY <1>1, <1>2, <1>3, DocumentsInit, PTL DEF Spec
=============================================================================

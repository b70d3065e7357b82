---------------------------- MODULE JobScheduler ----------------------------
(***************************************************************************)
(* The job scheduler (src/job_scheduler.py) and the routes that edit its   *)
(* tables (src/scheduler_routes.py). Schedules are rows; APScheduler keeps *)
(* its own jobs in memory. Once a minute a pass copies rows into memory,   *)
(* in several queries with people's edits between them; due jobs fire in   *)
(* threads that write their history as they go. A tick of the clock is     *)
(* thirty seconds, times are counted from now. What a fired job does is    *)
(* left to Dispatch: ScheduledDocuments says it for document jobs.         *)
(***************************************************************************)
EXTENDS Integers

CONSTANTS
  Jobs,        \* rows of ScheduledJobs
  Schedules,   \* rows of ScheduleDefinitions
  JobOf,       \* the job of a schedule
  Recurring,   \* the interval and cron schedules; the others are of type date
  MaxRuns,     \* bound: the limits people set, and runs that are counted
  Every,       \* the interval of the recurring ones
  Instances,   \* threads one schedule may have at a time (max_instances)
  Values,      \* what a job's parameters may be
  NoValue,     \* the parameters after a failed read: an empty dictionary
  MaxFaults,   \* bound: crashes and failing database calls
  MaxEvents    \* bound: those, edits, and calls that outlast a tick, together

ASSUME ScheduleAssumption ==
  /\ JobOf \in [Schedules -> Jobs]
  /\ Recurring \subseteq Schedules
  /\ MaxRuns \in Nat
  /\ Every \in Nat \ {0}
  /\ Values # {} /\ NoValue \notin Values
  /\ MaxFaults \in Nat /\ MaxEvents \in Nat

PollEvery == 2   \* poll_interval: 60 s

Grace == 2       \* misfire_grace_time: 60 s

LongPast == 3    \* bound: how far back start dates are told apart

\* A slip: run-once starts at once, as run-now does.
NoLead == 0

Lead == 1        \* a run-once row starts in 30 s

VARIABLES
  (* database *)
  job,      \* ScheduledJobs: "on", "off" (IsActive = 0) or "gone"
  target,   \* the row the job is about: "on", "off" or "gone"
  par,      \* the job's parameters
  sched,    \* ScheduleDefinitions: "none" yet, "on", "off" or "gone"
  start,    \* StartDate of a date schedule, in ticks from now
  limit,    \* MaxRuns of a schedule, 0 for none
  runs,     \* CurrentRuns, counted up to MaxRuns
  stuck,    \* schedules with a pending history row nobody will settle
  (* the engine's memory *)
  reg,      \* APScheduler's job of a schedule, with its fingerprint
  pass,     \* the pass under way
  wait,     \* ticks to the next pass
  fire,     \* the threads of fired schedules
  (* the main application *)
  route,    \* a run-now request under way
  events,   \* edits and slow calls so far
  faults,   \* crashes and failing database calls so far
  (* history *)
  fired,    \* how often a run-once row has fired, up to twice
  asked,    \* the run-once rows
  had,      \* the parameters a job has had
  back,     \* jobs whose parameters went back to what they had been
  quiet     \* schedules a whole pass has found off, deleted or at their limit

rowVars   == <<job, target, par, sched, start, limit>>
bookVars  == <<runs, stuck>>
boundVars == <<events, faults>>
history   == <<fired, asked, had, back, quiet>>
schedulerVars == <<rowVars, bookVars, reg, pass, wait, fire, route, boundVars, history>>

Slots    == Schedules \X Instances
NoJob    == [due |-> LongPast, args |-> NoValue, print |-> NoValue, live |-> FALSE]
Idle     == [pc |-> "idle", rows |-> {}, spent |-> {}, params |-> [j \in Jobs |-> NoValue],
             dead |-> {}]
NoThread == [pc |-> "idle", rec |-> "none"]
NoRoute  == [pc |-> "idle", on |-> {}]

Ticks  == (-LongPast)..LongPast
Found  == Values \cup {NoValue}
JobRows == [due : Int, args : Found, print : Found, live : BOOLEAN]
Passes == [pc : {"idle", "rows", "params", "sync", "orphans", "down"},
           rows : SUBSET Schedules, spent : SUBSET Schedules,
           params : [Jobs -> Found], dead : SUBSET Schedules]
Threads == [pc : {"idle", "create", "mark", "dispatch", "end"},
            rec : {"none", "pending", "running"}]
Routes == [pc : {"idle", "record", "finish"}, on : SUBSET Schedules]

Fault   == faults < MaxFaults /\ events + faults < MaxEvents /\ faults' = faults + 1
Event   == events + faults < MaxEvents /\ events' = events + 1
Stopped == {s \in Schedules : sched[s] \in {"off", "gone"}}

\* A schedule with a pending row in ScheduleExecutionHistory.
Pending(s) ==
  \/ s \in stuck
  \/ route.pc = "finish" /\ s \in route.on
  \/ \E i \in Instances : fire[s, i].rec = "pending"

-----------------------------------------------------------------------------
(* A pass of _update_schedules_from_db.                                    *)

\* The reaper: a job whose target row does not exist is deleted with all its
\* schedules. A failure is logged, before or after memory has been cleared, and
\* the pass goes on.
Reaped == {s \in Schedules : job[JobOf[s]] # "gone" /\ target[JobOf[s]] = "gone"}

ForgetAll(S) == reg' = [s \in Schedules |-> IF s \in S THEN NoJob ELSE reg[s]]

PollReaps ==
  /\ pass.pc = "idle"
  /\ wait = 0
  /\ wait' = PollEvery
  /\ \/ /\ job' = [j \in Jobs |-> IF target[j] = "gone" THEN "gone" ELSE job[j]]
        /\ sched' = [s \in Schedules |-> IF s \in Reaped THEN "gone" ELSE sched[s]]
        /\ ForgetAll(Reaped)
        /\ UNCHANGED faults
     \/ /\ Reaped # {}
        /\ Fault
        /\ ForgetAll(Reaped) \/ UNCHANGED reg
        /\ UNCHANGED <<job, sched>>
  /\ pass' = [Idle EXCEPT !.pc = "rows", !.dead = Stopped]
  /\ UNCHANGED <<target, par, start, limit, bookVars, fire, route, events, history>>

\* The rows of active schedules of active jobs, the parameters right after.
PollReadsRows ==
  /\ pass.pc = "rows"
  /\ LET active == {s \in Schedules : sched[s] = "on" /\ job[JobOf[s]] = "on"}
         spent  == {s \in active : limit[s] > 0 /\ runs[s] >= limit[s]}
     IN pass' = [pass EXCEPT !.pc = "params", !.rows = active, !.spent = spent,
                             !.dead = @ \cup spent]
  /\ UNCHANGED <<rowVars, bookVars, reg, wait, fire, route, boundVars, history>>

PollReadsParams ==
  /\ pass.pc = "params"
  /\ \/ pass' = [pass EXCEPT !.pc = "sync", !.params = par] /\ UNCHANGED faults
     \/ pass' = [pass EXCEPT !.pc = "sync"] /\ Fault
  /\ UNCHANGED <<rowVars, bookVars, reg, wait, fire, route, events, history>>

Forget(s) == reg' = [reg EXCEPT ![s] = NoJob]

\* A row at its limit is switched off, if the update gets through.
RowIsSpent(s) ==
  /\ s \in pass.spent
  /\ Forget(s)
  /\ \/ sched' = [sched EXCEPT ![s] = IF @ = "on" THEN "off" ELSE @] /\ UNCHANGED faults
     \/ Fault /\ UNCHANGED sched

\* A slip: a registered job is never looked at again.
Registered(s) == reg[s].live

\* The definition has the fingerprint it was registered with.
Unchanged(s) == reg[s].live /\ reg[s].print = pass.params[JobOf[s]]

\* A date schedule that is long past, or has a pending history row.
LeftAlone(s) ==
  /\ s \notin Recurring
  /\ \/ ~reg[s].live /\ start[s] = -LongPast
     \/ Pending(s)

\* The job gets the parameters as they are read now, the fingerprint of those
\* read when the pass began. An interval may begin anywhere.
Register(s) ==
  \E due \in IF s \in Recurring THEN 1..Every ELSE {start[s]},
     read \in {par[JobOf[s]], NoValue} :
    /\ IF read = NoValue THEN Fault ELSE UNCHANGED faults
    /\ reg' = [reg EXCEPT ![s] = [due |-> due, args |-> read,
                                  print |-> pass.params[JobOf[s]], live |-> TRUE]]

\* One row of the pass; one that raises is skipped.
PollSyncs(s) ==
  /\ pass.pc = "sync"
  /\ s \in pass.rows
  /\ \/ /\ pass' = [pass EXCEPT !.rows = @ \ {s}]
        /\ \/ RowIsSpent(s)
           \/ /\ s \notin pass.spent
              /\ IF Unchanged(s) \/ LeftAlone(s)
                 THEN UNCHANGED <<reg, faults>>
                 ELSE Register(s)
              /\ UNCHANGED sched
     \/ /\ pass' = [pass EXCEPT !.rows = @ \ {s}, !.dead = @ \ {s}]
        /\ Fault
        /\ UNCHANGED <<sched, reg>>
  /\ UNCHANGED <<job, target, par, start, limit, bookVars, wait, fire, route, events, history>>

\* A slip: the job's flag instead of the schedule's.
OfInactiveJobs == {s \in Schedules : job[JobOf[s]] = "off"}

\* WHERE s.IsActive = 0, whatever the job says ...
SwitchedOff == {s \in Schedules : sched[s] = "off"}

PollDropsInactive ==
  /\ pass.pc = "sync"
  /\ pass.rows = {}
  /\ ForgetAll(SwitchedOff)
  /\ pass' = [pass EXCEPT !.pc = "orphans"]
  /\ UNCHANGED <<rowVars, bookVars, wait, fire, route, boundVars, history>>

\* ... and what has no row at all.
PollDropsOrphans ==
  /\ pass.pc = "orphans"
  /\ reg' = [s \in Schedules |-> IF sched[s] \in {"none", "gone"} THEN NoJob ELSE reg[s]]
  /\ pass' = Idle
  /\ quiet' = quiet \cup pass.dead
  /\ UNCHANGED <<rowVars, bookVars, wait, fire, route, boundVars, fired, asked, had,
                 back>>

\* A failing query ends the pass.
PollFails ==
  /\ pass.pc \notin {"idle", "down"}
  /\ Fault
  /\ pass' = Idle
  /\ UNCHANGED <<rowVars, bookVars, reg, wait, fire, route, events, history>>

Poll ==
  \/ PollReaps \/ PollReadsRows \/ PollReadsParams
  \/ \E s \in Schedules : PollSyncs(s)
  \/ PollDropsInactive \/ PollDropsOrphans

-----------------------------------------------------------------------------
(* Fires.                                                                  *)

Due(s) == reg[s].live /\ reg[s].due <= 0

Free(s) == {i \in Instances : fire[s, i].pc = "idle"}

\* A thread writes its history row first; a pass reads those of date schedules
\* only, so that the others are left out.
FirstStep(s) == IF s \in Recurring THEN "dispatch" ELSE "create"

\* APScheduler hands a due job to a thread, unless it is more than its grace
\* late or has no thread left; a date trigger is done with then, another one
\* moves on. Who is late by the grace to the tick may be a moment later still.
FireDue(s) ==
  /\ Due(s)
  /\ reg' = [reg EXCEPT ![s] = IF s \in Recurring THEN [@ EXCEPT !.due = Every] ELSE NoJob]
  /\ \/ /\ -reg[s].due >= Grace \/ Free(s) = {}
        /\ UNCHANGED <<fire, fired>>
     \/ /\ -reg[s].due <= Grace
        /\ \E i \in Free(s) :
             fire' = [fire EXCEPT ![<<s, i>>] = [pc |-> FirstStep(s), rec |-> "none"]]
        /\ fired' = [fired EXCEPT ![s] = IF s \in asked /\ @ < 2 THEN @ + 1 ELSE @]
  /\ UNCHANGED <<rowVars, bookVars, pass, wait, route, boundVars, asked, had, back,
                 quiet>>

\* The job runs without a history row if it cannot be written.
CreateRecord(f) ==
  /\ fire[f].pc = "create"
  /\ \/ fire' = [fire EXCEPT ![f] = [pc |-> "mark", rec |-> "pending"]] /\ UNCHANGED faults
     \/ fire' = [fire EXCEPT ![f].pc = "mark"] /\ Fault
  /\ UNCHANGED <<rowVars, bookVars, reg, pass, wait, route, events, history>>

\* _update_execution_record swallows its errors.
MarkRunning(f) ==
  /\ fire[f].pc = "mark"
  /\ \/ /\ fire' = [fire EXCEPT ![f] =
             [pc |-> "dispatch", rec |-> IF @.rec = "pending" THEN "running" ELSE @.rec]]
        /\ UNCHANGED faults
     \/ fire' = [fire EXCEPT ![f].pc = "dispatch"] /\ Fault
  /\ UNCHANGED <<rowVars, bookVars, reg, pass, wait, route, events, history>>

\* The call to the main application has been answered, or has raised.
Dispatch(f) ==
  /\ fire[f].pc = "dispatch"
  /\ fire' = [fire EXCEPT ![f].pc = "end"]
  /\ UNCHANGED <<rowVars, bookVars, reg, pass, wait, route, events, history>>

Abandon(F) == stuck' = stuck \cup {f[1] : f \in {g \in F : fire[g].rec = "pending"}}

CountRun(s) == runs' = [runs EXCEPT ![s] = IF @ < MaxRuns THEN @ + 1 ELSE @]

\* The record gets its final status, and the run counts whatever the call has
\* answered; each of the two updates can fail.
EndFire(f) ==
  /\ fire[f].pc = "end"
  /\ fire' = [fire EXCEPT ![f] = NoThread]
  /\ \/ CountRun(f[1]) /\ UNCHANGED <<stuck, faults>>
     \/ CountRun(f[1]) /\ Abandon({f}) /\ Fault
     \/ Fault /\ UNCHANGED <<runs, stuck>>
  /\ UNCHANGED <<rowVars, reg, pass, wait, route, events, history>>

Thread(f) == CreateRecord(f) \/ MarkRunning(f) \/ EndFire(f)

\* Thirty seconds pass, once what is due has been started and a pass is over,
\* which is taken to last less; a call to the main application has no timeout
\* and can last.
Tick ==
  /\ pass.pc = "down" \/ (pass.pc = "idle" /\ wait > 0)
  /\ \A s \in Schedules : ~Due(s)
  /\ \A f \in Slots : fire[f].pc \in {"idle", "dispatch"}
  /\ IF \A f \in Slots : fire[f].pc = "idle" THEN UNCHANGED events ELSE Event
  /\ wait' = IF pass.pc = "idle" THEN wait - 1 ELSE wait
  /\ reg' = [s \in Schedules |-> IF reg[s].live THEN [reg[s] EXCEPT !.due = @ - 1] ELSE NoJob]
  /\ start' = [s \in Schedules |->
       IF sched[s] # "none" /\ s \notin Recurring /\ start[s] > -LongPast
       THEN start[s] - 1 ELSE start[s]]
  /\ UNCHANGED <<job, target, par, sched, limit, bookVars, pass, fire, route, faults, history>>

\* The engine's process ends with all it remembers ...
Crash ==
  /\ pass.pc # "down"
  /\ Fault
  /\ pass' = [Idle EXCEPT !.pc = "down"]
  /\ reg' = [s \in Schedules |-> NoJob]
  /\ Abandon(Slots)
  /\ fire' = [f \in Slots |-> NoThread]
  /\ UNCHANGED <<rowVars, runs, wait, route, events, history>>

\* ... and is started again, with its first pass a minute later.
Restart ==
  /\ pass.pc = "down"
  /\ pass' = Idle
  /\ wait' = PollEvery
  /\ UNCHANGED <<rowVars, bookVars, reg, fire, route, boundVars, history>>

-----------------------------------------------------------------------------
(* The routes.                                                             *)

\* PUT /jobs/<id> with is_active: the job's flag and nothing else.
SwitchJob(j) ==
  /\ job[j] # "gone"
  /\ Event
  /\ job' = [job EXCEPT ![j] = IF @ = "on" THEN "off" ELSE "on"]
  /\ UNCHANGED <<target, par, sched, start, limit, bookVars, reg, pass, wait, fire, route, faults,
                 history>>

\* PUT /jobs/<id> with parameters: they are replaced in one commit.
EditParams(j, v) ==
  /\ job[j] # "gone"
  /\ v # par[j]
  /\ Event
  /\ par' = [par EXCEPT ![j] = v]
  /\ had' = [had EXCEPT ![j] = @ \cup {v}]
  /\ back' = IF v \in had[j] THEN back \cup {j} ELSE back
  /\ UNCHANGED <<job, target, sched, start, limit, bookVars, reg, pass, wait, fire, route, faults,
                 fired, asked, quiet>>

\* DELETE /jobs/<id> cascades to its schedules.
DeleteJob(j) ==
  /\ job[j] # "gone"
  /\ Event
  /\ job' = [job EXCEPT ![j] = "gone"]
  /\ sched' = [s \in Schedules |-> IF JobOf[s] = j THEN "gone" ELSE sched[s]]
  /\ UNCHANGED <<target, par, start, limit, bookVars, reg, pass, wait, fire, route, faults, history>>

\* PUT and DELETE of one schedule.
SwitchSchedule(s) ==
  /\ sched[s] \in {"on", "off"}
  /\ Event
  /\ sched' = [sched EXCEPT ![s] = IF @ = "on" THEN "off" ELSE "on"]
  /\ pass' = [pass EXCEPT !.dead = @ \ {s}]
  /\ quiet' = quiet \ {s}
  /\ UNCHANGED <<job, target, par, start, limit, bookVars, reg, wait, fire, route, faults, fired,
                 asked, had, back>>

SetLimit(s, n) ==
  /\ sched[s] \in {"on", "off"}
  /\ n # limit[s]
  /\ Event
  /\ limit' = [limit EXCEPT ![s] = n]
  /\ pass' = [pass EXCEPT !.dead = @ \ {s}]
  /\ quiet' = quiet \ {s}
  /\ UNCHANGED <<job, target, par, sched, start, bookVars, reg, wait, fire, route, faults,
                 fired, asked, had, back>>

DeleteSchedule(s) ==
  /\ sched[s] \in {"on", "off"}
  /\ Event
  /\ sched' = [sched EXCEPT ![s] = "gone"]
  /\ UNCHANGED <<job, target, par, start, limit, bookVars, reg, pass, wait, fire, route, faults,
                 history>>

\* POST /jobs/<id>/run-once: a date row for the engine, of an active job only.
RunOnce(s) ==
  /\ s \notin Recurring
  /\ sched[s] = "none"
  /\ job[JobOf[s]] = "on"
  /\ Event
  /\ sched' = [sched EXCEPT ![s] = "on"]
  /\ start' = [start EXCEPT ![s] = Lead]
  /\ asked' = asked \cup {s}
  /\ UNCHANGED <<job, target, par, limit, bookVars, reg, pass, wait, fire, route, faults, fired, had,
                 back, quiet>>

\* POST /run/<id>: a date row that starts now, committed before its pending
\* history row; the job itself is called by the request.
RunNow(s) ==
  /\ s \notin Recurring
  /\ sched[s] = "none"
  /\ job[JobOf[s]] # "gone"
  /\ route = NoRoute
  /\ Event
  /\ sched' = [sched EXCEPT ![s] = "on"]
  /\ start' = [start EXCEPT ![s] = 0]
  /\ route' = [pc |-> "record", on |-> {s}]
  /\ UNCHANGED <<job, target, par, limit, bookVars, reg, pass, wait, fire, faults, history>>

RunNowRecords ==
  /\ route.pc = "record"
  /\ \/ route' = [route EXCEPT !.pc = "finish"] /\ UNCHANGED faults
     \/ route' = NoRoute /\ Fault
  /\ UNCHANGED <<rowVars, bookVars, reg, pass, wait, fire, events, history>>

RunNowFinishes ==
  /\ route.pc = "finish"
  /\ route' = NoRoute
  /\ \/ UNCHANGED <<stuck, faults>>
     \/ stuck' = stuck \cup route.on /\ Fault
  /\ UNCHANGED <<rowVars, runs, reg, pass, wait, fire, events, history>>

\* The target is deleted, or switched off, in its own part of the application.
SetTarget(j, t) ==
  /\ target[j] \notin {t, "gone"}
  /\ Event
  /\ target' = [target EXCEPT ![j] = t]
  /\ UNCHANGED <<job, par, sched, start, limit, bookVars, reg, pass, wait, fire, route, faults,
                 history>>

People ==
  \/ \E j \in Jobs : SwitchJob(j) \/ DeleteJob(j) \/ \E v \in Values : EditParams(j, v)
  \/ \E s \in Schedules : SwitchSchedule(s) \/ DeleteSchedule(s) \/ RunOnce(s) \/ RunNow(s)
  \/ \E s \in Schedules, n \in 0..MaxRuns : SetLimit(s, n)
  \/ RunNowRecords \/ RunNowFinishes

-----------------------------------------------------------------------------
\* Recurring schedules exist from the start, date rows are made by requests.
SchedulerInit ==
  /\ job = [j \in Jobs |-> "on"]
  /\ target = [j \in Jobs |-> "on"]
  /\ par = [j \in Jobs |-> CHOOSE v \in Values : TRUE]
  /\ sched = [s \in Schedules |-> IF s \in Recurring THEN "on" ELSE "none"]
  /\ start = [s \in Schedules |-> 0]
  /\ limit = [s \in Schedules |-> 0]
  /\ runs = [s \in Schedules |-> 0]
  /\ stuck = {}
  /\ reg = [s \in Schedules |-> NoJob]
  /\ pass = Idle
  /\ wait = PollEvery
  /\ fire = [f \in Slots |-> NoThread]
  /\ route = NoRoute
  /\ events = 0
  /\ faults = 0
  /\ fired = [s \in Schedules |-> 0]
  /\ asked = {}
  /\ had = [j \in Jobs |-> {par[j]}]
  /\ back = {}
  /\ quiet = {}

Clockwork ==
  \/ Poll \/ Tick \/ Restart
  \/ \E s \in Schedules : FireDue(s)
  \/ \E f \in Slots : Thread(f)

SchedulerNext ==
  \/ Clockwork \/ PollFails \/ Crash \/ People
  \/ \E f \in Slots : Dispatch(f) /\ (Fault \/ UNCHANGED faults)
  \/ \E j \in Jobs : \E t \in {"on", "off", "gone"} : SetTarget(j, t)

SchedulerSpec == SchedulerInit /\ [][SchedulerNext]_schedulerVars

-----------------------------------------------------------------------------
(* Properties.                                                             *)

SchedulerTypeOK ==
  /\ job \in [Jobs -> {"on", "off", "gone"}]
  /\ target \in [Jobs -> {"on", "off", "gone"}]
  /\ par \in [Jobs -> Values]
  /\ sched \in [Schedules -> {"none", "on", "off", "gone"}]
  /\ start \in [Schedules -> Int]
  /\ limit \in [Schedules -> 0..MaxRuns]
  /\ runs \in [Schedules -> 0..MaxRuns]
  /\ stuck \subseteq Schedules
  /\ reg \in [Schedules -> JobRows]
  /\ pass \in Passes
  /\ wait \in 0..PollEvery
  /\ fire \in [Slots -> Threads]
  /\ route \in Routes
  /\ events \in 0..MaxEvents
  /\ faults \in 0..MaxFaults
  /\ fired \in [Schedules -> 0..2]
  /\ asked \subseteq Schedules
  /\ had \in [Jobs -> SUBSET Values]
  /\ back \subseteq Jobs
  /\ quiet \subseteq Schedules

\* Once a pass has gone through without a failure, a schedule that was off,
\* deleted or at its limit when the pass read it is not in memory any more and
\* never comes back, unless it is switched on again: not by a row read before
\* the edit, a run still going, or a restart (_update_schedules_from_db).
StoppedStaysStopped == \A s \in quiet : ~reg[s].live

\* A run-once row "cannot double-fire" (the docstring of queue_job_run_once).
\* It does: the row a pass registers ahead of its time fires, stays active with
\* its limit unset, and the next pass finds it within its grace, not registered
\* and not pending any more (_update_schedules_from_db).
OnceFiresOnce == \A s \in asked : fired[s] <= 1

\* What APScheduler holds follows the parameters in the database, although
\* they are read twice, unless the database failed, the job is paused or an
\* edit was taken back (_definition_fingerprint, _get_job_parameters).
EditsReachEngine ==
  []<>(\/ faults > 0
       \/ \A s \in Schedules : LET j == JobOf[s] IN
            ~reg[s].live \/ reg[s].args = par[j] \/ job[j] = "off" \/ j \in back)

\* A run that was queued for the engine does run: the poll finds the row
\* before its grace is over (queue_job_run_once), unless it is switched off or
\* something fails. That no pass lasts half a minute is assumed (Tick).
RunOnceRuns ==
  asked # {} ~>
    \/ faults > 0
    \/ \A s \in asked : fired[s] > 0 \/ job[JobOf[s]] # "on" \/ sched[s] # "on"
=============================================================================

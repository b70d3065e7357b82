# A verification of the AI Hub's engines, queues and long-running helpers

This directory holds TLA+ models of the parts of the AI Hub that run things on
their own: the workflow executor with its Human Approval nodes and its recovery
after a restart, the runs of automations with their checkpoint gates, the job
scheduler with the queue of document jobs, the e-mail dispatcher with the file
drops of workflows, the portal runs of the browser service with the agent
service that watches them, and the admission gate of the document API. TLC
checks each model on small instances; the theorems in the `*Proofs` modules and
`WorkflowEngineContract` are proved with TLAPS for every value of the constants.
`PROJECT.json` lists the runs, the theorems, the mutants, the hazards and, for
every definition, the source lines it stands for.

To repeat a run: `tlc -config engine.cfg MCWorkflowEngine`. To repeat a proof:
`tlapm WorkflowEngineProofs.tla`.

## 1. The system

The repository is a Flask application with a ring of services around one SQL
Server database. Paths below are relative to `src/`.

| Component | State it keeps | Operations | Talks to |
|---|---|---|---|
| Workflow execution engine, `workflow_execution.py` | `WorkflowExecutions`, `StepExecutions`, `ApprovalRequests`; in memory: active executions with their flags, a command queue each, visit counts, the semaphore of `MAX_CONCURRENT_WORKFLOWS` | start, pause, resume, cancel, the thread's walk over the graph, the wait at an approval | everything that starts workflows; people, through `ApprovalRequests` |
| Approval decisions, `app.py` | none of its own | decide one request, decide in bulk | engine (by the row), automations (by the gate) |
| Executor service, `app_executor_service.py` | one engine | HTTP routes over it; recovery at start-up | engine, recovery, e-mail dispatcher |
| Recovery service, `workflow_recovery_service.py` | none | three passes over the rows at start-up | the engine's tables |
| Admission gate, `inflight_gate.py` + `app_doc_api.py` | counters and tokens under a lock | `try_enter`, `leave`, `snapshot` | document API route |
| Automations, `automations/` | `AutomationRuns`; per run a directory with gate files, a heartbeat and a marker; approval files for My Approvals | run, checkpoint, decide, abort, reap orphans | scripts (child processes), main application, executor, scheduler |
| E-mail agent dispatcher, `email_agent_dispatcher.py` | `AgentProcessedEmails`, the day's counters, a cached licence check, the poll thread | start, stop, poll, poll now | agents, and workflows through the file drops |
| Job scheduler, `job_scheduler.py`, `scheduler_routes.py` | APScheduler's jobs in memory; `ScheduledJobs`, `ScheduleDefinitions`, `ScheduleExecutionHistory` | a pass that copies rows into memory, fire, reap; edit, pause, run now, run once | document jobs, automations, agents |
| Document job queue, `app_doc_job_q.py`, `app.py` | `DocumentJobs`, `DocumentJobExecutions` | queue, claim, run, finish | scheduler, document API |
| Workflow file drops, `workflow_file_drops.py` | the files of an inbox, `run_next.json`, `.notify` files, run records | drop, start or queue a run, finish and hand on | executor, dispatcher, The Agent |
| Browser automation, `browser_use_service/` | registry of runs with their flags and events, co-browsing sessions, stored results | start, pause for a person, take over, hand back, finish | agent service |
| Agent service, `agent_service/` | conversations and their turns, rows of portal watches, work items | a turn with its tools, watch, deliver | browser service, My Work |
| MCP gateway, `builder_mcp/gateway/` | server processes | start, stop, call | builders |
| Code flows, command center, builders, document search, NLQ, data collection, solutions, compliance jobs, accounts | see `PROJECT.json` | | |

### What is hard in it

*Engine.* A thread per execution, HTTP handlers that set its flags without a
lock and write the database row later, a poll loop that looks at the cancel
flag, the clock, the approval row and the command queue one after the other,
due dates, people who decide at the same moment through two endpoints with
different conditions, database errors that are swallowed in some places and end
the run in others, graphs with cycles. It is correct when a run takes an
approving edge only over an approval, when record and route agree, when no
request is left without a waiter, when every run ends with an outcome, and when
every way out of the thread gives back the slot it took.

*Recovery.* A restart at any point loses every thread; the passes then read what
the others wrote while people go on deciding, and any of them may fail. It is
correct when everything that was live is settled or waits for somebody, no
outcome is touched and no approval is invented.

*Admission gate.* A counter at its limit and a slot that must be given back on
every path out of a handler.

*Automations.* Four actors per run that share no lock: the supervising thread,
the script, people in two places, and a reaper that judges by file ages; and a
guard against overlapping runs that reads the same rows and files. It is correct
when a gate opens only to somebody's `proceed`, when an outcome is final and
means the process is gone, when every run gets one, and when runs do not overlap.

*Scheduler and document queue.* A pass reads the schedules, then the parameters,
then works row by row, while people edit, pause and delete what it has read and
fired threads count the runs of the limit; people's requests go into the same
queue by a route that looks first and one that does not. It is correct when what
was stopped stays stopped, when edits arrive, when a run asked for once happens,
and when no request for documents is lost.

*Dispatcher and file drops.* Each mail is looked up before and recorded after it
is acted on, and a second poll may run beside the loop; a day's cap and a
cooldown are read, then replied on, then counted; a file brought while a run is
going must be worked by that run or by the next, and the run that ends and the
caller that asks find each other through files. It is correct when nothing is
acted on without end, when the cap holds, when what was recorded is worked and a
notice comes once.

*Portal runs.* An operator, an agent, time limits and workflow steps share one
live page through one event and two flags; the outcome is fetched by a tool call
and by a supervisor that survives restarts of either service. It is correct when
an operator's input never meets an agent at work, and when the outcome is told
once and never forgotten.

Every hazard, at its line, is in `PROJECT.json` under `hazards`, with the
properties that would catch it or the reason why none does yet.

## 2. Modules

| Module | Role |
|---|---|
| `WorkflowEngine` | the engine, its HTTP requests, the approvers and the clock |
| `ApprovalContract` | what a Human Approval node promises, without threads, polls and clocks |
| `WorkflowRecovery` | `WorkflowEngine` with crashes and the start-up recovery |
| `InflightGate` | the admission gate and the route around it |
| `GateContract` | what a checkpoint of an automation promises |
| `AutomationRun` | runs of one automation: supervisors, scripts, gates, decisions, reaper, crashes |
| `JobScheduler` | schedules, passes, fires, and the routes that edit them |
| `DocumentQueue` | the queue of document jobs |
| `ScheduledDocuments` | both together: scheduled jobs that ask for documents, and people who do |
| `FileDrops` | the inbox of a workflow, its runs and what they hand on |
| `EmailDispatcher` | `FileDrops` with the polls whose mails bring files, and the replies |
| `PortalRuns` | runs on a live page and the people who take it over |
| `PortalWatch` | `PortalRuns` with the conversations that started them and the supervisor of watches |
| `MCWorkflowEngine`, `MCWorkflowRecovery`, `MCAutomationRun`, `MCScheduledDocuments`, `MCEmailDispatcher` | graphs, bounds and constants for TLC (the others need none) |
| `WorkflowEngineProofs`, `WorkflowEngineContract`, `ApprovalContractProofs`, `InflightGateProofs`, `AutomationRunProofs`, `ScheduledDocumentsProofs`, `EmailDispatcherProofs`, `PortalWatchProofs` | the theorems |

Definitions keep the source's names where they have one (`in_flight`,
`cancelled`, `admitted_total`). A definition whose comment begins with "A slip"
is never used by a specification: it is the form a later definition would have
with a plausible mistake, kept to show that the property it breaks can fail
(`mutants` in `PROJECT.json`).

### WorkflowEngine

State is grouped by where it lives, which is also what a restart keeps or loses:

- rows: `db` (status of the execution), `step` (one row per node and visit),
  `appr` (one request per approval node and visit), `past` (due dates passed);
- memory: `pc` and `node` of the thread, `status`, `paused`, `cancelled`, `queue`,
  `visits`, `resp`, `routed` (the verdict the run followed), `slots`;
- HTTP requests: `writes` (a pause or cancel still has its database write to do);
- people: `held` (what the single-decision endpoint has read), `votes` (history);
- the service: `service`, which only `WorkflowRecovery` changes;
- bounds: `calls`, `faults`.

One action per step of the thread that other actors can come between:
`AcquireSlot`, `LoadVariables`, `LeaveLoop`, `Park`, `Unpark`, `RefuseNode`,
`EnterNode`, the results of a node, the approval node (`OpenApproval` …
`FollowDecision`), the end of the run (`FailRun` … `Cleanup`). A pass of the wait
loop is split at its looks: `SeeCancel`, `SeeTimeout`, `SeeDecision` and
`PollQueue` have the order of the code in their guards, and `PollQueue` has none,
because by the time the thread is woken the earlier looks are stale.

Abstractions: a node's body is its result (succeeds, fails, condition false),
loops over data (`Loop`/`End Loop`) are left out, and so are variables and log
rows. A database call that fails is a fault: `LoseWrite` where the code swallows
the error, `ApprovalFails`/`ThreadFails` where it raises. The database and the
clock are otherwise reliable; a statement is atomic.

`ApprovalContract` is the abstract specification of the approval node. The
mapping in `WorkflowEngine` is `Record` (what the row says) and `Taken` (what the
run followed); `KeepsContract` says the engine implements it.

### WorkflowRecovery

`service` holds the pass the starting executor is in (`svc`), what that pass has
selected (`todo`, `approved`, `stale`), the crashes so far, and two histories:
the requests unanswered when the second pass looked (`unanswered`) and those whose
timeout action had to be guessed (`defaulted`). `Crash` clears what lives in
memory. Each pass selects first and commits later, with people deciding between:
`SelectTimeouts` and a `RecoverTimeout` per row, each an UPDATE of its own;
`SelectResponses` and `CommitResponses`; `SelectStale` and `CommitStale`, one
transaction each. `RecoverTimeout` takes the node's timeout action, or "continue"
when the stored workflow no longer has the node, which may happen for any row.
`PassFails` is a pass that is only logged. The service takes requests when the
passes are over. People act throughout, since they use the main application. A
second crash comes only while the recovery from the first is under way.

### InflightGate

A thread of the server is a place in the route. `TryEnter` and `Leave` are one
step each because the code holds the lock. `FormFails` is the log line between
`try_enter` and the `try` block. The clamp of the counter at zero on release
(`inflight_gate.py:80`) is left out: `GateExact` shows that it never bites.
`GateExact` relates the counter to the threads that hold a token and to
`bad_bodies`, the forms that could not be read, since nobody has the token of
such a request any more.

### AutomationRun

| Variables | In the code |
|---|---|
| `status`, `age` | the row of `AutomationRuns` and how old it is: under the reaper's grace, over it, over the guard's window |
| `beat`, `marker` | `_heartbeat`, and the marker of `waiting_for_decisions` |
| `sup`, `outcome` | where `runner.run()` is, and what `_execute` returned |
| `script`, `gate` | the child process and the gates it has opened |
| `file`, `row` | `checkpoint_<id>.json` and its mirrored approval file |
| `post`, `copy` | the request that opens a gate, and the file as `set_approval_request_id` read it |
| `op` | decisions under way, from Mission Control (`DecideGate`) and My Approvals (`DecideRow`) |
| `reaper` | the sweep of orphaned runs |
| `votes`, `passed`, `reaped` | history |

Every read and later write without a common lock is two steps: the guard's look
and its insert (under one process's lock, so `Check` waits for a `Check` in the
same process), the gate file, the approval file, the reaper's look and its
finalization, and a script's requests at its gate: `AskGate` and `PollGate` are
the look at the run's row, `PostCreate` and `PollRead` the access to the gate file
that follows, `PassGate` the return of `checkpoint()`. `Home` says which process
supervises a run, since runs start both in the main application and in the
executor.

Abstractions: `unverified` counts as `success`; the guard's two queries are one
look; the reaper decides all gates of a run in one step; the ways a script can
exit are `exited` (any code, both outcomes possible) and `declined` (the SDK's
`SystemExit(75)`); a final update that fails, or a supervisor that dies, makes the
run `lost`. Left out: torn files, a kill that fails (`_kill` swallows it), dry
runs, runs on another host and review items.

`GateContract` is the abstract specification of the checkpoints: a script asks at
one gate after the other, people want verdicts, and the script gets past the gate
it is at once, if somebody wanted it to proceed. Both need an admission, a look
that found the run live, and both come later than it: a run that gets its outcome
in between still does what it was admitted to, which is one gate asked or passed
at most. A gate is passed after the outcome only if the reaper recorded it, since
the run's own supervisor has stopped the script first. The mapping in
`AutomationRun` is the number of gates opened, the votes, the gates passed, what
the place of request and script admits (`Admitted`), the runs that are `Finished`
and those that were reaped; `KeepsGateContract` says `AutomationRun` implements it.
The gate files are deliberately not part of it: a late write may take back what
one of them says, but not what the script has been let past.

### JobScheduler, DocumentQueue, ScheduledDocuments

A tick is thirty seconds; times are counted from now, so that nothing grows.

| Variables | In the code |
|---|---|
| `job`, `sched`, `start`, `limit`, `par`, `target` | `ScheduledJobs`, `ScheduleDefinitions`, `ScheduledJobParameters`, and the row the job is about |
| `runs`, `stuck` | `CurrentRuns`; history rows left pending |
| `reg` | APScheduler's job of a schedule with its fingerprint, arguments and next fire |
| `pass`, `wait` | `_update_schedules_from_db` under way, and the time to the next |
| `fire` | the threads of fired schedules, from the history row to the count |
| `route` | `run_job_now` between its look and its insert |
| `queued`, `running`, `worker`, `known` | `DocumentJobExecutions` and the processor |
| `asking`, `loose` | requests of a fire between their look for a queued row and the insert; those whose caller has crashed |
| `fired`, `asked`, `had`, `back`, `quiet`, `owed` | history |

A pass is a step per query: reap the targets that are gone, read the rows, read
the parameters, register row by row, drop what is off or at its limit, drop what
has no row; people edit in between. `quiet` is set by a pass that goes through without a
failure, to what it has found stopped, and cleared by an edit that switches
something on. APScheduler itself is external: coalescing, the misfire grace and
the limit of instances are modelled as its options ask.

Abstractions: one interval for recurring schedules; a cron schedule is one of
them; start dates long past are one; a limit is told apart up to the bound. An
edit of an interval or a start date (`scheduler_routes.py:1069`, `1191`) is an
edit like one of the parameters: it changes the fingerprint, not the clock. A pass
is taken to last less than a tick and not to overlap the next one
(`max_instances=3` would let it). Within the tick the order of passes, fires and
edits is free; a fire that is exactly the grace late may be in time or not, since
the code's comparison is finer than a tick. History rows are modelled for the
schedules whose rows a pass reads, those of type `date` (`FirstStep`).

### FileDrops, EmailDispatcher

`run` is where a workflow run, or the thread that ends it (`run_finished`), is:
going, worked (it has read the inbox), ended, recorded, flagged, next (it has
looked for a request). `agent` is the Agent's `notify_when_done`, `call` a
caller in `start_or_queue`, `next` the file `run_next.json`, `flag` the `.notify`
files. A look at a file and its removal are two steps when the code's are.

A poll works a page of the feed mail by mail: look up, act, record. Acting is
`SaveFiles` and a call to the file drops for the agent that triggers the
workflow, and `CheckLimit`, `Reply`, `CountReply` for the one that replies.
`today` is the counter as the table has it, `poll[p].count` as the poll read it
with its list of agents, `cooling` whether the last reply is younger than the
cooldown, which may run out in the middle of a poll (`CoolDown`, `cooled`). `both`
says whether the agent that triggers the workflow is the one that replies: its
mails are recorded as triggers, and such replies start no cooldown. A page is the
newest `Page` mails of the feed (50 in the code), and polls take none away, so
that a mail may never be on a page once newer ones came (`Pages`). `Crash` ends
everything that is a thread and leaves what is a row or a file.

Left out: replies that wait for approval, filter rules, mails of no configured
agent (skipped without a record), the change of the day, the three days after
which the feed drops a mail, the contents of files.

### PortalRuns, PortalWatch

Both services run on event loops, so a step is what happens between two awaits
that can really suspend. `pc` is where a run's coroutine is (accepted, setup, a
boundary between steps, work, parked for an operator, asking a person, closing,
harvest), `paused`, `resume_evt` and `status` are the fields of the run record,
`unattended` remembers a wait that ended because nobody came. `Park`, `AskHuman`
and the steps of a saved workflow are the three ways to pause; an operator's
`Takeover` only asks for one.

In `PortalWatch` a turn of the conversation starts a run and polls it (`turn`,
`misses`); a run it leaves behind is watched (`watch`, `strikes`, `old`,
`collected`); the supervisor looks and acts (`seen`), and delivers by a task of
its own (`finishing`): try the conversation, wait for its turn to end, wake it,
or file the outcome in My Work. A wake-up turn that says anything counts as the
delivery, whether it collected the run or not, one that says nothing leaves it to
My Work, and one that raises closes the row (`WakeUp`).

Abstractions: the supervisor's listing and its poll are one step, the strikes of
the row are read when it acts; a poll for a run that was accepted but is not yet
registered is answered "no such run" without counting as a miss, since that
takes a tenth of a second and the misses ten; one run per conversation.
Left out: the screencast, the recorder and saved workflows as data, which of
several viewers drives, the limit of stored results, healing and oversight.

## 3. Runs

All runs set `CHECK_DEADLOCK FALSE`: a service with nothing to do may idle, and
the bounded models end when their requests are used up.

| Run | Instance | States | Shows |
|---|---|---|---|
| `engine` | 2 executions of one approval on 1 slot, 1 person at the single endpoint and any at the bulk one, 1 resume, 1 cancel; fair | 271 k | `TypeOK`, `SlotsConserved`, `PendingHasWaiter`, `NoPassWithoutApproval`, `EveryRunEnds` |
| `recovery` | 1 execution of a condition, an approval and an action in a cycle, 2 visits, 1 fault, 2 crashes, 1 pause, 1 cancel; fair | 729 k | `RoutedAsRecorded`, `StepsFollowTheThread`, `QuietRunHasOutcome`, `ApprovedRunIsNotFailed`, `RecoveredNeedsApproval`, `OutcomeSurvivesRestart`, `KeepsContract`, `LostRunIsSettled`, `CancelStopsHolder` |
| `gate` | 3 threads, 2 slots, 6 requests, 2 unreadable forms; fair | 10 k | `TypeOK`, `GateExact`, `BusyEnds` |
| `automation_gates` | 1 run, 1 gate, 1 decision at a time, 1 fault; fair | 393 k | `TypeOK`, `KeepsGateContract`, `OutcomeMeansStopped`, `FinishedNeverRevives`, `AbortIsHeeded`, `EveryRunFinishes` |
| `automation_guard` | 2 runs of one process without gates, markers and long runs, 1 fault | 2.7 M | `OneRunPerProcess` |
| `scheduled_documents` | 1 document job with an interval and a row for one run, 2 events, 1 of them a fault or crash; fair | 558 k | `TypeOK`, `StoppedStaysStopped`, `EditsReachEngine`, `RunOnceRuns`, `EveryAskIsServed` |
| `email_drops` | the loop and a poll by hand with pages of 2, a mail with files and two to reply to under a cap of 1, of two agents or one, a person with a file, 3 runs, 1 event or fault; fair | 668 k | `TypeOK`, `ToldOnce`, `ActedSparingly`, `CapHolds`, `AskedIsTold`, `EveryMailIsSettled`, `MailFilesAreWorked` |
| `portal_runs` | 1 run of each kind in turn, 3 steps, 2 takeovers or handbacks, 2 turns, 1 restart of each service, 1 fault, given up after 2 missing polls; fair | 883 k | `TypeOK`, `DeliveredOnce`, `InputNeedsAPause`, `EveryWatchIsSettled` |
| `engine_resume`, `engine_two_deciders`, `recovery_orphan`, `scheduled_once` | as small as the disagreement needs | | the findings of section 6 |

Why the bounds are enough. Executions interact only through the slots, so two on
one slot show every order of taking, holding and returning it. Two visits of a
node show a second step row and a second request beside the first, and the visit
limit. Pause and cancel each matter by when they come, not how often. One person
at the single endpoint against any number at the bulk one, the due date and the
thread itself is every pair of deciders. The second crash interrupts the recovery
from the first; a second crash later meets what the first one did. In
`automation_gates` a crash, a decision, an abort request, a sweep and the deadline
meet at one gate; a second gate meets the same actors later. That gates come one
after the other takes two, which is too large for a routine check with faults and
fairness; the theorems hold for any number of them. Two runs are what an overlap
needs. Three threads on two slots make one of them wait outside a full gate.
Schedules share nothing but the pass and the parameters of their job, so two of
one job, of the two kinds, meet each other in every way; two events are an edit
between two steps of a pass and one that takes it back, or an edit and a crash.
`email_drops` has three callers, which is a caller that finds a run going, one
that finds a request, and one that finds neither; a second event makes the run too
long for a routine check, so that two failures in a row are left to the theorems.
Three mails and pages of two let the oldest one fall off the page. `gate` has as
many unreadable forms as slots, which is when a full gate stays full. A portal run
needs two turns to be watched and collected, two takeovers to come back to a page,
and two missing polls instead of the code's five because only the last one
matters.

Fairness. Threads of the engine, of the server and of the supervisor are run by
the operating system, so each thread's steps are weakly fair as one action; a
request that was accepted runs to its end; due dates pass; a crashed service is
started again and recovers. A node body, a document and a child process are
assumed to end or to be ended (`SeeDeadline` is part of the supervisor). The
scheduler's clock ticks and waits for nothing but what is due at this tick and the
pass under way; the processor goes on taking rows. The dispatcher's
own thread polls again; runs of the file drops end and do their bookkeeping.
Portal runs end because steps and waits are limited, turns end, the supervisor
ticks, rows grow old. Nothing is assumed of people: not of those who decide, take
over, poll by hand or edit schedules, nor of those who call pause, resume, cancel
and abort, of scripts, or of the reaper of automations, which sweeps at start-up
and on request only.

Some properties carry a condition because the code does less than one might hope.
`PendingHasWaiter` and `StepsFollowTheThread` hold while no database call has
failed, `QuietRunHasOutcome` while moreover nobody has asked to pause (the late
write of a pause request may replace the outcome); `EveryRunEnds` likewise, since
a parked run keeps its slot; `LostRunIsSettled` and `ApprovedRunIsNotFailed` while
the database does not fail, and they except a request that nobody had answered
when the second pass looked: the first leaves its execution to whoever answers,
the second lets the third pass fail it. `RecoveredNeedsApproval` excepts, beside
nodes set to continue, nodes the stored workflow no longer has. `BusyEnds` holds
until as many forms as the gate has slots could not be read. `AbortIsHeeded` lets
a script that was over before the supervisor saw the abort give the outcome.
`OutcomeMeansStopped` names its exception, runs the reaper finalized, and
`OneRunPerProcess` its three: a run that said it only waits for reviews, one older
than the guard's window, one the reaper finalized. `EditsReachEngine` excepts
paused jobs, whose registration is never taken out, and edits that are taken back,
whose fingerprint may meet arguments of between. `RunOnceRuns`, `EveryAskIsServed`
and the liveness of the dispatcher hold while nothing fails; `EveryMailIsSettled`
speaks of mails that are still on a page, `CapHolds` allows each poll one reply
past the cap, or a page where the cooldown does not hold it; and
`MailFilesAreWorked` while no request comes after the last run has looked
(`late`). `DeliveredOnce` excepts headless turns, waits that ran out, failing
polls and a restarted browser service; `InputNeedsAPause` a model whose wait was
in vain; `EveryWatchIsSettled` a lost run, one that outlived the limit and a
delivery that failed.

The three liveness properties of `email_drops` have the form `[]<>`: again and
again nothing is left to do. Since recorded mails and what was asked for only
grow, that says no less than that each of them is dealt with in the end, and TLC
checks it without a tableau.

## 4. Proofs

What TLC finds on the instances above is proved for every graph, every number of
executions, runs, people, slots, schedules, mails, polls and every bound. The only
assumptions are the named `ASSUME`s of the models (types of the constants, a limit
of at least one) and, where stated, `Deciders = {}`.

| Module | Theorems | Argument |
|---|---|---|
| `WorkflowEngineProofs` | `TypeCorrect` | `TypeOK` is not inductive: `visits` may exceed the limit by one only on the way to `fail`, and a row that is written must exist. `WalkOK` ties `pc`, `node` and `visits` together; `TypeInv` is both |
| | `SlotsAreConserved` | per step, either no thread enters or leaves the gate, or one does and `slots` moves with it (`GateUntouched` and the two exceptions) |
| | `PassNeedsApproval` | `ApprovalInv`: every approving row has a vote or a passed due date (`RowsJustified`), so has what the thread has read (`ResponsesJustified`) and what it followed; a thread in `apprTimeout` has seen the date pass (`TimeoutsSeen`). The row alone does not do: it may be replaced between the read and the route |
| | `OpenRequestsAreAwaited`, `OneStepInProgress`, `QuietRunsHaveOutcomes` | `CalmInv`, while no database call has failed: `Waited` (an open request is that of the node its thread is in, and not of one that is past it), `Followed` (an open step is the current one, or was left by a cancel), `Ended` (what the places before the end and the late write of a cancel still owe). `Followed` needs `OnlyCancels`, that no resume is ever queued: after one the next node would open a second step |
| `WorkflowEngineContract` | `KeepsContractAlways`, `RoutesMatchRecords` | under `Deciders = {}`. `ContractInv`: what is taken matches the record, visits still to come are untouched, the visit being executed is not taken yet, and an answer that was read still is the record. Every step is then a step of `ApprovalContract` or a stutter |
| | `RecoveryTypeCorrect`, `SlotsSurviveRestarts`, `OutcomesSurviveRestarts` | over `WorkflowRecovery`. `ServiceInv`: while the service is not up there are no threads and no late writes, so the passes meet only people, and what a pass has selected is still live, and overdue in the first |
| | `PassNeedsApprovalOverRestarts`, `CompletionNeedsApproval` | `ApprovalInv` also holds over crashes and passes: what is written row by row was overdue when it was selected, and what the second pass found approved had a vote or a timeout behind it |
| | `KeepsContractOverRestarts`, `RoutesMatchOverRestarts` | under `Deciders = {}`. `RestartContract` adds that a selected request was open and that no run has acted on it (`SelectedOpen`), and that an execution without a thread yet has all visits before it (`Unstarted`); a lost thread never comes back, so its record may still change |
| | `OneStepOverRestarts`, `QuietRunsOverRestarts` | `RestartCalm`, while no database call has failed: `CalmInv` for the executions that have their thread, and one open step at most (`OneOpen`) for the lost ones |
| | `ApprovalsSurviveRestarts` | under `Deciders = {}`, while no database call has failed. `LookedAt`: once the second pass has looked, a request that is still Pending was Pending then, an approved one whose step is Paused is about to be settled or was Pending then, and what is to be settled as rejected is rejected still. `RestartCalm` alone does not do: people answer between the query and the commit |
| `ApprovalContractProofs` | `TakenStaysRecorded` | the contract itself gives the agreement |
| `InflightGateProofs` | `GateTypeCorrect`, `GateIsExact`, `GateRefusesOnlyWhenFull` | `GateInv` adds to `GateExact` that tokens are below the counter of admissions and only holders have one; that the limit is respected at all needs the first. A refusal means that the limit is reached by what is processed and what unreadable forms have cost |
| `AutomationRunProofs` | `RunTypeCorrect` | `Places`: where supervisor, script and gate request can be together. Without it a poll may be about a gate that does not exist, and `finish` may have no outcome |
| | `OutcomesAreFinal`, `FinishedStaysFinished`, `AbortsAreHeeded` | `Endings`: before the insert the row is empty, and a supervised run with an outcome is one the reaper finalized; each run's own steps are told from those of the others (`OwnEnding`, `OthersKeepTheirRow`), and no decision touches a row that says aborting (`DecisionsEndNothing`) |
| | `GatesNeedProceed` | `Traced`: every `proceed` in a gate file, in the copy a link request will write back, or in a decision under way has been voted for |
| | `CheckpointsKeepContract`, `GatesAreInOrder` | `Orderly`: a gate file, an approval row and a decision under way are about a gate that was asked about (`KnownGates`), and the places of script and request tell whether it is past the gate it asked at last (`AtGate`). With `Traced` and the finality of outcomes every step is a step of `GateContract` or a stutter |
| | `GuardHolds` | `Guarded`: one process has at most one run between look and insert, and a run that was let in saw every supervised run marked, expired or reaped; a marker that was set, an age and a reaping never return to what they were |
| `ScheduledDocumentsProofs` | `DocumentsTypeCorrect` | the types of both modules, action by action |
| | `StoppedStays` | `StoppedInv`. What a pass has found stopped is `Off` as long as nobody switches it on, and no later step of that pass, which works with rows it read before, registers it (`Dying`, `NotRegistered`); when the pass is over it is `Quiet`. Memory alone does not do: a row read before the edit is still to be registered |
| `EmailDispatcherProofs` | `MailTypeCorrect` | with `Held`: a poll that acts has one mail, of the kind it acts on, and only such a poll asks for a run |
| | `NoticeIsGivenOnce` | `FlagFirst`: nothing is told while the flag is there, and who tells has taken it away |
| | `MailsAreActedOnSparingly` | `ActedInv`: what was done with a mail and the polls that may still do it (`Left`) stay within the `Budget` of polls and failures; a recorded mail is out of it |
| | `CapHoldsAlways` | `CapInv`. What was sent is what was counted and what is still to be counted (`Tally`). `ByPage`: what has gone beyond the cap is sent by a poll that began below it, at most a page each, by an injection of the mails still on the pages into polls and places. `ByCooldown`, where no agent does both and the cooldown has not run out within a poll: every reply above the cap has a poll that will still start the cooldown, and once the number is reached no poll under way may reply |
| `PortalWatchProofs` | `WatchTypeCorrect` | the types of both modules: neither misses nor strikes pass the limit |
| | `InputMeetsAPause` | `Pauses`, over place, status, both flags and the event of a run: a status that opens the page goes with a suspended coroutine that nobody has woken, or with a model that was left alone; `Results` and `Onward` say what each place may lead to |
| | `OutcomesAreDeliveredOnce` | `Good`, one run at a time. `Fresh`: whatever still leads to a delivery (a poll seen, a task, an armed row, a result not fetched) stands for an outcome the conversation has not been told, as long as the run is `Undisturbed`; `OverFirst` says that a run seen done is over, `CountsOf` that polls and strikes stay below the limit where they may still go up |

Only model-checked, because liveness, fairness and `ENABLED` are outside the
prover: `CancelStopsHolder`, `EveryRunEnds`, `LostRunIsSettled`, `BusyEnds`,
`EveryRunFinishes`, `EditsReachEngine`, `RunOnceRuns`, `EveryAskIsServed`,
`AskedIsTold`, `EveryMailIsSettled`, `MailFilesAreWorked`, `EveryWatchIsSettled`.
Every invariant and every action property of the passing runs, and both
refinements, are proved. The properties of the four runs of section 6 are false of
the code.

## 5. Properties and where they could fail

Each property is paired with a plausible slip in the code that TLC shows to
break it under the property's own configuration (`mutants`): a slot kept by
failed runs, a cancel that only reaches polling threads, a timeout that respects
a decision the run does not hear of, a step row looked up oldest first, an
abort believed before the child is killed, a guard that takes a waiting or
aborting run for gone, a final update without its `only_if_in`, a pass every half
minute, a run-once row that starts at once, a running execution taken for a queued
one, a watch disarmed only while it is active, a takeover believed before the
agent has stopped, and others.

## 6. Findings

Four runs end in a violation that TLC must find. Each states what a docstring,
a message or a design note says.

1. `engine_resume`: `resume_workflow` refuses unless the in-memory status is
   `Paused`, and nothing sets that. A run paused between nodes stays parked with
   its slot until it is cancelled (`workflow_execution.py:3718`).
2. `engine_two_deciders`: the single-decision endpoint checks for `Pending` and
   later updates by id only; a second decision replaces one the run has followed
   (`app.py:11546`). The bulk endpoint repeats the condition.
3. `recovery_orphan`: an execution whose request is still `Pending` survives a
   restart without a thread; the decision that follows moves nothing
   (`workflow_recovery_service.py:158`).
4. `scheduled_once`: a run-once row that a pass registers ahead of its time fires,
   stays active without a limit, and is registered again by the next pass, which
   finds it within its grace: it fires twice (`job_scheduler.py:494`), although
   `queue_job_run_once` says that it cannot (`scheduler_routes.py:1665`).

Observations without a run of their own, each kept as an exception of a property
or as a note at its hazard:

- *Recovery.* An approval given between the second pass's query and the third
  one's ends in Failed: the second pass has not seen it, and for the third nobody
  can answer any more (`workflow_recovery_service.py:494`). When the stored
  workflow no longer has the node, an overdue request is approved even if the node
  was set to fail (`workflow_recovery_service.py:115`). An execution completed by
  the recovery has run nothing behind its approval node.
- *Gate.* A form that cannot be read, between `try_enter` and the `try` block,
  keeps its slot for ever (`app_doc_api.py:442`).
- *Automations.* An abort that reaches the row while the script is ending, as it
  always is when a gate is declined, is recorded as the script's own outcome
  (`runner.py:978`; `request_abort`, `runner.py:423`, says the outcome is
  'aborted'): the second alternative of `AbortIsHeeded`. A gate may be opened, and
  a proceed reach the script, just after the run got its outcome (`api.py:1568`
  and `1586`). A gate's approval row added after its run has finished stays
  `Pending` (`runner.py:464-466` says it cannot); the reaper finalizes a supervised
  run that is still installing packages, because the first heartbeat comes later
  (`runner.py:1205-1206` says it never touches one); the guard's lock is one
  process's, so runs overlap across processes (`runner.py:772` says concurrent
  runs are not allowed); two verdicts for one gate leave gate file, approval row
  and run row telling different stories.
- *Scheduler.* A paused job goes on firing, since `ScheduledJobs.IsActive` never
  takes its schedules out of memory (`scheduler_routes.py:1681`: the engine only
  fires active jobs). `run_job_now` posts document jobs to a route that wants a login, is
  redirected, and records the run as completed (`app.py:8473`); the row it leaves
  lets the engine run the job again. A failed read of the parameters registers
  empty ones under the true fingerprint, until the next edit. A row left `RUNNING`
  by a crash is never taken up, and the `QUEUED` row of a job that is switched off
  refuses all others.
- *Mail and files.* A request written after the last run has looked waits for the
  next file; two callers that both see no run start two; a second request replaces
  the first requester; a run whose start is not recorded never hands on. An agent
  with both a trigger and automatic replies is recorded as a trigger, so its
  cooldown sees nothing and one poll may answer a whole page past the cap; so may
  one that outlasts a short cooldown. A poll reads the newest 50 mails and takes
  none away, so that older ones may never be looked at. Refused replies
  restart the cooldown. A cooldown of 0 means 15 minutes. `stop()` waits ten
  seconds only, so that `start()` after it leaves two loops.
- *Portal.* A model whose wait ran out works on under the status of the pause with
  the page open to input (`pause_for_takeover` says that no person and agent race).
  A setup that raises leaves its run registered for ever
  (`portal_runner.py:624`), with its place under the cap; the cap is looked at a
  tenth of a second before the run registers, and not at all by `/portal/fetch`.
  A delivery under way when the agent service restarts is not taken up again, nor
  is one whose turn raises; a turn that only says something, as a refusal at the
  limit of turns, counts as the delivery. The
  outcome of a headless turn can be delivered twice. An input already on its way
  can land after the handback.

## 7. Not modelled

- `Loop`/`End Loop` nodes, variables and node bodies of workflows: data, and a
  second interpreter inside the first; the loop's own limits are counters.
- `OpenApproval` is one step for the INSERT of the request, the step's status and
  the pause flag (`workflow_execution.py:3132`, `3145`): what could come between
  sees a request whose step still shows Running.
- A kill that fails (`runner.py:1165`), passes of the scheduler that overlap, and
  what section 2 lists as left out of the dispatcher.
- `cleanup_stale_executions` (`workflow_execution.py:8589`) has no caller.
- Prompt-driven services (command center, builders, chat agents, document search,
  NLQ, data collection): what they do next is a language model's answer. They are
  most of the repository's lines; what they change, they change through the
  services modelled here or by single statements.
- Accounts, templates, configuration and CRUD routes: single statements.
- The Retry-After estimate and `snapshot` of the gate only read.
- In `app.py`, only the routes that decide, queue or run something are modelled.
- Everything with status `not_modelled` in `PROJECT.json`, each with its reason.

## 8. Plan

What is left, in order:

1. The e-mail poller and the work items of the agent service, as a further caller
   of conversations in `PortalWatch`; saved workflows and the recorder of the
   browser service.
2. Properties for the observations of section 6 that have none: the late gate row
   and the two verdicts of a gate.
3. An abstract specification of a watch (armed, delivered once, given up) that
   `PortalWatch` implements where nothing disturbs it.
4. The MCP gateway's table of server processes, and the installer of solutions as
   a sequence of steps that may fail half-way.

------------------------------ MODULE PortalRuns ------------------------------
(***************************************************************************)
(* The browser automation service (src/browser_use_service): runs that     *)
(* drive a web portal, by a language model ("chat" and "fetch") or by the  *)
(* steps of a saved workflow, and the people who take over the live page.  *)
(* Everything runs on one event loop, so a step here is what happens       *)
(* between two awaits that can really suspend.                             *)
(***************************************************************************)
EXTENDS Naturals, FiniteSets

CONSTANTS
  Runs,         \* run ids
  MaxSessions,  \* BROWSER_USE_MAX_SESSIONS
  MaxSteps,     \* bound on steps and requests for a human, per run
  MaxCalls,     \* bound on takeover and resume requests, per run
  MaxRestarts   \* bound on restarts of the service

ASSUME PortalAssumption ==
  /\ MaxSessions \in Nat \ {0}
  /\ {MaxSteps, MaxCalls, MaxRestarts} \subseteq Nat

VARIABLES
  kind,       \* who asks: /portal/start, /portal/fetch or /workflow/run
  pc,         \* where the run's coroutine is
  status,     \* run.status
  paused,     \* run.paused: an operator wants the page
  resume_evt, \* run.resume_evt
  woken,      \* the event was set while the run waited for it
  unattended, \* history: the last wait ended because nobody came
  result,     \* RESULTS holds the manifest
  steps, calls, restarts

portalVars == <<kind, pc, status, paused, resume_evt, woken,
                unattended, result, steps, calls, restarts>>

Kinds == {"chat", "fetch", "workflow"}
Statuses == {"running", "awaiting_human", "taken_over", "done", "error"}
Suspended == {"parked", "asking"}
Working == {"setup", "boundary", "work", "closing"} \cup Suspended

\* A run by a language model stays registered until its files are harvested;
\* one whose setup raised is never unregistered.
Registered(r) ==
  \/ pc[r] \in Working
  \/ pc[r] = "leaked"
  \/ pc[r] = "harvest" /\ kind[r] # "workflow"

RUNS == {r \in Runs : Registered(r)}

PortalTypeOK ==
  /\ kind \in [Runs -> Kinds]
  /\ pc \in [Runs -> Working \cup {"idle", "accepted", "harvest", "leaked", "over"}]
  /\ status \in [Runs -> Statuses]
  /\ {paused, resume_evt, woken, unattended, result} \subseteq [Runs -> BOOLEAN]
  /\ steps \in [Runs -> 0..MaxSteps]
  /\ calls \in [Runs -> 0..MaxCalls]
  /\ restarts \in 0..MaxRestarts

PortalInit ==
  /\ kind \in [Runs -> Kinds]
  /\ pc = [r \in Runs |-> "idle"]
  /\ status = [r \in Runs |-> "running"]
  /\ paused = [r \in Runs |-> FALSE]
  /\ resume_evt = [r \in Runs |-> FALSE]
  /\ woken = [r \in Runs |-> FALSE]
  /\ unattended = [r \in Runs |-> FALSE]
  /\ result = [r \in Runs |-> FALSE]
  /\ steps = [r \in Runs |-> 0]
  /\ calls = [r \in Runs |-> 0]
  /\ restarts = 0

At(r, place) == pc[r] = place
Goes(r, place) == pc' = [pc EXCEPT ![r] = place]
Becomes(r, s) == status' = [status EXCEPT ![r] = s]

(***************************************************************************)
(* The run                                                                 *)
(***************************************************************************)

\* /portal/start looks at the cap, answers, and leaves the run to a task.
PortalStart(r) ==
  /\ At(r, "idle")
  /\ kind[r] = "chat"
  /\ Cardinality(RUNS) < MaxSessions
  /\ Goes(r, "accepted")
  /\ UNCHANGED <<kind, status, paused, resume_evt, woken, unattended,
                 result, steps, calls, restarts>>

\* The task has not looked at the cap again; /portal/fetch never does.
Register(r) ==
  /\ \/ kind[r] = "chat" /\ At(r, "accepted")
     \/ kind[r] = "fetch" /\ At(r, "idle")
     \/ kind[r] = "workflow" /\ At(r, "idle") /\ Cardinality(RUNS) < MaxSessions
  /\ Goes(r, "setup")
  /\ UNCHANGED <<kind, status, paused, resume_evt, woken, unattended,
                 result, steps, calls, restarts>>

\* Model, browser session, start page. Only a workflow sets up inside its try.
SetUp(r) ==
  /\ At(r, "setup")
  /\ \/ /\ Goes(r, "boundary")
        /\ UNCHANGED <<status, result>>
     \/ /\ kind[r] = "workflow"
        /\ Goes(r, "closing")
        /\ Becomes(r, "error")
        /\ UNCHANGED result
     \/ /\ kind[r] # "workflow"
        /\ Goes(r, "leaked")
        /\ result' = [result EXCEPT ![r] = (kind[r] = "chat")]
        /\ UNCHANGED status
  /\ UNCHANGED <<kind, paused, resume_evt, woken, unattended, steps,
                 calls, restarts>>

\* await_release: an event that is set already does not block.
Waits(r, place, evt) ==
  /\ Goes(r, place)
  /\ woken' = [woken EXCEPT ![r] = evt]
  /\ unattended' = [unattended EXCEPT ![r] = FALSE]

\* Between two steps an operator's request is looked at.
Park(r) ==
  /\ At(r, "boundary")
  /\ paused[r]
  /\ steps[r] < MaxSteps
  /\ Becomes(r, "taken_over")
  /\ Waits(r, "parked", resume_evt[r])
  /\ UNCHANGED <<kind, paused, resume_evt, result, steps, calls, restarts>>

Step(r) ==
  /\ At(r, "boundary")
  /\ ~paused[r]
  /\ steps[r] < MaxSteps
  /\ Goes(r, "work")
  /\ steps' = [steps EXCEPT ![r] = @ + 1]
  /\ UNCHANGED <<kind, status, paused, resume_evt, woken, unattended,
                 result, calls, restarts>>

StepDone(r) ==
  /\ At(r, "work")
  /\ Goes(r, "boundary")
  /\ UNCHANGED <<kind, status, paused, resume_evt, woken, unattended,
                 result, steps, calls, restarts>>

\* A human or verify_code step, the takeover tool, or the check for a page
\* that needs a code. A model that asks again after nobody came just waits.
AskHuman(r) ==
  /\ At(r, "work")
  /\ steps[r] < MaxSteps
  /\ steps' = [steps EXCEPT ![r] = @ + 1]
  /\ IF kind[r] # "workflow" /\ status[r] = "awaiting_human"
     THEN /\ Waits(r, "asking", resume_evt[r])
          /\ UNCHANGED <<status, resume_evt>>
     ELSE /\ Waits(r, "asking", FALSE)
          /\ Becomes(r, "awaiting_human")
          /\ resume_evt' = [resume_evt EXCEPT ![r] = FALSE]
  /\ UNCHANGED <<kind, paused, result, calls, restarts>>

\* Handed back: on with the step (or with the one the run was parked before).
GoOn(r) ==
  /\ pc[r] \in Suspended
  /\ woken[r]
  /\ Goes(r, "work")
  /\ UNCHANGED <<kind, status, paused, resume_evt, woken, unattended,
                 result, steps, calls, restarts>>

\* Nobody handed back in time. A workflow ends; a model is told, or in
\* on_step_start not even told, and works on under the status of the pause.
NobodyCame(r) ==
  /\ pc[r] \in Suspended
  /\ ~woken[r]
  /\ unattended' = [unattended EXCEPT ![r] = TRUE]
  /\ IF kind[r] = "workflow"
     THEN Goes(r, "closing") /\ Becomes(r, "error")
     ELSE Goes(r, "work") /\ UNCHANGED status
  /\ UNCHANGED <<kind, paused, resume_evt, woken, result, steps, calls,
                 restarts>>

\* The finally block: done, failed, out of steps, or (a model, at any place)
\* out of its active time.
Finish(r) ==
  /\ \/ pc[r] \in {"boundary", "work"}
     \/ pc[r] \in Suspended /\ kind[r] # "workflow"
  /\ Goes(r, "closing")
  /\ \E s \in {"done", "error"} : Becomes(r, s)
  /\ UNCHANGED <<kind, paused, resume_evt, woken, unattended, result,
                 steps, calls, restarts>>

CloseSession(r) ==
  /\ At(r, "closing")
  /\ Goes(r, "harvest")
  /\ UNCHANGED <<kind, status, paused, resume_evt, woken, unattended,
                 result, steps, calls, restarts>>

\* The RunState of a run that is over is garbage.
Forget(over) ==
  LET Cleared(f, v) == [r \in Runs |-> IF r \in over THEN v ELSE f[r]] IN
  /\ pc' = Cleared(pc, "over")
  /\ paused' = Cleared(paused, FALSE)
  /\ resume_evt' = Cleared(resume_evt, FALSE)
  /\ woken' = Cleared(woken, FALSE)
  /\ unattended' = Cleared(unattended, FALSE)
  /\ steps' = Cleared(steps, 0)
  /\ calls' = Cleared(calls, 0)

\* A manifest is stored before the run is unregistered.
Harvest(r) ==
  /\ At(r, "harvest")
  /\ Forget({r})
  /\ result' = [result EXCEPT ![r] = (kind[r] # "workflow")]
  /\ UNCHANGED <<kind, status, restarts>>

RunSteps(r) ==
  \/ Register(r) /\ kind[r] = "chat"
  \/ SetUp(r) \/ Park(r) \/ Step(r) \/ StepDone(r) \/ AskHuman(r) \/ GoOn(r)
  \/ NobodyCame(r)
  \/ Finish(r) \/ CloseSession(r) \/ Harvest(r)

(***************************************************************************)
(* Operators                                                               *)
(***************************************************************************)

Calls(r) ==
  /\ Registered(r)
  /\ calls[r] < MaxCalls
  /\ calls' = [calls EXCEPT ![r] = @ + 1]

\* A slip: the status opens the page for input before the run suspends.
TakeoverAtOnce(r) ==
  /\ Calls(r)
  /\ paused' = [paused EXCEPT ![r] = TRUE]
  /\ resume_evt' = [resume_evt EXCEPT ![r] = FALSE]
  /\ Becomes(r, "taken_over")
  /\ UNCHANGED <<kind, pc, woken, unattended, result, steps, restarts>>

\* pause_for_takeover: the status follows when the run really suspends.
Takeover(r) ==
  /\ Calls(r)
  /\ paused' = [paused EXCEPT ![r] = TRUE]
  /\ resume_evt' = [resume_evt EXCEPT ![r] = FALSE]
  /\ UNCHANGED <<kind, pc, status, woken, unattended, result, steps, restarts>>

\* release: one way back for both kinds of pause.
Resume(r) ==
  /\ Calls(r)
  /\ paused' = [paused EXCEPT ![r] = FALSE]
  /\ resume_evt' = [resume_evt EXCEPT ![r] = TRUE]
  /\ woken' = [woken EXCEPT ![r] = (@ \/ pc[r] \in Suspended)]
  /\ status' = [status EXCEPT ![r] = IF @ \in {"awaiting_human", "taken_over"}
                                     THEN "running" ELSE @]
  /\ UNCHANGED <<kind, pc, unattended, result, steps, restarts>>

\* The stream's receive loop lets an operator's input through to the page.
InputOpen(r) == status[r] \in {"awaiting_human", "taken_over"}

\* What GET /portal/result answers.
Answer(r) ==
  CASE Registered(r) /\ status[r] = "awaiting_human" -> "needs_human"
    [] Registered(r) /\ status[r] # "awaiting_human" -> "running"
    [] ~Registered(r) /\ result[r] -> "done"
    [] OTHER -> "no such run"

\* The service restarts: registry and results were in memory.
RestartBrowser ==
  /\ restarts < MaxRestarts
  /\ restarts' = restarts + 1
  /\ Forget({r \in Runs : ~At(r, "idle")})
  /\ status' = [r \in Runs |-> IF At(r, "idle") THEN status[r] ELSE "error"]
  /\ result' = [r \in Runs |-> FALSE]
  /\ UNCHANGED kind

\* Operator input stays gated until the agent has truly yielded
\* (pause_for_takeover): the page takes an operator's input only while its run
\* waits for the handback, except from a model that waited in vain.
InputNeedsAPause ==
  \A r \in Runs : InputOpen(r) =>
    \/ pc[r] \in Suspended /\ ~woken[r]
    \/ unattended[r] /\ kind[r] # "workflow"
===============================================================================

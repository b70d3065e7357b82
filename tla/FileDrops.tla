------------------------------ MODULE FileDrops ------------------------------
(***************************************************************************)
(* Workflow file drops (src/workflow_file_drops.py): one workflow that     *)
(* works an inbox folder. Whoever brings a file asks for a run: a new one, *)
(* or, while one is going, one that is to follow it. What a run leaves     *)
(* behind is told through files other processes read and remove. Callers   *)
(* are people and, in EmailDispatcher, the polls of the mail dispatcher.   *)
(***************************************************************************)
EXTENDS Naturals, FiniteSets

CONSTANTS
  Runs,        \* slots for runs, 1..n
  Callers,     \* who asks for runs
  People,      \* those of them that drop files by hand
  Files,       \* what the inbox may hold; a person's file bears her name
  MaxFaults,   \* bound: failures and crashes
  MaxEvents    \* bound: those, files dropped, polls by hand and runs The Agent
               \* stops waiting for, together

ASSUME FilesAssumption ==
  /\ Runs \subseteq Nat
  /\ People \subseteq Callers \cap Files
  /\ MaxFaults \in Nat /\ MaxEvents \in Nat

VARIABLES
  inbox,    \* the files waiting
  next,     \* run_next.json exists
  flag,     \* runs with a .notify file
  done,     \* runs whose record has a finished_at
  run,      \* where a run, or its run_finished thread, is
  agent,    \* notify_when_done, per run
  call,     \* start_or_queue or _start_run, per caller
  events, faults,
  told,     \* history: notices sent because The Agent stopped waiting
  late      \* history: a request came when no run was left to look for it

fileVars == <<inbox, next, flag, done, run, agent, call, events, faults, told, late>>

Fault == events + faults < MaxEvents /\ faults < MaxFaults /\ faults' = faults + 1
Event == events + faults < MaxEvents /\ events' = events + 1

Asked(r) == agent[r] # "idle"

\* The executor's active runs, those that have yet to look for a request, and
\* the slots a new run may take: none The Agent has asked about.
Active  == {r \in Runs : run[r] \in {"going", "worked"}}
Looking == {r \in Runs : run[r] \in {"going", "worked", "ended", "recorded", "flagged"}}
Unused  == {r \in Runs : run[r] = "none" /\ ~Asked(r)}
First(S) == {n \in S : \A m \in S : n <= m}

-----------------------------------------------------------------------------
(* Asking for a run.                                                       *)

\* A person drops a file and wants it worked.
Drop(c) ==
  /\ call[c] = "idle"
  /\ Event
  /\ inbox' = inbox \cup {c}
  /\ call' = [call EXCEPT ![c] = "look"]
  /\ UNCHANGED <<next, flag, done, run, agent, faults, told, late>>

\* The executor is asked for its active runs; no answer counts as none.
LookForRuns(c) ==
  /\ call[c] = "look"
  /\ \/ call' = [call EXCEPT ![c] = IF Active = {} THEN "start" ELSE "queue"]
        /\ UNCHANGED faults
     \/ call' = [call EXCEPT ![c] = "start"] /\ Fault
  /\ UNCHANGED <<inbox, next, flag, done, run, agent, events, told, late>>

\* A slip: the request is written if a run is still going.
RequestIfGoing(c) ==
  /\ call[c] = "queue"
  /\ next' = (next \/ Active # {})
  /\ late' = (late \/ Looking = {})
  /\ call' = [call EXCEPT ![c] = "idle"]
  /\ UNCHANGED <<inbox, flag, done, run, agent, events, faults, told>>

\* It is written whatever has become of the run that was seen.
RequestNext(c) ==
  /\ call[c] = "queue"
  /\ next' = TRUE
  /\ late' = (late \/ Looking = {})
  /\ call' = [call EXCEPT ![c] = "idle"]
  /\ UNCHANGED <<inbox, flag, done, run, agent, events, faults, told>>

\* The executor starts a run, or does not.
StartRun(c) ==
  /\ call[c] = "start"
  /\ call' = [call EXCEPT ![c] = "idle"]
  /\ \/ /\ \E r \in First(Unused) : run' = [run EXCEPT ![r] = "going"] /\ done' = done \ {r}
        /\ UNCHANGED faults
     \/ Fault /\ UNCHANGED <<run, done>>
  /\ UNCHANGED <<inbox, next, flag, agent, events, told, late>>

-----------------------------------------------------------------------------
(* A run and its end.                                                      *)

\* The workflow takes what waits in the inbox.
Work(r) ==
  /\ run[r] = "going"
  /\ run' = [run EXCEPT ![r] = "worked"]
  /\ inbox' = {}
  /\ UNCHANGED <<next, flag, done, agent, call, events, faults, told, late>>

\* It is no longer active when run_finished gets a thread; a run whose start
\* could not be noted, or that fails before it has worked, is a fault.
EndRun(r) ==
  /\ r \in Active
  /\ \/ run[r] = "worked" /\ run' = [run EXCEPT ![r] = "ended"] /\ UNCHANGED faults
     \/ Fault /\ \E pc \in {"ended", "none"} : run' = [run EXCEPT ![r] = pc]
  /\ UNCHANGED <<inbox, next, flag, done, agent, call, events, told, late>>

\* The outcome is on disk before anything slow happens.
WriteRecord(r) ==
  /\ run[r] = "ended"
  /\ \/ run' = [run EXCEPT ![r] = "recorded"] /\ done' = done \cup {r} /\ UNCHANGED faults
     \/ run' = [run EXCEPT ![r] = "none"] /\ Fault /\ UNCHANGED done
  /\ UNCHANGED <<inbox, next, flag, agent, call, events, told, late>>

\* A slip: the file is read and stays.
ReadFlag(r) ==
  /\ UNCHANGED flag
  /\ told' = IF r \in flag THEN [told EXCEPT ![r] = @ + 1] ELSE told

\* os.remove succeeds for one of those who try. Runs have something to tell,
\* and somebody to tell it to.
ClaimFlag(r) ==
  /\ flag' = flag \ {r}
  /\ told' = IF r \in flag THEN [told EXCEPT ![r] = @ + 1] ELSE told

DeliverLate(r) ==
  /\ run[r] = "recorded"
  /\ run' = [run EXCEPT ![r] = "flagged"]
  /\ ClaimFlag(r)
  /\ UNCHANGED <<inbox, next, done, agent, call, events, faults, late>>

ClaimNext(r) ==
  /\ run[r] = "flagged"
  /\ run' = [run EXCEPT ![r] = IF next THEN "next" ELSE "none"]
  /\ next' = FALSE
  /\ UNCHANGED <<inbox, flag, done, agent, call, events, faults, told, late>>

FilesWait == inbox # {}

\* The next run, if files wait; one that does not start is only logged.
StartNext(r) ==
  /\ run[r] = "next"
  /\ \/ /\ FilesWait
        /\ \E n \in First(Unused \cup {m \in {r} : ~Asked(m)}) :
             /\ run' = [run EXCEPT ![r] = "none", ![n] = "going"]
             /\ done' = done \ {n}
        /\ UNCHANGED faults
     \/ /\ run' = [run EXCEPT ![r] = "none"]
        /\ IF FilesWait THEN Fault ELSE UNCHANGED faults
        /\ UNCHANGED done
  /\ UNCHANGED <<inbox, next, flag, agent, call, events, told, late>>

-----------------------------------------------------------------------------
(* notify_when_done: the flag, then the record, then the claim.            *)

AgentAsks(r) ==
  /\ ~Asked(r)
  /\ run[r] # "none" \/ r \in done
  /\ Event
  /\ flag' = flag \cup {r}
  /\ agent' = [agent EXCEPT ![r] = "read"]
  /\ UNCHANGED <<inbox, next, done, run, call, faults, told, late>>

\* A slip: the flag is left to the run.
AgentLeaves(r) ==
  /\ agent[r] = "read"
  /\ agent' = [agent EXCEPT ![r] = "left"]
  /\ UNCHANGED <<inbox, next, flag, done, run, call, events, faults, told, late>>

AgentReads(r) ==
  /\ agent[r] = "read"
  /\ agent' = [agent EXCEPT ![r] = IF r \in done THEN "claim" ELSE "left"]
  /\ UNCHANGED <<inbox, next, flag, done, run, call, events, faults, told, late>>

AgentClaims(r) ==
  /\ agent[r] = "claim"
  /\ agent' = [agent EXCEPT ![r] = "left"]
  /\ ClaimFlag(r)
  /\ UNCHANGED <<inbox, next, done, run, call, events, faults, late>>

-----------------------------------------------------------------------------
FilesInit ==
  /\ inbox = {}
  /\ next = FALSE
  /\ flag = {}
  /\ done = {}
  /\ run = [r \in Runs |-> "none"]
  /\ agent = [r \in Runs |-> "idle"]
  /\ call = [c \in Callers |-> "idle"]
  /\ events = 0 /\ faults = 0
  /\ told = [r \in Runs |-> 0]
  /\ late = FALSE

RunSteps(r) ==
  \/ Work(r) \/ EndRun(r) \/ WriteRecord(r) \/ DeliverLate(r) \/ ClaimNext(r)
  \/ StartNext(r)

AgentSteps(r) == AgentReads(r) \/ AgentClaims(r)

\* The steps that are no caller's.
FilesNext == \E r \in Runs : RunSteps(r) \/ AgentSteps(r) \/ AgentAsks(r)

CallSteps(c) == LookForRuns(c) \/ RequestNext(c) \/ StartRun(c)

-----------------------------------------------------------------------------
(* Properties.                                                             *)

FilesTypeOK ==
  /\ inbox \subseteq Files
  /\ next \in BOOLEAN
  /\ flag \subseteq {r \in Runs : Asked(r)} /\ done \subseteq Runs
  /\ run \in [Runs -> {"none", "going", "worked", "ended", "recorded", "flagged", "next"}]
  /\ agent \in [Runs -> {"idle", "read", "claim", "left"}]
  /\ call \in [Callers -> {"idle", "look", "queue", "start"}]
  /\ events \in 0..MaxEvents /\ faults \in 0..MaxFaults
  /\ told \in [Runs -> Nat]
  /\ late \in BOOLEAN

\* Who asked The Agent for a run it stopped waiting for is told once, whether
\* the run ends before, while or after the flag is written (notify_when_done
\* and run_finished both try to claim it).
ToldOnce == \A r \in Runs : told[r] <= 1

\* ... and is told, unless something fails: again and again nobody who asked is
\* still to be told.
AskedIsTold == []<>(faults > 0 \/ \A r \in Runs : Asked(r) => told[r] > 0)
=============================================================================

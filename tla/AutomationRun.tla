---------------------------- MODULE AutomationRun ----------------------------
(***************************************************************************)
(* Runs of automations (src/automations): the runner that supervises a     *)
(* script, the checkpoint gates at which the script waits for a person,    *)
(* the My Approvals rows that mirror the gates, abort requests, and the    *)
(* reaper of runs whose supervisor is gone. The row of AutomationRuns, the *)
(* gate files and the approval files are shared by all of them and every   *)
(* read and write below is a step of its own where the code does not hold  *)
(* a lock over both. All runs are of one automation.                       *)
(***************************************************************************)
EXTENDS Naturals

CONSTANTS
  Runs,
  Home,        \* the process that supervises a run
  Gates,       \* how many checkpoints a script passes through at most
  Yielding,    \* runs whose script calls waiting_for_decisions
  Lasting,     \* runs that may outlive the guard's window
  Deciders,    \* requests of people under way at the same time
  App,         \* the main application's process
  MaxFaults    \* bound: crashes of a process and failing final updates

Processes == {Home[r] : r \in Runs} \cup {App}

ASSUME RunAssumption ==
  /\ DOMAIN Home = Runs
  /\ Gates \in [Runs -> Nat]
  /\ Yielding \subseteq Runs
  /\ Lasting \subseteq Runs
  /\ MaxFaults \in Nat

LiveStatuses == {"running", "waiting", "aborting"}
Outcomes     == {"success", "failed", "aborted"}
RunStatus    == {"none", "skipped"} \cup LiveStatuses \cup Outcomes
Verdicts     == {"proceed", "abort"}
RowStatus    == {"none", "Pending", "Approved", "Rejected", "Cancelled"}
GateFiles    == [verdict : {"none", "open"} \cup Verdicts, linked : BOOLEAN]
GateIds      == UNION {{r} \X (1..Gates[r]) : r \in Runs}

VARIABLES
  status,   \* AutomationRuns.status
  age,      \* of the row: under the reaper's grace, over it, over the guard's
  beat,     \* age of the _heartbeat file
  marker,   \* the marker of waiting_for_decisions, and whether it ever was set
  sup,      \* where runner.run() is
  outcome,  \* the result _execute has returned
  script,   \* the child process
  gate,     \* the number of gates the script has opened
  file,     \* checkpoint_<id>.json
  row,      \* the mirrored approval file
  post,     \* where the request that opens the gate is
  copy,     \* the gate file as set_approval_request_id read it
  op,       \* decisions under way
  reaper,   \* the reaper's sweep
  faults,
  (* history *)
  votes,    \* verdicts people have asked for, per gate
  passed,   \* gates the script has passed
  reaped    \* runs the reaper has finalized

runVars  == <<status, age, beat, marker, sup, outcome, script, gate>>
gateVars == <<file, row, post, copy>>
history  == <<votes, passed, reaped>>
vars == <<runVars, gateVars, op, reaper, faults, history>>

NoFile == [verdict |-> "none", linked |-> FALSE]
Idle   == [pc |-> "idle"]
Decisions ==
  [pc : {"settle", "read", "write", "flip", "mirror"}, gate : GateIds,
   verdict : Verdicts, saw : GateFiles]
Sweeps == [pc : {"gates", "finish", "settle"}, run : Runs]

Live(r)     == status[r] \in LiveStatuses
Finished(r) == status[r] \in Outcomes
Alive(r)    == script[r] \in {"working", "asking", "waiting", "polling", "approved"}
OpenedBy(r) == {g \in GateIds : g[1] = r}
Current(r)  == <<r, gate[r]>>

-----------------------------------------------------------------------------
(* Helpers of the runner. *)

Fault == faults < MaxFaults /\ faults' = faults + 1

\* A slip: the update without its condition.
SetStatusAnyway(r, s, S) == status' = [status EXCEPT ![r] = s]

\* UPDATE ... SET status = s, only_if_in S.
SetStatus(r, s, S) ==
  status' = IF status[r] \in S THEN [status EXCEPT ![r] = s] ELSE status

\* The live rows that are younger than timeout + grace. A slip: a waiting or
\* aborting run is no longer "running".
RunningRows(r) == {q \in Runs \ {r} : status[q] = "running" /\ age[q] # "expired"}

LiveRows(r) == {q \in Runs \ {r} : Live(q) /\ age[q] # "expired"}

\* _cancel_open_checkpoint_approvals: rows found through the gate files and
\* rows naming the run, as far as they are still Pending.
CancelRows(r) ==
  row' = [g \in GateIds |->
            IF g[1] = r /\ row[g] = "Pending" THEN "Cancelled" ELSE row[g]]

-----------------------------------------------------------------------------
(* runner.run(): the guard against a second run, the packages, supervision *)
(* and the final update.                                                   *)

\* The guard holds its process's lock over the check and the insert.
Check(r) ==
  /\ sup[r] = "none"
  /\ \A q \in Runs : Home[q] = Home[r] => sup[q] \notin {"free", "busy"}
  /\ sup' = [sup EXCEPT ![r] =
               IF \A q \in LiveRows(r) : marker[q] = "set" THEN "free" ELSE "busy"]
  /\ UNCHANGED <<status, age, beat, marker, outcome, script, gate, gateVars, op,
                 reaper, faults, history>>

Insert(r) ==
  /\ sup[r] \in {"free", "busy"}
  /\ IF sup[r] = "free"
     THEN /\ status' = [status EXCEPT ![r] = "running"]
          /\ sup' = [sup EXCEPT ![r] = "prepare"]
     ELSE /\ status' = [status EXCEPT ![r] = "skipped"]
          /\ sup' = [sup EXCEPT ![r] = "done"]
  /\ UNCHANGED <<age, beat, marker, outcome, script, gate, gateVars, op, reaper,
                 faults, history>>

End(r, result) ==
  /\ outcome' = [outcome EXCEPT ![r] = result]
  /\ sup' = [sup EXCEPT ![r] = "finish"]

\* Credentials, interpreter or packages: installing takes up to ten minutes.
PrepareFails(r) ==
  /\ sup[r] = "prepare"
  /\ End(r, "failed")
  /\ UNCHANGED <<status, age, beat, marker, script, gate, gateVars, op, reaper,
                 faults, history>>

\* The first heartbeat is written when the child has been started.
Launch(r) ==
  /\ sup[r] = "prepare"
  /\ sup' = [sup EXCEPT ![r] = "watch"]
  /\ script' = [script EXCEPT ![r] = "working"]
  /\ beat' = [beat EXCEPT ![r] = "fresh"]
  /\ UNCHANGED <<status, age, marker, outcome, gate, gateVars, op, reaper,
                 faults, history>>

Kill(r) == script' = [script EXCEPT ![r] = "killed"]

\* A slip: an abort is taken as done as soon as it is seen.
TrustAbort(r) ==
  /\ sup[r] = "watch"
  /\ Alive(r)
  /\ status[r] = "aborting"
  /\ End(r, "aborted")
  /\ UNCHANGED <<status, age, beat, marker, script, gate, gateVars, op, reaper,
                 faults, history>>

\* The supervision loop polls the row while the child runs ...
SeeAbort(r) ==
  /\ sup[r] = "watch"
  /\ Alive(r)
  /\ status[r] = "aborting"
  /\ Kill(r)
  /\ End(r, "aborted")
  /\ UNCHANGED <<status, age, beat, marker, gate, gateVars, op, reaper, faults,
                 history>>

\* A slip: the clock stands still while a person is asked.
DeadlineOfWorking(r) == status[r] # "waiting"

\* timeout_seconds has passed: it always can have.
DeadlinePassed(r) == TRUE

\* ... stops at the deadline, waiting at a gate or not ...
SeeDeadline(r) ==
  /\ sup[r] = "watch"
  /\ Alive(r)
  /\ DeadlinePassed(r)
  /\ Kill(r)
  /\ End(r, "failed")
  /\ UNCHANGED <<status, age, beat, marker, gate, gateVars, op, reaper, faults,
                 history>>

\* ... and ends when the child has: its exit code and the verification of its
\* outputs make the outcome, whatever the row says by then.
SeeExit(r) ==
  /\ sup[r] = "watch"
  /\ \/ script[r] = "exited" /\ \E result \in {"success", "failed"} : End(r, result)
     \/ script[r] = "declined" /\ End(r, "failed")
  /\ UNCHANGED <<status, age, beat, marker, script, gate, gateVars, op, reaper,
                 faults, history>>

\* The final update names the run only. If it fails the thread ends with it.
Finish(r) ==
  /\ sup[r] = "finish"
  /\ \/ /\ SetStatus(r, outcome[r], RunStatus)
        /\ sup' = [sup EXCEPT ![r] = "settle"]
        /\ UNCHANGED faults
     \/ /\ Fault
        /\ sup' = [sup EXCEPT ![r] = "lost"]
        /\ UNCHANGED status
  /\ outcome' = [outcome EXCEPT ![r] = "none"]
  /\ UNCHANGED <<age, beat, marker, script, gate, gateVars, op, reaper, history>>

Settle(r) ==
  /\ sup[r] = "settle"
  /\ CancelRows(r)
  /\ sup' = [sup EXCEPT ![r] = "done"]
  /\ UNCHANGED <<status, age, beat, marker, outcome, script, gate, file, post,
                 copy, op, reaper, faults, history>>

Supervise(r) ==
  \/ Check(r) \/ Insert(r) \/ PrepareFails(r) \/ Launch(r) \/ SeeAbort(r)
  \/ SeeDeadline(r) \/ SeeExit(r) \/ Finish(r) \/ Settle(r)

\* The abort endpoint, conditional on a row that is running or waiting.
RequestAbort(r) ==
  /\ Live(r)
  /\ SetStatus(r, "aborting", {"running", "waiting"})
  /\ UNCHANGED <<age, beat, marker, sup, outcome, script, gate, gateVars, op,
                 reaper, faults, history>>

-----------------------------------------------------------------------------
(* The script: user code over the SDK. It promises nothing.                *)

ScriptExits(r) ==
  /\ script[r] \in {"working", "asking"}
  /\ script' = [script EXCEPT ![r] = "exited"]
  /\ UNCHANGED <<status, age, beat, marker, sup, outcome, gate, gateVars, op,
                 reaper, faults, history>>

\* waiting_for_decisions(True) writes the marker, (False) removes it.
SetMarker(r) ==
  /\ r \in Yielding
  /\ script[r] = "working"
  /\ marker' = [marker EXCEPT ![r] = IF @ = "set" THEN "cleared" ELSE "set"]
  /\ UNCHANGED <<status, age, beat, sup, outcome, script, gate, gateVars, op,
                 reaper, faults, history>>

\* checkpoint(): the POST is refused unless the row is live.
AskGate(r) ==
  /\ script[r] = "working"
  /\ gate[r] < Gates[r]
  /\ Live(r)
  /\ script' = [script EXCEPT ![r] = "asking"]
  /\ post' = [post EXCEPT ![r] = "create"]
  /\ UNCHANGED <<status, age, beat, marker, sup, outcome, gate, file, row, copy, op,
                 reaper, faults, history>>

\* The poll is refused when the row is not live any more, which ends the script
\* as a declined gate does, by SystemExit(75).
PollGate(r) ==
  /\ script[r] = "waiting"
  /\ script' = [script EXCEPT ![r] = IF Live(r) THEN "polling" ELSE "declined"]
  /\ UNCHANGED <<status, age, beat, marker, sup, outcome, gate, gateVars, op,
                 reaper, faults, history>>

\* A slip: the gate is over once anybody has decided it.
AnyVerdict(v) == v \in Verdicts

Proceeds(v) == v = "proceed"

\* The gate file is read after the look at the row ...
PollRead(r) ==
  /\ script[r] = "polling"
  /\ LET v == file[Current(r)].verdict
     IN script' = [script EXCEPT ![r] = IF Proceeds(v) THEN "approved"
                                        ELSE IF v = "abort" THEN "declined"
                                        ELSE "waiting"]
  /\ UNCHANGED <<status, age, beat, marker, sup, outcome, gate, gateVars, op,
                 reaper, faults, history>>

\* ... or the poll fails, which the SDK takes as no answer yet ...
PollFails(r) ==
  /\ script[r] = "polling"
  /\ script' = [script EXCEPT ![r] = "waiting"]
  /\ UNCHANGED <<status, age, beat, marker, sup, outcome, gate, gateVars, op,
                 reaper, faults, history>>

\* ... and the answer reaches the script still later: checkpoint() returns.
PassGate(r) ==
  /\ script[r] = "approved"
  /\ script' = [script EXCEPT ![r] = "working"]
  /\ passed' = passed \cup {Current(r)}
  /\ UNCHANGED <<status, age, beat, marker, sup, outcome, gate, gateVars, op,
                 reaper, faults, votes, reaped>>

Polls(r) == PollGate(r) \/ PollRead(r) \/ PollFails(r) \/ PassGate(r)

-----------------------------------------------------------------------------
(* The request that opens a gate, in the main application.                 *)

Reply(r) ==
  /\ post' = [post EXCEPT ![r] = "none"]
  /\ script' = [script EXCEPT ![r] = IF @ = "asking" THEN "waiting" ELSE @]

\* It writes the gate file first, whatever became of the run since the look at
\* its row.
PostCreate(r) ==
  /\ post[r] = "create"
  /\ gate' = [gate EXCEPT ![r] = @ + 1]
  /\ file' = [file EXCEPT ![<<r, gate[r] + 1>>].verdict = "open"]
  /\ post' = [post EXCEPT ![r] = "flip"]
  /\ UNCHANGED <<status, age, beat, marker, sup, outcome, script, row, copy, op, reaper,
                 faults, history>>

\* A slip: a gate that is opened shows on every live row.
PostFlipAnyway(r) ==
  /\ post[r] = "flip"
  /\ SetStatus(r, "waiting", LiveStatuses)
  /\ post' = [post EXCEPT ![r] = "bridge"]
  /\ UNCHANGED <<age, beat, marker, sup, outcome, script, gate, file, row, copy,
                 op, reaper, faults, history>>

PostFlip(r) ==
  /\ post[r] = "flip"
  /\ SetStatus(r, "waiting", {"running"})
  /\ post' = [post EXCEPT ![r] = "bridge"]
  /\ UNCHANGED <<age, beat, marker, sup, outcome, script, gate, file, row, copy,
                 op, reaper, faults, history>>

\* The mirrored row is best effort: without it the gate is open all the same.
PostBridge(r) ==
  /\ post[r] = "bridge"
  /\ \/ /\ row' = [row EXCEPT ![Current(r)] = "Pending"]
        /\ post' = [post EXCEPT ![r] = "link"]
        /\ UNCHANGED script
     \/ Reply(r) /\ UNCHANGED row
  /\ UNCHANGED <<status, age, beat, marker, sup, outcome, gate, file, copy, op,
                 reaper, faults, history>>

\* set_approval_request_id reads the file and writes it back, without a lock.
PostRead(r) ==
  /\ post[r] = "link"
  /\ copy' = [copy EXCEPT ![r] = file[Current(r)]]
  /\ post' = [post EXCEPT ![r] = "write"]
  /\ UNCHANGED <<runVars, file, row, op, reaper, faults, history>>

PostWrite(r) ==
  /\ post[r] = "write"
  /\ file' = [file EXCEPT ![Current(r)] = [copy[r] EXCEPT !.linked = TRUE]]
  /\ copy' = [copy EXCEPT ![r] = NoFile]
  /\ Reply(r)
  /\ UNCHANGED <<status, age, beat, marker, sup, outcome, gate, row, op, reaper,
                 faults, history>>

Post(r) ==
  PostCreate(r) \/ PostFlip(r) \/ PostBridge(r) \/ PostRead(r) \/ PostWrite(r)

-----------------------------------------------------------------------------
(* People decide a gate in Mission Control, or its row in My Approvals.    *)

Ask(d, g, v, step) ==
  /\ op[d] = Idle
  /\ op' = [op EXCEPT ![d] = [pc |-> step, gate |-> g, verdict |-> v, saw |-> NoFile]]
  /\ votes' = [votes EXCEPT ![g] = @ \cup {v}]

\* Mission Control goes to the gate file at once, open or not.
DecideGate(d, g, v) ==
  /\ file[g].verdict # "none"
  /\ Ask(d, g, v, "read")
  /\ UNCHANGED <<runVars, gateVars, reaper, faults, passed, reaped>>

\* My Approvals looks for a Pending row, and settles it before the gate.
DecideRow(d, g, v) ==
  /\ row[g] = "Pending"
  /\ Ask(d, g, v, "settle")
  /\ UNCHANGED <<runVars, gateVars, reaper, faults, passed, reaped>>

\* A slip: the verdict as the form sends it, not capitalized.
RawStatus(v) == IF v = "proceed" THEN "approved" ELSE "rejected"

RowStatusOf(v) == IF v = "proceed" THEN "Approved" ELSE "Rejected"

\* settle_row: only a Pending row changes.
SettleRow(g, v) ==
  row' = IF row[g] = "Pending" THEN [row EXCEPT ![g] = RowStatusOf(v)] ELSE row

DecisionSettles(d) ==
  /\ op[d].pc = "settle"
  /\ SettleRow(op[d].gate, op[d].verdict)
  /\ op' = [op EXCEPT ![d].pc = "read"]
  /\ UNCHANGED <<runVars, file, post, copy, reaper, faults, history>>

\* decide_checkpoint: the first decision wins, by a read and a later write.
DecisionReads(d) ==
  /\ op[d].pc = "read"
  /\ LET seen == file[op[d].gate]
     IN op' = [op EXCEPT ![d].saw = seen,
                         ![d].pc = IF seen.verdict = "open" THEN "write" ELSE "flip"]
  /\ UNCHANGED <<runVars, gateVars, reaper, faults, history>>

DecisionWrites(d) ==
  /\ op[d].pc = "write"
  /\ LET decided == [op[d].saw EXCEPT !.verdict = op[d].verdict]
     IN /\ file' = [file EXCEPT ![op[d].gate] = decided]
        /\ op' = [op EXCEPT ![d].saw = decided, ![d].pc = "flip"]
  /\ UNCHANGED <<runVars, row, post, copy, reaper, faults, history>>

\* The row follows the verdict asked for, also when an earlier one won.
DecisionFlips(d) ==
  /\ op[d].pc = "flip"
  /\ IF op[d].verdict = "proceed"
     THEN SetStatus(op[d].gate[1], "running", {"waiting"})
     ELSE SetStatus(op[d].gate[1], "aborting", {"waiting", "running"})
  /\ op' = [op EXCEPT ![d].pc = "mirror"]
  /\ UNCHANGED <<age, beat, marker, sup, outcome, script, gate, gateVars, reaper,
                 faults, history>>

\* The row of a gate file that was linked when it was read is settled too.
DecisionMirrors(d) ==
  /\ op[d].pc = "mirror"
  /\ IF op[d].saw.linked THEN SettleRow(op[d].gate, op[d].verdict)
                         ELSE UNCHANGED row
  /\ op' = [op EXCEPT ![d] = Idle]
  /\ UNCHANGED <<runVars, file, post, copy, reaper, faults, history>>

Decide(d) ==
  \/ DecisionSettles(d) \/ DecisionReads(d) \/ DecisionWrites(d)
  \/ DecisionFlips(d) \/ DecisionMirrors(d)

-----------------------------------------------------------------------------
(* Time, the reaper and crashes.                                           *)

\* A live row outgrows the reaper's grace, later the guard's window.
Grow(r) ==
  /\ Live(r)
  /\ \/ age[r] = "young"
     \/ age[r] = "grown" /\ r \in Lasting
  /\ age' = [age EXCEPT ![r] = IF @ = "young" THEN "grown" ELSE "expired"]
  /\ UNCHANGED <<status, beat, marker, sup, outcome, script, gate, gateVars, op,
                 reaper, faults, history>>

\* Only the supervision loop touches the heartbeat.
GoStale(r) ==
  /\ beat[r] = "fresh"
  /\ sup[r] # "watch"
  /\ beat' = [beat EXCEPT ![r] = "stale"]
  /\ UNCHANGED <<status, age, marker, sup, outcome, script, gate, gateVars, op,
                 reaper, faults, history>>

\* At startup or from Mission Control: a live row, old enough, without a fresh
\* heartbeat. Its approval rows are cancelled first ...
ReapStart(r) ==
  /\ reaper = Idle
  /\ Live(r)
  /\ age[r] # "young"
  /\ beat[r] # "fresh"
  /\ CancelRows(r)
  /\ reaper' = [pc |-> "gates", run |-> r]
  /\ UNCHANGED <<runVars, file, post, copy, op, faults, history>>

\* ... then its open gates are decided, and the run is finalized as it is by
\* its own supervisor, without a second look at the row.
ReapGates(r) ==
  /\ reaper = [pc |-> "gates", run |-> r]
  /\ file' = [g \in GateIds |->
       IF g[1] = r /\ file[g].verdict = "open"
       THEN [file[g] EXCEPT !.verdict = "abort"] ELSE file[g]]
  /\ reaper' = [reaper EXCEPT !.pc = "finish"]
  /\ UNCHANGED <<runVars, row, post, copy, op, faults, history>>

ReapFinish(r) ==
  /\ reaper = [pc |-> "finish", run |-> r]
  /\ SetStatus(r, "aborted", RunStatus)
  /\ reaped' = reaped \cup {r}
  /\ reaper' = [reaper EXCEPT !.pc = "settle"]
  /\ UNCHANGED <<age, beat, marker, sup, outcome, script, gate, gateVars, op,
                 faults, votes, passed>>

ReapSettle(r) ==
  /\ reaper = [pc |-> "settle", run |-> r]
  /\ CancelRows(r)
  /\ reaper' = Idle
  /\ UNCHANGED <<runVars, file, post, copy, op, faults, history>>

Reap(r) == ReapStart(r) \/ ReapGates(r) \/ ReapFinish(r) \/ ReapSettle(r)

\* Supervising threads, and the main application's requests, are gone; files,
\* rows and the child processes stay.
Crash(p) ==
  /\ Fault
  /\ sup' = [r \in Runs |->
       IF Home[r] = p /\ sup[r] \notin {"none", "done"} THEN "lost" ELSE sup[r]]
  /\ outcome' = [r \in Runs |-> IF Home[r] = p THEN "none" ELSE outcome[r]]
  /\ IF p = App
     THEN /\ post' = [r \in Runs |-> "none"]
          /\ copy' = [r \in Runs |-> NoFile]
          /\ op' = [d \in Deciders |-> Idle]
          /\ reaper' = Idle
     ELSE UNCHANGED <<post, copy, op, reaper>>
  /\ UNCHANGED <<status, age, beat, marker, script, gate, file, row, history>>

-----------------------------------------------------------------------------
Init ==
  /\ status = [r \in Runs |-> "none"]
  /\ age = [r \in Runs |-> "young"]
  /\ beat = [r \in Runs |-> "absent"]
  /\ marker = [r \in Runs |-> "none"]
  /\ sup = [r \in Runs |-> "none"]
  /\ outcome = [r \in Runs |-> "none"]
  /\ script = [r \in Runs |-> "none"]
  /\ gate = [r \in Runs |-> 0]
  /\ file = [g \in GateIds |-> NoFile]
  /\ row = [g \in GateIds |-> "none"]
  /\ post = [r \in Runs |-> "none"]
  /\ copy = [r \in Runs |-> NoFile]
  /\ op = [d \in Deciders |-> Idle]
  /\ reaper = Idle
  /\ faults = 0
  /\ votes = [g \in GateIds |-> {}]
  /\ passed = {}
  /\ reaped = {}

Run(r) ==
  \/ Supervise(r) \/ Post(r) \/ Reap(r)
  \/ ScriptExits(r) \/ SetMarker(r) \/ AskGate(r) \/ Polls(r)
  \/ RequestAbort(r) \/ Grow(r) \/ GoStale(r)

Next ==
  \/ \E r \in Runs : Run(r)
  \/ \E d \in Deciders : Decide(d)
  \/ \E d \in Deciders, g \in GateIds, v \in Verdicts :
       DecideGate(d, g, v) \/ DecideRow(d, g, v)
  \/ \E p \in Processes : Crash(p)

Spec == Init /\ [][Next]_vars

\* Supervising threads are run, the deadline passes for every child that does
\* not end before it. Scripts and people promise nothing, and nothing makes
\* the reaper sweep again.
Fairness == \A r \in Runs : WF_vars(Supervise(r))

FairSpec == Spec /\ Fairness

-----------------------------------------------------------------------------
(* Properties. *)

TypeOK ==
  /\ status \in [Runs -> RunStatus]
  /\ age \in [Runs -> {"young", "grown", "expired"}]
  /\ beat \in [Runs -> {"absent", "fresh", "stale"}]
  /\ marker \in [Runs -> {"none", "set", "cleared"}]
  /\ sup \in [Runs -> {"none", "free", "busy", "prepare", "watch", "finish",
                       "settle", "done", "lost"}]
  /\ outcome \in [Runs -> {"none"} \cup Outcomes]
  /\ script \in [Runs -> {"none", "working", "asking", "waiting", "polling",
                          "approved", "exited", "declined", "killed"}]
  /\ gate \in [Runs -> Nat]
  /\ file \in [GateIds -> GateFiles]
  /\ row \in [GateIds -> RowStatus]
  /\ post \in [Runs -> {"none", "create", "flip", "bridge", "link", "write"}]
  /\ copy \in [Runs -> GateFiles]
  /\ op \in [Deciders -> Decisions \cup {Idle}]
  /\ reaper \in Sweeps \cup {Idle}
  /\ faults \in 0..MaxFaults
  /\ votes \in [GateIds -> SUBSET Verdicts]
  /\ passed \in SUBSET GateIds
  /\ reaped \in SUBSET Runs

\* A script gets past a gate only if a person asked for that very gate to
\* proceed, whatever requests, sweeps and crashes race with its file
\* (checkpoint(), decide_checkpoint, set_approval_request_id).
GateNeedsProceed == \A g \in passed : "proceed" \in votes[g]

\* What the last look at the row has let a run do at its gates.
Admitted(r) == CASE post[r] = "create" -> "ask"
                 [] script[r] \in {"polling", "approved"} -> "pass"
                 [] OTHER -> "none"

\* The checkpoints keep what GateContract promises: gates are asked and passed
\* one after the other, each passed once, after a person asked for it to proceed;
\* a look at the row that finds the run live goes before every one of them, so
\* that a run asks or passes one gate at most after its outcome, and passes none
\* when its own supervisor recorded it (checkpoint(), runtime_checkpoint).
Checkpoints == INSTANCE GateContract WITH
  asked <- gate, wanted <- votes, admitted <- [r \in Runs |-> Admitted(r)],
  over <- {r \in Runs : Finished(r)}, loose <- reaped

KeepsGateContract == Checkpoints!Spec

\* No decision, abort request or late gate brings a finished run back to
\* life: only a final update replaces a final update (only_if_in).
FinishedNeverRevives ==
  [][\A r \in Runs : Finished(r) => Finished(r)']_vars

\* A run that shows an outcome has no child left, unless it is one the reaper
\* finalized without being able to reach the child (_supervise, _kill).
OutcomeMeansStopped ==
  \A r \in Runs : Finished(r) /\ Alive(r) => r \in reaped

Supervised(r) == sup[r] \in {"prepare", "watch"}

\* One process never supervises two runs of the automation at once, unless
\* the guard was blinded for one of them: it said it only waits for reviews,
\* its row has outlived the guard's window, or the reaper finalized it.
OneRunPerProcess ==
  \A r, q \in Runs :
    r # q /\ Home[r] = Home[q] /\ Supervised(r) /\ Supervised(q) =>
      \E x \in {r, q} : marker[x] # "none" \/ age[x] = "expired" \/ x \in reaped

\* Every run that is started gets an outcome and keeps one, also if its gate
\* is never decided, unless its supervisor is lost.
EveryRunFinishes ==
  \A r \in Runs : sup[r] = "prepare" ~> [](Finished(r) \/ sup[r] = "lost")

\* An abort request is not lost: no proceed still under way, and no gate
\* that is just being opened takes it back, and the run it is for ends
\* in another outcome only if its script was over before the supervisor saw the
\* request (request_abort, _supervise, only_if_in of the other writers).
AbortIsHeeded ==
  [][\A r \in Runs : status[r] = "aborting" =>
       \/ status'[r] \in {"aborting", "aborted"}
       \/ Finished(r)' /\ ~Alive(r)]_vars
=============================================================================

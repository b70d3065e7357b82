------------------------- MODULE AutomationRunProofs -------------------------
(***************************************************************************)
(* What AutomationRun guarantees for any number of runs, gates, people and *)
(* faults: its types, the gates, and what an outcome in the row means. The *)
(* inductive invariant relates the three actors of a run, its supervisor,  *)
(* its script and the request that opens a gate (Places), says who can     *)
(* have finished it (Endings), and traces every 'proceed' that is written, *)
(* or about to be written, back to a vote (Traced). With the order of the  *)
(* gates (Orderly) it gives that AutomationRun implements GateContract.    *)
(***************************************************************************)
EXTENDS AutomationRun, TLAPS

\* Where supervisor, script and gate request of a run can be together.
Places ==
  \A r \in Runs :
    /\ gate[r] <= Gates[r]
    /\ sup[r] \in {"none", "free", "busy", "prepare"} =>
         script[r] = "none" /\ post[r] = "none"
    /\ sup[r] \in {"finish", "settle", "done"} => ~Alive(r)
    /\ sup[r] = "finish" => outcome[r] \in Outcomes
    /\ script[r] \in {"waiting", "polling", "approved"} => gate[r] >= 1
    /\ post[r] # "none" =>
         script[r] \notin {"none", "working", "waiting", "polling", "approved"}
    /\ post[r] = "create" => gate[r] < Gates[r]
    /\ post[r] \notin {"none", "create"} => gate[r] >= 1

\* Who can have finished a run, and that a sweep is about a run that started.
Endings ==
  /\ \A r \in Runs :
       /\ sup[r] \in {"none", "free", "busy"} => status[r] = "none"
       /\ sup[r] \in {"prepare", "watch", "finish"} /\ Finished(r) => r \in reaped
       /\ r \in reaped => Finished(r)
  /\ \A r \in Runs : reaper # Idle /\ reaper.run = r =>
       sup[r] \notin {"none", "free", "busy"}
  /\ OutcomeMeansStopped

\* Every 'proceed' stems from a vote for the gate.
Traced ==
  /\ \A g \in GateIds : file[g].verdict = "proceed" => "proceed" \in votes[g]
  /\ \A r \in Runs :
       post[r] = "write" /\ copy[r].verdict = "proceed" =>
         "proceed" \in votes[Current(r)]
  /\ \A d \in Deciders : op[d] # Idle => op[d].verdict \in votes[op[d].gate]
  /\ \A r \in Runs : script[r] = "approved" => "proceed" \in votes[Current(r)]

-----------------------------------------------------------------------------
(* Gates.                                                                  *)

\* A gate is a run and a number up to the gates of its script.
LEMMA GateIdsAre ==
  /\ \A r \in Runs : \A n \in 1..Gates[r] : <<r, n>> \in GateIds
  /\ \A g \in GateIds : g[1] \in Runs
BY DEF GateIds

\* The gate a request is about exists.
LEMMA CurrentIsGate ==
  ASSUME TypeOK, NEW r \in Runs, gate[r] >= 1, gate[r] <= Gates[r]
  PROVE  Current(r) \in GateIds
<1>1. gate[r] \in 1..Gates[r]
  BY RunAssumption DEF TypeOK
<1> QED
  BY <1>1, GateIdsAre DEF Current

\* Setting a status keeps the statuses' type.
LEMMA StatusType ==
  ASSUME TypeOK, NEW r \in Runs, NEW s \in RunStatus, NEW S, SetStatus(r, s, S)
  PROVE  status' \in [Runs -> RunStatus]
BY DEF SetStatus, TypeOK

\* Cancelling a run's approvals keeps the rows' type.
LEMMA CancelType ==
  ASSUME TypeOK, NEW r \in Runs, CancelRows(r)
  PROVE  row' \in [GateIds -> RowStatus]
<1>1. \A g \in GateIds : row[g] \in RowStatus
  BY DEF TypeOK
<1>2. "Cancelled" \in RowStatus
  BY DEF RowStatus
<1> QED
  BY <1>1, <1>2 DEF CancelRows

\* Settling a row keeps the rows' type.
LEMMA SettleType ==
  ASSUME TypeOK, NEW g \in GateIds, NEW v \in Verdicts, SettleRow(g, v)
  PROVE  row' \in [GateIds -> RowStatus]
<1>1. RowStatusOf(v) \in RowStatus
  BY DEF RowStatusOf, RowStatus
<1> QED
  BY <1>1 DEF SettleRow, TypeOK

-----------------------------------------------------------------------------
(* Types.                                                                  *)

TypeInv == TypeOK /\ Places

\* The supervisor's steps keep the types.
LEMMA SuperviseTypes ==
  ASSUME TypeInv, NEW r \in Runs, Supervise(r)
  PROVE  TypeOK'
<1> USE DEF TypeInv
<1>1. CASE Check(r)
  BY <1>1 DEF Check, TypeOK, gateVars, history
<1>2. CASE Insert(r)
  BY <1>2 DEF Insert, TypeOK, gateVars, history, RunStatus, LiveStatuses
<1>3. CASE PrepareFails(r)
  BY <1>3 DEF PrepareFails, End, TypeOK, gateVars, history, Outcomes
<1>4. CASE Launch(r)
  BY <1>4 DEF Launch, TypeOK, gateVars, history
<1>5. CASE SeeAbort(r)
  BY <1>5 DEF SeeAbort, End, Kill, TypeOK, gateVars, history, Outcomes
<1>6. CASE SeeDeadline(r)
  BY <1>6 DEF SeeDeadline, End, Kill, TypeOK, gateVars, history, Outcomes
<1>7. CASE SeeExit(r)
  BY <1>7 DEF SeeExit, End, TypeOK, gateVars, history, Outcomes
<1>8. CASE Finish(r)
  <2> USE <1>8
  <2>1. outcome[r] \in RunStatus
    BY DEF Places, Finish, RunStatus
  <2>2. status' \in [Runs -> RunStatus]
    BY <2>1, StatusType DEF Finish, TypeOK
  <2>3. faults' \in 0..MaxFaults
    BY RunAssumption DEF Finish, Fault, TypeOK
  <2> QED
    BY <2>2, <2>3 DEF Finish, TypeOK, gateVars, history
<1>9. CASE Settle(r)
  BY <1>9, CancelType DEF Settle, TypeOK, history
<1> QED
  BY <1>1, <1>2, <1>3, <1>4, <1>5, <1>6, <1>7, <1>8, <1>9 DEF Supervise

\* The steps of the script, and of time, keep the types.
LEMMA ScriptTypes ==
  ASSUME TypeInv, NEW r \in Runs,
         ScriptExits(r) \/ SetMarker(r) \/ AskGate(r) \/ Polls(r)
           \/ RequestAbort(r) \/ Grow(r) \/ GoStale(r)
  PROVE  TypeOK'
<1> USE DEF TypeInv
<1>1. CASE ScriptExits(r)
  BY <1>1 DEF ScriptExits, TypeOK, gateVars, history
<1>2. CASE SetMarker(r)
  BY <1>2 DEF SetMarker, TypeOK, gateVars, history
<1>3. CASE AskGate(r)
  BY <1>3 DEF AskGate, TypeOK, history
<1>4. CASE Polls(r)
  <2>1. script' \in [Runs -> {"none", "working", "asking", "waiting", "polling",
                              "approved", "exited", "declined", "killed"}]
    BY <1>4 DEF Polls, PollGate, PollRead, PollFails, PassGate, TypeOK
  <2>2. passed' \in SUBSET GateIds
    <3>1. CASE PassGate(r)
      <4>1. script[r] = "approved"
        BY <3>1 DEF PassGate
      <4>2. Current(r) \in GateIds
        BY <4>1, CurrentIsGate DEF Places
      <4> QED
        BY <3>1, <4>2 DEF PassGate, TypeOK
    <3>2. CASE ~PassGate(r)
      BY <1>4, <3>2 DEF Polls, PollGate, PollRead, PollFails, history, TypeOK
    <3> QED
      BY <3>1, <3>2
  <2> QED
    BY <1>4, <2>1, <2>2 DEF Polls, PollGate, PollRead, PollFails, PassGate, TypeOK,
                            gateVars, history
<1>5. CASE RequestAbort(r)
  BY <1>5, StatusType DEF RequestAbort, TypeOK, gateVars, history, RunStatus,
                          LiveStatuses
<1>6. CASE Grow(r)
  BY <1>6 DEF Grow, TypeOK, gateVars, history
<1>7. CASE GoStale(r)
  BY <1>7 DEF GoStale, TypeOK, gateVars, history
<1> QED
  BY <1>1, <1>2, <1>3, <1>4, <1>5, <1>6, <1>7

\* The steps of the request that opens a gate keep the types.
LEMMA PostTypes ==
  ASSUME TypeInv, NEW r \in Runs, Post(r)
  PROVE  TypeOK'
<1> USE DEF TypeInv
<1>1. post[r] \notin {"none", "create"} => Current(r) \in GateIds
  BY CurrentIsGate DEF Places
<1>2. CASE PostCreate(r)
  <2>1. /\ gate[r] \in Nat /\ Gates[r] \in Nat
        /\ gate[r] < Gates[r]
    BY <1>2, RunAssumption DEF PostCreate, Places, TypeOK
  <2>2. gate[r] + 1 \in 1..Gates[r]
    BY <2>1
  <2>3. <<r, gate[r] + 1>> \in GateIds
    BY <2>2, GateIdsAre
  <2>4. file' \in [GateIds -> GateFiles]
    <3>1. file \in [GateIds -> GateFiles]
      BY DEF TypeOK
    <3> QED
      BY <1>2, <2>3, <3>1 DEF PostCreate, GateFiles
  <2> QED
    BY <1>2, <2>4 DEF PostCreate, TypeOK, history
<1>3. CASE PostFlip(r)
  BY <1>3, StatusType DEF PostFlip, TypeOK, history, RunStatus, LiveStatuses
<1>4. CASE PostBridge(r)
  <2>1. row' \in [GateIds -> RowStatus]
    BY <1>4, <1>1 DEF PostBridge, TypeOK, RowStatus
  <2>2. script' \in [Runs -> {"none", "working", "asking", "waiting", "polling",
                              "approved", "exited", "declined", "killed"}]
    BY <1>4 DEF PostBridge, Reply, TypeOK
  <2> QED
    BY <1>4, <2>1, <2>2 DEF PostBridge, Reply, TypeOK, history
<1>5. CASE PostRead(r)
  BY <1>5, <1>1 DEF PostRead, TypeOK, runVars, history
<1>6. CASE PostWrite(r)
  <2>1. file' \in [GateIds -> GateFiles]
    <3>1. \A f \in GateFiles : [f EXCEPT !.linked = TRUE] \in GateFiles
      BY DEF GateFiles
    <3>2. copy[r] \in GateFiles
      BY DEF TypeOK
    <3> QED
      BY <1>6, <3>1, <3>2 DEF PostWrite, TypeOK
  <2>2. copy' \in [Runs -> GateFiles]
    BY <1>6 DEF PostWrite, TypeOK, GateFiles, NoFile
  <2> QED
    BY <1>6, <2>1, <2>2 DEF PostWrite, Reply, TypeOK, history
<1> QED
  BY <1>2, <1>3, <1>4, <1>5, <1>6 DEF Post

\* What a decision under way looks like.
LEMMA DecisionParts ==
  ASSUME TypeOK, NEW d \in Deciders, op[d].pc # "idle"
  PROVE  /\ op[d] \in Decisions
         /\ op[d].gate \in GateIds
         /\ op[d].gate[1] \in Runs
         /\ op[d].verdict \in Verdicts
         /\ op[d].saw \in GateFiles
<1>1. op[d] \in Decisions
  BY DEF TypeOK, Idle
<1> QED
  BY <1>1, GateIdsAre DEF Decisions

\* A new decision keeps the types.
LEMMA AskTypes ==
  ASSUME TypeOK, NEW d \in Deciders, NEW g \in GateIds, NEW v \in Verdicts,
         DecideGate(d, g, v) \/ DecideRow(d, g, v)
  PROVE  TypeOK'
<1>1. PICK step \in {"read", "settle"} : Ask(d, g, v, step)
  BY DEF DecideGate, DecideRow
<1>2. NoFile \in GateFiles
  BY DEF NoFile, GateFiles
<1>3. op' \in [Deciders -> Decisions \cup {Idle}]
  BY <1>1, <1>2 DEF Ask, TypeOK, Decisions
<1>4. votes' \in [GateIds -> SUBSET Verdicts]
  BY <1>1 DEF Ask, TypeOK
<1> QED
  BY <1>3, <1>4 DEF DecideGate, DecideRow, TypeOK, runVars, gateVars

\* The steps of a decision keep the types.
LEMMA DecideTypes ==
  ASSUME TypeOK, NEW d \in Deciders, Decide(d)
  PROVE  TypeOK'
<1>1. op[d].pc # "idle"
  BY DEF Decide, DecisionSettles, DecisionReads, DecisionWrites, DecisionFlips,
         DecisionMirrors
<1>2. /\ op[d] \in Decisions
      /\ op[d].gate \in GateIds
      /\ op[d].gate[1] \in Runs
      /\ op[d].verdict \in Verdicts
      /\ op[d].saw \in GateFiles
  BY <1>1, DecisionParts
<1>3. CASE DecisionSettles(d)
  <2>1. op' \in [Deciders -> Decisions \cup {Idle}]
    BY <1>2, <1>3 DEF DecisionSettles, TypeOK, Decisions
  <2>2. row' \in [GateIds -> RowStatus]
    BY <1>2, <1>3, SettleType DEF DecisionSettles
  <2> QED
    BY <1>3, <2>1, <2>2 DEF DecisionSettles, TypeOK, runVars, history
<1>4. CASE DecisionReads(d)
  <2>1. op' \in [Deciders -> Decisions \cup {Idle}]
    <3>1. file[op[d].gate] \in GateFiles
      BY <1>2 DEF TypeOK
    <3> QED
      BY <1>2, <1>4, <3>1 DEF DecisionReads, TypeOK, Decisions
  <2> QED
    BY <1>4, <2>1 DEF DecisionReads, TypeOK, runVars, gateVars, history
<1>5. CASE DecisionWrites(d)
  <2> DEFINE decided == [op[d].saw EXCEPT !.verdict = op[d].verdict]
  <2>1. decided \in GateFiles
    BY <1>2 DEF GateFiles
  <2>2. /\ file' = [file EXCEPT ![op[d].gate] = decided]
        /\ op' = [op EXCEPT ![d].saw = decided, ![d].pc = "flip"]
    BY <1>5 DEF DecisionWrites
  <2> HIDE DEF decided
  <2>3. op' \in [Deciders -> Decisions \cup {Idle}]
    <3>1. [op[d] EXCEPT !.saw = decided, !.pc = "flip"] \in Decisions
      BY <1>2, <2>1 DEF Decisions
    <3>2. op' = [op EXCEPT ![d] = [op[d] EXCEPT !.saw = decided, !.pc = "flip"]]
      BY <1>2, <2>2 DEF TypeOK
    <3> QED
      BY <3>1, <3>2 DEF TypeOK
  <2>4. file' \in [GateIds -> GateFiles]
    BY <1>2, <2>1, <2>2 DEF TypeOK
  <2> QED
    BY <1>5, <2>3, <2>4 DEF DecisionWrites, TypeOK, runVars, history
<1>6. CASE DecisionFlips(d)
  <2>1. op' \in [Deciders -> Decisions \cup {Idle}]
    BY <1>2, <1>6 DEF DecisionFlips, TypeOK, Decisions
  <2>2. {"running", "aborting"} \subseteq RunStatus
    BY DEF RunStatus, LiveStatuses
  <2>3. status' \in [Runs -> RunStatus]
    BY <1>2, <1>6, <2>2, StatusType DEF DecisionFlips
  <2> QED
    BY <1>6, <2>1, <2>3 DEF DecisionFlips, TypeOK, gateVars, history
<1>7. CASE DecisionMirrors(d)
  <2>1. op' \in [Deciders -> Decisions \cup {Idle}]
    BY <1>7 DEF DecisionMirrors, TypeOK
  <2>2. row' \in [GateIds -> RowStatus]
    BY <1>2, <1>7, SettleType DEF DecisionMirrors, TypeOK
  <2> QED
    BY <1>7, <2>1, <2>2 DEF DecisionMirrors, TypeOK, runVars, history
<1> QED
  BY <1>3, <1>4, <1>5, <1>6, <1>7 DEF Decide

\* The reaper's steps keep the types.
LEMMA ReapTypes ==
  ASSUME TypeOK, NEW r \in Runs, Reap(r)
  PROVE  TypeOK'
<1>1. CASE ReapStart(r)
  BY <1>1, CancelType DEF ReapStart, TypeOK, Sweeps, runVars, history
<1>2. CASE ReapGates(r)
  <2>1. file' \in [GateIds -> GateFiles]
    <3>1. \A g \in GateIds : file[g] \in GateFiles
      BY DEF TypeOK
    <3>2. \A f \in GateFiles : [f EXCEPT !.verdict = "abort"] \in GateFiles
      BY DEF GateFiles, Verdicts
    <3> QED
      BY <1>2, <3>1, <3>2 DEF ReapGates
  <2>2. reaper' \in Sweeps
    BY <1>2 DEF ReapGates, Sweeps
  <2> QED
    BY <1>2, <2>1, <2>2 DEF ReapGates, TypeOK, runVars, history
<1>3. CASE ReapFinish(r)
  <2>1. reaper' \in Sweeps
    BY <1>3 DEF ReapFinish, Sweeps
  <2>2. status' \in [Runs -> RunStatus]
    BY <1>3, StatusType DEF ReapFinish, RunStatus, Outcomes
  <2> QED
    BY <1>3, <2>1, <2>2 DEF ReapFinish, TypeOK, gateVars
<1>4. CASE ReapSettle(r)
  BY <1>4, CancelType DEF ReapSettle, TypeOK, runVars, history
<1> QED
  BY <1>1, <1>2, <1>3, <1>4 DEF Reap

\* A crash keeps the types.
LEMMA CrashTypes ==
  ASSUME TypeOK, NEW p, Crash(p)
  PROVE  TypeOK'
<1>1. faults' \in 0..MaxFaults
  BY RunAssumption DEF Crash, Fault, TypeOK
<1>2. NoFile \in GateFiles
  BY DEF NoFile, GateFiles
<1>3. post' \in [Runs -> {"none", "create", "flip", "bridge", "link", "write"}]
  BY DEF Crash, TypeOK
<1>4. copy' \in [Runs -> GateFiles]
  BY <1>2 DEF Crash, TypeOK
<1>5. op' \in [Deciders -> Decisions \cup {Idle}]
  BY DEF Crash, TypeOK
<1>6. reaper' \in Sweeps \cup {Idle}
  BY DEF Crash, TypeOK
<1>7. /\ sup' \in [Runs -> {"none", "free", "busy", "prepare", "watch", "finish",
                            "settle", "done", "lost"}]
      /\ outcome' \in [Runs -> {"none"} \cup Outcomes]
  BY DEF Crash, TypeOK
<1> QED
  BY <1>1, <1>3, <1>4, <1>5, <1>6, <1>7 DEF Crash, TypeOK, history

\* Every step keeps the types.
LEMMA StepTypes ==
  ASSUME TypeInv, [Next]_vars
  PROVE  TypeOK'
<1> USE DEF TypeInv
<1>1. ASSUME NEW r \in Runs, Run(r)
      PROVE  TypeOK'
  BY <1>1, SuperviseTypes, PostTypes, ReapTypes, ScriptTypes DEF Run
<1>2. ASSUME NEW d \in Deciders, Decide(d)
      PROVE  TypeOK'
  BY <1>2, DecideTypes
<1>3. ASSUME NEW d \in Deciders, NEW g \in GateIds, NEW v \in Verdicts,
             DecideGate(d, g, v) \/ DecideRow(d, g, v)
      PROVE  TypeOK'
  BY <1>3, AskTypes
<1>4. ASSUME NEW p \in Processes, Crash(p)
      PROVE  TypeOK'
  BY <1>4, CrashTypes
<1>5. CASE UNCHANGED vars
  BY <1>5 DEF vars, runVars, gateVars, history, TypeOK
<1> QED
  BY <1>1, <1>2, <1>3, <1>4, <1>5 DEF Next

-----------------------------------------------------------------------------
(* Places.                                                                 *)

\* What Places says of one run.
Placed(r) ==
  /\ gate[r] <= Gates[r]
  /\ sup[r] \in {"none", "free", "busy", "prepare"} =>
       script[r] = "none" /\ post[r] = "none"
  /\ sup[r] \in {"finish", "settle", "done"} => ~Alive(r)
  /\ sup[r] = "finish" => outcome[r] \in Outcomes
  /\ script[r] \in {"waiting", "polling", "approved"} => gate[r] >= 1
  /\ post[r] # "none" =>
       script[r] \notin {"none", "working", "waiting", "polling", "approved"}
  /\ post[r] = "create" => gate[r] < Gates[r]
  /\ post[r] \notin {"none", "create"} => gate[r] >= 1

\* A step of one run leaves the places of the others alone.
LEMMA OthersStay ==
  ASSUME TypeInv, NEW q \in Runs, Run(q), NEW r \in Runs, r # q
  PROVE  /\ gate'[r] = gate[r]
         /\ sup'[r] = sup[r]
         /\ script'[r] = script[r]
         /\ post'[r] = post[r]
         /\ outcome'[r] = outcome[r]
<1> USE DEF TypeInv, TypeOK, gateVars, runVars
<1>1. CASE Supervise(q)
  BY <1>1 DEF Supervise, Check, Insert, PrepareFails, Launch, SeeAbort,
              SeeDeadline, SeeExit, Finish, Settle, End, Kill
<1>2. CASE Post(q)
  BY <1>2 DEF Post, PostCreate, PostFlip, PostBridge, PostRead, PostWrite, Reply
<1>3. CASE Reap(q)
  BY <1>3 DEF Reap, ReapStart, ReapGates, ReapFinish, ReapSettle
<1>4. CASE ScriptExits(q) \/ SetMarker(q) \/ AskGate(q) \/ Polls(q)
             \/ RequestAbort(q) \/ Grow(q) \/ GoStale(q)
  BY <1>4 DEF ScriptExits, SetMarker, AskGate, Polls, PollGate, PollRead,
                PollFails, PassGate, RequestAbort, Grow, GoStale
<1> QED
  BY <1>1, <1>2, <1>3, <1>4 DEF Run

\* A run's own step keeps its places.
LEMMA OwnPlace ==
  ASSUME TypeInv, NEW r \in Runs, Run(r)
  PROVE  Placed(r)'
<1>1. Placed(r)
  BY DEF TypeInv, Places, Placed
<1>2. /\ gate \in [Runs -> Nat]
      /\ sup \in [Runs -> {"none", "free", "busy", "prepare", "watch", "finish",
                           "settle", "done", "lost"}]
      /\ script \in [Runs -> {"none", "working", "asking", "waiting", "polling",
                              "approved", "exited", "declined", "killed"}]
      /\ post \in [Runs -> {"none", "create", "flip", "bridge", "link", "write"}]
      /\ outcome \in [Runs -> {"none"} \cup Outcomes]
      /\ Gates[r] \in Nat
  BY RunAssumption DEF TypeInv, TypeOK
<1> USE <1>1, <1>2 DEF Placed, Alive, gateVars, runVars
<1>3. CASE Check(r)
  BY <1>3 DEF Check
<1>4. CASE Insert(r)
  BY <1>4 DEF Insert
<1>5. CASE PrepareFails(r)
  BY <1>5 DEF PrepareFails, End, Outcomes
<1>6. CASE Launch(r)
  BY <1>6 DEF Launch
<1>7. CASE SeeAbort(r)
  BY <1>7 DEF SeeAbort, End, Kill, Outcomes
<1>8. CASE SeeDeadline(r)
  BY <1>8 DEF SeeDeadline, End, Kill, Outcomes
<1>9. CASE SeeExit(r)
  BY <1>9 DEF SeeExit, End, Outcomes
<1>10. CASE Finish(r) \/ Settle(r)
  BY <1>10 DEF Finish, Settle
<1>11. CASE Post(r)
  BY <1>11 DEF Post, PostCreate, PostFlip, PostBridge, PostRead, PostWrite, Reply
<1>12. CASE Reap(r)
  BY <1>12 DEF Reap, ReapStart, ReapGates, ReapFinish, ReapSettle
<1>13. CASE AskGate(r)
  BY <1>13 DEF AskGate
<1>14. CASE Polls(r)
  BY <1>14 DEF Polls, PollGate, PollRead, PollFails, PassGate
<1>15. CASE ScriptExits(r) \/ SetMarker(r) \/ RequestAbort(r) \/ Grow(r) \/ GoStale(r)
  BY <1>15 DEF ScriptExits, SetMarker, RequestAbort, Grow, GoStale
<1> QED
  BY <1>3, <1>4, <1>5, <1>6, <1>7, <1>8, <1>9, <1>10, <1>11, <1>12, <1>13, <1>14,
     <1>15 DEF Run, Supervise

\* Every step keeps all places.
LEMMA StepPlaces ==
  ASSUME TypeInv, [Next]_vars
  PROVE  Places'
<1> SUFFICES ASSUME NEW r \in Runs
             PROVE  Placed(r)'
  BY DEF Places, Placed
<1>1. Placed(r)
  BY DEF TypeInv, Places, Placed
<1>2. ASSUME NEW q \in Runs, Run(q)
      PROVE  Placed(r)'
  <2>1. CASE q = r
    BY <1>2, <2>1, OwnPlace
  <2>2. CASE q # r
    BY <1>1, <1>2, <2>2, OthersStay DEF Placed, Alive
  <2> QED
    BY <2>1, <2>2
<1>3. ASSUME NEW d \in Deciders,
             \/ Decide(d)
             \/ \E g \in GateIds, v \in Verdicts : DecideGate(d, g, v) \/ DecideRow(d, g, v)
      PROVE  Placed(r)'
  <2>1. UNCHANGED <<gate, sup, script, post, outcome>>
    BY <1>3 DEF Decide, DecisionSettles, DecisionReads, DecisionWrites, DecisionFlips,
                DecisionMirrors, DecideGate, DecideRow, runVars, gateVars
  <2> QED
    BY <1>1, <2>1 DEF Placed, Alive
<1>4. ASSUME NEW p \in Processes, Crash(p)
      PROVE  Placed(r)'
  <2>1. /\ UNCHANGED <<gate, script>>
        /\ post'[r] \in {post[r], "none"}
        /\ \/ sup'[r] = "lost"
           \/ sup'[r] = sup[r] /\ (outcome'[r] = outcome[r] \/ sup[r] \in {"none", "done"})
    BY <1>4 DEF Crash, TypeInv, TypeOK
  <2> QED
    BY <1>1, <2>1 DEF Placed, Alive
<1>5. CASE UNCHANGED vars
  BY <1>1, <1>5 DEF vars, runVars, gateVars, Placed, Alive
<1> QED
  BY <1>2, <1>3, <1>4, <1>5 DEF Next

LEMMA InitTypes == Init => TypeInv
<1> SUFFICES ASSUME Init
             PROVE  TypeInv
  OBVIOUS
<1>1. NoFile \in GateFiles
  BY DEF NoFile, GateFiles
<1>2. TypeOK
  <2>1. 0 \in 0..MaxFaults
    BY RunAssumption
  <2> QED
    BY <1>1, <2>1 DEF Init, TypeOK, RunStatus, RowStatus
<1>3. Places
  <2>1. \A r \in Runs : Gates[r] \in Nat /\ 0 <= Gates[r]
    BY RunAssumption
  <2> QED
    BY <2>1 DEF Init, Places, Alive
<1> QED
  BY <1>2, <1>3 DEF TypeInv

LEMMA StepTypeInv == TypeInv /\ [Next]_vars => TypeInv'
BY StepTypes, StepPlaces DEF TypeInv

LEMMA TypeInvAlways == Spec => []TypeInv
BY InitTypes, StepTypeInv, PTL DEF Spec

\* Every variable keeps its type, in every schedule of supervisors, scripts,
\* requests, decisions, sweeps and crashes.
THEOREM RunTypeCorrect == Spec => []TypeOK
<1>1. TypeInv => TypeOK
  BY DEF TypeInv
<1> QED
  BY TypeInvAlways, <1>1, PTL

-----------------------------------------------------------------------------
(* Outcomes.                                                               *)

\* What Endings says of one run.
Ended(r) ==
  /\ sup[r] \in {"none", "free", "busy"} =>
       status[r] = "none" /\ (reaper = Idle \/ reaper.run # r)
  /\ sup[r] \in {"prepare", "watch", "finish"} /\ Finished(r) => r \in reaped
  /\ r \in reaped => Finished(r)
  /\ Finished(r) /\ Alive(r) => r \in reaped

\* A step of Next leaves an abort request, or an outcome, in place.
Heeded(r) ==
  status[r] = "aborting" =>
    \/ status'[r] \in {"aborting", "aborted"}
    \/ Finished(r)' /\ ~Alive(r)

LEMMA EndingsAreEnded == Endings <=> \A r \in Runs : Ended(r)
BY DEF Endings, Ended, OutcomeMeansStopped

\* A step of one run leaves the rows and the sweeps of the others alone.
LEMMA OthersKeepTheirRow ==
  ASSUME TypeInv, NEW q \in Runs, Run(q), NEW r \in Runs, r # q
  PROVE  /\ status'[r] = status[r]
         /\ r \in reaped <=> r \in reaped'
         /\ \/ reaper' = reaper
            \/ reaper' = Idle
            \/ reaper'.run = q
<1>1. status \in [Runs -> RunStatus]
  BY DEF TypeInv, TypeOK
<1> USE <1>1 DEF gateVars, runVars, history, SetStatus
<1>2. CASE Supervise(q)
  BY <1>2 DEF Supervise, Check, Insert, PrepareFails, Launch, SeeAbort,
              SeeDeadline, SeeExit, Finish, Settle
<1>3. CASE Post(q)
  BY <1>3 DEF Post, PostCreate, PostFlip, PostBridge, PostRead, PostWrite
<1>4. CASE ReapStart(q) \/ ReapSettle(q)
  BY <1>4 DEF ReapStart, ReapSettle
<1>5. CASE ReapGates(q)
  BY <1>5 DEF ReapGates
<1>6. CASE ReapFinish(q)
  BY <1>6 DEF ReapFinish
<1>7. CASE ScriptExits(q) \/ SetMarker(q) \/ AskGate(q) \/ Polls(q)
             \/ RequestAbort(q) \/ Grow(q) \/ GoStale(q)
  BY <1>7 DEF ScriptExits, SetMarker, AskGate, Polls, PollGate, PollRead,
                PollFails, PassGate, RequestAbort, Grow, GoStale
<1> QED
  BY <1>2, <1>3, <1>4, <1>5, <1>6, <1>7 DEF Run, Reap

\* A run's own step keeps what Endings says of it, and ends it for good.
LEMMA OwnEnding ==
  ASSUME TypeInv, NEW r \in Runs, Ended(r), Run(r)
  PROVE  Ended(r)' /\ (Finished(r) => Finished(r)') /\ Heeded(r)
<1>1. /\ status \in [Runs -> RunStatus]
      /\ sup \in [Runs -> {"none", "free", "busy", "prepare", "watch", "finish",
                           "settle", "done", "lost"}]
      /\ script \in [Runs -> {"none", "working", "asking", "waiting", "polling",
                              "approved", "exited", "declined", "killed"}]
  BY DEF TypeInv, TypeOK
<1>2. Placed(r)
  BY DEF TypeInv, Places, Placed
<1> USE <1>1, <1>2 DEF Ended, Heeded, Placed, Alive, Finished, Live, Outcomes, LiveStatuses,
                       SetStatus, gateVars, runVars, history
<1>3. CASE Check(r)
  BY <1>3 DEF Check
<1>4. CASE Insert(r)
  BY <1>4 DEF Insert
<1>5. CASE PrepareFails(r)
  BY <1>5 DEF PrepareFails, End
<1>6. CASE Launch(r)
  BY <1>6 DEF Launch
<1>7. CASE SeeAbort(r)
  BY <1>7 DEF SeeAbort, End, Kill
<1>8. CASE SeeDeadline(r)
  BY <1>8 DEF SeeDeadline, End, Kill
<1>9. CASE SeeExit(r)
  BY <1>9 DEF SeeExit, End
<1>10. CASE Finish(r)
  BY <1>10 DEF Finish
<1>11. CASE Settle(r)
  BY <1>11 DEF Settle
<1>12. CASE Post(r)
  BY <1>12 DEF Post, PostCreate, PostFlip, PostBridge, PostRead, PostWrite, Reply
<1>13. CASE ReapStart(r)
  BY <1>13 DEF ReapStart
<1>14. CASE ReapGates(r)
  BY <1>14 DEF ReapGates, Idle
<1>15. CASE ReapFinish(r)
  BY <1>15 DEF ReapFinish, Idle
<1>16. CASE ReapSettle(r)
  BY <1>16 DEF ReapSettle
<1>17. CASE AskGate(r) \/ Polls(r)
  BY <1>17 DEF AskGate, Polls, PollGate, PollRead, PollFails, PassGate
<1>18. CASE ScriptExits(r) \/ SetMarker(r) \/ RequestAbort(r) \/ Grow(r) \/ GoStale(r)
  BY <1>18 DEF ScriptExits, SetMarker, RequestAbort, Grow, GoStale
<1> QED
  BY <1>3, <1>4, <1>5, <1>6, <1>7, <1>8, <1>9, <1>10, <1>11, <1>12, <1>13, <1>14,
     <1>15, <1>16, <1>17, <1>18 DEF Run, Supervise, Reap

\* A decision neither ends nor revives a run, nor does it take an abort back.
LEMMA DecisionsEndNothing ==
  ASSUME TypeInv, NEW d \in Deciders,
         \/ Decide(d)
         \/ \E g \in GateIds, v \in Verdicts : DecideGate(d, g, v) \/ DecideRow(d, g, v)
  PROVE  /\ UNCHANGED <<sup, script, reaper, reaped>>
         /\ \A r \in Runs : \/ status'[r] = status[r]
                            \/ status[r] \in {"running", "waiting"} /\ Live(r)'
<1> USE DEF runVars, gateVars, history
<1>1. CASE \E g \in GateIds, v \in Verdicts : DecideGate(d, g, v) \/ DecideRow(d, g, v)
  BY <1>1 DEF DecideGate, DecideRow
<1>2. CASE DecisionSettles(d) \/ DecisionReads(d) \/ DecisionWrites(d)
             \/ DecisionMirrors(d)
  BY <1>2 DEF DecisionSettles, DecisionReads, DecisionWrites, DecisionMirrors
<1>3. CASE DecisionFlips(d)
  BY <1>3 DEF DecisionFlips, SetStatus, Live, LiveStatuses, TypeInv, TypeOK
<1> QED
  BY <1>1, <1>2, <1>3 DEF Decide

\* Every step keeps Endings, revives no finished run and heeds aborts.
LEMMA StepEndings ==
  ASSUME TypeInv, Endings, [Next]_vars
  PROVE  /\ Endings'
         /\ \A r \in Runs : (Finished(r) => Finished(r)') /\ Heeded(r)
<1> SUFFICES ASSUME NEW r \in Runs
             PROVE  Ended(r)' /\ (Finished(r) => Finished(r)') /\ Heeded(r)
  BY EndingsAreEnded DEF Endings, Ended, OutcomeMeansStopped
<1>1. Ended(r)
  BY EndingsAreEnded
<1>2. ASSUME NEW q \in Runs, Run(q)
      PROVE  Ended(r)' /\ (Finished(r) => Finished(r)') /\ Heeded(r)
  <2>1. CASE q = r
    BY <1>1, <1>2, <2>1, OwnEnding
  <2>2. CASE q # r
    <3>1. /\ sup'[r] = sup[r]
          /\ script'[r] = script[r]
      BY <1>2, <2>2, OthersStay
    <3>2. /\ status'[r] = status[r]
          /\ r \in reaped <=> r \in reaped'
          /\ reaper' = reaper \/ reaper' = Idle \/ reaper'.run = q
      BY <1>2, <2>2, OthersKeepTheirRow
    <3> QED
      BY <1>1, <2>2, <3>1, <3>2 DEF Ended, Heeded, Alive, Finished
  <2> QED
    BY <2>1, <2>2
<1>3. ASSUME NEW d \in Deciders,
             \/ Decide(d)
             \/ \E g \in GateIds, v \in Verdicts : DecideGate(d, g, v) \/ DecideRow(d, g, v)
      PROVE  Ended(r)' /\ (Finished(r) => Finished(r)') /\ Heeded(r)
  <2>1. /\ UNCHANGED <<sup, script, reaper, reaped>>
        /\ status'[r] = status[r] \/ (status[r] \in {"running", "waiting"} /\ Live(r)')
    BY <1>3, DecisionsEndNothing
  <2> QED
    BY <1>1, <2>1 DEF Ended, Heeded, Alive, Finished, Live, Outcomes, LiveStatuses
<1>4. ASSUME NEW p \in Processes, Crash(p)
      PROVE  Ended(r)' /\ (Finished(r) => Finished(r)') /\ Heeded(r)
  <2>1. /\ UNCHANGED <<status, script, reaped>>
        /\ sup'[r] = "lost" \/ sup'[r] = sup[r]
        /\ reaper' = reaper \/ reaper' = Idle
    BY <1>4 DEF Crash, history, TypeInv, TypeOK
  <2> QED
    BY <1>1, <2>1 DEF Ended, Heeded, Alive, Finished
<1>5. CASE UNCHANGED vars
  BY <1>1, <1>5 DEF vars, runVars, history, Ended, Heeded, Alive, Finished
<1> QED
  BY <1>2, <1>3, <1>4, <1>5 DEF Next

LEMMA EndingsAlways == Spec => []Endings
<1>1. Init => Endings
  BY DEF Init, Endings, OutcomeMeansStopped, Finished, Outcomes, Alive, Idle
<1>2. TypeInv /\ Endings /\ [Next]_vars => Endings'
  BY StepEndings
<1> QED
  BY <1>1, <1>2, TypeInvAlways, PTL DEF Spec

\* A run that shows an outcome has no child left, except one the reaper
\* finalized: for any number of runs, processes and crashes.
THEOREM OutcomesAreFinal == Spec => []OutcomeMeansStopped
<1>1. Endings => OutcomeMeansStopped
  BY DEF Endings
<1> QED
  BY EndingsAlways, <1>1, PTL

\* No decision, abort request or late gate brings a finished run back.
THEOREM FinishedStaysFinished == Spec => FinishedNeverRevives
<1>1. TypeInv /\ Endings /\ [Next]_vars =>
        [\A r \in Runs : Finished(r) => Finished(r)']_vars
  BY StepEndings
<1> QED
  BY <1>1, TypeInvAlways, EndingsAlways, PTL DEF Spec, FinishedNeverRevives

\* An abort request stands, and only a script that was over before it was seen
\* gives its run another outcome than 'aborted'.
THEOREM AbortsAreHeeded == Spec => AbortIsHeeded
<1>1. TypeInv /\ Endings /\ [Next]_vars => [\A r \in Runs : Heeded(r)]_vars
  BY StepEndings
<1>2. TypeInv /\ Endings /\ [Next]_vars =>
        [\A r \in Runs : status[r] = "aborting" =>
           \/ status'[r] \in {"aborting", "aborted"}
           \/ Finished(r)' /\ ~Alive(r)]_vars
  BY <1>1 DEF Heeded
<1> QED
  BY <1>2, TypeInvAlways, EndingsAlways, PTL DEF Spec, AbortIsHeeded

-----------------------------------------------------------------------------
(* Verdicts.                                                               *)

\* The four places a verdict to proceed can be in.
FilesTraced  == \A g \in GateIds : file[g].verdict = "proceed" => "proceed" \in votes[g]
CopiesTraced ==
  \A r \in Runs : post[r] = "write" /\ copy[r].verdict = "proceed" =>
    "proceed" \in votes[Current(r)]
OpsTraced == \A d \in Deciders : op[d] # Idle => op[d].verdict \in votes[op[d].gate]
AnswersTraced ==
  \A r \in Runs : script[r] = "approved" => "proceed" \in votes[Current(r)]

LEMMA TracedParts ==
  Traced <=> FilesTraced /\ CopiesTraced /\ OpsTraced /\ AnswersTraced
BY DEF Traced, FilesTraced, CopiesTraced, OpsTraced, AnswersTraced

\* Steps that leave the gate of an answer on its way alone.
LEMMA AnswersStay ==
  ASSUME TypeInv, Traced,
         \A g \in GateIds : votes[g] \subseteq votes'[g],
         \A r \in Runs : script'[r] = "approved" =>
           script[r] = "approved" /\ gate'[r] = gate[r]
  PROVE  AnswersTraced'
<1> SUFFICES ASSUME NEW r \in Runs, script'[r] = "approved"
             PROVE  "proceed" \in votes'[Current(r)']
  BY DEF AnswersTraced
<1>1. script[r] = "approved" /\ Current(r)' = Current(r)
  BY DEF Current
<1>2. Current(r) \in GateIds
  BY <1>1, CurrentIsGate DEF TypeInv, Places
<1>3. "proceed" \in votes[Current(r)]
  BY <1>1 DEF Traced
<1> QED
  BY <1>1, <1>2, <1>3

\* Steps that leave verdicts, votes and the gate a request is about alone.
LEMMA TracedStays ==
  ASSUME TypeInv, Traced, UNCHANGED <<file, op, votes>>,
         \A r \in Runs : post'[r] = "write" =>
           post[r] = "write" /\ copy'[r] = copy[r] /\ gate'[r] = gate[r],
         \A r \in Runs : script'[r] = "approved" =>
           script[r] = "approved" /\ gate'[r] = gate[r]
  PROVE  Traced'
<1>1. FilesTraced'
  BY DEF Traced, FilesTraced
<1>2. CopiesTraced'
  BY DEF Traced, CopiesTraced, Current
<1>3. OpsTraced'
  BY DEF Traced, OpsTraced
<1>4. AnswersTraced'
  BY AnswersStay
<1> QED
  BY <1>1, <1>2, <1>3, <1>4
  DEF Traced, FilesTraced, CopiesTraced, OpsTraced, AnswersTraced

\* The steps of a run keep every 'proceed' traced.
LEMMA RunTraced ==
  ASSUME TypeInv, Traced, NEW r \in Runs, Run(r)
  PROVE  Traced'
<1>1. Placed(r)
  BY DEF TypeInv, Places, Placed
<1>2. /\ post \in [Runs -> {"none", "create", "flip", "bridge", "link", "write"}]
      /\ script \in [Runs -> {"none", "working", "asking", "waiting", "polling",
                              "approved", "exited", "declined", "killed"}]
      /\ gate \in [Runs -> Nat]
      /\ copy \in [Runs -> GateFiles]
      /\ file \in [GateIds -> GateFiles]
  BY DEF TypeInv, TypeOK
<1> USE DEF gateVars, runVars, history
<1>3. CASE Supervise(r)
  <2>1. UNCHANGED <<file, op, votes, post, copy, gate>>
    BY <1>3 DEF Supervise, Check, Insert, PrepareFails, Launch, SeeAbort,
                SeeDeadline, SeeExit, Finish, Settle
  <2>2. \A q \in Runs : script'[q] = "approved" => script[q] = "approved"
    BY <1>2, <1>3 DEF Supervise, Check, Insert, PrepareFails, Launch, SeeAbort,
                      SeeDeadline, SeeExit, Finish, Settle, Kill
  <2> QED
    BY <2>1, <2>2, TracedStays
<1>4. CASE \/ ScriptExits(r) \/ SetMarker(r) \/ PollGate(r) \/ PollFails(r) \/ PassGate(r)
           \/ RequestAbort(r) \/ Grow(r) \/ GoStale(r)
  <2>1. UNCHANGED <<file, op, votes, post, copy, gate>>
    BY <1>4 DEF ScriptExits, SetMarker, PollGate, PollFails, PassGate, RequestAbort,
                Grow, GoStale
  <2>2. \A q \in Runs : script'[q] = "approved" => script[q] = "approved"
    BY <1>2, <1>4 DEF ScriptExits, SetMarker, PollGate, PollFails, PassGate,
                      RequestAbort, Grow, GoStale
  <2> QED
    BY <2>1, <2>2, TracedStays
<1>5. CASE AskGate(r)
  <2>1. /\ UNCHANGED <<file, op, votes, copy, gate>>
        /\ \A q \in Runs : post'[q] = "write" => post[q] = "write"
        /\ \A q \in Runs : script'[q] = "approved" => script[q] = "approved"
    BY <1>2, <1>5 DEF AskGate
  <2> QED
    BY <2>1, TracedStays
<1>6. CASE PollRead(r)
  <2>1. UNCHANGED <<file, op, votes, post, copy, gate>>
    BY <1>6 DEF PollRead
  <2>2. AnswersTraced'
    <3>1. Current(r) \in GateIds
      BY <1>1, <1>6, CurrentIsGate DEF TypeInv, PollRead, Placed
    <3>2. script'[r] = "approved" => file[Current(r)].verdict = "proceed"
      BY <1>2, <1>6 DEF PollRead, Proceeds
    <3>3. \A q \in Runs : q # r => script'[q] = script[q]
      BY <1>2, <1>6 DEF PollRead
    <3> QED
      BY <2>1, <3>1, <3>2, <3>3 DEF Traced, AnswersTraced, Current
  <2> QED
    BY <2>1, <2>2 DEF Traced, AnswersTraced, Current
<1>7. CASE PostCreate(r)
  <2>1. UNCHANGED <<op, votes, copy, script>>
    BY <1>7 DEF PostCreate
  <2>2. FilesTraced'
    <3>1. \A g \in GateIds : file'[g].verdict = file[g].verdict \/ file'[g].verdict = "open"
      BY <1>2, <1>7 DEF PostCreate, GateFiles
    <3> QED
      BY <2>1, <3>1 DEF Traced, FilesTraced
  <2>3. /\ post'[r] = "flip"
        /\ script[r] # "approved"
        /\ \A q \in Runs : q # r => post'[q] = post[q] /\ gate'[q] = gate[q]
    BY <1>1, <1>2, <1>7 DEF PostCreate, Placed
  <2>4. CopiesTraced'
    BY <2>1, <2>3 DEF Traced, CopiesTraced, Current
  <2>5. OpsTraced'
    BY <2>1 DEF Traced, OpsTraced
  <2>6. AnswersTraced'
    BY <2>1, <2>3 DEF Traced, AnswersTraced, Current
  <2> QED
    BY <2>2, <2>4, <2>5, <2>6
    DEF Traced, FilesTraced, CopiesTraced, OpsTraced, AnswersTraced
<1>8. CASE PostFlip(r) \/ PostBridge(r)
  <2>1. /\ UNCHANGED <<file, op, votes, copy, gate>>
        /\ post'[r] # "write"
        /\ \A q \in Runs : q # r => post'[q] = post[q]
        /\ \A q \in Runs : script'[q] = "approved" => script[q] = "approved"
    BY <1>2, <1>8 DEF PostFlip, PostBridge, Reply
  <2> QED
    BY <2>1, TracedStays
<1>9. CASE PostRead(r)
  <2>1. UNCHANGED <<file, op, votes, gate, script>>
    BY <1>9 DEF PostRead
  <2>2. CopiesTraced'
    <3>1. Current(r) \in GateIds
      BY <1>1, <1>9, CurrentIsGate DEF TypeInv, PostRead, Placed
    <3>2. copy'[r] = file[Current(r)]
      BY <1>2, <1>9 DEF PostRead
    <3>3. \A q \in Runs : q # r => post'[q] = post[q] /\ copy'[q] = copy[q]
      BY <1>2, <1>9 DEF PostRead
    <3> QED
      BY <2>1, <3>1, <3>2, <3>3 DEF Traced, CopiesTraced, Current
  <2> QED
    BY <2>1, <2>2 DEF Traced, CopiesTraced, Current
<1>10. CASE PostWrite(r)
  <2>1. UNCHANGED <<op, votes, gate>>
    BY <1>10 DEF PostWrite
  <2>2. FilesTraced'
    <3>1. copy[r].verdict = "proceed" => "proceed" \in votes[Current(r)]
      BY <1>10 DEF Traced, PostWrite
    <3>2. \A f \in GateFiles : [f EXCEPT !.linked = TRUE].verdict = f.verdict
      BY DEF GateFiles
    <3>3. \A g \in GateIds : \/ file'[g].verdict = file[g].verdict
                             \/ g = Current(r) /\ file'[g].verdict = copy[r].verdict
      BY <1>2, <1>10, <3>2 DEF PostWrite
    <3> QED
      BY <2>1, <3>1, <3>3 DEF Traced, FilesTraced
  <2>3. /\ post'[r] = "none"
        /\ \A q \in Runs : q # r => post'[q] = post[q] /\ copy'[q] = copy[q]
        /\ \A q \in Runs : script'[q] = "approved" => script[q] = "approved"
    BY <1>2, <1>10 DEF PostWrite, Reply
  <2>4. CopiesTraced'
    BY <2>1, <2>3 DEF Traced, CopiesTraced, Current
  <2>5. AnswersTraced'
    BY <2>1, <2>3 DEF Traced, AnswersTraced, Current
  <2> QED
    BY <2>1, <2>2, <2>4, <2>5 DEF Traced, FilesTraced, CopiesTraced, AnswersTraced
<1>11. CASE ReapStart(r) \/ ReapFinish(r) \/ ReapSettle(r)
  <2>1. UNCHANGED <<file, op, votes, post, copy, gate, script>>
    BY <1>11 DEF ReapStart, ReapFinish, ReapSettle
  <2> QED
    BY <2>1, TracedStays
<1>12. CASE ReapGates(r)
  <2>1. UNCHANGED <<op, votes, post, copy, gate, script>>
    BY <1>12 DEF ReapGates
  <2>2. FilesTraced'
    <3>1. \A f \in GateFiles : [f EXCEPT !.verdict = "abort"].verdict = "abort"
      BY DEF GateFiles
    <3>2. \A g \in GateIds : file'[g].verdict = file[g].verdict \/ file'[g].verdict = "abort"
      BY <1>2, <1>12, <3>1 DEF ReapGates
    <3> QED
      BY <2>1, <3>2 DEF Traced, FilesTraced
  <2> QED
    BY <2>1, <2>2 DEF Traced, FilesTraced, CopiesTraced, Current
<1> QED
  BY <1>3, <1>4, <1>5, <1>6, <1>7, <1>8, <1>9, <1>10, <1>11, <1>12
  DEF Run, Polls, Post, Reap

\* A new decision is a vote of its own.
LEMMA AskTraced ==
  ASSUME TypeInv, Traced, NEW d \in Deciders, NEW g \in GateIds, NEW v \in Verdicts,
         DecideGate(d, g, v) \/ DecideRow(d, g, v)
  PROVE  Traced'
<1>1. PICK step \in {"read", "settle"} : Ask(d, g, v, step)
  BY DEF DecideGate, DecideRow
<1>2. UNCHANGED <<file, post, copy, gate, script>>
  BY DEF DecideGate, DecideRow, gateVars, runVars
<1>3. \A h \in GateIds : votes[h] \subseteq votes'[h]
  BY <1>1 DEF Ask, TypeInv, TypeOK
<1>4. v \in votes'[g]
  BY <1>1 DEF Ask, TypeInv, TypeOK
<1>5. /\ op'[d].verdict = v /\ op'[d].gate = g
      /\ \A e \in Deciders : e # d => op'[e] = op[e]
  BY <1>1 DEF Ask, TypeInv, TypeOK
<1>6. OpsTraced'
  <2> SUFFICES ASSUME NEW e \in Deciders, op'[e] # Idle
               PROVE  op'[e].verdict \in votes'[op'[e].gate]
    BY DEF OpsTraced
  <2>1. CASE e = d
    BY <1>4, <1>5, <2>1
  <2>2. CASE e # d
    <3>1. op'[e] = op[e]
      BY <1>5, <2>2
    <3>2. op[e].verdict \in votes[op[e].gate]
      BY <3>1 DEF Traced
    <3>3. op[e] \in Decisions
      BY <3>1 DEF TypeInv, TypeOK
    <3>4. op[e].gate \in GateIds
      BY <3>3 DEF Decisions
    <3> QED
      BY <1>3, <3>1, <3>2, <3>4
  <2> QED
    BY <2>1, <2>2
<1>7. FilesTraced'
  BY <1>2, <1>3 DEF Traced, FilesTraced
<1>8. CopiesTraced'
  <2> SUFFICES ASSUME NEW r \in Runs, post[r] = "write", copy[r].verdict = "proceed"
               PROVE  "proceed" \in votes'[Current(r)]
    BY <1>2 DEF CopiesTraced, Current
  <2>1. Current(r) \in GateIds
    BY CurrentIsGate DEF TypeInv, Places
  <2> QED
    BY <1>3, <2>1 DEF Traced
<1>9. AnswersTraced'
  BY <1>2, <1>3, AnswersStay
<1> QED
  BY <1>6, <1>7, <1>8, <1>9
  DEF Traced, FilesTraced, CopiesTraced, OpsTraced, AnswersTraced

\* The steps of a decision write the verdict that was asked for.
LEMMA DecideTraced ==
  ASSUME TypeInv, Traced, NEW d \in Deciders, Decide(d)
  PROVE  Traced'
<1>1. op[d].pc # "idle"
  BY DEF Decide, DecisionSettles, DecisionReads, DecisionWrites, DecisionFlips,
         DecisionMirrors
<1>2. /\ op[d] \in Decisions
      /\ op[d].gate \in GateIds
      /\ op[d].verdict \in Verdicts
      /\ op[d].saw \in GateFiles
  BY <1>1, DecisionParts DEF TypeInv
<1>3. UNCHANGED <<votes, post, copy, gate, script>>
  BY DEF Decide, DecisionSettles, DecisionReads, DecisionWrites, DecisionFlips,
         DecisionMirrors, runVars, gateVars, history
<1>4. /\ op[d] # Idle
      /\ op[d].verdict \in votes[op[d].gate]
  BY <1>1 DEF Traced, Idle
<1>5. \A e \in Deciders : \/ op'[e] = Idle
                          \/ /\ op[e] # Idle
                             /\ op'[e].gate = op[e].gate
                             /\ op'[e].verdict = op[e].verdict
  <2>1. op \in [Deciders -> Decisions \cup {Idle}]
    BY DEF TypeInv, TypeOK
  <2>2. \A e \in Deciders \ {d} : op'[e] = op[e]
    BY <2>1 DEF Decide, DecisionSettles, DecisionReads, DecisionWrites,
                DecisionFlips, DecisionMirrors
  <2>3. op'[d] = Idle \/ (op'[d].gate = op[d].gate /\ op'[d].verdict = op[d].verdict)
    BY <1>2, <2>1 DEF Decide, DecisionSettles, DecisionReads, DecisionWrites,
                      DecisionFlips, DecisionMirrors, Decisions
  <2> QED
    BY <1>4, <2>2, <2>3
<1>6. OpsTraced'
  BY <1>3, <1>5 DEF Traced, OpsTraced
<1>7. FilesTraced'
  <2>1. CASE DecisionWrites(d)
    <3>1. [op[d].saw EXCEPT !.verdict = op[d].verdict].verdict = op[d].verdict
      BY <1>2 DEF GateFiles
    <3>2. file' = [file EXCEPT ![op[d].gate] =
                     [op[d].saw EXCEPT !.verdict = op[d].verdict]]
      BY <2>1 DEF DecisionWrites
    <3>3. \A g \in GateIds : \/ file'[g] = file[g]
                             \/ g = op[d].gate /\ file'[g].verdict = op[d].verdict
      BY <3>1, <3>2 DEF TypeInv, TypeOK
    <3> QED
      BY <1>3, <1>4, <3>3 DEF Traced, FilesTraced
  <2>2. CASE ~DecisionWrites(d)
    <3>1. UNCHANGED file
      BY <2>2 DEF Decide, DecisionSettles, DecisionReads, DecisionFlips,
                  DecisionMirrors, gateVars
    <3> QED
      BY <1>3, <3>1 DEF Traced, FilesTraced
  <2> QED
    BY <2>1, <2>2
<1>8. CopiesTraced'
  BY <1>3 DEF Traced, CopiesTraced, Current
<1>9. AnswersTraced'
  BY <1>3, AnswersStay
<1> QED
  BY <1>6, <1>7, <1>8, <1>9
  DEF Traced, FilesTraced, CopiesTraced, OpsTraced, AnswersTraced

\* Every step keeps every 'proceed' traced to a vote.
LEMMA StepTraced ==
  ASSUME TypeInv, Traced, [Next]_vars
  PROVE  Traced'
<1>1. ASSUME NEW r \in Runs, Run(r)
      PROVE  Traced'
  BY <1>1, RunTraced
<1>2. ASSUME NEW d \in Deciders, Decide(d)
      PROVE  Traced'
  BY <1>2, DecideTraced
<1>3. ASSUME NEW d \in Deciders, NEW g \in GateIds, NEW v \in Verdicts,
             DecideGate(d, g, v) \/ DecideRow(d, g, v)
      PROVE  Traced'
  BY <1>3, AskTraced
<1>4. ASSUME NEW p \in Processes, Crash(p)
      PROVE  Traced'
  <2>1. UNCHANGED <<file, votes, gate, script>>
    BY <1>4 DEF Crash, history
  <2>2. \A r \in Runs : post'[r] = "write" => post[r] = "write" /\ copy'[r] = copy[r]
    BY <1>4 DEF Crash
  <2>3. \A d \in Deciders : op'[d] = Idle \/ op'[d] = op[d]
    BY <1>4 DEF Crash
  <2> QED
    BY <2>1, <2>2, <2>3 DEF Traced, Current
<1>5. CASE UNCHANGED vars
  BY <1>5 DEF vars, runVars, gateVars, history, Traced, Current
<1> QED
  BY <1>1, <1>2, <1>3, <1>4, <1>5 DEF Next

LEMMA TracedAlways == Spec => []Traced
<1>1. Init => Traced
  BY DEF Init, Traced, NoFile
<1> QED
  BY <1>1, StepTraced, TypeInvAlways, PTL DEF Spec

\* Only the answer to a poll lets a script past a gate.
LEMMA PassedByPolls ==
  ASSUME [Next]_vars, passed' # passed
  PROVE  \E r \in Runs : PassGate(r)
<1>1. ASSUME NEW r \in Runs, Supervise(r)
      PROVE  UNCHANGED passed
  <2>1. CASE Check(r) \/ Insert(r) \/ PrepareFails(r) \/ Launch(r)
    BY <2>1 DEF Check, Insert, PrepareFails, Launch, history
  <2>2. CASE SeeAbort(r) \/ SeeDeadline(r) \/ SeeExit(r)
    BY <2>2 DEF SeeAbort, SeeDeadline, SeeExit, history
  <2>3. CASE Finish(r) \/ Settle(r)
    BY <2>3 DEF Finish, Settle, history
  <2> QED
    BY <1>1, <2>1, <2>2, <2>3 DEF Supervise
<1>2. ASSUME NEW r \in Runs, Post(r) \/ Reap(r)
      PROVE  UNCHANGED passed
  <2>1. CASE Post(r)
    BY <2>1 DEF Post, PostCreate, PostFlip, PostBridge, PostRead, PostWrite, history
  <2>2. CASE Reap(r)
    BY <2>2 DEF Reap, ReapStart, ReapGates, ReapFinish, ReapSettle, history
  <2> QED
    BY <1>2, <2>1, <2>2
<1>3. ASSUME NEW r \in Runs,
             \/ ScriptExits(r) \/ SetMarker(r) \/ AskGate(r) \/ PollGate(r)
             \/ PollRead(r) \/ PollFails(r) \/ RequestAbort(r) \/ Grow(r) \/ GoStale(r)
      PROVE  UNCHANGED passed
  BY <1>3 DEF ScriptExits, SetMarker, AskGate, PollGate, PollRead, PollFails,
              RequestAbort, Grow, GoStale, history
<1>4. ASSUME NEW d \in Deciders, Decide(d)
      PROVE  UNCHANGED passed
  BY <1>4 DEF Decide, DecisionSettles, DecisionReads, DecisionWrites,
              DecisionFlips, DecisionMirrors, history
<1>5. ASSUME NEW d \in Deciders, NEW g \in GateIds, NEW v \in Verdicts,
             DecideGate(d, g, v) \/ DecideRow(d, g, v)
      PROVE  UNCHANGED passed
  BY <1>5 DEF DecideGate, DecideRow
<1>6. ASSUME NEW p \in Processes, Crash(p)
      PROVE  UNCHANGED passed
  BY <1>6 DEF Crash, history
<1>7. ASSUME UNCHANGED vars
      PROVE  UNCHANGED passed
  BY <1>7 DEF vars, history
<1>8. ASSUME NEW r \in Runs, Run(r)
      PROVE  PassGate(r) \/ UNCHANGED passed
  BY <1>8, <1>1, <1>2, <1>3 DEF Run, Polls
<1> QED
  BY <1>8, <1>4, <1>5, <1>6, <1>7 DEF Next

\* A gate that is passed has been voted for.
LEMMA StepGates ==
  ASSUME TypeInv, Traced, GateNeedsProceed, [Next]_vars
  PROVE  GateNeedsProceed'
<1>1. \A g \in GateIds : votes[g] \subseteq votes'[g]
  <2>1. ASSUME NEW d \in Deciders, NEW g \in GateIds, NEW v \in Verdicts,
               DecideGate(d, g, v) \/ DecideRow(d, g, v)
        PROVE  \A h \in GateIds : votes[h] \subseteq votes'[h]
    BY <2>1 DEF DecideGate, DecideRow, Ask, TypeInv, TypeOK
  <2>2. CASE UNCHANGED votes
    BY <2>2
  <2>3. \/ UNCHANGED votes
        \/ \E d \in Deciders, g \in GateIds, v \in Verdicts :
             DecideGate(d, g, v) \/ DecideRow(d, g, v)
    <3>1. ASSUME NEW r \in Runs, Run(r)
          PROVE  UNCHANGED votes
      BY <3>1 DEF Run, Supervise, Check, Insert, PrepareFails, Launch, SeeAbort,
           SeeDeadline, SeeExit, Finish, Settle, Post, PostCreate, PostFlip, PostBridge, PostRead,
           PostWrite, Reap, ReapStart, ReapGates, ReapFinish, ReapSettle, ScriptExits,
           SetMarker, AskGate, Polls, PollGate, PollRead, PollFails, PassGate, RequestAbort,
           Grow, GoStale, history
    <3>2. ASSUME NEW d \in Deciders, Decide(d)
          PROVE  UNCHANGED votes
      BY <3>2 DEF Decide, DecisionSettles, DecisionReads, DecisionWrites,
                  DecisionFlips, DecisionMirrors, history
    <3>3. ASSUME NEW p \in Processes, Crash(p)
          PROVE  UNCHANGED votes
      BY <3>3 DEF Crash, history
    <3> QED
      BY <3>1, <3>2, <3>3 DEF Next, vars, history
  <2> QED
    BY <2>1, <2>2, <2>3
<1>2. ASSUME NEW g \in passed', g \notin passed
      PROVE  g \in GateIds /\ "proceed" \in votes[g]
  <2>1. PICK r \in Runs : PassGate(r)
    BY <1>2, PassedByPolls
  <2>2. g = Current(r) /\ script[r] = "approved"
    BY <1>2, <2>1 DEF PassGate
  <2>3. Current(r) \in GateIds
    BY <2>2, CurrentIsGate DEF TypeInv, Places
  <2> QED
    BY <2>2, <2>3 DEF Traced
<1>3. passed \subseteq GateIds
  BY DEF TypeInv, TypeOK
<1> QED
  BY <1>1, <1>2, <1>3 DEF GateNeedsProceed

\* A script gets past a gate only if a person asked for that gate to proceed,
\* for any number of runs, gates, simultaneous decisions and crashes.
THEOREM GatesNeedProceed == Spec => []GateNeedsProceed
<1>1. Init => GateNeedsProceed
  BY DEF Init, GateNeedsProceed
<1> QED
  BY <1>1, StepGates, TracedAlways, TypeInvAlways, PTL DEF Spec

-----------------------------------------------------------------------------
(* The guard against a second run.                                         *)

\* What may have kept the guard from seeing a run.
Blinded(r) == marker[r] # "none" \/ age[r] = "expired" \/ r \in reaped

Looking(r) == sup[r] \in {"free", "busy"}

\* Runs of one process look one at a time, a supervised run has a row that
\* says so, and a run that may go ahead has seen every supervised one that
\* the guard can see.
Guarded ==
  /\ \A r \in Runs : Supervised(r) => Live(r) \/ Finished(r)
  /\ \A r, q \in Runs : r # q /\ Home[r] = Home[q] =>
       /\ Looking(r) => ~Looking(q)
       /\ sup[r] = "free" /\ Supervised(q) => Blinded(q)
       /\ Supervised(r) /\ Supervised(q) => Blinded(r) \/ Blinded(q)

\* Nothing makes the guard see a run again.
LEMMA BlindedStays ==
  ASSUME TypeInv, [Next]_vars, NEW r \in Runs, Blinded(r)
  PROVE  Blinded(r)'
<1> USE DEF TypeInv, TypeOK, Blinded, runVars, gateVars, history
<1>1. ASSUME NEW q \in Runs, Run(q)
      PROVE  Blinded(r)'
  <2>1. CASE Supervise(q)
    BY <2>1 DEF Supervise, Check, Insert, PrepareFails, Launch, SeeAbort,
                SeeDeadline, SeeExit, Finish, Settle
  <2>2. CASE Post(q)
    BY <2>2 DEF Post, PostCreate, PostFlip, PostBridge, PostRead, PostWrite
  <2>3. CASE Reap(q)
    BY <2>3 DEF Reap, ReapStart, ReapGates, ReapFinish, ReapSettle
  <2>4. CASE ScriptExits(q) \/ SetMarker(q) \/ AskGate(q) \/ Polls(q)
               \/ RequestAbort(q) \/ Grow(q) \/ GoStale(q)
    BY <2>4 DEF ScriptExits, SetMarker, AskGate, Polls, PollGate, PollRead,
                PollFails, PassGate, RequestAbort, Grow, GoStale
  <2> QED
    BY <1>1, <2>1, <2>2, <2>3, <2>4 DEF Run
<1>2. ASSUME NEW d \in Deciders,
             \/ Decide(d)
             \/ \E g \in GateIds, v \in Verdicts : DecideGate(d, g, v) \/ DecideRow(d, g, v)
      PROVE  Blinded(r)'
  BY <1>2 DEF Decide, DecisionSettles, DecisionReads, DecisionWrites, DecisionFlips,
              DecisionMirrors, DecideGate, DecideRow
<1>3. ASSUME NEW p \in Processes, Crash(p)
      PROVE  Blinded(r)'
  BY <1>3 DEF Crash
<1>4. CASE UNCHANGED vars
  BY <1>4 DEF vars
<1> QED
  BY <1>1, <1>2, <1>3, <1>4 DEF Next

\* Other steps than the guard's let no run in, and take no row away.
LEMMA OthersLetNoneIn ==
  ASSUME TypeInv, [Next]_vars, \A q \in Runs : ~Check(q) /\ ~Insert(q)
  PROVE  \A r \in Runs :
           /\ sup'[r] \in {"free", "busy", "prepare"} => sup'[r] = sup[r]
           /\ sup'[r] = "watch" => Supervised(r)
           /\ status'[r] = status[r] \/ Live(r)' \/ Finished(r)'
<1> USE DEF TypeInv, TypeOK, runVars, gateVars, history, Supervised
<1>1. ASSUME NEW q \in Runs, Run(q), NEW r \in Runs
      PROVE  /\ sup'[r] \in {"free", "busy", "prepare"} => sup'[r] = sup[r]
             /\ sup'[r] = "watch" => Supervised(r)
  <2>1. CASE Supervise(q)
    BY <2>1 DEF Supervise, PrepareFails, Launch, SeeAbort, SeeDeadline, SeeExit,
                Finish, Settle, End
  <2>2. CASE Post(q)
    BY <2>2 DEF Post, PostCreate, PostFlip, PostBridge, PostRead, PostWrite
  <2>3. CASE Reap(q)
    BY <2>3 DEF Reap, ReapStart, ReapGates, ReapFinish, ReapSettle
  <2>4. CASE ScriptExits(q) \/ SetMarker(q) \/ AskGate(q) \/ Polls(q)
               \/ RequestAbort(q) \/ Grow(q) \/ GoStale(q)
    BY <2>4 DEF ScriptExits, SetMarker, AskGate, Polls, PollGate, PollRead,
                PollFails, PassGate, RequestAbort, Grow, GoStale
  <2> QED
    BY <1>1, <2>1, <2>2, <2>3, <2>4 DEF Run
<1>2. ASSUME NEW q \in Runs, Run(q), NEW r \in Runs
      PROVE  status'[r] = status[r] \/ Live(r)' \/ Finished(r)'
  <2> USE DEF Live, Finished, LiveStatuses, SetStatus
  <2>1. CASE Finish(q)
    <3>1. outcome[q] \in Outcomes
      BY <2>1 DEF Finish, Places
    <3> QED
      BY <2>1, <3>1 DEF Finish
  <2>2. CASE PrepareFails(q) \/ Launch(q) \/ SeeAbort(q) \/ SeeDeadline(q)
               \/ SeeExit(q) \/ Settle(q)
    BY <2>2 DEF PrepareFails, Launch, SeeAbort, SeeDeadline, SeeExit, Settle
  <2>3. CASE Post(q)
    BY <2>3 DEF Post, PostCreate, PostFlip, PostBridge, PostRead, PostWrite
  <2>4. CASE Reap(q)
    BY <2>4 DEF Reap, ReapStart, ReapGates, ReapFinish, ReapSettle, Outcomes
  <2>5. CASE ScriptExits(q) \/ SetMarker(q) \/ AskGate(q) \/ Polls(q)
               \/ RequestAbort(q) \/ Grow(q) \/ GoStale(q)
    BY <2>5 DEF ScriptExits, SetMarker, AskGate, Polls, PollGate, PollRead,
                PollFails, PassGate, RequestAbort, Grow, GoStale
  <2> QED
    BY <1>2, <2>1, <2>2, <2>3, <2>4, <2>5 DEF Run, Supervise
<1>3. ASSUME NEW d \in Deciders,
             \/ Decide(d)
             \/ \E g \in GateIds, v \in Verdicts : DecideGate(d, g, v) \/ DecideRow(d, g, v)
      PROVE  /\ UNCHANGED sup
             /\ \A r \in Runs : status'[r] = status[r] \/ Live(r)'
  BY <1>3, DecisionsEndNothing
<1>4. ASSUME NEW p \in Processes, Crash(p)
      PROVE  /\ UNCHANGED status
             /\ \A r \in Runs : sup'[r] \in {sup[r], "lost"}
  BY <1>4 DEF Crash
<1>5. CASE UNCHANGED vars
  BY <1>5 DEF vars
<1> QED
  BY <1>1, <1>2, <1>3, <1>4, <1>5 DEF Next

\* The look of a run that wants in.
LEMMA CheckGuards ==
  ASSUME TypeInv, Endings, Guarded, NEW x \in Runs, Check(x)
  PROVE  Guarded'
<1>1. UNCHANGED <<status, marker, age, reaped>>
  BY DEF Check, history
<1>2. /\ \A q \in Runs : q # x => sup'[q] = sup[q]
      /\ sup'[x] \in {"free", "busy"}
      /\ \A q \in Runs : Home[q] = Home[x] => ~Looking(q)
  BY DEF Check, TypeInv, TypeOK, Looking
<1>3. ASSUME NEW q \in Runs, q # x, sup'[x] = "free", Supervised(q)
      PROVE  Blinded(q)
  <2>1. Live(q) \/ Finished(q)
    BY <1>3 DEF Guarded
  <2>2. CASE Finished(q)
    BY <1>3, <2>2 DEF Endings, Supervised, Blinded
  <2>3. CASE Live(q) /\ age[q] # "expired"
    <3>1. q \in LiveRows(x)
      BY <1>3, <2>3 DEF LiveRows
    <3>2. \A p \in LiveRows(x) : marker[p] = "set"
      BY <1>3 DEF Check, TypeInv, TypeOK
    <3> QED
      BY <3>1, <3>2 DEF Blinded
  <2> QED
    BY <2>1, <2>2, <2>3 DEF Blinded
<1>4. \A q \in Runs : Supervised(q)' => q # x /\ Supervised(q)
  BY <1>2 DEF Supervised
<1>5. \A q \in Runs : Live(q)' = Live(q) /\ Finished(q)' = Finished(q)
                      /\ Blinded(q)' = Blinded(q)
  BY <1>1 DEF Live, Finished, Blinded
<1>6. \A q \in Runs : q # x => Looking(q)' = Looking(q)
  BY <1>2 DEF Looking
<1> QED
  BY <1>2, <1>3, <1>4, <1>5, <1>6 DEF Guarded

\* The insert of a run that may go ahead, or of one that is skipped.
LEMMA InsertGuards ==
  ASSUME TypeInv, Guarded, NEW x \in Runs, Insert(x)
  PROVE  Guarded'
<1>1. UNCHANGED <<marker, age, reaped>>
  BY DEF Insert, history
<1>2. /\ \A q \in Runs : q # x => sup'[q] = sup[q] /\ status'[q] = status[q]
      /\ Looking(x)
      /\ \/ sup[x] = "free" /\ sup'[x] = "prepare" /\ status'[x] = "running"
         \/ sup'[x] = "done"
  BY DEF Insert, TypeInv, TypeOK, Looking
<1>3. \A q \in Runs : Blinded(q)' = Blinded(q)
  BY <1>1 DEF Blinded
<1>4. \A q \in Runs : q # x =>
        /\ Live(q)' = Live(q) /\ Finished(q)' = Finished(q)
        /\ Looking(q)' = Looking(q) /\ Supervised(q)' = Supervised(q)
  BY <1>2 DEF Live, Finished, Looking, Supervised
<1>5. ~Looking(x)'
  BY <1>2 DEF Looking
<1>6. Supervised(x)' => sup[x] = "free" /\ Live(x)'
  BY <1>2 DEF Supervised, Live, LiveStatuses
<1>7. \A q \in Runs : sup[q] = "free" => Looking(q)
  BY DEF Looking
<1>8. sup'[x] # "free"
  BY <1>2
<1>9. \A r \in Runs : Supervised(r)' => Live(r)' \/ Finished(r)'
  BY <1>4, <1>6 DEF Guarded
<1>10. ASSUME NEW r \in Runs, NEW q \in Runs, r # q, Home[r] = Home[q]
       PROVE  /\ Looking(r)' => ~Looking(q)'
              /\ sup'[r] = "free" /\ Supervised(q)' => Blinded(q)'
              /\ Supervised(r)' /\ Supervised(q)' => Blinded(r)' \/ Blinded(q)'
  <2>1. CASE r = x
    BY <1>10, <2>1, <1>3, <1>4, <1>5, <1>6, <1>8 DEF Guarded
  <2>2. CASE q = x
    BY <1>10, <2>2, <1>2, <1>3, <1>4, <1>5, <1>6, <1>7 DEF Guarded
  <2>3. CASE r # x /\ q # x
    BY <1>10, <2>3, <1>2, <1>3, <1>4 DEF Guarded
  <2> QED
    BY <2>1, <2>2, <2>3
<1> QED
  BY <1>9, <1>10 DEF Guarded

\* Every step keeps the guard's promise.
LEMMA StepGuarded ==
  ASSUME TypeInv, Endings, Guarded, [Next]_vars
  PROVE  Guarded'
<1>1. CASE \E x \in Runs : Check(x) \/ Insert(x)
  BY <1>1, CheckGuards, InsertGuards
<1>2. CASE \A x \in Runs : ~Check(x) /\ ~Insert(x)
  <2>1. \A r \in Runs :
          /\ sup'[r] \in {"free", "busy", "prepare"} => sup'[r] = sup[r]
          /\ sup'[r] = "watch" => Supervised(r)
          /\ status'[r] = status[r] \/ Live(r)' \/ Finished(r)'
    BY <1>2, OthersLetNoneIn
  <2>2. \A r \in Runs :
          /\ Looking(r)' => Looking(r)
          /\ sup'[r] = "free" => sup[r] = "free"
          /\ Supervised(r)' => Supervised(r)
    BY <2>1 DEF Looking, Supervised
  <2>3. \A r \in Runs : Blinded(r) => Blinded(r)'
    BY BlindedStays
  <2>4. \A r \in Runs : Live(r) \/ Finished(r) => Live(r)' \/ Finished(r)'
    BY <2>1 DEF Live, Finished
  <2> QED
    BY <2>2, <2>3, <2>4 DEF Guarded
<1> QED
  BY <1>1, <1>2

\* One process never supervises two runs of the automation at once unless the
\* guard was blinded for one of them: for any number of runs and processes.
THEOREM GuardHolds == Spec => []OneRunPerProcess
<1>1. Init => Guarded
  BY DEF Init, Guarded, Supervised, Looking
<1>2. TypeInv /\ Endings /\ Guarded /\ [Next]_vars => Guarded'
  BY StepGuarded
<1>3. Guarded => OneRunPerProcess
  BY DEF Guarded, OneRunPerProcess, Blinded
<1> QED
  BY <1>1, <1>2, <1>3, TypeInvAlways, EndingsAlways, PTL DEF Spec

-----------------------------------------------------------------------------
(* The contract of the checkpoints. Nobody decides a gate that was not     *)
(* asked about, and where the script is tells whether it is past the gate  *)
(* it asked at last.                                                       *)

Reached(g) == g[2] <= gate[g[1]]

KnownGates ==
  /\ \A g \in GateIds :
       file[g].verdict # "none" \/ row[g] # "none" \/ g \in passed => Reached(g)
  /\ \A d \in Deciders : op[d].pc # "idle" => Reached(op[d].gate)

\* A request that opens a gate is under way, after its file or before it.
Opening(r) == post[r] \notin {"none", "create"}

AtGate(r) ==
  /\ script[r] = "none" => gate[r] = 0
  /\ script[r] = "working" \/ post[r] = "create" => gate[r] = 0 \/ Current(r) \in passed
  /\ script[r] \in {"waiting", "polling", "approved"} \/ Opening(r) =>
       Current(r) \notin passed
  /\ \A n \in 1..Gates[r] : n < gate[r] => <<r, n>> \in passed

Orderly == KnownGates /\ \A r \in Runs : AtGate(r)

\* What is enough for a step that neither asks nor passes.
LEMMA OrderKept ==
  ASSUME Orderly, UNCHANGED <<gate, passed>>,
         \A g \in GateIds : file'[g].verdict # "none" => file[g].verdict # "none" \/ Reached(g),
         \A g \in GateIds : row'[g] # "none" => row[g] # "none" \/ Reached(g),
         \A d \in Deciders : op'[d].pc # "idle" => Reached(op'[d].gate),
         \A r \in Runs : \/ script'[r] \in {script[r], "asking", "exited", "declined", "killed"}
                         \/ script[r] = "none" /\ script'[r] = "working"
                         \/ script[r] = "asking" /\ Opening(r) /\ script'[r] = "waiting"
                         \/ /\ script[r] \in {"waiting", "polling", "approved"}
                            /\ script'[r] \in {"waiting", "polling", "approved"},
         \A r \in Runs : \/ post'[r] \in {post[r], "none"}
                         \/ Opening(r) /\ Opening(r)'
                         \/ script[r] = "working" /\ post'[r] = "create"
  PROVE  Orderly'
<1>1. \A g : Reached(g)' = Reached(g)
  BY DEF Reached
<1>2. KnownGates'
  BY <1>1 DEF Orderly, KnownGates
<1>3. ASSUME NEW r \in Runs
      PROVE  AtGate(r)'
  BY DEF Orderly, AtGate, Current, Opening
<1> QED
  BY <1>2, <1>3 DEF Orderly

\* The gate a request is about has been asked at.
LEMMA CurrentReached ==
  ASSUME TypeInv, NEW r \in Runs
  PROVE  Reached(Current(r))
BY DEF Reached, Current, TypeInv, TypeOK

LEMMA CancelKeepsNone ==
  ASSUME TypeInv, NEW r \in Runs, CancelRows(r)
  PROVE  \A g \in GateIds : row'[g] # "none" => row[g] # "none"
BY DEF CancelRows

LEMMA SettleKeepsNone ==
  ASSUME TypeInv, NEW g, NEW v, SettleRow(g, v)
  PROVE  \A h \in GateIds : row'[h] # "none" => row[h] # "none"
BY DEF SettleRow, TypeInv, TypeOK

\* Supervisors only start and end scripts.
LEMMA SuperviseOrder ==
  ASSUME TypeInv, Orderly, NEW r \in Runs, Supervise(r)
  PROVE  Orderly'
<1> USE DEF gateVars, history
<1>1. UNCHANGED <<gate, passed, file, op, post>>
  BY DEF Supervise, Check, Insert, PrepareFails, Launch, SeeAbort, SeeDeadline,
         SeeExit, Finish, Settle
<1>2. \A q \in Runs : \/ script'[q] \in {script[q], "killed"}
                      \/ script[q] = "none" /\ script'[q] = "working"
  <2>1. CASE Launch(r)
    BY <2>1 DEF Launch, TypeInv, TypeOK, Places
  <2>2. CASE SeeAbort(r) \/ SeeDeadline(r)
    BY <2>2 DEF SeeAbort, SeeDeadline, Kill, TypeInv, TypeOK
  <2>3. CASE ~Launch(r) /\ ~SeeAbort(r) /\ ~SeeDeadline(r)
    BY <2>3 DEF Supervise, Check, Insert, PrepareFails, SeeExit, Finish, Settle
  <2> QED
    BY <2>1, <2>2, <2>3
<1>3. \A g \in GateIds : row'[g] # "none" => row[g] # "none"
  <2>1. CASE Settle(r)
    BY <2>1, CancelKeepsNone DEF Settle
  <2>2. CASE ~Settle(r)
    BY <2>2 DEF Supervise, Check, Insert, PrepareFails, Launch, SeeAbort,
                SeeDeadline, SeeExit, Finish
  <2> QED
    BY <2>1, <2>2
<1>4. \A d \in Deciders : op'[d].pc # "idle" => Reached(op'[d].gate)
  BY <1>1 DEF Orderly, KnownGates
<1> QED
  BY <1>1, <1>2, <1>3, <1>4, OrderKept

\* The request that opens a gate writes, after the file, the gate it is about.
LEMMA PostOrder ==
  ASSUME TypeInv, Orderly, NEW r \in Runs, Post(r), ~PostCreate(r)
  PROVE  Orderly'
<1> USE DEF runVars, history
<1>1. UNCHANGED <<gate, passed, op>>
  BY DEF Post, PostFlip, PostBridge, PostRead, PostWrite
<1>2. \A q \in Runs : \/ script'[q] = script[q]
                      \/ script[q] = "asking" /\ Opening(q) /\ script'[q] = "waiting"
  BY DEF Post, PostFlip, PostBridge, PostRead, PostWrite, Reply, Opening, TypeInv, TypeOK
<1>3. Reached(Current(r))
  BY CurrentReached
<1>4. \A g \in GateIds : g # Current(r) => file'[g] = file[g] /\ row'[g] = row[g]
  BY DEF Post, PostFlip, PostBridge, PostRead, PostWrite, TypeInv, TypeOK
<1>5. \A d \in Deciders : op'[d].pc # "idle" => Reached(op'[d].gate)
  BY <1>1 DEF Orderly, KnownGates
<1>6. \A q \in Runs : \/ post'[q] \in {post[q], "none"}
                      \/ Opening(q) /\ Opening(q)'
  BY DEF Post, PostFlip, PostBridge, PostRead, PostWrite, Reply, Opening, TypeInv, TypeOK
<1> QED
  BY <1>1, <1>2, <1>3, <1>4, <1>5, <1>6, OrderKept

\* The reaper decides open gates and cancels open rows.
LEMMA ReapOrder ==
  ASSUME TypeInv, Orderly, NEW r \in Runs, Reap(r)
  PROVE  Orderly'
<1> USE DEF runVars
<1>1. UNCHANGED <<gate, passed, script, op, post>>
  BY DEF Reap, ReapStart, ReapGates, ReapFinish, ReapSettle, gateVars, history
<1>2. \A g \in GateIds : row'[g] # "none" => row[g] # "none"
  <2>1. CASE ReapStart(r) \/ ReapSettle(r)
    BY <2>1, CancelKeepsNone DEF ReapStart, ReapSettle
  <2>2. CASE ReapGates(r) \/ ReapFinish(r)
    BY <2>2 DEF ReapGates, ReapFinish, gateVars
  <2> QED
    BY <2>1, <2>2 DEF Reap
<1>3. \A g \in GateIds : file'[g].verdict # "none" => file[g].verdict # "none"
  <2>1. CASE ReapGates(r)
    BY <2>1 DEF ReapGates
  <2>2. CASE ReapStart(r) \/ ReapFinish(r) \/ ReapSettle(r)
    BY <2>2 DEF ReapStart, ReapFinish, ReapSettle, gateVars
  <2> QED
    BY <2>1, <2>2 DEF Reap
<1>4. \A d \in Deciders : op'[d].pc # "idle" => Reached(op'[d].gate)
  BY <1>1 DEF Orderly, KnownGates
<1> QED
  BY <1>1, <1>2, <1>3, <1>4, OrderKept

\* People decide gates that have been asked at.
LEMMA DecideOrder ==
  ASSUME TypeInv, Orderly, NEW d \in Deciders, Decide(d)
  PROVE  Orderly'
<1> USE DEF runVars, gateVars, history
<1>1. UNCHANGED <<gate, passed, script, post>>
  BY DEF Decide, DecisionSettles, DecisionReads, DecisionWrites, DecisionFlips,
         DecisionMirrors
<1>2. op[d].pc # "idle"
  BY DEF Decide, DecisionSettles, DecisionReads, DecisionWrites, DecisionFlips,
         DecisionMirrors
<1>3. Reached(op[d].gate)
  BY <1>2 DEF Orderly, KnownGates
<1>4. \A g \in GateIds : row'[g] # "none" => row[g] # "none"
  BY SettleKeepsNone
  DEF Decide, DecisionSettles, DecisionReads, DecisionWrites, DecisionFlips,
      DecisionMirrors
<1>5. \A g \in GateIds : g # op[d].gate => file'[g] = file[g]
  BY DEF Decide, DecisionSettles, DecisionReads, DecisionWrites, DecisionFlips,
         DecisionMirrors, TypeInv, TypeOK
<1>6. /\ \A e \in Deciders : e # d => op'[e] = op[e]
      /\ op'[d] = Idle \/ op'[d].gate = op[d].gate
  <2>1. op[d] \in Decisions /\ op \in [Deciders -> Decisions \cup {Idle}]
    BY <1>2, DecisionParts DEF TypeInv, TypeOK
  <2>2. CASE DecisionSettles(d) \/ DecisionFlips(d)
    BY <2>1, <2>2 DEF DecisionSettles, DecisionFlips, Decisions
  <2>3. CASE DecisionReads(d)
    BY <2>1, <2>3 DEF DecisionReads, Decisions
  <2>4. CASE DecisionWrites(d)
    BY <2>1, <2>4 DEF DecisionWrites, Decisions
  <2>5. CASE DecisionMirrors(d)
    BY <2>1, <2>5 DEF DecisionMirrors
  <2> QED
    BY <2>2, <2>3, <2>4, <2>5 DEF Decide
<1>7. \A e \in Deciders : op'[e].pc # "idle" => Reached(op'[e].gate)
  BY <1>3, <1>6 DEF Orderly, KnownGates, Idle
<1> QED
  BY <1>1, <1>3, <1>4, <1>5, <1>7, OrderKept

LEMMA AskOrder ==
  ASSUME TypeInv, Orderly, NEW d \in Deciders, NEW g \in GateIds, NEW v \in Verdicts,
         DecideGate(d, g, v) \/ DecideRow(d, g, v)
  PROVE  Reached(g) /\ Orderly'
<1>1. UNCHANGED <<gate, passed, script, file, row, post>>
  BY DEF DecideGate, DecideRow, runVars, gateVars
<1>2. Reached(g)
  BY DEF DecideGate, DecideRow, Orderly, KnownGates
<1>3. /\ \A e \in Deciders : e # d => op'[e] = op[e]
      /\ op'[d].gate = g
  BY DEF DecideGate, DecideRow, Ask, TypeInv, TypeOK
<1>4. \A e \in Deciders : op'[e].pc # "idle" => Reached(op'[e].gate)
  BY <1>2, <1>3 DEF Orderly, KnownGates
<1> QED
  BY <1>1, <1>2, <1>4, OrderKept

\* The script asks at the next gate only when it is past the last one.
LEMMA CreateOrder ==
  ASSUME TypeInv, Orderly, NEW r \in Runs, PostCreate(r)
  PROVE  Orderly'
<1>1. /\ UNCHANGED <<passed, row, op, script>>
      /\ gate' = [gate EXCEPT ![r] = @ + 1]
      /\ post' = [post EXCEPT ![r] = "flip"]
      /\ file' = [file EXCEPT ![<<r, gate[r] + 1>>].verdict = "open"]
      /\ post[r] = "create"
  BY DEF PostCreate, history
<1>2. /\ gate \in [Runs -> Nat]
      /\ post \in [Runs -> {"none", "create", "flip", "bridge", "link", "write"}]
      /\ file \in [GateIds -> GateFiles]
  BY DEF TypeInv, TypeOK
<1>3. /\ gate'[r] = gate[r] + 1
      /\ \A q \in Runs : q # r => gate'[q] = gate[q] /\ post'[q] = post[q]
      /\ post'[r] = "flip"
  BY <1>1, <1>2
<1>4. ASSUME NEW g, g[1] \in Runs, g[2] \in Nat, Reached(g)
      PROVE  Reached(g)'
  BY <1>2, <1>3, <1>4 DEF Reached
<1>5. \A g \in GateIds : g[1] \in Runs /\ g[2] \in Nat
  BY RunAssumption DEF GateIds
<1>6. \A g \in GateIds : Reached(g)' \/ file'[g] = file[g]
  <2>1. ASSUME NEW g \in GateIds, g = <<r, gate[r] + 1>>
        PROVE  Reached(g)'
    BY <1>2, <1>3, <2>1 DEF Reached
  <2>2. \A g \in GateIds : g # <<r, gate[r] + 1>> => file'[g] = file[g]
    BY <1>1, <1>2
  <2> QED
    BY <2>1, <2>2
<1>7. KnownGates'
  <2>1. \A g \in GateIds :
          file'[g].verdict # "none" \/ row'[g] # "none" \/ g \in passed' => Reached(g)'
    BY <1>1, <1>4, <1>5, <1>6 DEF Orderly, KnownGates
  <2>2. ASSUME NEW d \in Deciders, op'[d].pc # "idle"
        PROVE  Reached(op[d].gate)'
    <3>1. op[d].gate \in GateIds
      BY <1>1, <2>2, DecisionParts DEF TypeInv
    <3>2. Reached(op[d].gate)
      BY <1>1, <2>2 DEF Orderly, KnownGates
    <3> QED
      BY <1>1, <1>4, <1>5, <3>1, <3>2
  <2> QED
    BY <1>1, <2>1, <2>2 DEF KnownGates
<1>8. ASSUME NEW q \in Runs, q # r
      PROVE  AtGate(q)'
  BY <1>1, <1>3, <1>8 DEF Orderly, AtGate, Current, Opening
<1>9. AtGate(r)'
  <2>1. gate[r] = 0 \/ Current(r) \in passed
    BY <1>1 DEF Orderly, AtGate
  <2>2. <<r, gate[r] + 1>> \notin passed
    <3>1. ASSUME <<r, gate[r] + 1>> \in passed
          PROVE  FALSE
      <4>1. <<r, gate[r] + 1>> \in GateIds
        BY <3>1 DEF TypeInv, TypeOK
      <4>2. Reached(<<r, gate[r] + 1>>)
        BY <3>1, <4>1 DEF Orderly, KnownGates
      <4> QED
        BY <1>2, <4>2 DEF Reached
    <3> QED
      BY <3>1
  <2>3. ASSUME NEW n \in 1..Gates[r], n < gate[r] + 1
        PROVE  <<r, n>> \in passed
    <3>1. n \in Nat /\ n >= 1
      BY RunAssumption
    <3>2. CASE n < gate[r]
      BY <3>2 DEF Orderly, AtGate
    <3>3. CASE n = gate[r]
      BY <2>1, <3>1, <3>3 DEF Current
    <3> QED
      BY <1>2, <2>3, <3>1, <3>2, <3>3
  <2>4. script[r] \notin {"none", "working"}
    BY <1>1 DEF TypeInv, Places
  <2> QED
    BY <1>1, <1>3, <2>2, <2>3, <2>4 DEF AtGate, Current
<1> QED
  BY <1>7, <1>8, <1>9 DEF Orderly

\* The answer takes the script past the gate it asked at last.
LEMMA PassOrder ==
  ASSUME TypeInv, Orderly, NEW r \in Runs, PassGate(r)
  PROVE  Orderly'
<1>1. /\ UNCHANGED <<gate, file, row, op, post>>
      /\ passed' = passed \cup {Current(r)}
      /\ script' = [script EXCEPT ![r] = "working"]
      /\ script[r] = "approved"
  BY DEF PassGate, gateVars
<1>2. \A g : Reached(g)' = Reached(g)
  BY <1>1 DEF Reached
<1>3. KnownGates'
  BY <1>1, <1>2, CurrentReached DEF Orderly, KnownGates
<1>4. post[r] = "none"
  BY <1>1 DEF TypeInv, Places
<1>5. AtGate(r)'
  BY <1>1, <1>4 DEF Orderly, AtGate, Current, Opening, TypeInv, TypeOK
<1>6. ASSUME NEW q \in Runs, q # r
      PROVE  AtGate(q)'
  BY <1>1, <1>6 DEF Orderly, AtGate, Current, Opening, TypeInv, TypeOK
<1> QED
  BY <1>3, <1>5, <1>6 DEF Orderly

LEMMA StepOrder ==
  ASSUME TypeInv, Orderly, [Next]_vars
  PROVE  Orderly'
<1>1. ASSUME NEW r \in Runs, Run(r)
      PROVE  Orderly'
  <2>1. CASE \/ ScriptExits(r) \/ SetMarker(r) \/ AskGate(r) \/ PollGate(r) \/ PollRead(r)
             \/ PollFails(r) \/ RequestAbort(r) \/ Grow(r) \/ GoStale(r)
    <3> USE DEF TypeInv, TypeOK
    <3>1. UNCHANGED <<gate, passed, file, row, op>>
      BY <2>1 DEF ScriptExits, SetMarker, AskGate, PollGate, PollRead, PollFails,
                  RequestAbort, Grow, GoStale, gateVars, history
    <3>2. \A q \in Runs :
            \/ script'[q] \in {script[q], "asking", "exited", "declined"}
            \/ /\ script[q] \in {"waiting", "polling", "approved"}
               /\ script'[q] \in {"waiting", "polling", "approved"}
      BY <2>1 DEF ScriptExits, SetMarker, AskGate, PollGate, PollRead, PollFails,
                  RequestAbort, Grow, GoStale
    <3>3. \A q \in Runs : \/ post'[q] = post[q]
                          \/ script[q] = "working" /\ post'[q] = "create"
      BY <2>1 DEF ScriptExits, SetMarker, AskGate, PollGate, PollRead, PollFails,
                  RequestAbort, Grow, GoStale, gateVars
    <3>4. \A d \in Deciders : op'[d].pc # "idle" => Reached(op'[d].gate)
      BY <3>1 DEF Orderly, KnownGates
    <3> QED
      BY <3>1, <3>2, <3>3, <3>4, OrderKept
  <2>2. CASE Post(r)
    BY <2>2, PostOrder, CreateOrder
  <2> QED
    BY <1>1, <2>1, <2>2, SuperviseOrder, ReapOrder, PassOrder DEF Run, Polls
<1>2. ASSUME NEW p \in Processes, Crash(p)
      PROVE  Orderly'
  <2>1. UNCHANGED <<gate, passed, file, row, script>>
    BY <1>2 DEF Crash, history
  <2>2. \A d \in Deciders : op'[d] = Idle \/ op'[d] = op[d]
    BY <1>2 DEF Crash
  <2>3. \A d \in Deciders : op'[d].pc # "idle" => Reached(op'[d].gate)
    BY <2>2 DEF Orderly, KnownGates, Idle
  <2>4. \A r \in Runs : post'[r] \in {post[r], "none"}
    BY <1>2 DEF Crash
  <2> QED
    BY <2>1, <2>3, <2>4, OrderKept
<1>3. CASE UNCHANGED vars
  <2>1. UNCHANGED <<gate, passed, file, row, op, script, post>>
    BY <1>3 DEF vars, runVars, gateVars, history
  <2>2. \A d \in Deciders : op'[d].pc # "idle" => Reached(op'[d].gate)
    BY <2>1 DEF Orderly, KnownGates
  <2> QED
    BY <2>1, <2>2, OrderKept
<1> QED
  BY <1>1, <1>2, <1>3, DecideOrder, AskOrder DEF Next

LEMMA OrderAlways == Spec => []Orderly
<1>1. ASSUME Init
      PROVE  Orderly
  <2>1. \A r \in Runs : gate[r] = 0 /\ script[r] = "none" /\ post[r] = "none"
    BY <1>1 DEF Init
  <2>2. \A r \in Runs : \A n \in 1..Gates[r] : ~(n < gate[r])
    BY <2>1, RunAssumption
  <2>3. KnownGates
    BY <1>1 DEF Init, KnownGates, NoFile, Idle
  <2> QED
    BY <2>1, <2>2, <2>3 DEF Orderly, AtGate, Opening
<1> QED
  BY <1>1, StepOrder, TypeInvAlways, PTL DEF Spec

\* The contract speaks of the same gates and verdicts.
LEMMA ContractSets ==
  Checkpoints!GateIds = GateIds /\ Checkpoints!Verdicts = Verdicts
BY DEF Checkpoints!GateIds, GateIds, Checkpoints!Verdicts, Verdicts

Over    == {r \in Runs : Finished(r)}
Allowed == [r \in Runs |-> Admitted(r)]

\* What the contract's variables stand for.
ContractState == <<gate, votes, passed, Allowed, Over, reaped>>

LEMMA ContractMeans ==
  ContractState' = ContractState => UNCHANGED Checkpoints!contractVars
BY DEF ContractState, Checkpoints!contractVars, Over, Allowed

\* A step of one run leaves what the others may do alone.
LEMMA OthersAllowed ==
  ASSUME TypeInv, NEW q \in Runs, Run(q), NEW r \in Runs, r # q
  PROVE  Admitted(r)' = Admitted(r)
BY OthersStay DEF Admitted

\* A run that gives up what it may do, or keeps it, and touches nothing else.
LEMMA GivesUp ==
  ASSUME NEW r \in Runs, UNCHANGED <<gate, votes, passed, Over, reaped>>,
         \A q \in Runs : q # r => Admitted(q)' = Admitted(q),
         Admitted(r)' \in {Admitted(r), "none"}
  PROVE  Checkpoints!Next \/ UNCHANGED Checkpoints!contractVars
<1>1. CASE Admitted(r)' = Admitted(r)
  <2>1. Allowed' = Allowed
    BY <1>1 DEF Allowed
  <2> QED
    BY <2>1, ContractMeans DEF ContractState
<1>2. CASE Admitted(r)' = "none"
  <2>1. Checkpoints!GiveUp({r})
    BY <1>2 DEF Checkpoints!GiveUp, Over
  <2> QED
    BY <2>1 DEF Checkpoints!Next
<1> QED
  BY <1>1, <1>2

\* What a run's own steps do to the contract's state.
LEMMA RunMaps ==
  ASSUME TypeInv, Endings, Traced, Orderly, NEW r \in Runs, Run(r)
  PROVE  Checkpoints!Next \/ UNCHANGED Checkpoints!contractVars
<1>1. /\ \A q \in Runs : q # r => Finished(q)' = Finished(q)
      /\ Finished(r) => Finished(r)'
  BY OthersKeepTheirRow, EndingsAreEnded, OwnEnding DEF Finished
<1>2. \A q \in Runs : q # r => Admitted(q)' = Admitted(q)
  BY OthersAllowed
<1>3. UNCHANGED votes
  BY DEF Run, Supervise, Check, Insert, PrepareFails, Launch, SeeAbort,
         SeeDeadline, SeeExit, Finish, Settle, Post, PostCreate, PostFlip, PostBridge,
         PostRead, PostWrite, Reap, ReapStart, ReapGates, ReapFinish, ReapSettle,
         ScriptExits, SetMarker, AskGate, Polls, PollGate, PollRead, PollFails, PassGate,
         RequestAbort, Grow, GoStale, history
<1>4. /\ script \in [Runs -> {"none", "working", "asking", "waiting", "polling",
                              "approved", "exited", "declined", "killed"}]
      /\ post \in [Runs -> {"none", "create", "flip", "bridge", "link", "write"}]
      /\ gate \in [Runs -> Nat]
  BY DEF TypeInv, TypeOK
<1>5. Placed(r)
  BY DEF TypeInv, Places, Placed
<1>6. Finished(r)' = Finished(r) => Over' = Over
  BY <1>1 DEF Over
<1>7. CASE AskGate(r)
  <2>1. Over' = Over /\ r \notin Over
    BY <1>6, <1>7 DEF AskGate, Over, Finished, Live, LiveStatuses, Outcomes
  <2>2. Admitted(r) = "none" /\ Admitted(r)' = "ask"
    BY <1>4, <1>5, <1>7 DEF AskGate, Admitted, Placed
  <2>3. Allowed' = [Allowed EXCEPT ![r] = "ask"]
    BY <1>2, <2>2 DEF Allowed
  <2>4. Checkpoints!Admit(r)
    BY <1>3, <1>7, <2>1, <2>2, <2>3 DEF Checkpoints!Admit, AskGate, history, Over, Allowed
  <2> QED
    BY <2>4 DEF Checkpoints!Next
<1>8. CASE PostCreate(r)
  <2>1. /\ gate' = [gate EXCEPT ![r] = @ + 1]
        /\ post[r] = "create"
        /\ UNCHANGED <<status, script, passed, reaped>>
    BY <1>8 DEF PostCreate, history
  <2>2. Over' = Over
    BY <2>1 DEF Over, Finished
  <2>3. Admitted(r) = "ask" /\ Admitted(r)' = "none"
    BY <1>4, <1>5, <1>8 DEF PostCreate, Admitted, Placed
  <2>4. Allowed' = [Allowed EXCEPT ![r] = "none"]
    BY <1>2, <2>3 DEF Allowed
  <2>5. gate[r] < Gates[r]
    BY <1>5, <2>1 DEF Placed
  <2>6. gate[r] > 0 => <<r, gate[r]>> \in passed
    BY <2>1 DEF Orderly, AtGate, Current
  <2>7. Checkpoints!Ask(r)
    BY <1>3, <2>1, <2>2, <2>3, <2>4, <2>5, <2>6 DEF Checkpoints!Ask, Over, Allowed
  <2> QED
    BY <2>7 DEF Checkpoints!Next
<1>9. CASE PollGate(r)
  <2>1. UNCHANGED <<gate, passed, status, reaped, post>> /\ Admitted(r) = "none"
    BY <1>5, <1>9 DEF PollGate, Admitted, Placed, gateVars, history
  <2>2. Over' = Over
    BY <2>1 DEF Over, Finished
  <2>3. CASE Live(r)
    <3>1. r \notin Over /\ Admitted(r)' = "pass"
      BY <1>4, <1>5, <1>9, <2>3 DEF PollGate, gateVars, Admitted, Placed, Over, Finished,
                                    Live, LiveStatuses, Outcomes
    <3>2. Allowed' = [Allowed EXCEPT ![r] = "pass"]
      BY <1>2, <3>1 DEF Allowed
    <3>3. Checkpoints!Admit(r)
      BY <1>3, <2>1, <2>2, <3>1, <3>2 DEF Checkpoints!Admit, Over, Allowed
    <3> QED
      BY <3>3 DEF Checkpoints!Next
  <2>4. CASE ~Live(r)
    <3>1. Admitted(r)' = "none"
      BY <1>4, <1>5, <1>9, <2>4 DEF PollGate, gateVars, Admitted, Placed
    <3> QED
      BY <1>2, <1>3, <2>1, <2>2, <3>1, GivesUp
  <2> QED
    BY <2>3, <2>4
<1>10. CASE PassGate(r)
  <2>1. /\ passed' = passed \cup {Current(r)}
        /\ script[r] = "approved"
        /\ UNCHANGED <<status, gate, reaped>>
    BY <1>10 DEF PassGate
  <2>2. Over' = Over
    BY <2>1 DEF Over, Finished
  <2>3. Admitted(r) = "pass" /\ Admitted(r)' = "none"
    BY <1>4, <1>5, <1>10 DEF PassGate, gateVars, Admitted, Placed
  <2>4. Allowed' = [Allowed EXCEPT ![r] = "none"]
    BY <1>2, <2>3 DEF Allowed
  <2>5. r \in Over => r \in reaped
    BY <2>1 DEF Over, Endings, OutcomeMeansStopped, Alive
  <2>6. gate[r] > 0 /\ Current(r) \notin passed
    BY <1>4, <1>5, <2>1 DEF Placed, Orderly, AtGate
  <2>7. "proceed" \in votes[Current(r)]
    BY <2>1 DEF Traced
  <2>8. Checkpoints!Pass(r)
    BY <1>3, <2>1, <2>2, <2>3, <2>4, <2>5, <2>6, <2>7
    DEF Checkpoints!Pass, Over, Allowed, Current
  <2> QED
    BY <2>8 DEF Checkpoints!Next
<1>11. CASE PollRead(r) \/ PollFails(r) \/ ScriptExits(r) \/ SetMarker(r)
             \/ RequestAbort(r) \/ Grow(r) \/ GoStale(r)
  <2>1. UNCHANGED <<gate, passed, reaped, post>>
    BY <1>11 DEF PollRead, PollFails, ScriptExits, SetMarker, RequestAbort, Grow, GoStale,
                 gateVars, history
  <2>2. Over' = Over
    BY <1>6, <1>11 DEF PollRead, PollFails, ScriptExits, SetMarker, RequestAbort, Grow,
                       GoStale, Finished, SetStatus, Live, LiveStatuses, Outcomes,
                       TypeInv, TypeOK
  <2>3. Admitted(r)' \in {Admitted(r), "none"}
    BY <1>4, <1>5, <1>11, <2>1
    DEF PollRead, PollFails, ScriptExits, SetMarker, RequestAbort, Grow, GoStale,
        Admitted, Placed
  <2> QED
    BY <1>2, <1>3, <2>1, <2>2, <2>3, GivesUp
<1>12. CASE Post(r) /\ ~PostCreate(r)
  <2>1. UNCHANGED <<gate, passed, reaped>>
    BY <1>12 DEF Post, PostFlip, PostBridge, PostRead, PostWrite, runVars, history
  <2>2. Over' = Over
    BY <1>6, <1>12 DEF Post, PostFlip, PostBridge, PostRead, PostWrite, runVars, Finished,
                       SetStatus, Outcomes, TypeInv, TypeOK
  <2>3. Admitted(r)' \in {Admitted(r), "none"}
    BY <1>4, <1>5, <1>12 DEF Post, PostFlip, PostBridge, PostRead, PostWrite, Reply,
                             Admitted, Placed, runVars
  <2> QED
    BY <1>2, <1>3, <2>1, <2>2, <2>3, GivesUp
<1>13. CASE Supervise(r) /\ Finished(r)' = Finished(r)
  <2>1. UNCHANGED <<gate, passed, reaped, post>>
    BY <1>13 DEF Supervise, Check, Insert, PrepareFails, Launch, SeeAbort, SeeDeadline,
                 SeeExit, Finish, Settle, gateVars, history
  <2>2. Admitted(r)' \in {Admitted(r), "none"}
    BY <1>4, <1>5, <1>13, <2>1
    DEF Supervise, Check, Insert, PrepareFails, Launch, SeeAbort, SeeDeadline, SeeExit,
        Finish, Settle, Kill, Admitted, Placed
  <2> QED
    BY <1>2, <1>3, <1>6, <1>13, <2>1, <2>2, GivesUp
<1>14. CASE Supervise(r) /\ Finished(r)' # Finished(r)
  <2>1. r \notin Over /\ Over' = Over \cup {r}
    BY <1>1, <1>14 DEF Over, Finished
  <2>2. UNCHANGED <<gate, passed, reaped, post>>
    BY <1>14 DEF Supervise, Check, Insert, PrepareFails, Launch, SeeAbort, SeeDeadline,
                 SeeExit, Finish, Settle, gateVars, history
  <2>3. UNCHANGED script
    BY <1>14 DEF Supervise, Check, Insert, PrepareFails, Launch, SeeAbort, SeeDeadline,
                 SeeExit, Finish, Settle, Finished
  <2>4. Allowed' = Allowed
    BY <2>2, <2>3 DEF Allowed, Admitted
  <2>5. Checkpoints!Finish(r)
    BY <1>3, <2>1, <2>2, <2>4 DEF Checkpoints!Finish, Over, Allowed
  <2> QED
    BY <2>5 DEF Checkpoints!Next
<1>15. CASE Reap(r)
  <2>1. UNCHANGED <<gate, passed, script, post>>
    BY <1>15 DEF Reap, ReapStart, ReapGates, ReapFinish, ReapSettle, runVars, gateVars,
                 history
  <2>2. Allowed' = Allowed
    BY <2>1 DEF Allowed, Admitted
  <2>3. CASE ReapFinish(r) /\ r \notin reaped
    <3>1. reaped' = reaped \cup {r} /\ Finished(r)'
      BY <2>3 DEF ReapFinish, SetStatus, Finished, Outcomes, TypeInv, TypeOK
    <3>2. Over' = Over \cup {r}
      BY <1>1, <3>1 DEF Over
    <3>3. Checkpoints!Abandon(r)
      BY <1>3, <2>1, <2>2, <2>3, <3>1, <3>2 DEF Checkpoints!Abandon, Over, Allowed
    <3> QED
      BY <3>3 DEF Checkpoints!Next
  <2>4. CASE ~ReapFinish(r) \/ r \in reaped
    <3>1. UNCHANGED reaped
      BY <1>15, <2>4 DEF Reap, ReapStart, ReapGates, ReapFinish, ReapSettle, history
    <3>2. CASE ReapFinish(r) /\ r \in reaped
      <4>1. Finished(r)
        BY <3>2 DEF Endings
      <4> QED
        BY <1>1, <1>3, <1>6, <2>1, <2>2, <3>1, <4>1, ContractMeans DEF ContractState
    <3>3. CASE ~ReapFinish(r)
      <4>1. Finished(r)' = Finished(r)
        BY <1>15, <3>3 DEF Reap, ReapStart, ReapGates, ReapSettle, runVars, Finished
      <4> QED
        BY <1>3, <1>6, <2>1, <2>2, <3>1, <4>1, ContractMeans DEF ContractState
    <3> QED
      BY <2>4, <3>2, <3>3
  <2> QED
    BY <2>3, <2>4
<1> QED
  BY <1>7, <1>8, <1>9, <1>10, <1>11, <1>12, <1>13, <1>14, <1>15 DEF Run, Polls

\* Every step is a step of the contract or a stutter.
LEMMA StepMaps ==
  ASSUME TypeInv, Endings, Traced, Orderly, [Next]_vars
  PROVE  [Checkpoints!Next]_(Checkpoints!contractVars)
<1>1. ASSUME NEW r \in Runs, Run(r)
      PROVE  [Checkpoints!Next]_(Checkpoints!contractVars)
  BY <1>1, RunMaps
<1>2. ASSUME NEW d \in Deciders, NEW g \in GateIds, NEW v \in Verdicts,
             DecideGate(d, g, v) \/ DecideRow(d, g, v)
      PROVE  Checkpoints!Next
  <2>1. Reached(g)
    BY <1>2, AskOrder
  <2>2. /\ votes' = [votes EXCEPT ![g] = @ \cup {v}]
        /\ UNCHANGED <<gate, passed, status, script, post, reaped>>
    BY <1>2 DEF DecideGate, DecideRow, Ask, runVars, gateVars
  <2>3. Over' = Over /\ Allowed' = Allowed
    BY <2>2 DEF Over, Finished, Allowed, Admitted
  <2>4. Checkpoints!Decide(g, v)
    BY <2>1, <2>2, <2>3 DEF Checkpoints!Decide, Over, Allowed, Reached
  <2> QED
    BY <2>4, ContractSets DEF Checkpoints!Next
<1>3. ASSUME NEW d \in Deciders, Decide(d)
      PROVE  UNCHANGED Checkpoints!contractVars
  <2>1. UNCHANGED <<gate, votes, passed, script, post, reaped>>
    BY <1>3 DEF Decide, DecisionSettles, DecisionReads, DecisionWrites, DecisionFlips,
                DecisionMirrors, runVars, gateVars, history
  <2>2. \/ Decide(d)
        \/ \E g \in GateIds, v \in Verdicts : DecideGate(d, g, v) \/ DecideRow(d, g, v)
    BY <1>3
  <2>3. \A r \in Runs : \/ status'[r] = status[r]
                        \/ status[r] \in {"running", "waiting"} /\ Live(r)'
    BY <2>2, DecisionsEndNothing
  <2>4. Over' = Over
    BY <2>3 DEF Over, Finished, Live, LiveStatuses, Outcomes
  <2>5. Allowed' = Allowed
    BY <2>1 DEF Allowed, Admitted
  <2> QED
    BY <2>1, <2>4, <2>5, ContractMeans DEF ContractState
<1>4. ASSUME NEW p \in Processes, Crash(p)
      PROVE  [Checkpoints!Next]_(Checkpoints!contractVars)
  <2>1. UNCHANGED <<gate, votes, passed, script, status, reaped>>
    BY <1>4 DEF Crash, history
  <2>2. Over' = Over
    BY <2>1 DEF Over, Finished
  <2>3. CASE p # App
    <3>1. UNCHANGED post
      BY <1>4, <2>3 DEF Crash
    <3>2. Allowed' = Allowed
      BY <2>1, <3>1 DEF Allowed, Admitted
    <3> QED
      BY <2>1, <2>2, <3>2, ContractMeans DEF ContractState
  <2>4. CASE p = App
    <3> DEFINE S == {r \in Runs : post[r] = "create"}
    <3>1. \A r \in Runs : post'[r] = "none"
      BY <1>4, <2>4 DEF Crash
    <3>2. \A r \in Runs : Admitted(r)' = IF r \in S THEN "none" ELSE Admitted(r)
      BY <2>1, <3>1 DEF Admitted, TypeInv, Places
    <3>3. Checkpoints!GiveUp(S)
      BY <2>1, <2>2, <3>2 DEF Checkpoints!GiveUp, Over
    <3> QED
      BY <3>3 DEF Checkpoints!Next
  <2> QED
    BY <2>3, <2>4
<1>5. CASE UNCHANGED vars
  <2>1. UNCHANGED <<gate, votes, passed, script, status, reaped, post>>
    BY <1>5 DEF vars, runVars, gateVars, history
  <2>2. Over' = Over /\ Allowed' = Allowed
    BY <2>1 DEF Over, Finished, Allowed, Admitted
  <2> QED
    BY <2>1, <2>2, ContractMeans DEF ContractState
<1> QED
  BY <1>1, <1>2, <1>3, <1>4, <1>5 DEF Next

\* AutomationRun implements GateContract: whatever decisions, late requests,
\* sweeps, deadlines and crashes race, a script asks and is let past gate by
\* gate, once each and only as somebody wanted; each time a look that found
\* the run live goes before, so that a run does one such thing at most after
\* its outcome, and passes none if its own supervisor recorded it.
THEOREM CheckpointsKeepContract == Spec => KeepsGateContract
<1>1. Init => Checkpoints!Init
  BY ContractSets DEF Init, Checkpoints!Init, Finished, Outcomes, Admitted
<1> QED
  BY <1>1, StepMaps, TypeInvAlways, EndingsAlways, TracedAlways, OrderAlways, PTL
  DEF Spec, KeepsGateContract, Checkpoints!Spec

\* Whoever is past a gate has got past all gates before it, each with the
\* consent of somebody (checkpoint() guards the irreversible step after it).
THEOREM GatesAreInOrder == Spec => []Checkpoints!InOrder
<1>1. ASSUME TypeInv, Orderly, GateNeedsProceed,
             NEW g \in passed, NEW n \in 1..g[2]
      PROVE  <<g[1], n>> \in passed /\ "proceed" \in votes[<<g[1], n>>]
  <2>1. g \in GateIds /\ Reached(g)
    BY <1>1 DEF TypeInv, TypeOK, Orderly, KnownGates
  <2>2. PICK r \in Runs : g \in {r} \X (1..Gates[r])
    BY <2>1 DEF GateIds
  <2>3. PICK m \in 1..Gates[r] : g = <<r, m>>
    BY <2>2
  <2>4. g[1] = r /\ g[2] = m
    BY <2>3
  <2>5. n \in 1..Gates[r] /\ n <= m /\ n \in Nat /\ m \in Nat
    BY <2>4, RunAssumption
  <2>6. m <= gate[r] /\ gate[r] \in Nat
    BY <1>1, <2>1, <2>4 DEF Reached, TypeInv, TypeOK
  <2>7. <<r, n>> \in passed
    <3>1. CASE n = m
      BY <2>3, <3>1
    <3>2. CASE n # m
      <4>1. n < gate[r]
        BY <2>5, <2>6, <3>2
      <4>2. AtGate(r)
        BY <1>1 DEF Orderly
      <4> QED
        BY <2>5, <4>1, <4>2 DEF AtGate
    <3> QED
      BY <3>1, <3>2
  <2>8. "proceed" \in votes[<<r, n>>]
    BY <1>1, <2>7 DEF GateNeedsProceed
  <2> QED
    BY <2>4, <2>7, <2>8
<1>2. TypeInv /\ Orderly /\ GateNeedsProceed => Checkpoints!InOrder
  BY <1>1 DEF Checkpoints!InOrder
<1> QED
  BY <1>2, TypeInvAlways, OrderAlways, GatesNeedProceed, PTL
=============================================================================

--------------------------- MODULE PortalWatchProofs ---------------------------
(***************************************************************************)
(* Proofs about portal runs and their watches, for any runs and bounds:    *)
(* the types, that an operator's input meets a paused agent only, and that *)
(* the supervisor never delivers what was collected already.               *)
(***************************************************************************)
EXTENDS PortalWatch, TLAPS

-----------------------------------------------------------------------------
(* The browser service.                                                    *)

\* A pause that was asked for has its event cleared, so that the run really
\* waits; a run that waits has not been given up.
Pauses ==
  \A r \in Runs :
    /\ paused[r] => ~resume_evt[r]
    /\ InputOpen(r) => ~resume_evt[r]
    /\ pc[r] \in Suspended => ~unattended[r]
    /\ pc[r] \notin Suspended \cup {"work", "boundary"} => ~InputOpen(r)

\* A run is over with its manifest, which only a restart loses.
Results ==
  \A r \in Runs :
    /\ result[r] => pc[r] \in {"leaked", "over"}
    /\ pc[r] = "over" /\ kind[r] # "workflow" /\ restarts = 0 => result[r]

PortalInv == PortalTypeOK /\ Pauses /\ InputNeedsAPause /\ Results

\* What the watches rely on: a run does not come back.
Onward ==
  /\ kind' = kind
  /\ restarts' \in Nat /\ (restarts' = 0 => restarts = 0)
  /\ \A r \in Runs : /\ pc[r] = "over" => pc'[r] = "over"
                     /\ pc'[r] = "idle" => pc[r] = "idle"

LEMMA PortalTypes ==
  ASSUME PortalTypeOK
  PROVE  /\ kind \in [Runs -> Kinds] /\ status \in [Runs -> Statuses]
         /\ pc \in [Runs -> Working \cup {"idle", "accepted", "harvest", "leaked", "over"}]
         /\ paused \in [Runs -> BOOLEAN] /\ resume_evt \in [Runs -> BOOLEAN]
         /\ woken \in [Runs -> BOOLEAN] /\ unattended \in [Runs -> BOOLEAN]
         /\ result \in [Runs -> BOOLEAN]
         /\ steps \in [Runs -> 0..MaxSteps] /\ calls \in [Runs -> 0..MaxCalls]
         /\ restarts \in 0..MaxRestarts
         /\ MaxSteps \in Nat /\ MaxCalls \in Nat /\ MaxRestarts \in Nat
BY PortalAssumption DEF PortalTypeOK

\* What a run that is over leaves.
LEMMA Forgotten ==
  ASSUME PortalTypeOK, NEW over \in SUBSET Runs, Forget(over)
  PROVE  /\ pc' \in [Runs -> Working \cup {"idle", "accepted", "harvest", "leaked", "over"}]
         /\ paused' \in [Runs -> BOOLEAN] /\ resume_evt' \in [Runs -> BOOLEAN]
         /\ woken' \in [Runs -> BOOLEAN] /\ unattended' \in [Runs -> BOOLEAN]
         /\ steps' \in [Runs -> 0..MaxSteps] /\ calls' \in [Runs -> 0..MaxCalls]
         /\ \A r \in over : pc'[r] = "over" /\ ~paused'[r]
         /\ \A r \in Runs \ over : /\ pc'[r] = pc[r] /\ paused'[r] = paused[r]
                                  /\ resume_evt'[r] = resume_evt[r]
                                  /\ woken'[r] = woken[r]
                                  /\ unattended'[r] = unattended[r]
<1>1. pc' \in [Runs -> Working \cup {"idle", "accepted", "harvest", "leaked", "over"}]
  BY PortalTypes DEF Forget
<1>2. paused' \in [Runs -> BOOLEAN] /\ resume_evt' \in [Runs -> BOOLEAN]
  BY PortalTypes, Zenon DEF Forget
<1>3. woken' \in [Runs -> BOOLEAN] /\ unattended' \in [Runs -> BOOLEAN]
  BY PortalTypes, Zenon DEF Forget
<1>4. steps' \in [Runs -> 0..MaxSteps] /\ calls' \in [Runs -> 0..MaxCalls]
  BY PortalTypes DEF Forget
<1>5. \A r \in over : pc'[r] = "over" /\ ~paused'[r]
  BY PortalTypes DEF Forget
<1>6. \A r \in Runs \ over : /\ pc'[r] = pc[r] /\ paused'[r] = paused[r]
                            /\ resume_evt'[r] = resume_evt[r]
                            /\ woken'[r] = woken[r] /\ unattended'[r] = unattended[r]
  BY PortalTypes DEF Forget
<1> QED
  BY <1>1, <1>2, <1>3, <1>4, <1>5, <1>6

\* A run that starts and sets up has no pause yet.
LEMMA StartStep ==
  ASSUME PortalInv, NEW r \in Runs, PortalStart(r) \/ Register(r) \/ SetUp(r)
  PROVE  PortalInv' /\ Onward
<1>1. CASE PortalStart(r)
  <2>1. PortalTypeOK'
    BY <1>1, PortalTypes DEF PortalTypeOK, PortalInv, PortalStart, Goes
  <2> QED
    BY <1>1, <2>1, PortalTypes DEF PortalInv, Pauses, InputNeedsAPause, InputOpen, Results,
       Onward, PortalStart, Goes, At, Suspended
<1>2. CASE Register(r)
  <2>1. PortalTypeOK'
    BY <1>2, PortalTypes DEF PortalTypeOK, PortalInv, Register, Goes, Working
  <2> QED
    BY <1>2, <2>1, PortalTypes DEF PortalInv, Pauses, InputNeedsAPause, InputOpen, Results,
       Onward, Register, Goes, At, Suspended
<1>3. CASE SetUp(r)
  <2>1. result' \in [Runs -> BOOLEAN]
    BY <1>3, PortalTypes, Zenon DEF SetUp, PortalInv
  <2>2. PortalTypeOK'
    BY <1>3, <2>1, PortalTypes DEF PortalTypeOK, PortalInv, SetUp, Goes, Becomes, Working, Statuses
  <2> QED
    BY <1>3, <2>2, PortalTypes DEF PortalInv, Pauses, InputNeedsAPause, InputOpen, Results,
       Onward, SetUp, Goes, Becomes, At, Suspended
<1> QED
  BY <1>1, <1>2, <1>3

\* A run that works, waits and goes on.
LEMMA WorkStep ==
  ASSUME PortalInv, NEW r \in Runs,
         Park(r) \/ Step(r) \/ StepDone(r) \/ AskHuman(r) \/ GoOn(r) \/ NobodyCame(r)
  PROVE  PortalInv' /\ Onward
<1> USE DEF PortalInv, Pauses, InputNeedsAPause, InputOpen, Results, Onward, Goes, Becomes,
            At, Waits, Suspended
<1>1. CASE Park(r)
  <2>1. PortalTypeOK'
    BY <1>1, PortalTypes DEF PortalTypeOK, Park, Working, Statuses
  <2> QED
    BY <1>1, <2>1, PortalTypes DEF Park
<1>2. CASE Step(r)
  <2>1. PortalTypeOK'
    BY <1>2, PortalTypes DEF PortalTypeOK, Step, Working
  <2> QED
    BY <1>2, <2>1, PortalTypes DEF Step
<1>3. CASE StepDone(r)
  <2>1. PortalTypeOK'
    BY <1>3, PortalTypes DEF PortalTypeOK, StepDone, Working
  <2> QED
    BY <1>3, <2>1, PortalTypes DEF StepDone
<1>4. CASE AskHuman(r)
  <2>3. resume_evt' \in [Runs -> BOOLEAN]
    <3>1. resume_evt' = resume_evt \/ resume_evt' = [resume_evt EXCEPT ![r] = FALSE]
      BY <1>4 DEF AskHuman
    <3> QED
      BY <3>1, PortalTypes, Zenon
  <2>1. woken' \in [Runs -> BOOLEAN] /\ unattended' \in [Runs -> BOOLEAN]
        /\ resume_evt' \in [Runs -> BOOLEAN]
    <3>0. resume_evt[r] \in BOOLEAN
      BY PortalTypes
    <3>1. PICK b \in BOOLEAN : woken' = [woken EXCEPT ![r] = b]
      BY <1>4, <3>0 DEF AskHuman
    <3>2. unattended' = [unattended EXCEPT ![r] = FALSE]
      BY <1>4, Zenon DEF AskHuman
    <3> QED
      BY <2>3, <3>1, <3>2, PortalTypes, Zenon
  <2>2. PortalTypeOK'
    BY <1>4, <2>1, PortalTypes DEF PortalTypeOK, AskHuman, Working, Statuses
  <2> QED
    BY <1>4, <2>2, PortalTypes DEF AskHuman
<1>5. CASE GoOn(r)
  <2>1. PortalTypeOK'
    BY <1>5, PortalTypes DEF PortalTypeOK, GoOn, Working
  <2> QED
    BY <1>5, <2>1, PortalTypes DEF GoOn
<1>6. CASE NobodyCame(r)
  <2>1. PortalTypeOK'
    BY <1>6, PortalTypes DEF PortalTypeOK, NobodyCame, Working, Statuses
  <2> QED
    BY <1>6, <2>1, PortalTypes DEF NobodyCame
<1> QED
  BY <1>1, <1>2, <1>3, <1>4, <1>5, <1>6

\* A run that ends, and a restart, which ends all of them.
LEMMA EndStep ==
  ASSUME PortalInv, NEW r \in Runs, Finish(r) \/ CloseSession(r) \/ Harvest(r)
  PROVE  PortalInv' /\ Onward
<1> USE DEF PortalInv, Pauses, InputNeedsAPause, InputOpen, Results, Onward, Goes, Becomes,
            At, Suspended
<1>1. CASE Finish(r)
  <2>1. PortalTypeOK'
    BY <1>1, PortalTypes DEF PortalTypeOK, Finish, Working, Statuses
  <2> QED
    BY <1>1, <2>1, PortalTypes DEF Finish
<1>2. CASE CloseSession(r)
  <2>1. PortalTypeOK'
    BY <1>2, PortalTypes DEF PortalTypeOK, CloseSession
  <2> QED
    BY <1>2, <2>1, PortalTypes DEF CloseSession
<1>3. CASE Harvest(r)
  <2>1. Forget({r}) /\ result' \in [Runs -> BOOLEAN]
    BY <1>3, PortalTypes, Zenon DEF Harvest
  <2>2. PortalTypeOK'
    BY <1>3, <2>1, Forgotten, PortalTypes DEF Harvest, PortalTypeOK
  <2>3. result'[r] <=> kind[r] # "workflow"
    BY <1>3, PortalTypes DEF Harvest
  <2> QED
    BY <1>3, <2>1, <2>2, <2>3, Forgotten, PortalTypes DEF Harvest
<1> QED
  BY <1>1, <1>2, <1>3

LEMMA RestartStep ==
  ASSUME PortalInv, RestartBrowser
  PROVE  PortalInv' /\ Onward /\ restarts' > 0
<1>0. Forget({r \in Runs : ~At(r, "idle")})
  BY DEF RestartBrowser
<1>1. PortalTypeOK'
  BY <1>0, Forgotten, PortalTypes DEF PortalTypeOK, PortalInv, RestartBrowser, At, Statuses
<1>2. restarts' > 0 /\ restarts' \in Nat
  BY PortalTypes DEF PortalInv, RestartBrowser
<1> QED
  BY <1>0, <1>1, <1>2, Forgotten, PortalTypes DEF PortalInv, Pauses, InputNeedsAPause, InputOpen,
     Results, Onward, RestartBrowser, At, Suspended

\* An operator clears the event when asking, and lets the run go on when
\* handing back.
LEMMA OperatorStep ==
  ASSUME PortalInv, NEW r \in Runs, Takeover(r) \/ Resume(r)
  PROVE  PortalInv' /\ Onward
<1> USE DEF PortalInv, Pauses, InputNeedsAPause, InputOpen, Results, Onward, Calls, Suspended
<1>1. CASE Takeover(r)
  <2>1. PortalTypeOK'
    BY <1>1, PortalTypes DEF PortalTypeOK, Takeover
  <2> QED
    BY <1>1, <2>1, PortalTypes DEF Takeover
<1>2. CASE Resume(r)
  <2>1. PortalTypeOK'
    BY <1>2, PortalTypes DEF PortalTypeOK, Resume, Statuses
  <2> QED
    BY <1>2, <2>1, PortalTypes DEF Resume
<1> QED
  BY <1>1, <1>2

LEMMA BrowserStep ==
  ASSUME PortalInv, NEW r \in Runs, Browser(r) \/ PortalStart(r)
  PROVE  PortalInv' /\ Onward
BY StartStep, WorkStep, EndStep, OperatorStep DEF Browser, RunSteps

LEMMA PortalUnchanged ==
  ASSUME PortalInv, UNCHANGED portalVars
  PROVE  PortalInv' /\ Onward
BY PortalTypes DEF PortalInv, PortalTypeOK, Pauses, InputNeedsAPause, InputOpen, Results, Onward,
   portalVars

-----------------------------------------------------------------------------
(* The agent service. What holds is said for one run at a time, so that a  *)
(* step of one run is looked at for that run only (OneRun).                *)

\* A count is below its limit where it may still go up.
CountsOf(r) ==
  /\ watch[r] = "active" \/ seen[r] # "nothing" => strikes[r] < GoneStrikes
  /\ turn[r] \in {"poll", "pause"} => misses[r] < GoneStrikes
  /\ pc[r] = "idle" => misses[r] = 0

\* Only the run of a turn is polled, and only a run that is over is known,
\* as long as the browser service does not lose it.
OverFirst(r) ==
  /\ turn[r] # "none" => kind[r] = "chat"
  /\ turn[r] \notin {"none", "open"} => pc[r] # "idle"
  /\ restarts = 0 /\ (turn[r] = "saw_done" \/ seen[r] = "done" \/ finishing[r] # "no" \/ told[r])
       => pc[r] = "over"

Undisturbed(r) == chat[r] /\ ~impatient[r] /\ faults = 0 /\ restarts = 0

\* Whatever still leads to a delivery stands for an outcome nobody has: a
\* live watch, an unstamped delivery, a tool about to arm a watch. A wake-up
\* has the conversation for itself.
Fresh(r) == Undisturbed(r) =>
  /\ turn[r] \in {"pause", "saw_pause"} => ~told[r]
  /\ watch[r] = "active" => ~told[r]
  /\ watch[r] = "finishing" /\ ~collected[r] => ~told[r]
  /\ finishing[r] = "waking" => ~told[r] /\ turn[r] = "none"
  /\ finishing[r] # "filing"
  /\ ~twice[r]

Good(r) == CountsOf(r) /\ OverFirst(r) /\ Fresh(r)

WatchInv == PortalInv /\ TypeOK /\ \A r \in Runs : Good(r)

\* The types one by one, and the bounds as numbers.
Typed ==
  /\ turn \in [Runs -> {"none", "open", "poll", "pause", "done", "saw_pause", "saw_done"}]
  /\ misses \in [Runs -> 0..GoneStrikes] /\ strikes \in [Runs -> 0..GoneStrikes]
  /\ watch \in [Runs -> {"none", "active", "finishing", "done", "disarmed", "expired", "gone"}]
  /\ seen \in [Runs -> {"nothing", "needs_human", "running", "done", "no such run", "error"}]
  /\ finishing \in [Runs -> {"no", "waiting", "waking", "filing"}]
  /\ chat \in [Runs -> BOOLEAN] /\ old \in [Runs -> BOOLEAN]
  /\ collected \in [Runs -> BOOLEAN] /\ told \in [Runs -> BOOLEAN]
  /\ twice \in [Runs -> BOOLEAN] /\ impatient \in [Runs -> BOOLEAN]
  /\ dropped \in [Runs -> BOOLEAN] /\ turns \in [Runs -> 0..MaxTurns]
  /\ crashes \in 0..MaxCrashes /\ faults \in 0..MaxFaults

LEMMA WatchTypes ==
  /\ TypeOK => Typed /\ PortalTypeOK
  /\ Typed' /\ PortalTypeOK' => TypeOK'
BY DEF TypeOK, Typed

\* The counts, without the rest.
LEMMA Numbers ==
  ASSUME Typed, NEW r \in Runs
  PROVE  /\ misses[r] \in 0..GoneStrikes /\ strikes[r] \in 0..GoneStrikes
         /\ turns[r] \in 0..MaxTurns
BY DEF Typed

LEMMA Bounds ==
  /\ MaxTurns \in Nat /\ MaxCrashes \in Nat /\ MaxFaults \in Nat
  /\ GoneStrikes \in Nat /\ GoneStrikes > 0
BY WatchAssumption

LEMMA Counters ==
  ASSUME Typed
  PROVE  /\ faults \in Nat /\ faults \in 0..MaxFaults /\ crashes \in 0..MaxCrashes
         /\ Fault => faults' \in 0..MaxFaults /\ faults' # 0
<1>1. faults \in 0..MaxFaults /\ crashes \in 0..MaxCrashes
  BY DEF Typed
<1> QED
  BY <1>1, Bounds DEF Fault

\* What the browser service answers for a run.
LEMMA Answers ==
  ASSUME PortalInv, NEW r \in Runs
  PROVE  /\ Answer(r) \in {"needs_human", "running", "done", "no such run"}
         /\ Answer(r) = "done" => pc[r] = "over"
         /\ Answer(r) \in {"needs_human", "running"} => pc[r] # "over"
         /\ Answer(r) = "no such run" /\ kind[r] = "chat" /\ restarts = 0
              => pc[r] \in {"idle", "accepted"}
<1>1. CASE Registered(r)
  <2>1. Answer(r) \in {"needs_human", "running"}
    BY <1>1 DEF Answer
  <2> QED
    BY <1>1, <2>1 DEF Registered, Working, Suspended
<1>2. CASE ~Registered(r) /\ result[r]
  <2>1. Answer(r) = "done"
    BY <1>2 DEF Answer
  <2> QED
    BY <1>2, <2>1 DEF Registered, PortalInv, Results
<1>3. CASE ~Registered(r) /\ ~result[r]
  <2>1. Answer(r) = "no such run"
    BY <1>3 DEF Answer
  <2> QED
    BY <1>3, <2>1, PortalTypes DEF Registered, PortalInv, Results
<1> QED
  BY <1>1, <1>2, <1>3

\* What a step of another run leaves of this one.
Kept(n) ==
  /\ turn'[n] = turn[n] /\ misses'[n] = misses[n] /\ watch'[n] = watch[n]
  /\ strikes'[n] = strikes[n] /\ seen'[n] = seen[n] /\ finishing'[n] = finishing[n]
  /\ collected'[n] = collected[n] /\ told'[n] = told[n] /\ twice'[n] = twice[n]
  /\ chat'[n] = chat[n] /\ impatient'[n] = impatient[n]

LEMMA OneRun ==
  ASSUME WatchInv, NEW r \in Runs, UNCHANGED portalVars, Typed',
         \A n \in Runs \ {r} : Kept(n), faults' = 0 => faults = 0, Good(r)'
  PROVE  WatchInv'
<1>1. PortalInv'
  BY PortalUnchanged DEF WatchInv
<1>2. TypeOK'
  BY <1>1, WatchTypes DEF PortalInv
<1>3. ASSUME NEW n \in Runs \ {r} PROVE Good(n)'
  <2>1. Kept(n) /\ Good(n) /\ UNCHANGED <<pc, kind, restarts>>
    BY DEF WatchInv, portalVars
  <2>2. CountsOf(n)'
    BY <2>1 DEF Kept, Good, CountsOf
  <2>3. OverFirst(n)'
    BY <2>1 DEF Kept, Good, OverFirst
  <2>4. Fresh(n)'
    BY <2>1 DEF Kept, Good, Fresh, Undisturbed
  <2> QED
    BY <2>2, <2>3, <2>4 DEF Good
<1> QED
  BY <1>1, <1>2, <1>3 DEF WatchInv

\* The browser service moves on, and leaves the agent service alone.
LEMMA OnwardStep ==
  ASSUME WatchInv, PortalInv', Onward, UNCHANGED watchVars
  PROVE  WatchInv'
<1>1. TypeOK'
  BY DEF WatchInv, TypeOK, PortalInv, watchVars
<1>2. ASSUME NEW n \in Runs PROVE Good(n)'
  <2>1. Good(n) /\ kind'[n] = kind[n] /\ (restarts' = 0 => restarts = 0)
        /\ (pc[n] = "over" => pc'[n] = "over") /\ (pc'[n] = "idle" => pc[n] = "idle")
    BY DEF WatchInv, Onward
  <2> QED
    BY <2>1 DEF Good, CountsOf, OverFirst, Fresh, Undisturbed, watchVars
<1> QED
  BY <1>1, <1>2 DEF WatchInv

\* A turn begins, ends, starts a run or looks at one.
LEMMA TurnStep ==
  ASSUME WatchInv, NEW r \in Runs, BeginTurn(r) \/ EndTurn(r) \/ Fetch(r) \/ Check(r)
  PROVE  WatchInv'
<1>0. Typed /\ Good(r) /\ PortalInv
  BY WatchTypes DEF WatchInv
<1>1. CASE BeginTurn(r)
  <2>1. impatient' \in [Runs -> BOOLEAN]
    BY <1>0, <1>1, Zenon DEF Typed, BeginTurn
  <2>2. turns[r] + 1 \in 0..MaxTurns
    BY <1>0, <1>1, Numbers, Bounds DEF BeginTurn
  <2>3. Typed'
    BY <1>0, <1>1, <2>1, <2>2 DEF Typed, BeginTurn, Turn
  <2>4. \A n \in Runs \ {r} : Kept(n)
    BY <1>0, <1>1 DEF Kept, BeginTurn, Turn, Typed
  <2>5. /\ turn'[r] = "open" /\ kind[r] = "chat" /\ turn[r] = "none"
        /\ impatient[r] => impatient'[r]
        /\ finishing[r] = "waking" => impatient'[r]
    BY <1>0, <1>1 DEF Typed, BeginTurn, Turn
  <2>6. Good(r)'
    BY <1>0, <1>1, <2>5 DEF Good, CountsOf, OverFirst, Fresh, Undisturbed, BeginTurn, portalVars
  <2>7. UNCHANGED portalVars /\ faults' = faults
    BY <1>1 DEF BeginTurn
  <2> QED
    BY <2>3, <2>4, <2>6, <2>7, OneRun
<1>2. CASE EndTurn(r)
  <2>1. turn[r] = "open" /\ turn' = [turn EXCEPT ![r] = "none"]
        /\ UNCHANGED <<portalVars, chat, misses, watch, strikes, old, collected, seen, finishing,
                       told, twice, impatient, dropped, turns, crashes, faults>>
    BY <1>2 DEF EndTurn, Turn
  <2>2. turn'[r] = "none" /\ \A n \in Runs \ {r} : turn'[n] = turn[n]
    BY <1>0, <2>1 DEF Typed
  <2>3. Typed'
    BY <1>0, <2>1 DEF Typed
  <2>4. Good(r)'
    BY <1>0, <2>1, <2>2 DEF Good, CountsOf, OverFirst, Fresh, Undisturbed, portalVars
  <2>5. \A n \in Runs \ {r} : Kept(n)
    BY <2>1, <2>2 DEF Kept
  <2> QED
    BY <2>1, <2>3, <2>4, <2>5, OneRun
<1>3. CASE Fetch(r)
  <2>1. PortalInv' /\ Onward
    BY <1>3, BrowserStep DEF WatchInv, Fetch
  <2>2. turn' = [turn EXCEPT ![r] = "poll"]
        /\ UNCHANGED <<chat, misses, watch, strikes, old, collected, seen, finishing,
                       told, twice, impatient, dropped, turns, crashes, faults>>
    BY <1>3 DEF Fetch, Turn
  <2>3. TypeOK'
    BY <1>0, <2>1, <2>2, WatchTypes DEF PortalInv, Typed
  <2>4. pc[r] = "idle" /\ pc'[r] = "accepted" /\ kind[r] = "chat" /\ turn[r] = "open"
    BY <1>3, PortalTypes DEF Fetch, PortalStart, At, Goes, WatchInv, PortalInv
  <2>5. turn'[r] = "poll" /\ \A n \in Runs \ {r} : turn'[n] = turn[n]
    BY <1>0, <2>2 DEF Typed
  <2>6. ASSUME NEW n \in Runs PROVE Good(n)'
    <3>1. Good(n) /\ kind'[n] = kind[n] /\ (restarts' = 0 => restarts = 0)
          /\ (pc[n] = "over" => pc'[n] = "over") /\ (pc'[n] = "idle" => pc[n] = "idle")
      BY <2>1 DEF WatchInv, Onward
    <3>2. CASE n # r
      BY <2>2, <2>5, <3>1, <3>2 DEF Good, CountsOf, OverFirst, Fresh, Undisturbed
    <3>3. CASE n = r
      <4>1. misses[r] = 0 /\ misses'[r] = 0
        BY <1>0, <2>2, <2>4 DEF Good, CountsOf
      <4>2. restarts' = 0 => ~told[r]
        BY <2>4, <3>1, <3>3 DEF Good, OverFirst
      <4>3. CountsOf(r)'
        BY <2>2, <2>4, <3>1, <3>3, <4>1, Bounds DEF Good, CountsOf
      <4>4. OverFirst(r)'
        BY <2>2, <2>4, <2>5, <3>1, <3>3 DEF Good, OverFirst
      <4>5. Fresh(r)'
        BY <2>2, <2>4, <2>5, <3>1, <3>3, <4>2 DEF Good, Fresh, Undisturbed
      <4> QED
        BY <3>3, <4>3, <4>4, <4>5 DEF Good
    <3> QED
      BY <3>2, <3>3
  <2> QED
    BY <2>1, <2>3, <2>6 DEF WatchInv
<1>4. CASE Check(r)
  <2>1. turns[r] + 1 \in 0..MaxTurns /\ 0 \in 0..GoneStrikes
    BY <1>0, <1>4, Numbers, Bounds DEF Check
  <2>2. Typed'
    BY <1>0, <1>4, <2>1 DEF Typed, Check, Turn
  <2>3. turn'[r] = "poll" /\ misses'[r] = 0 /\ turn[r] = "open" /\ pc[r] # "idle"
        /\ \A n \in Runs \ {r} : turn'[n] = turn[n] /\ misses'[n] = misses[n]
    BY <1>0, <1>4 DEF Typed, Check, Turn, At
  <2>4. UNCHANGED <<portalVars, chat, watch, strikes, old, collected, seen, finishing, told, twice,
                    impatient, dropped, crashes, faults>>
    BY <1>4 DEF Check
  <2>5. Good(r)'
    BY <1>0, <2>3, <2>4, Bounds DEF Good, CountsOf, OverFirst, Fresh, Undisturbed, portalVars
  <2>6. \A n \in Runs \ {r} : Kept(n)
    BY <2>3, <2>4 DEF Kept
  <2> QED
    BY <2>2, <2>4, <2>5, <2>6, OneRun
<1> QED
  BY <1>1, <1>2, <1>3, <1>4

\* Collecting ends an active watch and stamps the others.
LEMMA Disarmed ==
  ASSUME Typed, NEW r \in Runs, Disarm(r)
  PROVE  /\ watch' \in [Runs -> {"none", "active", "finishing", "done", "disarmed", "expired", "gone"}]
         /\ collected' \in [Runs -> BOOLEAN]
         /\ \A n \in Runs \ {r} : watch'[n] = watch[n] /\ collected'[n] = collected[n]
         /\ watch'[r] # "active" /\ (watch'[r] = "finishing" => collected'[r])
<1>1. collected' \in [Runs -> BOOLEAN]
  BY Zenon DEF Typed, Disarm
<1> QED
  BY <1>1 DEF Typed, Disarm

\* The tool is told, or gives the run up.
LEMMA ToolIsTold ==
  ASSUME WatchInv, NEW r \in Runs, UNCHANGED portalVars, turn[r] # "none",
         restarts = 0 => pc[r] = "over",
         turn' = [turn EXCEPT ![r] = "open"], Disarm(r), told' = [told EXCEPT ![r] = TRUE],
         misses' \in [Runs -> 0..GoneStrikes], \A n \in Runs \ {r} : misses'[n] = misses[n],
         pc[r] = "idle" => misses'[r] = 0,
         UNCHANGED <<chat, strikes, old, seen, finishing, twice, impatient, dropped, turns,
                     crashes, faults>>
  PROVE  WatchInv'
<1>0. Typed /\ Good(r)
  BY WatchTypes DEF WatchInv
<1>1. Typed'
  BY <1>0, Disarmed DEF Typed
<1>2. /\ turn'[r] = "open" /\ told'[r]
      /\ \A n \in Runs \ {r} : turn'[n] = turn[n] /\ told'[n] = told[n]
  BY <1>0 DEF Typed
<1>3. \A n \in Runs \ {r} : Kept(n)
  BY <1>0, <1>2, Disarmed DEF Kept
<1>4. UNCHANGED <<pc, kind, restarts>> /\ watch'[r] # "active"
      /\ (watch'[r] = "finishing" => collected'[r])
  BY <1>0, Disarmed DEF portalVars
<1>5. CountsOf(r)' /\ OverFirst(r)'
  BY <1>0, <1>2, <1>4 DEF Good, CountsOf, OverFirst
<1>6. Fresh(r)'
  BY <1>0, <1>2, <1>4 DEF Good, Fresh, Undisturbed
<1> QED
  BY <1>1, <1>3, <1>5, <1>6, OneRun DEF Good

\* The tool polls. A run that nobody lost is never given up: the answer that
\* there is no such run comes before it is registered only.
LEMMA PollStep ==
  ASSUME WatchInv, NEW r \in Runs, Poll(r)
  PROVE  WatchInv'
<1>0. Typed /\ Good(r) /\ PortalInv
  BY WatchTypes DEF WatchInv
<1>1. /\ turn[r] = "poll" /\ pc[r] # "idle" /\ kind[r] = "chat" /\ misses[r] < GoneStrikes
      /\ misses[r] \in 0..GoneStrikes
      /\ UNCHANGED <<portalVars, chat, strikes, old, seen, finishing, twice, impatient, dropped,
                     turns, crashes>>
  BY <1>0, Numbers DEF Poll, Good, OverFirst, CountsOf
<1>2. CASE Answer(r) = "done"
  <2>1. UNCHANGED <<misses, watch, collected, told, faults>>
        /\ turn' = [turn EXCEPT ![r] = "saw_done"] /\ pc[r] = "over"
    BY <1>0, <1>2, Answers DEF Poll, Turn
  <2>2. turn'[r] = "saw_done" /\ \A n \in Runs \ {r} : turn'[n] = turn[n]
    BY <1>0, <2>1 DEF Typed
  <2>3. Typed'
    BY <1>0, <1>1, <2>1 DEF Typed
  <2>4. Good(r)'
    BY <1>0, <1>1, <2>1, <2>2 DEF Good, CountsOf, OverFirst, Fresh, Undisturbed, portalVars
  <2>5. \A n \in Runs \ {r} : Kept(n)
    BY <1>1, <2>1, <2>2 DEF Kept
  <2> QED
    BY <1>1, <2>1, <2>3, <2>4, <2>5, OneRun
<1>3. CASE Answer(r) \in {"needs_human", "running"}
  <2>1. PICK place \in {"pause", "saw_pause"} : turn' = [turn EXCEPT ![r] = place]
    BY <1>3 DEF Poll, Turn
  <2>2. UNCHANGED <<watch, collected, told, faults>> /\ misses' = [misses EXCEPT ![r] = 0]
    BY <1>3 DEF Poll
  <2>3. 0 \in 0..GoneStrikes
    BY Bounds
  <2>4. Typed'
    BY <1>0, <1>1, <2>1, <2>2, <2>3 DEF Typed
  <2>5. turn'[r] = place /\ misses'[r] = 0
        /\ \A n \in Runs \ {r} : turn'[n] = turn[n] /\ misses'[n] = misses[n]
    BY <1>0, <2>1, <2>2 DEF Typed
  <2>6. restarts = 0 => ~told[r]
    BY <1>0, <1>3, Answers DEF Good, OverFirst
  <2>7. CountsOf(r)' /\ OverFirst(r)'
    BY <1>0, <1>1, <2>2, <2>5, Bounds DEF Good, CountsOf, OverFirst, portalVars
  <2>8. Fresh(r)'
    BY <1>0, <1>1, <2>2, <2>5, <2>6 DEF Good, Fresh, Undisturbed, portalVars
  <2>9. \A n \in Runs \ {r} : Kept(n)
    BY <1>1, <2>2, <2>5 DEF Kept
  <2> QED
    BY <1>1, <2>2, <2>4, <2>7, <2>8, <2>9, OneRun DEF Good
<1>4. CASE Answer(r) = "no such run"
  <2>1. /\ misses' = [misses EXCEPT ![r] = IF At(r, "accepted") THEN @ ELSE @ + 1]
        /\ faults' = faults
        /\ \/ /\ misses'[r] < GoneStrikes
              /\ turn' = [turn EXCEPT ![r] = "pause"]
              /\ UNCHANGED <<watch, collected, told>>
           \/ /\ ~(misses'[r] < GoneStrikes)
              /\ turn' = [turn EXCEPT ![r] = "open"]
              /\ Disarm(r)
              /\ told' = [told EXCEPT ![r] = TRUE]
    BY <1>4 DEF Poll, Turn
  <2>2. /\ misses'[r] = IF At(r, "accepted") THEN misses[r] ELSE misses[r] + 1
        /\ \A n \in Runs \ {r} : misses'[n] = misses[n]
    BY <1>0, <2>1 DEF Typed
  <2>3. misses'[r] \in 0..GoneStrikes /\ (At(r, "accepted") => misses'[r] < GoneStrikes)
    BY <1>1, <2>2, Bounds
  <2>4. misses' \in [Runs -> 0..GoneStrikes]
    BY <1>0, <2>1, <2>3 DEF Typed
  <2>5. restarts = 0 => misses'[r] < GoneStrikes /\ ~told[r]
    BY <1>0, <1>1, <1>4, <2>3, Answers DEF Good, OverFirst, At
  <2>6. CASE misses'[r] < GoneStrikes
    <3>1. turn' = [turn EXCEPT ![r] = "pause"] /\ UNCHANGED <<watch, collected, told, faults>>
      BY <2>1, <2>6
    <3>2. turn'[r] = "pause" /\ \A n \in Runs \ {r} : turn'[n] = turn[n]
      BY <1>0, <3>1 DEF Typed
    <3>3. Typed'
      BY <1>0, <1>1, <2>4, <3>1 DEF Typed
    <3>4. CountsOf(r)' /\ OverFirst(r)'
      BY <1>0, <1>1, <2>6, <3>1, <3>2 DEF Good, CountsOf, OverFirst, portalVars
    <3>5. Fresh(r)'
      BY <1>0, <1>1, <2>5, <3>1, <3>2 DEF Good, Fresh, Undisturbed, portalVars
    <3>6. \A n \in Runs \ {r} : Kept(n)
      BY <1>1, <2>2, <3>1, <3>2 DEF Kept
    <3> QED
      BY <1>1, <3>1, <3>3, <3>4, <3>5, <3>6, OneRun DEF Good
  <2>7. CASE ~(misses'[r] < GoneStrikes)
    <3>1. /\ turn' = [turn EXCEPT ![r] = "open"] /\ Disarm(r) /\ told' = [told EXCEPT ![r] = TRUE]
          /\ faults' = faults
      BY <2>1, <2>7
    <3>2. restarts # 0
      BY <2>5, <2>7
    <3> QED
      BY <1>1, <2>2, <2>4, <3>1, <3>2, ToolIsTold
  <2> QED
    BY <2>6, <2>7
<1> QED
  BY <1>0, <1>2, <1>3, <1>4, Answers

\* A failing poll, a poll to come, a result collected, a watch armed.
LEMMA ToolStep ==
  ASSUME WatchInv, NEW r \in Runs, PollFails(r) \/ PollAgain(r) \/ Collect(r) \/ Arm(r)
  PROVE  WatchInv'
<1>0. Typed /\ Good(r) /\ PortalInv /\ 0 \in 0..GoneStrikes
  BY WatchTypes, Bounds DEF WatchInv
<1>1. CASE PollFails(r)
  <2>1. faults' \in 0..MaxFaults /\ faults' # 0
    BY <1>0, <1>1, Counters DEF PollFails
  <2>2. Typed'
    BY <1>0, <1>1, <2>1 DEF Typed, PollFails, Turn
  <2>3. turn[r] = "poll" /\ turn'[r] = "pause" /\ misses'[r] = 0
        /\ \A n \in Runs \ {r} : turn'[n] = turn[n] /\ misses'[n] = misses[n]
    BY <1>0, <1>1 DEF Typed, PollFails, Turn
  <2>4. UNCHANGED <<portalVars, chat, watch, strikes, collected, seen, finishing, told, twice,
                    impatient>>
    BY <1>1 DEF PollFails
  <2>5. Good(r)'
    BY <1>0, <2>1, <2>3, <2>4, Bounds DEF Good, CountsOf, OverFirst, Fresh, Undisturbed, portalVars
  <2>6. \A n \in Runs \ {r} : Kept(n)
    BY <2>3, <2>4 DEF Kept
  <2> QED
    BY <2>1, <2>2, <2>4, <2>5, <2>6, OneRun
<1>2. CASE PollAgain(r)
  <2>1. turn[r] = "pause" /\ turn' = [turn EXCEPT ![r] = "poll"]
        /\ UNCHANGED <<portalVars, chat, misses, watch, strikes, old, collected, seen, finishing,
                       told, twice, impatient, dropped, turns, crashes, faults>>
    BY <1>2 DEF PollAgain, Turn
  <2>2. turn'[r] = "poll" /\ \A n \in Runs \ {r} : turn'[n] = turn[n]
    BY <1>0, <2>1 DEF Typed
  <2>3. Typed'
    BY <1>0, <2>1 DEF Typed
  <2>4. Good(r)'
    BY <1>0, <2>1, <2>2 DEF Good, CountsOf, OverFirst, Fresh, Undisturbed, portalVars
  <2>5. \A n \in Runs \ {r} : Kept(n)
    BY <2>1, <2>2 DEF Kept
  <2> QED
    BY <2>1, <2>3, <2>4, <2>5, OneRun
<1>3. CASE Collect(r)
  <2>1. Disarm(r) /\ turn[r] = "saw_done" /\ turn' = [turn EXCEPT ![r] = "open"]
        /\ told' = [told EXCEPT ![r] = TRUE]
        /\ UNCHANGED <<portalVars, chat, misses, strikes, old, seen, finishing, twice, impatient,
                       dropped, turns, crashes, faults>>
    BY <1>3 DEF Collect, Turn
  <2>2. (restarts = 0 => pc[r] = "over") /\ pc[r] # "idle" /\ misses' \in [Runs -> 0..GoneStrikes]
    BY <1>0, <2>1 DEF Good, OverFirst, Typed
  <2> QED
    BY <2>1, <2>2, ToolIsTold
<1>4. CASE Arm(r)
  <2>1. turn[r] \in {"saw_pause", "pause"} /\ turn' = [turn EXCEPT ![r] = "open"]
        /\ UNCHANGED <<portalVars, chat, misses, seen, finishing, told, twice, impatient, dropped,
                       turns, crashes, faults>>
    BY <1>4 DEF Arm, Turn
  <2>2. turn'[r] = "open" /\ \A n \in Runs \ {r} : turn'[n] = turn[n]
    BY <1>0, <2>1 DEF Typed
  <2>3. CASE watch[r] \in {"active", "finishing"}
    <3>1. UNCHANGED <<watch, strikes, old, collected>>
      BY <1>4, <2>3 DEF Arm
    <3>2. Typed'
      BY <1>0, <2>1, <3>1 DEF Typed
    <3>3. Good(r)'
      BY <1>0, <2>1, <2>2, <3>1 DEF Good, CountsOf, OverFirst, Fresh, Undisturbed, portalVars
    <3>4. \A n \in Runs \ {r} : Kept(n)
      BY <2>1, <2>2, <3>1 DEF Kept
    <3> QED
      BY <2>1, <3>2, <3>3, <3>4, OneRun
  <2>4. CASE watch[r] \notin {"active", "finishing"}
    <3>1. /\ watch' = [watch EXCEPT ![r] = "active"] /\ strikes' = [strikes EXCEPT ![r] = 0]
          /\ old' = [old EXCEPT ![r] = FALSE] /\ collected' = [collected EXCEPT ![r] = FALSE]
      BY <1>4, <2>4 DEF Arm, Row
    <3>2. Typed'
      BY <1>0, <2>1, <3>1 DEF Typed
    <3>3. watch'[r] = "active" /\ strikes'[r] = 0 /\ ~collected'[r]
          /\ \A n \in Runs \ {r} : /\ watch'[n] = watch[n] /\ strikes'[n] = strikes[n]
                                  /\ collected'[n] = collected[n]
      BY <1>0, <3>1 DEF Typed
    <3>4. CountsOf(r)' /\ OverFirst(r)'
      BY <1>0, <2>1, <2>2, <3>3, Bounds DEF Good, CountsOf, OverFirst, portalVars
    <3>5. Fresh(r)'
      BY <1>0, <2>1, <2>2, <3>3 DEF Good, Fresh, Undisturbed, portalVars
    <3>6. \A n \in Runs \ {r} : Kept(n)
      BY <2>1, <2>2, <3>3 DEF Kept
    <3> QED
      BY <2>1, <3>2, <3>4, <3>5, <3>6, OneRun DEF Good
  <2> QED
    BY <2>3, <2>4
<1> QED
  BY <1>1, <1>2, <1>3, <1>4

\* The supervisor looks and acts.
LEMMA SupervisorStep ==
  ASSUME WatchInv, NEW r \in Runs, Look(r) \/ Act(r) \/ Age(r)
  PROVE  WatchInv'
<1>0. Typed /\ Good(r) /\ PortalInv
  BY WatchTypes DEF WatchInv
<1>1. CASE Look(r)
  <2>1. faults' \in 0..MaxFaults /\ (faults' = 0 => faults = 0)
    BY <1>0, <1>1, Counters DEF Look
  <2>2. PICK what \in {"needs_human", "running", "done", "no such run", "error"} :
           seen' = [seen EXCEPT ![r] = what] /\ (what = "done" => pc[r] = "over")
    BY <1>0, <1>1, Answers DEF Look
  <2>3. watch[r] = "active"
        /\ UNCHANGED <<portalVars, chat, turn, misses, watch, strikes, old, collected, finishing,
                       told, twice, impatient, dropped, turns, crashes>>
    BY <1>1 DEF Look
  <2>4. Typed'
    BY <1>0, <2>1, <2>2, <2>3 DEF Typed
  <2>5. seen'[r] = what /\ \A n \in Runs \ {r} : seen'[n] = seen[n]
    BY <1>0, <2>2 DEF Typed
  <2>6. CountsOf(r)' /\ OverFirst(r)'
    BY <1>0, <2>2, <2>3, <2>5 DEF Good, CountsOf, OverFirst, portalVars
  <2>7. Fresh(r)'
    BY <1>0, <2>1, <2>3 DEF Good, Fresh, Undisturbed, portalVars
  <2>8. \A n \in Runs \ {r} : Kept(n)
    BY <2>3, <2>5 DEF Kept
  <2> QED
    BY <2>1, <2>3, <2>4, <2>6, <2>7, <2>8, OneRun DEF Good
<1>2. CASE Act(r)
  <2>1. seen[r] # "nothing" /\ seen' = [seen EXCEPT ![r] = "nothing"]
        /\ UNCHANGED <<portalVars, chat, turn, misses, old, collected, told, twice, impatient,
                       dropped, turns, crashes, faults>>
    BY <1>2 DEF Act
  <2>2. seen'[r] = "nothing" /\ \A n \in Runs \ {r} : seen'[n] = seen[n]
    BY <1>0, <2>1 DEF Typed
  <2>3. strikes[r] < GoneStrikes /\ strikes[r] \in 0..GoneStrikes
    BY <1>0, <2>1, Numbers DEF Good, CountsOf
  <2>4. CASE seen[r] = "done" /\ watch[r] = "active"
    <3>1. /\ strikes' = strikes /\ watch' = [watch EXCEPT ![r] = "finishing"]
          /\ finishing' = [finishing EXCEPT ![r] = "waiting"]
      BY <1>2, <2>4 DEF Act, Row
    <3>2. Typed'
      BY <1>0, <2>1, <3>1 DEF Typed
    <3>3. watch'[r] = "finishing" /\ finishing'[r] = "waiting"
          /\ \A n \in Runs \ {r} : watch'[n] = watch[n] /\ finishing'[n] = finishing[n]
      BY <1>0, <3>1 DEF Typed
    <3>4. CountsOf(r)' /\ OverFirst(r)'
      BY <1>0, <2>1, <2>2, <2>3, <2>4, <3>1, <3>3 DEF Good, CountsOf, OverFirst, portalVars
    <3>5. Fresh(r)'
      BY <1>0, <2>1, <2>4, <3>3 DEF Good, Fresh, Undisturbed, portalVars
    <3>6. \A n \in Runs \ {r} : Kept(n)
      BY <2>1, <2>2, <3>1, <3>3 DEF Kept
    <3> QED
      BY <2>1, <3>2, <3>4, <3>5, <3>6, OneRun DEF Good
  <2>5. CASE seen[r] # "done" \/ watch[r] # "active"
    <3>1. PICK n \in 0..GoneStrikes : strikes' = [strikes EXCEPT ![r] = n] /\ finishing' = finishing
            /\ \/ n < GoneStrikes /\ watch' = watch
               \/ \E s \in {"gone", "expired"} : watch' = [watch EXCEPT ![r] = s]
      <4>0. strikes = [strikes EXCEPT ![r] = strikes[r]]
        BY <1>0 DEF Typed
      <4>1. CASE seen[r] = "no such run"
        <5>1. /\ strikes[r] + 1 \in 0..GoneStrikes
              /\ ~(strikes[r] + 1 >= GoneStrikes) => strikes[r] + 1 < GoneStrikes
          BY <2>3, Bounds
        <5> QED
          BY <1>2, <4>1, <5>1 DEF Act, Row
      <4>2. CASE seen[r] = "done"
        <5>1. strikes' = strikes /\ finishing' = finishing /\ watch' = watch
          BY <1>2, <2>5, <4>2 DEF Act
        <5> QED
          BY <2>3, <4>0, <5>1
      <4>3. CASE seen[r] \notin {"no such run", "done"}
        <5>1. \/ strikes' = strikes /\ watch' = [watch EXCEPT ![r] = "expired"]
              \/ strikes' = [strikes EXCEPT ![r] = 0] /\ watch' = watch
          BY <1>2, <4>3 DEF Act, Row
        <5>2. finishing' = finishing
          BY <1>2, <4>3 DEF Act
        <5>3. 0 \in 0..GoneStrikes /\ 0 < GoneStrikes
          BY Bounds
        <5> QED
          BY <2>3, <4>0, <5>1, <5>2, <5>3
      <4> QED
        BY <4>1, <4>2, <4>3
    <3>2. Typed'
      <4>1. strikes' \in [Runs -> 0..GoneStrikes]
        BY <1>0, <3>1 DEF Typed
      <4>2. watch' \in [Runs -> {"none", "active", "finishing", "done", "disarmed", "expired",
                                 "gone"}]
        BY <1>0, <3>1 DEF Typed
      <4> QED
        BY <1>0, <2>1, <3>1, <4>1, <4>2 DEF Typed
    <3>3. strikes'[r] = n /\ (watch'[r] \in {"gone", "expired"} \/ (n < GoneStrikes /\ watch'[r] = watch[r]))
          /\ \A m \in Runs \ {r} : watch'[m] = watch[m] /\ strikes'[m] = strikes[m]
      BY <1>0, <3>1 DEF Typed
    <3>4. CountsOf(r)' /\ OverFirst(r)'
      BY <1>0, <2>1, <2>2, <3>1, <3>3 DEF Good, CountsOf, OverFirst, portalVars
    <3>5. Fresh(r)'
      BY <1>0, <2>1, <3>1, <3>3 DEF Good, Fresh, Undisturbed, portalVars
    <3>6. \A m \in Runs \ {r} : Kept(m)
      BY <2>1, <2>2, <3>1, <3>3 DEF Kept
    <3> QED
      BY <2>1, <3>2, <3>4, <3>5, <3>6, OneRun DEF Good
  <2> QED
    BY <2>4, <2>5
<1>3. CASE Age(r)
  <2>1. old' = [old EXCEPT ![r] = TRUE]
        /\ UNCHANGED <<portalVars, chat, turn, misses, watch, strikes, collected, seen, finishing,
                       told, twice, impatient, dropped, turns, crashes, faults>>
    BY <1>3 DEF Age
  <2>2. Typed'
    BY <1>0, <2>1 DEF Typed
  <2>3. Good(r)'
    BY <1>0, <2>1 DEF Good, CountsOf, OverFirst, Fresh, Undisturbed, portalVars
  <2> QED
    BY <2>1, <2>2, <2>3, OneRun DEF Kept
<1> QED
  BY <1>1, <1>2, <1>3

\* The delivery looks whether it may go ahead.
LEMMA TryStep ==
  ASSUME WatchInv, NEW r \in Runs, TryConversation(r)
  PROVE  WatchInv'
<1>0. Typed /\ Good(r) /\ PortalInv
  BY WatchTypes DEF WatchInv
<1>1. impatient' \in [Runs -> BOOLEAN]
  BY <1>0, Zenon DEF Typed, TryConversation
<1>2. /\ \A n \in Runs \ {r} : impatient'[n] = impatient[n]
      /\ impatient[r] => impatient'[r]
      /\ chat[r] /\ turn[r] # "none" => impatient'[r]
  BY <1>0 DEF Typed, TryConversation
<1>3. /\ finishing[r] = "waiting"
      /\ UNCHANGED <<portalVars, chat, turn, misses, strikes, old, collected, seen, told, twice,
                     dropped, turns, crashes, faults>>
      /\ \/ /\ finishing' = [finishing EXCEPT ![r] = "no"]
            /\ watch' = [watch EXCEPT ![r] = "disarmed"]
         \/ /\ chat[r] => watch[r] = "finishing" /\ ~collected[r]
            /\ chat[r] /\ turn[r] = "none"
            /\ finishing' = [finishing EXCEPT ![r] = "waking"] /\ watch' = watch
         \/ /\ ~(chat[r] /\ turn[r] = "none")
            /\ finishing' = [finishing EXCEPT ![r] = "filing"] /\ watch' = watch
  BY DEF TryConversation, Finishes, Row
<1>4. Typed'
  BY <1>0, <1>1, <1>3 DEF Typed
<1>5. /\ \A n \in Runs \ {r} : watch'[n] = watch[n] /\ finishing'[n] = finishing[n]
      /\ \/ finishing'[r] = "no" /\ watch'[r] = "disarmed"
         \/ /\ finishing'[r] = "waking" /\ turn[r] = "none"
            /\ watch[r] = "finishing" /\ watch'[r] = "finishing" /\ ~collected[r]
         \/ /\ ~(chat[r] /\ turn[r] = "none")
            /\ finishing'[r] = "filing" /\ watch'[r] = watch[r]
  BY <1>0, <1>3 DEF Typed
<1>6. CountsOf(r)' /\ OverFirst(r)'
  BY <1>0, <1>3, <1>5 DEF Good, CountsOf, OverFirst, portalVars
<1>7. Fresh(r)'
  <2> SUFFICES ASSUME Undisturbed(r)' PROVE Fresh(r)'
    BY DEF Fresh
  <2>1. Undisturbed(r) /\ turn[r] = "none"
    BY <1>2, <1>3 DEF Undisturbed, portalVars
  <2> QED
    BY <1>0, <1>3, <1>5, <2>1 DEF Good, Fresh, Undisturbed
<1>8. \A n \in Runs \ {r} : Kept(n)
  BY <1>2, <1>3, <1>5 DEF Kept
<1> QED
  BY <1>3, <1>4, <1>6, <1>7, <1>8, OneRun DEF Good

\* A delivery that goes ahead tells what nobody has been told.
LEMMA DeliveryStep ==
  ASSUME WatchInv, NEW r \in Runs, DeliverySteps(r)
  PROVE  WatchInv'
<1>0. Typed /\ Good(r) /\ PortalInv
  BY WatchTypes DEF WatchInv
<1>1. ASSUME Tell(r)
      PROVE  /\ twice' \in [Runs -> BOOLEAN] /\ told' \in [Runs -> BOOLEAN]
             /\ told'[r] /\ (twice'[r] => twice[r] \/ told[r])
             /\ \A n \in Runs \ {r} : twice'[n] = twice[n] /\ told'[n] = told[n]
  <2>1. twice' \in [Runs -> BOOLEAN] /\ told' \in [Runs -> BOOLEAN]
    BY <1>0, <1>1, Zenon DEF Typed, Tell
  <2>2. told'[r] /\ \A n \in Runs \ {r} : told'[n] = told[n]
    BY <1>0, <1>1 DEF Typed, Tell
  <2>3. twice'[r] => twice[r] \/ told[r]
    BY <1>0, <1>1 DEF Typed, Tell
  <2>4. \A n \in Runs \ {r} : twice'[n] = twice[n]
    BY <1>0, <1>1 DEF Typed, Tell
  <2> QED
    BY <2>1, <2>2, <2>3, <2>4
<1>2. CASE WakeUp(r)
  <2>1. finishing[r] = "waking"
        /\ UNCHANGED <<portalVars, chat, turn, misses, strikes, old, seen, impatient,
                       turns, crashes>>
    BY <1>2 DEF WakeUp
  <2>2. CASE Finishes(r, "no") /\ Row(r, "done") /\ Tell(r) /\ UNCHANGED <<dropped, faults>>
             /\ collected' = [collected EXCEPT ![r] = TRUE]
    <3>1. finishing' = [finishing EXCEPT ![r] = "no"] /\ watch' = [watch EXCEPT ![r] = "done"]
      BY <2>2 DEF Finishes, Row
    <3>2. Typed'
      BY <1>0, <1>1, <2>1, <2>2, <3>1 DEF Typed
    <3>3. finishing'[r] = "no" /\ watch'[r] = "done" /\ collected'[r]
          /\ \A n \in Runs \ {r} : /\ finishing'[n] = finishing[n] /\ watch'[n] = watch[n]
                                  /\ collected'[n] = collected[n]
      BY <1>0, <2>2, <3>1 DEF Typed
    <3>4. CountsOf(r)' /\ OverFirst(r)'
      BY <1>0, <2>1, <3>3 DEF Good, CountsOf, OverFirst, portalVars
    <3>5. Fresh(r)'
      BY <1>0, <1>1, <2>1, <2>2, <3>3 DEF Good, Fresh, Undisturbed, portalVars
    <3>6. \A n \in Runs \ {r} : Kept(n)
      BY <1>1, <2>1, <2>2, <3>3 DEF Kept
    <3> QED
      BY <2>1, <2>2, <3>2, <3>4, <3>5, <3>6, OneRun DEF Good
  <2>4. CASE Finishes(r, "no") /\ Row(r, "done") /\ Fault /\ UNCHANGED collected
             /\ \/ Tell(r) /\ UNCHANGED dropped
                \/ dropped' = [dropped EXCEPT ![r] = TRUE] /\ UNCHANGED <<told, twice>>
    <3>1. faults' \in 0..MaxFaults /\ faults' # 0
      BY <1>0, <2>4, Counters
    <3>2. finishing' = [finishing EXCEPT ![r] = "no"] /\ watch' = [watch EXCEPT ![r] = "done"]
      BY <2>4 DEF Finishes, Row
    <3>3. finishing'[r] = "no" /\ watch'[r] = "done"
          /\ \A n \in Runs \ {r} : finishing'[n] = finishing[n] /\ watch'[n] = watch[n]
      BY <1>0, <3>2 DEF Typed
    <3>4. twice' \in [Runs -> BOOLEAN] /\ told' \in [Runs -> BOOLEAN]
          /\ dropped' \in [Runs -> BOOLEAN]
          /\ \A n \in Runs \ {r} : twice'[n] = twice[n] /\ told'[n] = told[n]
      <4>1. CASE Tell(r) /\ UNCHANGED dropped
        BY <1>0, <1>1, <4>1 DEF Typed
      <4>2. CASE dropped' = [dropped EXCEPT ![r] = TRUE] /\ UNCHANGED <<told, twice>>
        BY <1>0, <4>2, Zenon DEF Typed
      <4> QED
        BY <2>4, <4>1, <4>2
    <3>5. Typed'
      BY <1>0, <2>1, <2>4, <3>1, <3>2, <3>4 DEF Typed
    <3>6. Good(r)'
      BY <1>0, <2>1, <2>4, <3>1, <3>3 DEF Good, CountsOf, OverFirst, Fresh, Undisturbed, portalVars
    <3>7. \A n \in Runs \ {r} : Kept(n)
      BY <2>1, <2>4, <3>3, <3>4 DEF Kept
    <3> QED
      BY <2>1, <3>1, <3>5, <3>6, <3>7, OneRun
  <2>3. CASE Finishes(r, "filing") /\ Fault /\ UNCHANGED <<watch, told, twice, collected, dropped>>
    <3>1. faults' \in 0..MaxFaults /\ faults' # 0
      BY <1>0, <2>3, Counters
    <3>2. finishing' = [finishing EXCEPT ![r] = "filing"]
      BY <2>3 DEF Finishes
    <3>3. Typed'
      BY <1>0, <2>1, <2>3, <3>1, <3>2 DEF Typed
    <3>4. \A n \in Runs \ {r} : finishing'[n] = finishing[n]
      BY <1>0, <3>2 DEF Typed
    <3>5. Good(r)'
      BY <1>0, <2>1, <2>3, <3>1 DEF Good, CountsOf, OverFirst, Fresh, Undisturbed, portalVars
    <3>6. \A n \in Runs \ {r} : Kept(n)
      BY <2>1, <2>3, <3>4 DEF Kept
    <3> QED
      BY <2>1, <3>1, <3>3, <3>5, <3>6, OneRun
  <2> QED
    BY <1>2, <2>2, <2>3, <2>4 DEF WakeUp
<1>3. CASE FileInMyWork(r)
  <2>1. /\ finishing[r] = "filing" /\ finishing' = [finishing EXCEPT ![r] = "no"]
        /\ watch' = [watch EXCEPT ![r] = "done"]
        /\ UNCHANGED <<portalVars, chat, turn, misses, strikes, old, collected, seen, impatient,
                       turns, crashes>>
    BY <1>3 DEF FileInMyWork, Finishes, Row
  <2>2. finishing'[r] = "no" /\ watch'[r] = "done"
        /\ \A n \in Runs \ {r} : finishing'[n] = finishing[n] /\ watch'[n] = watch[n]
    BY <1>0, <2>1 DEF Typed
  <2>3. CASE Tell(r) /\ UNCHANGED <<dropped, faults>>
    <3>1. Typed'
      BY <1>0, <1>1, <2>1, <2>3 DEF Typed
    <3>2. CountsOf(r)' /\ OverFirst(r)'
      BY <1>0, <2>1, <2>2 DEF Good, CountsOf, OverFirst, portalVars
    <3>3. Fresh(r)'
      BY <1>0, <2>1, <2>3 DEF Good, Fresh, Undisturbed, portalVars
    <3>4. \A n \in Runs \ {r} : Kept(n)
      BY <1>1, <2>1, <2>2, <2>3 DEF Kept
    <3> QED
      BY <2>1, <2>3, <3>1, <3>2, <3>3, <3>4, OneRun DEF Good
  <2>4. CASE Fault /\ dropped' = [dropped EXCEPT ![r] = TRUE] /\ UNCHANGED <<told, twice>>
    <3>1. faults' \in 0..MaxFaults /\ faults' # 0
      BY <1>0, <2>4, Counters
    <3>2. Typed'
      BY <1>0, <2>1, <2>4, <3>1 DEF Typed
    <3>3. Good(r)'
      BY <1>0, <2>1, <2>2, <2>4, <3>1 DEF Good, CountsOf, OverFirst, Fresh, Undisturbed, portalVars
    <3>4. \A n \in Runs \ {r} : Kept(n)
      BY <2>1, <2>2, <2>4 DEF Kept
    <3> QED
      BY <2>1, <3>1, <3>2, <3>3, <3>4, OneRun
  <2> QED
    BY <1>3, <2>3, <2>4 DEF FileInMyWork
<1> QED
  BY <1>2, <1>3, TryStep DEF DeliverySteps

\* After a restart there is no turn and no delivery; rows are as they were.
LEMMA CrashStep ==
  ASSUME WatchInv, Crash
  PROVE  WatchInv'
<1>0. Typed
  BY WatchTypes DEF WatchInv
<1>1. PortalInv' /\ UNCHANGED <<pc, kind, restarts>>
  BY PortalUnchanged DEF WatchInv, Crash, portalVars
<1>2. dropped' \in [Runs -> BOOLEAN]
  BY <1>0, Zenon DEF Typed, Crash
<1>3. crashes' \in 0..MaxCrashes
  BY <1>0, Counters, Bounds DEF Crash
<1>4. Typed'
  BY <1>0, <1>2, <1>3 DEF Typed, Crash
<1>5. TypeOK'
  BY <1>1, <1>4, WatchTypes DEF PortalInv
<1>6. ASSUME NEW n \in Runs PROVE Good(n)'
  <2>1. Good(n) /\ turn'[n] = "none" /\ seen'[n] = "nothing" /\ finishing'[n] = "no"
        /\ UNCHANGED <<chat, misses, watch, strikes, collected, told, twice, impatient, faults>>
    BY DEF WatchInv, Crash
  <2> QED
    BY <1>1, <2>1 DEF Good, CountsOf, OverFirst, Fresh, Undisturbed
<1> QED
  BY <1>1, <1>5, <1>6 DEF WatchInv

-----------------------------------------------------------------------------
LEMMA WatchInit == Init => WatchInv
<1> SUFFICES ASSUME Init PROVE WatchInv
  OBVIOUS
<1>1. PortalTypeOK
  BY PortalAssumption DEF Init, PortalInit, PortalTypeOK, Statuses
<1>2. PortalInv
  BY <1>1 DEF Init, PortalInit, PortalInv, Pauses, InputNeedsAPause, InputOpen, Results, Suspended
<1>3. TypeOK
  BY <1>1, Bounds DEF Init, TypeOK
<1>4. \A r \in Runs : Good(r)
  BY Bounds DEF Init, PortalInit, Good, CountsOf, OverFirst, Fresh
<1> QED
  BY <1>2, <1>3, <1>4 DEF WatchInv

LEMMA WatchNext == WatchInv /\ [Next]_vars => WatchInv'
<1> SUFFICES ASSUME WatchInv, [Next]_vars PROVE WatchInv'
  OBVIOUS
<1>1. CASE UNCHANGED vars
  BY <1>1, PortalUnchanged, OnwardStep DEF WatchInv, vars
<1>2. ASSUME NEW r \in Runs, Browser(r) PROVE WatchInv'
  BY <1>2, BrowserStep, OnwardStep DEF WatchInv, Browser
<1>3. ASSUME NEW r \in Runs,
             BeginTurn(r) \/ Fetch(r) \/ Check(r) \/ PollFails(r) \/ ToolSteps(r)
      PROVE  WatchInv'
  BY <1>3, TurnStep, PollStep, ToolStep DEF ToolSteps
<1>4. CASE RestartBrowser /\ UNCHANGED watchVars
  BY <1>4, RestartStep, OnwardStep DEF WatchInv
<1> QED
  BY <1>1, <1>2, <1>3, <1>4, SupervisorStep, DeliveryStep, CrashStep DEF Next

LEMMA WatchInvariant == Spec => []WatchInv
BY WatchInit, WatchNext, PTL DEF Spec

\* Every variable of both services keeps its type: no watch collects more
\* strikes and no tool more misses than give a run up.
THEOREM WatchTypeCorrect == Spec => []TypeOK
BY WatchInvariant, PTL DEF WatchInv

\* An operator's input reaches the page only while the agent waits for it to
\* be handed back, except from a model that waited in vain.
THEOREM InputMeetsAPause == Spec => []InputNeedsAPause
<1>1. WatchInv => InputNeedsAPause
  BY DEF WatchInv, PortalInv
<1> QED
  BY <1>1, WatchInvariant, PTL

\* The supervisor never delivers what was collected already, while polls are
\* answered, the browser service stays up and waits end in time.
THEOREM OutcomesAreDeliveredOnce == Spec => []DeliveredOnce
<1>1. WatchInv => DeliveredOnce
  <2> SUFFICES ASSUME WatchInv, NEW r \in Runs, twice[r]
               PROVE  ~chat[r] \/ impatient[r] \/ faults > 0 \/ restarts > 0
    BY DEF DeliveredOnce
  <2>1. faults \in Nat /\ restarts \in Nat
    <3>1. Typed /\ restarts \in 0..MaxRestarts
      BY WatchTypes, PortalTypes DEF WatchInv
    <3> QED
      BY <3>1, Counters, PortalAssumption
  <2> QED
    BY <2>1 DEF WatchInv, Good, Fresh, Undisturbed
<1> QED
  BY <1>1, WatchInvariant, PTL

================================================================================

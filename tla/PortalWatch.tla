------------------------------ MODULE PortalWatch ------------------------------
(***************************************************************************)
(* Portal runs asked for in a conversation (src/agent_service). A turn     *)
(* starts a run of PortalRuns and polls it for a while; a run it leaves    *)
(* behind is put under a watch (portal_watch.py), a row the supervisor     *)
(* polls until it can wake the conversation or file the outcome in My      *)
(* Work. One conversation per run.                                         *)
(***************************************************************************)
EXTENDS PortalRuns

CONSTANTS
  GoneStrikes, \* polls without such a run before it is given up
  MaxTurns,    \* bound on turns and checks of a conversation, per run
  MaxCrashes,  \* bound on restarts of the agent service
  MaxFaults    \* bound on failing polls and deliveries

ASSUME WatchAssumption ==
  /\ GoneStrikes \in Nat \ {0}
  /\ {MaxTurns, MaxCrashes, MaxFaults} \subseteq Nat

VARIABLES
  chat,      \* the turn has a conversation to return to (else it is headless)
  turn,      \* the user's turn and its portal tool
  misses,    \* the tool's consecutive polls without such a run
  watch,     \* status of the row in portal_watches
  strikes,   \* strikes of the row
  old,       \* the row is older than MAX_MINUTES
  collected, \* collected_at of the row
  seen,      \* what the supervisor's poll has seen, not acted on yet
  finishing, \* the delivery task
  told,      \* history: the conversation or My Work has the outcome
  twice,     \* history: the supervisor delivered what was known already
  impatient, \* history: a bounded wait for the other side's turn ran out
  dropped,   \* history: a delivery failed, or died with the service
  turns, crashes, faults

watchVars == <<chat, turn, misses, watch, strikes, old, collected, seen,
               finishing, told, twice, impatient, dropped, turns, crashes, faults>>
vars == <<portalVars, watchVars>>

TypeOK ==
  /\ PortalTypeOK
  /\ turn \in [Runs -> {"none", "open", "poll", "pause", "done", "saw_pause", "saw_done"}]
  /\ misses \in [Runs -> 0..GoneStrikes]
  /\ strikes \in [Runs -> 0..GoneStrikes]
  /\ watch \in [Runs -> {"none", "active", "finishing", "done", "disarmed",
                         "expired", "gone"}]
  /\ seen \in [Runs -> {"nothing", "needs_human", "running", "done",
                        "no such run", "error"}]
  /\ finishing \in [Runs -> {"no", "waiting", "waking", "filing"}]
  /\ {chat, old, collected, told, twice, impatient, dropped} \subseteq [Runs -> BOOLEAN]
  /\ turns \in [Runs -> 0..MaxTurns]
  /\ crashes \in 0..MaxCrashes
  /\ faults \in 0..MaxFaults

Init ==
  /\ PortalInit
  /\ chat \in [Runs -> BOOLEAN]
  /\ turn = [r \in Runs |-> "none"]
  /\ misses = [r \in Runs |-> 0]
  /\ watch = [r \in Runs |-> "none"]
  /\ strikes = [r \in Runs |-> 0]
  /\ seen = [r \in Runs |-> "nothing"]
  /\ finishing = [r \in Runs |-> "no"]
  /\ old = [r \in Runs |-> FALSE]
  /\ collected = [r \in Runs |-> FALSE]
  /\ told = [r \in Runs |-> FALSE]
  /\ twice = [r \in Runs |-> FALSE]
  /\ impatient = [r \in Runs |-> FALSE]
  /\ dropped = [r \in Runs |-> FALSE]
  /\ turns = [r \in Runs |-> 0]
  /\ crashes = 0
  /\ faults = 0

Fault ==
  /\ faults < MaxFaults
  /\ faults' = faults + 1

Turn(r, place) == turn' = [turn EXCEPT ![r] = place]
Row(r, s) == watch' = [watch EXCEPT ![r] = s]

(***************************************************************************)
(* A turn and its tool                                                     *)
(***************************************************************************)

\* /api/chat waits for a wake-up on the same conversation, but not for ever.
BeginTurn(r) ==
  /\ kind[r] = "chat"
  /\ turn[r] = "none"
  /\ turns[r] < MaxTurns
  /\ turns' = [turns EXCEPT ![r] = @ + 1]
  /\ Turn(r, "open")
  /\ impatient' = [impatient EXCEPT ![r] = (@ \/ finishing[r] = "waking")]
  /\ UNCHANGED <<portalVars, chat, misses, watch, strikes, old, collected, seen,
                 finishing, told, twice, dropped, crashes, faults>>

EndTurn(r) ==
  /\ turn[r] = "open"
  /\ Turn(r, "none")
  /\ UNCHANGED <<portalVars, chat, misses, watch, strikes, old, collected, seen,
                 finishing, told, twice, impatient, dropped, turns, crashes, faults>>

\* portal_fetch: the run is started, then polled.
Fetch(r) ==
  /\ turn[r] = "open"
  /\ PortalStart(r)
  /\ Turn(r, "poll")
  /\ UNCHANGED <<chat, misses, watch, strikes, old, collected, seen, finishing,
                 told, twice, impatient, dropped, turns, crashes, faults>>

\* check_portal_run
Check(r) ==
  /\ turn[r] = "open"
  /\ ~At(r, "idle")
  /\ turns[r] < MaxTurns
  /\ turns' = [turns EXCEPT ![r] = @ + 1]
  /\ Turn(r, "poll")
  /\ misses' = [misses EXCEPT ![r] = 0]
  /\ UNCHANGED <<portalVars, chat, watch, strikes, old, collected, seen,
                 finishing, told, twice, impatient, dropped, crashes, faults>>

\* A slip: only an active row is touched.
DisarmActiveOnly(r) ==
  /\ watch' = [watch EXCEPT ![r] = IF @ = "active" THEN "disarmed" ELSE @]
  /\ collected' = [collected EXCEPT ![r] = (@ \/ watch[r] = "active")]

\* disarm: the row of a delivery under way is only stamped.
Disarm(r) ==
  /\ watch' = [watch EXCEPT ![r] = IF @ = "active" THEN "disarmed" ELSE @]
  /\ collected' = [collected EXCEPT ![r] = (@ \/ watch[r] \in {"active", "finishing"})]

\* One poll. Five answers in a row that there is no such run end the tool; a
\* run that was just accepted is registered long before.
Poll(r) ==
  /\ turn[r] = "poll"
  /\ LET answer == Answer(r) IN
     CASE answer = "done" ->
            /\ Turn(r, "saw_done")
            /\ UNCHANGED <<misses, watch, collected, told, faults>>
       [] answer = "needs_human" ->
            /\ Turn(r, "saw_pause")
            /\ misses' = [misses EXCEPT ![r] = 0]
            /\ UNCHANGED <<watch, collected, told, faults>>
       [] answer = "running" ->
            /\ Turn(r, "pause")
            /\ misses' = [misses EXCEPT ![r] = 0]
            /\ UNCHANGED <<watch, collected, told, faults>>
       [] answer = "no such run" ->
            /\ misses' = [misses EXCEPT ![r] = IF At(r, "accepted") THEN @ ELSE @ + 1]
            /\ IF misses'[r] < GoneStrikes
               THEN Turn(r, "pause") /\ UNCHANGED <<watch, collected, told>>
               ELSE /\ Turn(r, "open")
                    /\ Disarm(r)
                    /\ told' = [told EXCEPT ![r] = TRUE]
            /\ UNCHANGED faults
  /\ UNCHANGED <<portalVars, chat, strikes, old, seen, finishing, twice,
                 impatient, dropped, turns, crashes>>

PollFails(r) ==
  /\ turn[r] = "poll"
  /\ Fault
  /\ Turn(r, "pause")
  /\ misses' = [misses EXCEPT ![r] = 0]
  /\ UNCHANGED <<portalVars, chat, watch, strikes, old, collected, seen,
                 finishing, told, twice, impatient, dropped, turns, crashes>>

PollAgain(r) ==
  /\ turn[r] = "pause"
  /\ Turn(r, "poll")
  /\ UNCHANGED <<portalVars, chat, misses, watch, strikes, old, collected, seen,
                 finishing, told, twice, impatient, dropped, turns, crashes, faults>>

\* The finished run's answer reaches the tool, which delivers it.
Collect(r) ==
  /\ turn[r] = "saw_done"
  /\ Turn(r, "open")
  /\ Disarm(r)
  /\ told' = [told EXCEPT ![r] = TRUE]
  /\ UNCHANGED <<portalVars, chat, misses, strikes, old, seen, finishing, twice,
                 impatient, dropped, turns, crashes, faults>>

\* A slip: the new row keeps the strikes of the one it replaces.
ArmWithOldStrikes(r) ==
  /\ turn[r] \in {"saw_pause", "pause"}
  /\ Turn(r, "open")
  /\ watch' = [watch EXCEPT ![r] = IF @ = "finishing" THEN @ ELSE "active"]
  /\ old' = [old EXCEPT ![r] = FALSE]
  /\ collected' = [collected EXCEPT ![r] = FALSE]
  /\ UNCHANGED <<portalVars, chat, misses, strikes, seen, finishing, told,
                 twice, impatient, dropped, turns, crashes, faults>>

\* arm: a live row is refreshed, any other replaced by a new one. The run
\* needs a person, or has outlived the tool's patience.
Arm(r) ==
  /\ turn[r] \in {"saw_pause", "pause"}
  /\ Turn(r, "open")
  /\ IF watch[r] \in {"active", "finishing"}
     THEN UNCHANGED <<watch, strikes, old, collected>>
     ELSE /\ Row(r, "active")
          /\ strikes' = [strikes EXCEPT ![r] = 0]
          /\ old' = [old EXCEPT ![r] = FALSE]
          /\ collected' = [collected EXCEPT ![r] = FALSE]
  /\ UNCHANGED <<portalVars, chat, misses, seen, finishing, told, twice,
                 impatient, dropped, turns, crashes, faults>>

(***************************************************************************)
(* The supervisor                                                          *)
(***************************************************************************)

\* _tick lists the active rows and polls each of them,
Look(r) ==
  /\ watch[r] = "active"
  /\ seen[r] = "nothing"
  /\ \/ seen' = [seen EXCEPT ![r] = Answer(r)] /\ UNCHANGED faults
     \/ seen' = [seen EXCEPT ![r] = "error"] /\ Fault
  /\ UNCHANGED <<portalVars, chat, turn, misses, watch, strikes, old, collected,
                 finishing, told, twice, impatient, dropped, turns, crashes>>

\* then decides. Only the claim of a finished run looks at the row again.
Act(r) ==
  /\ seen[r] # "nothing"
  /\ seen' = [seen EXCEPT ![r] = "nothing"]
  /\ CASE seen[r] = "done" ->
            /\ IF watch[r] = "active"
               THEN /\ Row(r, "finishing")
                    /\ finishing' = [finishing EXCEPT ![r] = "waiting"]
               ELSE UNCHANGED <<watch, finishing>>
            /\ UNCHANGED strikes
       [] seen[r] = "no such run" ->
            /\ strikes' = [strikes EXCEPT ![r] = @ + 1]
            /\ IF strikes[r] + 1 >= GoneStrikes THEN Row(r, "gone") ELSE UNCHANGED watch
            /\ UNCHANGED finishing
       [] OTHER ->
            /\ IF old[r]
               THEN Row(r, "expired") /\ UNCHANGED strikes
               ELSE UNCHANGED watch /\ strikes' = [strikes EXCEPT ![r] = 0]
            /\ UNCHANGED finishing
  /\ UNCHANGED <<portalVars, chat, turn, misses, old, collected, told, twice,
                 impatient, dropped, turns, crashes, faults>>

\* Time passes.
Age(r) ==
  /\ watch[r] = "active"
  /\ ~old[r]
  /\ old' = [old EXCEPT ![r] = TRUE]
  /\ UNCHANGED <<portalVars, chat, turn, misses, watch, strikes, collected, seen,
                 finishing, told, twice, impatient, dropped, turns, crashes, faults>>

(***************************************************************************)
(* The delivery of a finished run                                          *)
(***************************************************************************)

Finishes(r, place) == finishing' = [finishing EXCEPT ![r] = place]

Tell(r) ==
  /\ twice' = [twice EXCEPT ![r] = (@ \/ told[r])]
  /\ told' = [told EXCEPT ![r] = TRUE]

\* A slip: the run of a headless turn has nowhere to go.
TryConversationOnly(r) ==
  /\ finishing[r] = "waiting"
  /\ impatient' = [impatient EXCEPT ![r] = (@ \/ (chat[r] /\ turn[r] # "none"))]
  /\ IF ~chat[r] \/ watch[r] # "finishing" \/ collected[r]
     THEN Finishes(r, "no") /\ Row(r, "disarmed")
     ELSE Finishes(r, IF turn[r] = "none" THEN "waking" ELSE "filing") /\ UNCHANGED watch
  /\ UNCHANGED <<portalVars, chat, turn, misses, strikes, old, collected, seen,
                 told, twice, dropped, turns, crashes, faults>>

\* _resume_conversation: without a conversation straight to My Work; else
\* once the conversation is idle, or the wait is over, the row is read again.
TryConversation(r) ==
  /\ finishing[r] = "waiting"
  /\ impatient' = [impatient EXCEPT ![r] = (@ \/ (chat[r] /\ turn[r] # "none"))]
  /\ IF chat[r] /\ (watch[r] # "finishing" \/ collected[r])
     THEN Finishes(r, "no") /\ Row(r, "disarmed")
     ELSE /\ Finishes(r, IF chat[r] /\ turn[r] = "none" THEN "waking" ELSE "filing")
          /\ UNCHANGED watch
  /\ UNCHANGED <<portalVars, chat, turn, misses, strikes, old, collected, seen,
                 told, twice, dropped, turns, crashes, faults>>

\* The wake-up turn collects the run itself and tells the user. One that only
\* says something, as when it is refused, counts as well, and what it says is
\* filed with the outcome; one that says nothing leaves it to My Work, and an
\* exception is logged and the row closed.
WakeUp(r) ==
  /\ finishing[r] = "waking"
  /\ \/ /\ Finishes(r, "no")
        /\ Row(r, "done")
        /\ Tell(r)
        /\ \/ collected' = [collected EXCEPT ![r] = TRUE] /\ UNCHANGED faults
           \/ Fault /\ UNCHANGED collected
        /\ UNCHANGED dropped
     \/ /\ Finishes(r, "filing")
        /\ Fault
        /\ UNCHANGED <<watch, told, twice, collected, dropped>>
     \/ /\ Finishes(r, "no")
        /\ Row(r, "done")
        /\ Fault
        /\ dropped' = [dropped EXCEPT ![r] = TRUE]
        /\ UNCHANGED <<told, twice, collected>>
  /\ UNCHANGED <<portalVars, chat, turn, misses, strikes, old, seen, impatient,
                 turns, crashes>>

\* _deliver_to_mywork. A failure is logged and the row closed all the same.
FileInMyWork(r) ==
  /\ finishing[r] = "filing"
  /\ Finishes(r, "no")
  /\ Row(r, "done")
  /\ \/ Tell(r) /\ UNCHANGED <<dropped, faults>>
     \/ Fault /\ dropped' = [dropped EXCEPT ![r] = TRUE] /\ UNCHANGED <<told, twice>>
  /\ UNCHANGED <<portalVars, chat, turn, misses, strikes, old, collected, seen,
                 impatient, turns, crashes>>

\* The agent service restarts: rows stay, turns and tasks do not.
Crash ==
  /\ crashes < MaxCrashes
  /\ crashes' = crashes + 1
  /\ turn' = [r \in Runs |-> "none"]
  /\ seen' = [r \in Runs |-> "nothing"]
  /\ finishing' = [r \in Runs |-> "no"]
  /\ dropped' = [r \in Runs |-> dropped[r] \/ watch[r] = "finishing"]
  /\ UNCHANGED <<portalVars, chat, misses, watch, strikes, old, collected, told,
                 twice, impatient, turns, faults>>

(***************************************************************************)
(* Both services                                                           *)
(***************************************************************************)

ToolSteps(r) == EndTurn(r) \/ Poll(r) \/ PollAgain(r) \/ Collect(r) \/ Arm(r)
DeliverySteps(r) == TryConversation(r) \/ WakeUp(r) \/ FileInMyWork(r)

Browser(r) == (RunSteps(r) \/ Register(r) \/ Takeover(r) \/ Resume(r))
              /\ UNCHANGED watchVars

Next ==
  \/ \E r \in Runs :
       \/ Browser(r) \/ BeginTurn(r) \/ Fetch(r) \/ Check(r) \/ PollFails(r)
       \/ ToolSteps(r) \/ Look(r) \/ Act(r) \/ Age(r) \/ DeliverySteps(r)
  \/ RestartBrowser /\ UNCHANGED watchVars
  \/ Crash

Spec == Init /\ [][Next]_vars

\* Runs end and waits have limits, turns end, the loop ticks, time passes.
FairSpec ==
  /\ Spec
  /\ \A r \in Runs :
       /\ WF_vars(RunSteps(r) /\ UNCHANGED watchVars)
       /\ WF_vars(ToolSteps(r))
       /\ WF_vars(Look(r) \/ Act(r))
       /\ WF_vars(Age(r))
       /\ WF_vars(DeliverySteps(r))

(***************************************************************************)
(* Properties                                                              *)
(***************************************************************************)

\* A watch is disarmed the moment a tool collects the result, so that nothing
\* is delivered twice (portal_watch.py): while a conversation can be waited
\* for and every poll is answered, the supervisor never wakes it with, or
\* files, what it already knows.
DeliveredOnce ==
  \A r \in Runs : twice[r] =>
    ~chat[r] \/ impatient[r] \/ faults > 0 \/ restarts > 0

\* A run left under a watch is never just forgotten: its outcome reaches the
\* conversation or My Work, unless the browser service lost the run, the run
\* outlives MAX_MINUTES, or the delivery itself failed or died half-way.
EveryWatchIsSettled ==
  \A r \in Runs : watch[r] = "active" ~>
     told[r] \/ dropped[r] \/ watch[r] \in {"gone", "expired"}
================================================================================

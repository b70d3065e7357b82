------------------------ MODULE EmailDispatcherProofs ------------------------
(***************************************************************************)
(* Proofs about the e-mail dispatcher and the file drops under it, for any *)
(* mails, polls, callers, runs and bounds: the types, that a notice is     *)
(* given once, that a mail is acted on no more often than failures explain *)
(* and that the day's cap is passed by the polls under way only, by one    *)
(* reply each, or by a page where the cooldown does not hold them.         *)
(***************************************************************************)
EXTENDS EmailDispatcher, FiniteSetTheorems, FunctionTheorems, TLAPS

\* The number of polls, and what is counted, are numbers.
LEMMA MailBounds ==
  /\ Cardinality(Pollers) \in Nat \ {0} /\ IsFiniteSet(Pollers)
  /\ MaxFaults \in Nat /\ MaxEvents \in Nat /\ Cap \in Nat
  /\ Enough \in Nat
<1>1. Cardinality(Pollers) \in Nat \ {0}
  BY MailAssumption, FS_CardinalityType, FS_EmptySet
<1> QED
  BY <1>1, MailAssumption, FilesAssumption DEF Enough

\* A failure and an event are counted within their bounds.
LEMMA Counted ==
  ASSUME FilesTypeOK
  PROVE  /\ Fault => faults' = faults + 1 /\ faults' \in 0..MaxFaults
         /\ Event => events' \in 0..MaxEvents
BY MailBounds DEF FilesTypeOK, Fault, Event

-----------------------------------------------------------------------------
(* File drops.                                                             *)

\* A flag is there before anything has been told.
FlagFirst == \A r \in Runs : told[r] <= 1 /\ (r \in flag \/ ~Asked(r) => told[r] = 0)

\* Taking the flag away, or finding it gone.
LEMMA ClaimOnce ==
  ASSUME FilesTypeOK, FlagFirst, NEW r \in Runs, ClaimFlag(r)
  PROVE  /\ flag' \subseteq flag /\ told' \in [Runs -> Nat]
         /\ \A n \in Runs : told'[n] <= 1 /\ (n \in flag' \/ ~Asked(n) => told'[n] = 0)
BY DEF FilesTypeOK, FlagFirst, ClaimFlag

\* What a run does.
LEMMA RunTypes ==
  ASSUME FilesTypeOK, FlagFirst, NEW r \in Runs, RunSteps(r)
  PROVE  FilesTypeOK' /\ FlagFirst'
<1>1. CASE Work(r)
  BY <1>1 DEF Work, FilesTypeOK, FlagFirst, Asked
<1>2. CASE EndRun(r)
  BY <1>2, Counted DEF EndRun, FilesTypeOK, FlagFirst, Asked
<1>3. CASE WriteRecord(r)
  BY <1>3, Counted DEF WriteRecord, FilesTypeOK, FlagFirst, Asked
<1>4. CASE DeliverLate(r)
  BY <1>4, ClaimOnce DEF DeliverLate, FilesTypeOK, FlagFirst, Asked
<1>5. CASE ClaimNext(r)
  BY <1>5 DEF ClaimNext, FilesTypeOK, FlagFirst, Asked
<1>6. CASE StartNext(r)
  <2>1. First(Unused \cup {m \in {r} : ~Asked(m)}) \subseteq Runs
    BY DEF First, Unused
  <2>2. run' \in [Runs -> {"none", "going", "worked", "ended", "recorded", "flagged", "next"}]
        /\ done' \subseteq Runs
    BY <1>6, <2>1 DEF StartNext, FilesTypeOK
  <2> QED
    BY <1>6, <2>2, Counted DEF StartNext, FilesTypeOK, FlagFirst, Asked
<1> QED
  BY <1>1, <1>2, <1>3, <1>4, <1>5, <1>6 DEF RunSteps

\* What The Agent does.
LEMMA AgentTypes ==
  ASSUME FilesTypeOK, FlagFirst, NEW r \in Runs, AgentSteps(r) \/ AgentAsks(r)
  PROVE  FilesTypeOK' /\ FlagFirst'
<1>1. CASE AgentAsks(r)
  BY <1>1, Counted DEF AgentAsks, FilesTypeOK, FlagFirst, Asked
<1>2. CASE AgentReads(r)
  BY <1>2 DEF AgentReads, FilesTypeOK, FlagFirst, Asked
<1>3. CASE AgentClaims(r)
  <2>1. \A n \in Runs : Asked(n)' <=> Asked(n)
    BY <1>3 DEF AgentClaims, FilesTypeOK, Asked
  <2>2. ClaimFlag(r) /\ UNCHANGED <<inbox, next, done, run, call, events, faults, late>>
    BY <1>3 DEF AgentClaims
  <2>3. FilesTypeOK'
    BY <1>3, <2>1, <2>2, ClaimOnce DEF AgentClaims, FilesTypeOK
  <2> QED
    BY <2>1, <2>2, <2>3, ClaimOnce DEF FlagFirst
<1> QED
  BY <1>1, <1>2, <1>3 DEF AgentSteps

\* What callers do.
LEMMA CallTypes ==
  ASSUME FilesTypeOK, FlagFirst, NEW c \in Callers, CallSteps(c) \/ (c \in People /\ Drop(c))
  PROVE  FilesTypeOK' /\ FlagFirst'
<1>1. CASE c \in People /\ Drop(c)
  BY <1>1, Counted, FilesAssumption DEF Drop, FilesTypeOK, FlagFirst, Asked
<1>2. CASE LookForRuns(c)
  BY <1>2, Counted DEF LookForRuns, FilesTypeOK, FlagFirst, Asked
<1>3. CASE RequestNext(c)
  BY <1>3 DEF RequestNext, FilesTypeOK, FlagFirst, Asked
<1>4. CASE StartRun(c)
  <2>1. First(Unused) \subseteq Runs
    BY DEF First, Unused
  <2>2. run' \in [Runs -> {"none", "going", "worked", "ended", "recorded", "flagged", "next"}]
        /\ done' \subseteq Runs
    BY <1>4, <2>1 DEF StartRun, FilesTypeOK
  <2> QED
    BY <1>4, <2>2, Counted DEF StartRun, FilesTypeOK, FlagFirst, Asked
<1> QED
  BY <1>1, <1>2, <1>3, <1>4 DEF CallSteps

-----------------------------------------------------------------------------
(* Polls.                                                                  *)

\* A poll has the mail it is working on, and only answers those of an agent
\* that replies.
Held ==
  \A p \in Pollers :
    \/ poll[p].pc \in {"idle", "next"} /\ poll[p].mail = {}
    \/ /\ poll[p].pc \in {"act", "limit", "reply", "count", "record"}
       /\ \E m \in Mails : /\ poll[p].mail = {m}
                           /\ poll[p].pc \in {"limit", "reply", "count"} => Replies(m)

MailInv == TypeOK /\ FlagFirst /\ Held

LEMMA OfHeld ==
  ASSUME NEW p, NEW m \in Mails, poll[p].mail = {m}
  PROVE  Of(p) = m
BY DEF Of

\* A poll that goes on with the mail it has.
LEMMA GoesOn ==
  ASSUME MailInv, NEW p \in Pollers, NEW pc \in {"limit", "reply", "count", "record"},
         GoesTo(p, pc), poll[p].pc \in {"act", "limit", "reply", "count"},
         pc \in {"limit", "reply", "count"} => Replies(Of(p))
  PROVE  poll' \in [Pollers -> Polls] /\ Held' /\ \A q \in Pollers : q # p => poll'[q] = poll[q]
<1>1. poll \in [Pollers -> Polls] /\ [poll[p] EXCEPT !.pc = pc] \in Polls
  BY DEF MailInv, TypeOK, Polls
<1>2. poll' = [poll EXCEPT ![p] = [poll[p] EXCEPT !.pc = pc]]
  BY <1>1 DEF GoesTo
<1>3. PICK m \in Mails : poll[p].mail = {m}
  BY DEF MailInv, Held
<1>4. Of(p) = m
  BY <1>3, OfHeld
<1>5. poll'[p].pc = pc /\ poll'[p].mail = {m}
  BY <1>1, <1>2, <1>3 DEF Polls
<1>6. \A q \in Pollers : q # p => poll'[q] = poll[q]
  BY <1>1, <1>2
<1> QED
  BY <1>1, <1>2, <1>4, <1>5, <1>6 DEF MailInv, Held, Replies

\* A poll that takes something else up, or nothing.
LEMMA TakesUp ==
  ASSUME MailInv, NEW p \in Pollers, NEW b \in Polls, poll' = [poll EXCEPT ![p] = b],
         \/ b.pc \in {"idle", "next"} /\ b.mail = {}
         \/ b.pc = "act" /\ \E m \in Mails : b.mail = {m}
         \/ b.pc = "limit" /\ \E m \in Mails : b.mail = {m} /\ Replies(m)
  PROVE  poll' \in [Pollers -> Polls] /\ Held' /\ \A q \in Pollers : q # p => poll'[q] = poll[q]
BY DEF MailInv, TypeOK, Held, Replies

\* The files and the callers while only counters, the inbox or a poll change.
LEMMA FilesStay ==
  ASSUME FilesTypeOK, FlagFirst, UNCHANGED <<next, flag, done, run, agent, call, told, late>>,
         inbox' = inbox,
         faults' = faults \/ Fault,
         events' = events \/ Event
  PROVE  FilesTypeOK' /\ FlagFirst'
BY Counted DEF FilesTypeOK, FlagFirst, Asked

\* What a poll does with a mail before it has one, and when it is done.
LEMMA TurnTypes ==
  ASSUME MailInv, NEW p \in Pollers,
         BeginPoll(p) \/ EndPoll(p) \/ Record(p) \/ \E m \in Mails : LookUp(p, m)
  PROVE  MailInv'
<1>0. /\ poll \in [Pollers -> Polls] /\ poll[p] \in Polls
      /\ FilesTypeOK /\ FlagFirst /\ Held /\ feed \subseteq Mails /\ today \in Nat
      /\ poll[p].pc # "act" => call[p] = "idle"
      /\ \A q \in Pollers : call[q] # "idle" => poll[q].pc = "act"
  BY DEF MailInv, TypeOK, At
<1>1. CASE BeginPoll(p)
  <2>0. PICK page \in Pages :
          poll' = [poll EXCEPT ![p] = [pc |-> "next", page |-> page, mail |-> {}, count |-> today]]
    BY <1>1 DEF BeginPoll
  <2>1. [pc |-> "next", page |-> page, mail |-> {}, count |-> today] \in Polls
    BY <1>0 DEF Polls, Pages
  <2>2. /\ poll' \in [Pollers -> Polls] /\ Held'
        /\ \A q \in Pollers : q # p => poll'[q] = poll[q]
    BY <2>0, <2>1, TakesUp
  <2>3. FilesTypeOK' /\ FlagFirst'
    BY <1>0, <1>1, FilesStay DEF BeginPoll
  <2>4. poll[p].pc = "idle"
    BY <1>1 DEF BeginPoll, At
  <2> QED
    BY <1>0, <1>1, <2>2, <2>3, <2>4 DEF BeginPoll, MailInv, TypeOK, At
<1>2. CASE EndPoll(p)
  <2>1. Resting \in Polls /\ Resting.pc = "idle" /\ Resting.mail = {}
    BY DEF Resting, Polls
  <2>2. /\ poll' \in [Pollers -> Polls] /\ Held'
        /\ \A q \in Pollers : q # p => poll'[q] = poll[q]
    BY <1>2, <2>1, TakesUp DEF EndPoll
  <2>3. FilesTypeOK' /\ FlagFirst'
    BY <1>0, <1>2, FilesStay DEF EndPoll, fileVars
  <2>4. poll[p].pc = "next"
    BY <1>2 DEF EndPoll, At
  <2> QED
    BY <1>0, <1>2, <2>2, <2>3, <2>4 DEF EndPoll, MailInv, TypeOK, At, fileVars
<1>3. CASE Record(p)
  <2> DEFINE b == [poll[p] EXCEPT !.pc = "next", !.mail = {}]
  <2>1. b \in Polls /\ b.pc = "next" /\ b.mail = {}
    BY <1>0 DEF Polls
  <2>2. poll' = [poll EXCEPT ![p] = b] /\ poll[p].pc = "record"
    BY <1>0, <1>3 DEF Record, At
  <2> HIDE DEF b
  <2>3. /\ poll' \in [Pollers -> Polls] /\ Held'
        /\ \A q \in Pollers : q # p => poll'[q] = poll[q]
    BY <2>1, <2>2, TakesUp
  <2>4. FilesTypeOK' /\ FlagFirst'
    BY <1>0, <1>3, FilesStay DEF Record
  <2>5. Of(p) \in Mails
    BY <1>0, <2>2, OfHeld DEF Held
  <2>6. recorded' \subseteq Mails /\ cooling' \in BOOLEAN
    BY <1>3, <2>5 DEF Record, MailInv, TypeOK, AsResponse, Triggers
  <2> QED
    BY <1>0, <1>3, <2>2, <2>3, <2>4, <2>6 DEF Record, MailInv, TypeOK, At
<1>4. ASSUME NEW m \in Mails, LookUp(p, m) PROVE MailInv'
  <2>1. /\ poll[p].pc = "next" /\ poll[p].mail = {}
        /\ [poll[p] EXCEPT !.page = @ \ {m}] \in Polls
        /\ [poll[p] EXCEPT !.page = @ \ {m}].pc = "next"
        /\ [poll[p] EXCEPT !.page = @ \ {m}].mail = {}
        /\ TakeUp(p, m) \in Polls /\ TakeUp(p, m).mail = {m}
        /\ \/ TakeUp(p, m).pc = "act"
           \/ TakeUp(p, m).pc = "limit" /\ Replies(m)
    BY <1>0, <1>4 DEF LookUp, At, Held, Polls, TakeUp, Triggers, Replies
  <2>2. \/ poll' = [poll EXCEPT ![p] = [poll[p] EXCEPT !.page = @ \ {m}]]
        \/ poll' = [poll EXCEPT ![p] = TakeUp(p, m)]
    <3>1. \/ poll' = [poll EXCEPT ![p].page = @ \ {m}]
          \/ poll' = [poll EXCEPT ![p] = TakeUp(p, m)]
      BY <1>4 DEF LookUp
    <3>2. [poll EXCEPT ![p].page = @ \ {m}]
            = [poll EXCEPT ![p] = [poll[p] EXCEPT !.page = @ \ {m}]]
      BY <1>0
    <3> QED
      BY <3>1, <3>2
  <2>3. /\ poll' \in [Pollers -> Polls] /\ Held'
        /\ \A q \in Pollers : q # p => poll'[q] = poll[q]
    BY <2>1, <2>2, TakesUp
  <2>4. FilesTypeOK' /\ FlagFirst'
    BY <1>0, <1>4, FilesStay DEF LookUp
  <2>5. acted' \in [Mails -> 0..Enough]
    <3>1. acted \in [Mails -> 0..Enough] /\ Enough \in Nat
      BY MailBounds DEF MailInv, TypeOK
    <3>2. acted' = acted
          \/ acted' = [acted EXCEPT ![m] = IF @ < Enough THEN @ + 1 ELSE @]
      BY <1>4 DEF LookUp
    <3> QED
      BY <3>1, <3>2
  <2>6. UNCHANGED <<feed, recorded, today, cooling, both, sent, cooled, call>>
    BY <1>4 DEF LookUp
  <2>7. \A q \in Pollers : call'[q] # "idle" => poll'[q].pc = "act"
    <3>1. \A q \in Pollers : call[q] # "idle" => poll[q].pc = "act"
      BY DEF MailInv, TypeOK, At
    <3> QED
      BY <2>1, <2>3, <2>6, <3>1
  <2>8. TypeOK'
    BY <2>3, <2>4, <2>5, <2>6, <2>7 DEF MailInv, TypeOK, At
  <2> QED
    BY <2>3, <2>4, <2>8 DEF MailInv
<1> QED
  BY <1>1, <1>2, <1>3, <1>4

\* What a poll does with the mail it has.
LEMMA WorkTypes ==
  ASSUME MailInv, NEW p \in Pollers,
         \/ SaveFiles(p) \/ LookForRun(p) \/ Trigger(p)
         \/ CheckLimit(p) \/ Reply(p) \/ CountReply(p)
  PROVE  MailInv'
<1>0. /\ poll \in [Pollers -> Polls] /\ poll[p] \in Polls
      /\ FilesTypeOK /\ FlagFirst /\ Held
      /\ \A q \in Pollers : call[q] # "idle" => poll[q].pc = "act"
      /\ Pollers \subseteq Callers /\ call \in [Callers -> {"idle", "look", "queue", "start"}]
  BY MailAssumption DEF MailInv, TypeOK, At, FilesTypeOK
<1>1. CASE SaveFiles(p)
  <2>1. poll[p].pc = "act" /\ UNCHANGED poll
    BY <1>1 DEF SaveFiles, At, mailVars
  <2>0. Of(p) \in Files
    BY <1>0, <2>1, OfHeld, MailAssumption DEF Held
  <2>2. FilesTypeOK' /\ FlagFirst'
    BY <1>0, <1>1, <2>0, Counted DEF SaveFiles, FilesTypeOK, FlagFirst, Asked
  <2>3. \A q \in Pollers : call'[q] # "idle" => poll[q].pc = "act"
    BY <1>0, <1>1, <2>1 DEF SaveFiles
  <2> QED
    BY <1>1, <2>1, <2>2, <2>3 DEF SaveFiles, mailVars, MailInv, TypeOK, At, Held
<1>2. CASE LookForRun(p)
  <2>1. CallSteps(p) /\ UNCHANGED mailVars
    BY <1>2 DEF LookForRun, CallSteps
  <2>2. \A q \in Pollers : call'[q] # "idle" => poll[q].pc = "act"
    BY <1>0, <1>2 DEF LookForRun, LookForRuns
  <2> QED
    BY <1>0, <2>1, <2>2, CallTypes DEF mailVars, MailInv, TypeOK, At, Held
<1>3. CASE Trigger(p)
  <2>1. CallSteps(p) /\ poll[p].pc = "act" /\ GoesTo(p, AfterTrigger(p))
    BY <1>0, <1>3 DEF Trigger, CallSteps, RequestNext, StartRun
  <2>2. /\ poll' \in [Pollers -> Polls] /\ Held'
        /\ \A q \in Pollers : q # p => poll'[q] = poll[q]
    BY <2>1, GoesOn DEF AfterTrigger
  <2>3. call'[p] = "idle" /\ \A q \in Pollers : q # p => call'[q] = call[q]
    BY <1>0, <1>3 DEF Trigger, RequestNext, StartRun
  <2>4. FilesTypeOK' /\ FlagFirst'
    BY <1>0, <2>1, CallTypes
  <2> QED
    BY <1>0, <1>3, <2>2, <2>3, <2>4 DEF Trigger, MailInv, TypeOK, At
<1>4. CASE CheckLimit(p)
  <2>1. /\ poll[p].pc = "limit" /\ Replies(Of(p))
        /\ GoesTo(p, "record") \/ GoesTo(p, "reply")
    BY <1>0, <1>4, OfHeld DEF CheckLimit, At, Held
  <2>2. /\ poll' \in [Pollers -> Polls] /\ Held'
        /\ \A q \in Pollers : q # p => poll'[q] = poll[q]
    BY <2>1, GoesOn
  <2>3. FilesTypeOK' /\ FlagFirst'
    BY <1>0, <1>4, FilesStay DEF CheckLimit
  <2> QED
    BY <1>0, <1>4, <2>1, <2>2, <2>3 DEF CheckLimit, MailInv, TypeOK, At
<1>5. CASE Reply(p)
  <2>1. /\ poll[p].pc = "reply"
        /\ GoesTo(p, "record") \/ GoesTo(p, "count")
        /\ sent' \in Nat
    BY <1>5 DEF Reply, At, MailInv, TypeOK
  <2>2. poll[p].pc = "reply" /\ Replies(Of(p))
    BY <1>0, <1>5, OfHeld DEF Reply, At, Held
  <2>3. /\ poll' \in [Pollers -> Polls] /\ Held'
        /\ \A q \in Pollers : q # p => poll'[q] = poll[q]
    BY <1>5, <2>2, GoesOn DEF Reply
  <2>4. FilesTypeOK' /\ FlagFirst'
    BY <1>0, <1>5, FilesStay DEF Reply
  <2> QED
    BY <1>0, <1>5, <2>1, <2>2, <2>3, <2>4 DEF Reply, MailInv, TypeOK, At
<1>6. CASE CountReply(p)
  <2>1. poll[p].pc = "count" /\ GoesTo(p, "record") /\ today' \in Nat
    BY <1>6 DEF CountReply, At, MailInv, TypeOK
  <2>2. /\ poll' \in [Pollers -> Polls] /\ Held'
        /\ \A q \in Pollers : q # p => poll'[q] = poll[q]
    BY <2>1, GoesOn
  <2>3. FilesTypeOK' /\ FlagFirst'
    BY <1>0, <1>6, FilesStay DEF CountReply
  <2> QED
    BY <1>0, <1>6, <2>1, <2>2, <2>3 DEF CountReply, MailInv, TypeOK, At
<1> QED
  BY <1>1, <1>2, <1>3, <1>4, <1>5, <1>6

\* The clock, the cloud and the end of the process.
LEMMA WorldTypes ==
  ASSUME MailInv, CoolDown \/ Crash \/ \E m \in Mails : Arrive(m)
  PROVE  MailInv'
<1>0. FilesTypeOK /\ FlagFirst /\ Held /\ Pollers \subseteq Callers
  BY MailAssumption DEF MailInv, TypeOK
<1>1. ASSUME NEW m \in Mails, Arrive(m) PROVE MailInv'
  <2>1. FilesTypeOK' /\ FlagFirst' /\ UNCHANGED <<poll, call>>
    BY <1>0, <1>1, FilesStay DEF Arrive, fileVars
  <2> QED
    BY <1>1, <2>1 DEF Arrive, MailInv, TypeOK, At, Held, Polls
<1>2. CASE CoolDown
  <2>1. FilesTypeOK' /\ FlagFirst' /\ UNCHANGED <<poll, call>>
    BY <1>0, <1>2, FilesStay DEF CoolDown, fileVars
  <2> QED
    BY <1>2, <2>1 DEF CoolDown, MailInv, TypeOK, At, Held, Polls
<1>3. CASE Crash
  <2>1. Resting \in Polls /\ Resting.pc = "idle" /\ Resting.mail = {}
    BY DEF Resting, Polls
  <2>2. poll' \in [Pollers -> Polls] /\ Held'
    BY <1>3, <2>1 DEF Crash, Held
  <2>3. call' \in [Callers -> {"idle", "look", "queue", "start"}]
        /\ \A p \in Pollers : call'[p] = "idle"
    BY <1>0, <1>3 DEF Crash, FilesTypeOK
  <2>4. FilesTypeOK' /\ FlagFirst'
    BY <1>0, <1>3, <2>3, Counted DEF Crash, FilesTypeOK, FlagFirst, Asked
  <2> QED
    BY <1>3, <2>2, <2>3, <2>4 DEF Crash, MailInv, TypeOK
<1> QED
  BY <1>1, <1>2, <1>3

\* Files and callers that are people leave the polls alone.
LEMMA OthersTypes ==
  ASSUME MailInv, UNCHANGED mailVars,
         FilesNext \/ \E c \in People : Drop(c) \/ CallSteps(c)
  PROVE  MailInv'
<1>0. FilesTypeOK /\ FlagFirst /\ People \subseteq Callers /\ Pollers \cap People = {}
  BY FilesAssumption, MailAssumption DEF MailInv, TypeOK
<1>1. FilesTypeOK' /\ FlagFirst'
  BY <1>0, RunTypes, AgentTypes, CallTypes DEF FilesNext
<1>2. \A p \in Pollers : call'[p] = call[p]
  <2>1. CASE FilesNext
    BY <2>1
    DEF FilesNext, RunSteps, Work, EndRun, WriteRecord, DeliverLate, ClaimNext, StartNext,
        AgentSteps, AgentReads, AgentClaims, AgentAsks
  <2>2. ASSUME NEW c \in People, Drop(c) \/ CallSteps(c)
        PROVE  \A p \in Pollers : call'[p] = call[p]
    <3>1. c \in Callers /\ c \notin Pollers /\ Pollers \subseteq Callers
      BY <1>0, MailAssumption
    <3>2. call \in [Callers -> {"idle", "look", "queue", "start"}]
      BY <1>0 DEF FilesTypeOK
    <3>3. \E pc \in {"idle", "look", "queue", "start"} : call' = [call EXCEPT ![c] = pc]
      BY <2>2 DEF Drop, CallSteps, LookForRuns, RequestNext, StartRun
    <3> QED
      BY <3>1, <3>2, <3>3
  <2> QED
    BY <2>1, <2>2
<1> QED
  BY <1>1, <1>2 DEF mailVars, MailInv, TypeOK, At, Held

LEMMA MailStep == ASSUME MailInv, [Next]_vars PROVE MailInv'
<1>1. CASE UNCHANGED vars
  <2>1. FilesTypeOK' /\ FlagFirst'
    BY <1>1, FilesStay DEF MailInv, TypeOK, vars, fileVars
  <2> QED
    BY <1>1, <2>1 DEF vars, fileVars, mailVars, MailInv, TypeOK, At, Held, Polls
<1>2. CASE Next
  BY <1>2, TurnTypes, WorkTypes, WorldTypes, OthersTypes DEF Next, PollSteps
<1> QED
  BY <1>1, <1>2

LEMMA MailStart == Init => MailInv
<1> SUFFICES ASSUME Init PROVE MailInv
  OBVIOUS
<1>1. FilesTypeOK /\ FlagFirst
  <2>1. /\ run = [r \in Runs |-> "none"] /\ agent = [r \in Runs |-> "idle"]
        /\ call = [c \in Callers |-> "idle"] /\ told = [r \in Runs |-> 0]
        /\ inbox = {} /\ next = FALSE /\ flag = {} /\ done = {} /\ late = FALSE
        /\ events \in 0..MaxEvents /\ faults \in 0..MaxFaults
    BY MailBounds DEF Init, FilesInit
  <2>2. FilesTypeOK
    BY <2>1 DEF FilesTypeOK
  <2>3. FlagFirst
    BY <2>1 DEF FlagFirst
  <2> QED
    BY <2>2, <2>3
<1>2. Resting \in Polls /\ Resting.pc = "idle" /\ Resting.mail = {}
  BY DEF Resting, Polls
<1>3. Held /\ poll \in [Pollers -> Polls]
  BY <1>2 DEF Init, Held
<1>4. \A p \in Pollers : call[p] = "idle"
  BY MailAssumption DEF Init, FilesInit
<1>5. /\ feed \subseteq Mails /\ recorded \subseteq Mails /\ today \in Nat /\ sent \in Nat
      /\ cooling \in BOOLEAN /\ both \in BOOLEAN /\ cooled \in BOOLEAN
  BY DEF Init
<1>6. acted \in [Mails -> 0..Enough]
  BY MailBounds DEF Init
<1> QED
  BY <1>1, <1>3, <1>4, <1>5, <1>6 DEF MailInv, TypeOK

\* The variables keep their types: a poll only ever records, answers and files
\* a mail it has looked up, and only a poll at work asks for a run
\* (_poll_and_process).
THEOREM MailTypeCorrect == Spec => []TypeOK
<1>1. MailInv => TypeOK
  BY DEF MailInv
<1> QED
  BY <1>1, MailStart, MailStep, PTL DEF Spec

\* Who asked The Agent for a run it stopped waiting for is told once, however
\* many runs, and whatever becomes of them and of The Agent's question: both
\* sides take the flag away before they tell (notify_when_done, run_finished).
THEOREM NoticeIsGivenOnce == Spec => []ToldOnce
<1>1. MailInv => ToldOnce
  BY DEF MailInv, FlagFirst, ToldOnce
<1> QED
  BY <1>1, MailStart, MailStep, PTL DEF Spec

-----------------------------------------------------------------------------
(* How often a mail is acted on.                                           *)

\* What a step does to what is counted: nothing, or it is one of a few.
LEMMA CountedSteps ==
  ASSUME MailInv, [Next]_vars
  PROVE  \/ /\ UNCHANGED <<recorded, today, cooling, poll, both, sent, acted, cooled>>
            /\ faults' = faults \/ Fault
         \/ \E p \in Pollers :
              \/ BeginPoll(p) \/ EndPoll(p) \/ Trigger(p) \/ CheckLimit(p) \/ Reply(p)
              \/ CountReply(p) \/ Record(p) \/ \E m \in Mails : LookUp(p, m)
         \/ CoolDown \/ Crash
<1> DEFINE Unseen == /\ UNCHANGED <<recorded, today, cooling, poll, both, sent, acted, cooled>>
                     /\ faults' = faults \/ Fault
<1>1. ASSUME UNCHANGED vars PROVE Unseen
  BY <1>1 DEF vars, mailVars, fileVars
<1>2. ASSUME FilesNext, UNCHANGED mailVars PROVE Unseen
  BY <1>2
  DEF FilesNext, RunSteps, Work, EndRun, WriteRecord, DeliverLate, ClaimNext, StartNext,
      AgentSteps, AgentReads, AgentClaims, AgentAsks, mailVars
<1>3. ASSUME NEW c \in People, Drop(c) \/ CallSteps(c), UNCHANGED mailVars PROVE Unseen
  BY <1>3 DEF Drop, CallSteps, LookForRuns, RequestNext, StartRun, mailVars
<1>4. ASSUME NEW p \in Pollers, SaveFiles(p) \/ LookForRun(p) PROVE Unseen
  BY <1>4 DEF SaveFiles, LookForRun, LookForRuns, mailVars
<1>5. ASSUME NEW m \in Mails, Arrive(m) PROVE Unseen
  BY <1>5 DEF Arrive, fileVars
<1> QED
  BY <1>1, <1>2, <1>3, <1>4, <1>5 DEF Next, PollSteps

\* Polls that do not have the mail.
Left(m) == {p \in Pollers : poll[p].mail # {m}}

\* Those that may act on it yet, as long as nothing fails.
Budget(m) == IF m \in recorded THEN 0 ELSE Cardinality(Left(m))

ActedInv ==
  \A m \in Mails : acted[m] + Budget(m) <= Cardinality(Pollers) * (1 + faults)

LEMMA LeftIsFinite ==
  ASSUME NEW m
  PROVE  /\ IsFiniteSet(Left(m)) /\ Cardinality(Left(m)) \in 0..Cardinality(Pollers)
         /\ IsFiniteSet(Left(m)') /\ Cardinality(Left(m)') \in 0..Cardinality(Pollers)
<1>1. Left(m) \subseteq Pollers /\ Left(m)' \subseteq Pollers
  BY DEF Left
<1> QED
  BY <1>1, MailBounds, FS_Subset, FS_CardinalityType

\* One failure more pays for all polls.
LEMMA OneMore ==
  ASSUME NEW n \in Nat, NEW f \in Nat
  PROVE  n * (1 + (f + 1)) = n * (1 + f) + n /\ n * (1 + f) \in Nat
OBVIOUS

\* A step after which no poll has less of a mail that is not recorded.
LEMMA ActedCalm ==
  ASSUME MailInv, MailInv', ActedInv, acted' = acted, faults' = faults \/ faults' = faults + 1,
         recorded \subseteq recorded',
         \A m \in Mails \ recorded' : Left(m)' \subseteq Left(m)
  PROVE  ActedInv'
<1> SUFFICES ASSUME NEW m \in Mails
             PROVE  acted'[m] + Budget(m)' <= Cardinality(Pollers) * (1 + faults')
  BY DEF ActedInv
<1>1. /\ acted[m] \in Nat /\ faults \in Nat /\ Cardinality(Pollers) \in Nat
      /\ acted[m] + Budget(m) <= Cardinality(Pollers) * (1 + faults)
  BY MailBounds DEF ActedInv, MailInv, TypeOK, FilesTypeOK
<1>2. Cardinality(Left(m)) \in Nat /\ Cardinality(Left(m)') \in Nat
  BY LeftIsFinite
<1>3. m \notin recorded' => Cardinality(Left(m)') <= Cardinality(Left(m))
  BY LeftIsFinite, FS_Subset
<1>4. Budget(m)' <= Budget(m) /\ Budget(m)' \in Nat /\ Budget(m) \in Nat
  BY <1>2, <1>3 DEF Budget
<1>5. Cardinality(Pollers) * (1 + faults) <= Cardinality(Pollers) * (1 + faults')
  BY <1>1, OneMore
<1>6. Cardinality(Pollers) * (1 + faults') \in Nat
  BY <1>1, OneMore
<1>7. Cardinality(Pollers) * (1 + faults) \in Nat
  BY <1>1, OneMore
<1> QED
  BY <1>1, <1>4, <1>5, <1>6, <1>7

\* A failing one may take all polls back to where they were.
LEMMA ActedFault ==
  ASSUME MailInv, ActedInv, acted' = acted, faults' = faults + 1
  PROVE  ActedInv'
<1> SUFFICES ASSUME NEW m \in Mails
             PROVE  acted'[m] + Budget(m)' <= Cardinality(Pollers) * (1 + faults')
  BY DEF ActedInv
<1>1. /\ acted[m] \in Nat /\ faults \in Nat /\ Cardinality(Pollers) \in Nat
      /\ acted[m] + Budget(m) <= Cardinality(Pollers) * (1 + faults)
  BY MailBounds DEF ActedInv, MailInv, TypeOK, FilesTypeOK
<1>2. Budget(m) \in Nat /\ Budget(m)' \in 0..Cardinality(Pollers)
  BY <1>1, LeftIsFinite DEF Budget
<1>3. Cardinality(Pollers) * (1 + faults')
        = Cardinality(Pollers) * (1 + faults) + Cardinality(Pollers)
      /\ Cardinality(Pollers) * (1 + faults) \in Nat
  BY <1>1, OneMore
<1> QED
  BY <1>1, <1>2, <1>3

LEMMA ActedStep ==
  ASSUME MailInv, MailInv', ActedInv, [Next]_vars
  PROVE  ActedInv'
<1>0. /\ poll \in [Pollers -> Polls] /\ Held /\ FilesTypeOK /\ faults \in Nat
      /\ acted \in [Mails -> 0..Enough] /\ Enough \in Nat
      /\ Cardinality(Pollers) \in Nat \ {0}
  BY MailBounds DEF MailInv, TypeOK, FilesTypeOK
<1>00. Fault => faults' = faults + 1
  BY <1>0, Counted
<1>1. CASE UNCHANGED <<recorded, today, cooling, poll, both, sent, acted, cooled>> /\ (faults' = faults \/ Fault)
  BY <1>1, <1>00, ActedCalm DEF Left
<1>2. ASSUME NEW p \in Pollers, BeginPoll(p) \/ EndPoll(p) PROVE ActedInv'
  <2>1. /\ acted' = acted /\ faults' = faults /\ recorded' = recorded
        /\ poll[p].mail = {}
        /\ \A q \in Pollers : q # p => poll'[q] = poll[q]
    BY <1>0, <1>2 DEF BeginPoll, EndPoll, At, Held, fileVars
  <2>2. \A m \in Mails : Left(m)' \subseteq Left(m)
    BY <2>1 DEF Left
  <2> QED
    BY <2>1, <2>2, ActedCalm
<1>3. ASSUME NEW p \in Pollers, Trigger(p) \/ CheckLimit(p) \/ Reply(p) \/ CountReply(p)
      PROVE  ActedInv'
  <2>1. acted' = acted /\ recorded' = recorded /\ (faults' = faults \/ Fault)
    BY <1>3 DEF Trigger, RequestNext, StartRun, CheckLimit, Reply, CountReply
  <2>2. \E pc \in {"limit", "reply", "count", "record"} : GoesTo(p, pc)
    BY <1>3 DEF Trigger, AfterTrigger, CheckLimit, Reply, CountReply
  <2>3. \A q \in Pollers : poll'[q].mail = poll[q].mail
    BY <1>0, <2>2 DEF GoesTo, Polls
  <2>4. \A m \in Mails : Left(m)' \subseteq Left(m)
    BY <2>3 DEF Left
  <2> QED
    BY <1>00, <2>1, <2>4, ActedCalm
<1>4. ASSUME NEW p \in Pollers, Record(p) PROVE ActedInv'
  <2>1. CASE Fault
    BY <1>4, <1>00, <2>1, ActedFault DEF Record
  <2>2. CASE faults' = faults /\ recorded' = recorded \cup {Of(p)}
    <3>1. acted' = acted /\ \A q \in Pollers : q # p => poll'[q] = poll[q]
      BY <1>0, <1>4 DEF Record
    <3>2. PICK m \in Mails : poll[p].mail = {m}
      BY <1>0, <1>4 DEF Record, At, Held
    <3>3. Of(p) = m
      BY <3>2, OfHeld
    <3>4. \A n \in Mails : n # m => {m} # {n}
      OBVIOUS
    <3>5. \A n \in Mails \ recorded' : Left(n)' \subseteq Left(n)
      BY <2>2, <3>1, <3>2, <3>3, <3>4 DEF Left
    <3> QED
      BY <2>2, <3>1, <3>5, ActedCalm
  <2> QED
    BY <1>4, <2>1, <2>2 DEF Record
<1>5. ASSUME NEW p \in Pollers, NEW m \in Mails, LookUp(p, m) PROVE ActedInv'
  <2>0. recorded' = recorded /\ poll[p].mail = {}
    BY <1>0, <1>5 DEF LookUp, At, Held
  <2>1. CASE acted' = acted
    <3>1. faults' = faults \/ Fault
      BY <1>5 DEF LookUp
    <3>2. \A q \in Pollers : q # p => poll'[q] = poll[q]
      BY <1>0, <1>5 DEF LookUp
    <3>3. \A n \in Mails : Left(n)' \subseteq Left(n)
      BY <2>0, <3>2 DEF Left
    <3> QED
      BY <1>00, <2>0, <2>1, <3>1, <3>3, ActedCalm
  <2>2. CASE acted' # acted
    <3>1. /\ IF Recorded(m) THEN Fault ELSE UNCHANGED faults
          /\ poll' = [poll EXCEPT ![p] = TakeUp(p, m)]
          /\ acted' = [acted EXCEPT ![m] = IF @ < Enough THEN @ + 1 ELSE @]
      BY <1>5, <2>2 DEF LookUp
    <3>2. poll'[p].mail = {m} /\ \A q \in Pollers : q # p => poll'[q] = poll[q]
      BY <1>0, <3>1 DEF Polls, TakeUp
    <3> SUFFICES ASSUME NEW n \in Mails
                 PROVE  acted'[n] + Budget(n)' <= Cardinality(Pollers) * (1 + faults')
      BY DEF ActedInv
    <3>3. /\ acted[n] \in Nat /\ acted'[n] \in Nat /\ acted'[n] <= acted[n] + 1
          /\ n # m => acted'[n] = acted[n]
          /\ acted[n] + Budget(n) <= Cardinality(Pollers) * (1 + faults)
      BY <1>0, <3>1 DEF ActedInv
    <3>4. Cardinality(Left(n)) \in Nat /\ Cardinality(Left(n)') \in Nat
      BY LeftIsFinite
    <3>5. /\ Cardinality(Pollers) * (1 + faults) \in Nat
          /\ Cardinality(Pollers) * (1 + (faults + 1))
               = Cardinality(Pollers) * (1 + faults) + Cardinality(Pollers)
      BY <1>0, OneMore
    <3>6. CASE n # m
      <4>1. {m} # {n}
        BY <3>6
      <4>2. Left(n)' = Left(n)
        BY <2>0, <3>2, <4>1 DEF Left
      <4>3. Budget(n)' = Budget(n) /\ Budget(n) \in Nat
        BY <2>0, <3>4, <4>2 DEF Budget
      <4>4. faults' = faults \/ faults' = faults + 1
        BY <1>00, <3>1
      <4> QED
        BY <1>0, <3>3, <3>5, <3>6, <4>3, <4>4
    <3>7. CASE n = m /\ m \in recorded
      <4>1. faults' = faults + 1
        BY <1>00, <3>1, <3>7 DEF Recorded
      <4>2. Budget(n) = 0 /\ Budget(n)' = 0
        BY <2>0, <3>7 DEF Budget
      <4> QED
        BY <1>0, <3>3, <3>5, <4>1, <4>2
    <3>8. CASE n = m /\ m \notin recorded
      <4>1. faults' = faults
        BY <3>1, <3>8 DEF Recorded
      <4>2. p \in Left(m) /\ Left(m)' = Left(m) \ {p}
        BY <2>0, <3>2 DEF Left
      <4>3. Cardinality(Left(m)') = Cardinality(Left(m)) - 1
        BY <4>2, LeftIsFinite, FS_RemoveElement
      <4>4. Budget(n) = Cardinality(Left(m)) /\ Budget(n)' = Cardinality(Left(m)')
        BY <2>0, <3>8 DEF Budget
      <4> QED
        BY <1>0, <3>3, <3>4, <3>5, <3>8, <4>1, <4>3, <4>4
    <3> QED
      BY <3>6, <3>7, <3>8
  <2> QED
    BY <2>1, <2>2
<1>6. CASE CoolDown
  BY <1>6, ActedCalm DEF CoolDown, Left, fileVars
<1>7. CASE Crash
  BY <1>7, <1>00, ActedFault DEF Crash
<1> QED
  BY <1>1, <1>2, <1>3, <1>4, <1>5, <1>6, <1>7, CountedSteps

\* A mail is acted on once for each poll there may be, and as often again for
\* each failure, however many polls, mails and failures there are
\* (_is_already_processed, _record_processing).
THEOREM MailsAreActedOnSparingly == Spec => []ActedSparingly
<1>1. MailInv /\ Init => ActedInv
  <2> SUFFICES ASSUME MailInv, Init, NEW m \in Mails
               PROVE  acted[m] + Budget(m) <= Cardinality(Pollers) * (1 + faults)
    BY DEF ActedInv
  <2>1. acted[m] = 0 /\ faults = 0 /\ recorded = {}
    BY DEF Init, FilesInit
  <2>2. Budget(m) \in 0..Cardinality(Pollers) /\ Cardinality(Pollers) \in Nat
    BY <2>1, LeftIsFinite, MailBounds DEF Budget
  <2> QED
    BY <2>1, <2>2
<1>2. MailInv /\ ActedInv => ActedSparingly
  <2> SUFFICES ASSUME MailInv, ActedInv, NEW m \in Mails
               PROVE  acted[m] <= Cardinality(Pollers) * (1 + faults)
    BY DEF ActedSparingly
  <2>1. /\ acted[m] + Budget(m) <= Cardinality(Pollers) * (1 + faults)
        /\ acted[m] \in Nat /\ faults \in Nat /\ Cardinality(Pollers) \in Nat
    BY MailBounds DEF ActedInv, MailInv, TypeOK, FilesTypeOK
  <2>2. Budget(m) \in Nat
    BY LeftIsFinite DEF Budget
  <2>3. Cardinality(Pollers) * (1 + faults) \in Nat
    BY <2>1, OneMore
  <2> QED
    BY <2>1, <2>2, <2>3
<1>3. MailInv /\ ActedInv /\ [Next]_vars => MailInv' /\ ActedInv'
  BY MailStep, ActedStep
<1> QED
  BY <1>1, <1>2, <1>3, MailStart, PTL DEF Spec

-----------------------------------------------------------------------------
(* The cap.                                                                *)

\* What a poll has before it: no more than a page, each mail once; and a poll
\* that is about to reply began below the cap.
PageFits(b) ==
  /\ IsFiniteSet(b.page \cup b.mail) /\ Cardinality(b.page \cup b.mail) <= Page
  /\ b.page \cap b.mail = {}
  /\ b.pc = "reply" => b.count < Cap

PagesFit(f) == \A p \in Pollers : PageFits(f[p])

PageInv == PagesFit(poll)

\* One poll takes a step, or all of them stop.
LEMMA PageOne ==
  ASSUME PageInv, NEW p \in Pollers, PageFits(poll'[p]),
         \A q \in Pollers : q # p => poll'[q] = poll[q]
  PROVE  PageInv'
BY DEF PageInv, PagesFit, PageFits

LEMMA PageFewer ==
  ASSUME PageInv, NEW p \in Pollers, NEW b,
         b.page \cup b.mail \subseteq poll[p].page \cup poll[p].mail,
         b.page \cap b.mail = {}, b.pc = "reply" => b.count < Cap
  PROVE  PageFits(b)
<1>1. /\ IsFiniteSet(poll[p].page \cup poll[p].mail)
      /\ Cardinality(poll[p].page \cup poll[p].mail) <= Page
  BY DEF PageInv, PagesFit, PageFits
<1>2. /\ IsFiniteSet(b.page \cup b.mail)
      /\ Cardinality(b.page \cup b.mail) <= Cardinality(poll[p].page \cup poll[p].mail)
  BY <1>1, FS_Subset
<1>3. /\ Cardinality(b.page \cup b.mail) \in Nat /\ Page \in Nat
      /\ Cardinality(poll[p].page \cup poll[p].mail) \in Nat
  BY <1>1, <1>2, FS_CardinalityType, MailAssumption
<1> QED
  BY <1>1, <1>2, <1>3 DEF PageFits

LEMMA PageStart == PageFits(Resting)
BY FS_EmptySet, MailAssumption DEF PageFits, Resting

LEMMA PageStep ==
  ASSUME MailInv, PageInv, [Next]_vars
  PROVE  PageInv'
<1>0. poll \in [Pollers -> Polls] /\ Held /\ Cap \in Nat
  BY MailBounds DEF MailInv, TypeOK
<1>1. CASE UNCHANGED poll
  BY <1>1 DEF PageInv, PagesFit
<1>2. ASSUME NEW p \in Pollers, BeginPoll(p) PROVE PageInv'
  <2>1. PICK page \in Pages :
          poll' = [poll EXCEPT ![p] = [pc |-> "next", page |-> page, mail |-> {}, count |-> today]]
    BY <1>2 DEF BeginPoll
  <2>2. IsFiniteSet(page) /\ Cardinality(page) <= Page /\ page \cup {} = page
    BY DEF Pages
  <2>3. PageFits([pc |-> "next", page |-> page, mail |-> {}, count |-> today])
    BY <2>2 DEF PageFits
  <2> QED
    BY <1>0, <2>1, <2>3, PageOne
<1>3. ASSUME NEW p \in Pollers, EndPoll(p) PROVE PageInv'
  BY <1>0, <1>3, PageStart, PageOne DEF EndPoll
<1>4. ASSUME NEW p \in Pollers, NEW pc, GoesTo(p, pc), pc = "reply" => poll[p].count < Cap
      PROVE  PageInv'
  <2>1. /\ poll'[p].page = poll[p].page /\ poll'[p].mail = poll[p].mail
        /\ poll'[p].count = poll[p].count /\ poll'[p].pc = pc
        /\ \A q \in Pollers : q # p => poll'[q] = poll[q]
    BY <1>0, <1>4 DEF GoesTo, Polls
  <2>2. PageFits(poll'[p])
    BY <1>4, <2>1 DEF PageInv, PagesFit, PageFits
  <2> QED
    BY <2>1, <2>2, PageOne
<1>5. ASSUME NEW p \in Pollers, Trigger(p) \/ Reply(p) \/ CountReply(p) PROVE PageInv'
  <2>1. \E pc \in {"limit", "count", "record"} : GoesTo(p, pc)
    BY <1>5 DEF Trigger, AfterTrigger, Reply, CountReply
  <2> QED
    BY <1>4, <2>1
<1>6. ASSUME NEW p \in Pollers, CheckLimit(p) PROVE PageInv'
  <2>1. poll[p].count \in Nat
    BY <1>0 DEF Polls
  <2>2. GoesTo(p, "record") \/ (GoesTo(p, "reply") /\ poll[p].count < Cap)
    BY <1>0, <1>6, <2>1 DEF CheckLimit, Limited
  <2> QED
    BY <1>4, <2>2
<1>7. ASSUME NEW p \in Pollers, Record(p) PROVE PageInv'
  <2>1. /\ poll'[p].page = poll[p].page /\ poll'[p].mail = {} /\ poll'[p].pc = "next"
        /\ \A q \in Pollers : q # p => poll'[q] = poll[q]
    BY <1>0, <1>7 DEF Record, Polls
  <2>2. PageFits(poll'[p])
    BY <2>1, PageFewer
  <2> QED
    BY <2>1, <2>2, PageOne
<1>8. ASSUME NEW p \in Pollers, NEW m \in Mails, LookUp(p, m) PROVE PageInv'
  <2>1. /\ \/ poll' = [poll EXCEPT ![p].page = @ \ {m}]
           \/ poll' = [poll EXCEPT ![p] = TakeUp(p, m)]
        /\ poll[p].pc = "next" /\ m \in poll[p].page /\ poll[p].mail = {}
    BY <1>0, <1>8 DEF LookUp, At, Held
  <2>2. /\ poll'[p].page = poll[p].page \ {m} /\ poll'[p].mail \in {{}, {m}}
        /\ poll'[p].pc \in {"next", "act", "limit"}
        /\ \A q \in Pollers : q # p => poll'[q] = poll[q]
    <3>1. poll[p] \in Polls
      BY <1>0
    <3>2. CASE poll' = [poll EXCEPT ![p].page = @ \ {m}]
      BY <1>0, <2>1, <3>1, <3>2 DEF Polls
    <3>3. CASE poll' = [poll EXCEPT ![p] = TakeUp(p, m)]
      BY <1>0, <2>1, <3>1, <3>3 DEF Polls, TakeUp
    <3> QED
      BY <2>1, <3>2, <3>3
  <2>3. PageFits(poll'[p])
    BY <2>1, <2>2, PageFewer
  <2> QED
    BY <2>2, <2>3, PageOne
<1>9. CASE Crash
  <2>1. \A p \in Pollers : poll'[p] = Resting
    BY <1>9 DEF Crash
  <2> QED
    BY <2>1, PageStart DEF PageInv, PagesFit
<1>10. CASE CoolDown
  BY <1>1, <1>10 DEF CoolDown
<1> QED
  BY <1>1, <1>2, <1>3, <1>5, <1>6, <1>7, <1>8, <1>9, <1>10, CountedSteps

\* The mails polls have before them: those that may be answered yet, and those
\* that have been and are still to be counted.
Before(f)    == {x \in Pollers \X Mails : x[2] \in f[x[1]].page \cup f[x[1]].mail}
PendingIn(f) == {x \in Before(f) : /\ f[x[1]].count < Cap
                                   /\ \/ x[2] \in f[x[1]].page
                                      \/ f[x[1]].pc \in {"act", "limit", "reply"}}
SendingIn(f) == {x \in Before(f) : x[2] \in f[x[1]].mail /\ f[x[1]].pc = "count"}

Pending == PendingIn(poll)
Sending == SendingIn(poll)

\* No more than a page for each poll: number the mails of every page.
LEMMA BeforeBound ==
  ASSUME NEW h, PagesFit(h)
  PROVE  /\ IsFiniteSet(Before(h)) /\ Cardinality(Before(h)) <= Cardinality(Pollers) * Page
         /\ Cardinality(Pollers) * Page \in Nat
<1> DEFINE S(p) == h[p].page \cup h[p].mail
           F == [p \in Pollers |-> CHOOSE f : f \in Injection(S(p), 1..Page)]
           g == [x \in Before(h) |-> <<x[1], F[x[1]][x[2]]>>]
<1>1. ASSUME NEW p \in Pollers PROVE F[p] \in Injection(S(p), 1..Page)
  <2>1. IsFiniteSet(S(p)) /\ Cardinality(S(p)) <= Page /\ Page \in Nat /\ Cardinality(S(p)) \in Nat
    BY MailAssumption, FS_CardinalityType DEF PagesFit, PageFits
  <2> HIDE DEF S
  <2>2. ExistsBijection(1..Cardinality(S(p)), S(p))
    BY <2>1, FS_CardinalityType
  <2>3. ExistsBijection(S(p), 1..Cardinality(S(p)))
    BY <2>2, Fun_ExistsBijSymmetric
  <2>4. PICK f : f \in Injection(S(p), 1..Cardinality(S(p)))
    BY <2>3 DEF ExistsBijection, Bijection
  <2>5. f \in [S(p) -> 1..Cardinality(S(p))] /\ \A a, b \in S(p) : f[a] = f[b] => a = b
    BY <2>4 DEF Injection, IsInjective
  <2>6. f \in [S(p) -> 1..Page]
    BY <2>1, <2>5
  <2>7. f \in Injection(S(p), 1..Page)
    BY <2>5, <2>6, Fun_IsInj
  <2> QED
    BY <2>7
<1>2. ASSUME NEW x \in Before(h)
      PROVE  /\ x[1] \in Pollers /\ x[2] \in S(x[1]) /\ x = <<x[1], x[2]>>
             /\ F[x[1]][x[2]] \in 1..Page
  <2>1. x[1] \in Pollers /\ x[2] \in S(x[1]) /\ x = <<x[1], x[2]>>
    BY DEF Before
  <2>2. F[x[1]] \in [S(x[1]) -> 1..Page]
    BY <1>1, <2>1, Fun_InjectionProperties
  <2> HIDE DEF F, S
  <2> QED
    BY <2>1, <2>2
<1>3. ASSUME NEW x \in Before(h), NEW y \in Before(h), g[x] = g[y] PROVE x = y
  <2>1. x[1] = y[1] /\ F[x[1]][x[2]] = F[x[1]][y[2]]
    <3> HIDE DEF F
    <3> QED
      BY <1>3
  <2>2. x[2] \in S(x[1]) /\ y[2] \in S(x[1]) /\ x[1] \in Pollers
    BY <1>2, <2>1
  <2>3. \A a, b \in S(x[1]) : F[x[1]][a] = F[x[1]][b] => a = b
    <3>1. F[x[1]] \in Injection(S(x[1]), 1..Page)
      BY <1>1, <2>2
    <3> HIDE DEF F, S
    <3> QED
      BY <3>1, Fun_InjectionProperties
  <2>4. x[2] = y[2]
    <3> HIDE DEF F, S
    <3> QED
      BY <2>1, <2>2, <2>3
  <2> QED
    BY <1>2, <2>1, <2>4
<1>4. g \in [Before(h) -> Pollers \X (1..Page)]
  <2> HIDE DEF F, S
  <2> QED
    BY <1>2
<1>5. g \in Injection(Before(h), Pollers \X (1..Page))
  <2> HIDE DEF g
  <2> QED
    BY <1>3, <1>4, Fun_IsInj
<1>6. /\ IsFiniteSet(1..Page) /\ Cardinality(1..Page) = Page
      /\ IsFiniteSet(Pollers) /\ Cardinality(Pollers) \in Nat /\ Page \in Nat
  BY MailBounds, MailAssumption, FS_Interval
<1>7. /\ IsFiniteSet(Pollers \X (1..Page))
      /\ Cardinality(Pollers \X (1..Page)) = Cardinality(Pollers) * Page
  BY <1>6, FS_Product
<1>8. IsFiniteSet(Before(h)) /\ Cardinality(Before(h)) <= Cardinality(Pollers \X (1..Page))
  <2> HIDE DEF g
  <2> QED
    BY <1>5, <1>7, FS_Injection
<1> QED
  BY <1>6, <1>7, <1>8

LEMMA PairsAreFinite ==
  ASSUME NEW h, PagesFit(h)
  PROVE  /\ IsFiniteSet(PendingIn(h)) /\ Cardinality(PendingIn(h)) \in Nat
         /\ IsFiniteSet(SendingIn(h)) /\ Cardinality(SendingIn(h)) \in Nat
         /\ Cardinality(PendingIn(h)) + Cardinality(SendingIn(h)) <= Cardinality(Pollers) * Page
<1>1. IsFiniteSet(Before(h)) /\ PendingIn(h) \in SUBSET Before(h) /\ SendingIn(h) \in SUBSET Before(h)
  BY BeforeBound DEF PendingIn, SendingIn
<1>2. IsFiniteSet(PendingIn(h)) /\ IsFiniteSet(SendingIn(h))
  BY <1>1, FS_Subset
<1>3. PendingIn(h) \cap SendingIn(h) = {}
  BY DEF PagesFit, PageFits, PendingIn, SendingIn, Before
<1>4. Cardinality(PendingIn(h) \cup SendingIn(h)) = Cardinality(PendingIn(h)) + Cardinality(SendingIn(h))
  <2>1. Cardinality(PendingIn(h) \cup SendingIn(h))
          = Cardinality(PendingIn(h)) + Cardinality(SendingIn(h)) - Cardinality(PendingIn(h) \cap SendingIn(h))
    BY <1>2, FS_Union
  <2>2. Cardinality(PendingIn(h) \cap SendingIn(h)) = 0
    BY <1>3, FS_EmptySet
  <2>3. Cardinality(PendingIn(h)) \in Nat /\ Cardinality(SendingIn(h)) \in Nat
    BY <1>2, FS_CardinalityType
  <2> QED
    BY <2>1, <2>2, <2>3
<1>5. Cardinality(PendingIn(h) \cup SendingIn(h)) <= Cardinality(Before(h))
  BY <1>1, FS_Subset
<1>6. /\ Cardinality(Before(h)) \in Nat /\ Cardinality(PendingIn(h)) \in Nat /\ Cardinality(SendingIn(h)) \in Nat
  BY <1>1, <1>2, FS_CardinalityType
<1> QED
  BY <1>2, <1>4, <1>5, <1>6, BeforeBound

\* Now, and after a step.
LEMMA PairsNow ==
  ASSUME PageInv, PageInv'
  PROVE  /\ IsFiniteSet(Pending) /\ Cardinality(Pending) \in Nat
         /\ IsFiniteSet(Sending) /\ Cardinality(Sending) \in Nat
         /\ IsFiniteSet(Pending') /\ Cardinality(Pending') \in Nat
         /\ IsFiniteSet(Sending') /\ Cardinality(Sending') \in Nat
         /\ Cardinality(Pending') + Cardinality(Sending') <= Cardinality(Pollers) * Page
         /\ Cardinality(Pollers) * Page \in Nat
<1>1. PagesFit(poll) /\ PagesFit(poll') /\ Pending = PendingIn(poll) /\ Sending = SendingIn(poll)
      /\ Pending' = PendingIn(poll') /\ Sending' = SendingIn(poll')
  BY DEF PageInv, Pending, Sending, PagesFit, PendingIn, SendingIn, Before
<1> QED
  BY <1>1, PairsAreFinite, BeforeBound

\* Polls that are about to reply, and that are about to record a reply, sent or
\* refused, or on their way there.
ToReply  == {p \in Pollers : poll[p].pc = "reply"}
ToSettle == {p \in Pollers :
               \/ poll[p].pc = "count"
               \/ poll[p].pc = "record" /\ poll[p].mail \cap ForWorkflow = {}}

\* No poll that is under way may reply.
AllSpent ==
  /\ today >= Cap
  /\ \A p \in Pollers : \/ poll[p].pc = "idle"
                        \/ poll[p].count >= Cap /\ poll[p].pc # "reply"

\* What is sent is counted.
Tally == faults = 0 => sent = today + Cardinality(Sending)

\* A poll that begins finds the cap unreached, and has a page before it.
ByPage ==
  faults = 0 => sent + Cardinality(Pending) <= Cap + Cardinality(Pollers) * Page - 1

\* Without the cooldown every reply above the cap, up to the last one below it,
\* is some poll's that will start the cooldown; with it, only polls that had
\* passed the check may reply.
ByCooldown ==
  faults = 0 /\ ~both /\ ~cooled =>
    /\ sent < Cap + Cardinality(Pollers)
    /\ cooling => sent + Cardinality(ToReply) < Cap + Cardinality(Pollers)
    /\ ~cooling => sent < Cap + Cardinality(ToSettle) \/ AllSpent

CapInv == Tally /\ ByPage /\ ByCooldown

LEMMA SetsAreFinite ==
  /\ IsFiniteSet(ToReply) /\ Cardinality(ToReply) \in 0..Cardinality(Pollers)
  /\ IsFiniteSet(ToReply)' /\ Cardinality(ToReply)' \in 0..Cardinality(Pollers)
  /\ IsFiniteSet(ToSettle) /\ Cardinality(ToSettle) \in 0..Cardinality(Pollers)
  /\ IsFiniteSet(ToSettle)' /\ Cardinality(ToSettle)' \in 0..Cardinality(Pollers)
<1>1. /\ ToReply \subseteq Pollers /\ ToReply' \subseteq Pollers
      /\ ToSettle \subseteq Pollers /\ ToSettle' \subseteq Pollers
  BY DEF ToReply, ToSettle
<1> QED
  BY <1>1, MailBounds, FS_Subset, FS_CardinalityType

\* Who is about to reply has not replied yet.
LEMMA TogetherAtMostAll == Cardinality(ToReply) + Cardinality(ToSettle) <= Cardinality(Pollers)
<1>1. ToReply \cap ToSettle = {} /\ ToReply \cup ToSettle \subseteq Pollers
  BY DEF ToReply, ToSettle
<1>2. Cardinality(ToReply \cup ToSettle) = Cardinality(ToReply) + Cardinality(ToSettle)
  <2>1. Cardinality(ToReply \cup ToSettle)
          = Cardinality(ToReply) + Cardinality(ToSettle) - Cardinality(ToReply \cap ToSettle)
    BY SetsAreFinite, FS_Union
  <2>2. Cardinality(ToReply \cap ToSettle) = 0
    BY <1>1, FS_EmptySet
  <2> QED
    BY <2>1, <2>2, SetsAreFinite
<1> QED
  BY <1>1, <1>2, MailBounds, FS_Subset

\* A poll that neither starts nor ends counting, and has no more before it that
\* it may answer.
LEMMA PairsCalm ==
  ASSUME NEW p \in Pollers, \A q \in Pollers : q # p => poll'[q] = poll[q],
         poll[p].pc # "count", poll'[p].pc # "count",
         \/ ~(poll'[p].count < Cap)
         \/ poll'[p].page = {} /\ poll'[p].mail = {}
         \/ /\ poll'[p].count = poll[p].count /\ poll'[p].page \subseteq poll[p].page
            /\ \/ poll'[p].pc \notin {"act", "limit", "reply"}
               \/ poll'[p].mail \subseteq poll[p].page
               \/ poll'[p].mail = poll[p].mail /\ poll[p].pc \in {"act", "limit", "reply"}
  PROVE  Sending' = Sending /\ Pending' \subseteq Pending
<1>1. Sending' = Sending
  BY DEF Sending, SendingIn, Before
<1>2. ASSUME NEW x \in Pending' PROVE x \in Pending
  <2>1. /\ x \in Pollers \X Mails /\ x[1] \in Pollers
        /\ x[2] \in poll'[x[1]].page \cup poll'[x[1]].mail
        /\ poll'[x[1]].count < Cap
        /\ x[2] \in poll'[x[1]].page \/ poll'[x[1]].pc \in {"act", "limit", "reply"}
    BY <1>2 DEF Pending, PendingIn, Before
  <2>2. CASE x[1] # p
    BY <2>1, <2>2 DEF Pending, PendingIn, Before
  <2>3. CASE x[1] = p
    BY <2>1, <2>3 DEF Pending, PendingIn, Before
  <2> QED
    BY <2>2, <2>3
<1> QED
  BY <1>1, <1>2

\* Steps that count nothing and let nobody reply. A poll may begin with the
\* day's count.
LEMMA CapCalm ==
  ASSUME MailInv, MailInv', PageInv, PageInv', CapInv,
         UNCHANGED <<sent, today, cooling, both, cooled, faults>>,
         Sending' = Sending, Pending' \subseteq Pending,
         ToReply' = ToReply, ToSettle \subseteq ToSettle',
         \A p \in Pollers :
           \/ poll'[p].pc = "idle"
           \/ poll'[p].count = today
           \/ poll[p].pc # "idle" /\ poll'[p].count = poll[p].count
  PROVE  CapInv'
<1>1. sent \in Nat /\ today \in Nat /\ Cap \in Nat /\ Cardinality(Pollers) \in Nat
  BY MailBounds DEF MailInv, TypeOK
<1>2. Tally'
  BY DEF CapInv, Tally
<1>3. ByPage'
  <2>1. Cardinality(Pending') <= Cardinality(Pending)
    BY PairsNow, FS_Subset
  <2>2. Cardinality(Pending) \in Nat /\ Cardinality(Pending') \in Nat
    BY PairsNow
  <2>3. Cardinality(Pollers) * Page \in Nat
    BY PairsNow
  <2> QED
    BY <1>1, <2>1, <2>2, <2>3 DEF CapInv, ByPage
<1>4. ByCooldown'
  <2>1. Cardinality(ToSettle) <= Cardinality(ToSettle')
    BY SetsAreFinite, FS_Subset
  <2>2. AllSpent => AllSpent'
    BY DEF AllSpent, ToReply
  <2> QED
    BY <1>1, <2>1, <2>2, SetsAreFinite DEF CapInv, ByCooldown
<1> QED
  BY <1>2, <1>3, <1>4 DEF CapInv

\* A failure is the end of the promise.
LEMMA CapFault ==
  ASSUME MailInv, Fault
  PROVE  CapInv'
BY Counted DEF MailInv, TypeOK, FilesTypeOK, CapInv, Tally, ByPage, ByCooldown

\* One poll moves, with the mail and the count it has.
LEMMA OneMoves ==
  ASSUME MailInv, NEW p \in Pollers, NEW pc, GoesTo(p, pc)
  PROVE  /\ poll'[p].pc = pc /\ poll'[p].mail = poll[p].mail /\ poll'[p].count = poll[p].count
         /\ poll'[p].page = poll[p].page
         /\ \A q \in Pollers : q # p => poll'[q] = poll[q]
BY DEF MailInv, TypeOK, Polls, GoesTo

\* A poll that begins, while it is the day's count that it goes by.
LEMMA CapBegins ==
  ASSUME MailInv, MailInv', PageInv, PageInv', CapInv, NEW p \in Pollers, BeginPoll(p)
  PROVE  CapInv'
<1>0. /\ poll \in [Pollers -> Polls] /\ sent \in Nat /\ today \in Nat /\ Cap \in Nat
      /\ Cardinality(Pollers) \in Nat
  BY MailBounds DEF MailInv, TypeOK
<1>1. /\ UNCHANGED <<sent, today, cooling, both, cooled, faults>>
      /\ poll[p].pc = "idle" /\ poll'[p].pc = "next" /\ poll'[p].count = today
      /\ \A q \in Pollers : q # p => poll'[q] = poll[q]
  <2>1. PICK page \in Pages :
          poll' = [poll EXCEPT ![p] = [pc |-> "next", page |-> page, mail |-> {}, count |-> today]]
    BY DEF BeginPoll
  <2> QED
    BY <1>0, <2>1 DEF BeginPoll, At
<1>2. ToReply' = ToReply /\ ToSettle \subseteq ToSettle'
  BY <1>1 DEF ToReply, ToSettle
<1>3. \A q \in Pollers : \/ poll'[q].pc = "idle" \/ poll'[q].count = today
                         \/ poll[q].pc # "idle" /\ poll'[q].count = poll[q].count
  BY <1>1
<1>4. CASE ~(today < Cap)
  <2>1. Sending' = Sending /\ Pending' \subseteq Pending
    BY <1>1, <1>4, PairsCalm
  <2> QED
    BY <1>1, <1>2, <1>3, <2>1, CapCalm
<1>5. CASE today < Cap
  <2>1. Sending' = Sending
    BY <1>1 DEF Sending, SendingIn, Before
  <2>2. Tally'
    BY <1>1, <2>1 DEF CapInv, Tally
  <2>3. ByPage'
    <3>1. /\ Cardinality(Pending') \in Nat /\ Cardinality(Sending') \in Nat
          /\ Cardinality(Pending') + Cardinality(Sending') <= Cardinality(Pollers) * Page
      BY PairsNow
    <3>2. Cardinality(Pollers) * Page \in Nat
      BY PairsNow
    <3>3. faults' = 0 => sent' = today + Cardinality(Sending')
      BY <1>1, <2>2 DEF Tally
    <3> QED
      BY <1>0, <1>1, <1>5, <3>1, <3>2, <3>3 DEF ByPage
  <2>4. ByCooldown'
    <3>1. Cardinality(ToSettle) <= Cardinality(ToSettle')
      BY <1>2, SetsAreFinite, FS_Subset
    <3>2. AllSpent => AllSpent'
      BY <1>1, <1>2, <1>3 DEF AllSpent, ToReply
    <3> QED
      BY <1>0, <1>1, <1>2, <3>1, <3>2, SetsAreFinite DEF CapInv, ByCooldown
  <2> QED
    BY <2>2, <2>3, <2>4 DEF CapInv
<1> QED
  BY <1>4, <1>5

\* A reply is sent.
LEMMA CapReplies ==
  ASSUME MailInv, MailInv', PageInv, PageInv', CapInv, NEW p \in Pollers,
         poll[p].pc = "reply", GoesTo(p, "count"), sent' = sent + 1,
         UNCHANGED <<today, cooling, both, cooled, faults>>
  PROVE  CapInv'
<1>0. /\ poll \in [Pollers -> Polls] /\ Held /\ sent \in Nat /\ today \in Nat /\ Cap \in Nat
      /\ Cardinality(Pollers) \in Nat
  BY MailBounds DEF MailInv, TypeOK
<1>1. /\ poll'[p].pc = "count" /\ poll'[p].mail = poll[p].mail
      /\ poll'[p].count = poll[p].count /\ poll'[p].page = poll[p].page
      /\ \A q \in Pollers : q # p => poll'[q] = poll[q]
  BY OneMoves
<1>2. PICK m \in Mails : poll[p].mail = {m}
  BY <1>0 DEF Held
<1>3. poll[p].count < Cap /\ m \notin poll[p].page
  BY <1>2 DEF PageInv, PagesFit, PageFits
<1> DEFINE x == <<p, m>>
<1>4. x \in Pending /\ Pending' = Pending \ {x}
  <2>1. x \in Pollers \X Mails /\ x[1] = p /\ x[2] = m
    OBVIOUS
  <2>2. x \in Pending
    BY <1>2, <1>3, <2>1 DEF Pending, PendingIn, Before
  <2>3. ASSUME NEW y \in Pollers \X Mails PROVE y \in Pending' <=> y \in Pending \ {x}
    <3>1. y[1] \in Pollers /\ y = <<y[1], y[2]>>
      OBVIOUS
    <3>2. CASE y[1] # p
      BY <1>1, <2>1, <3>1, <3>2 DEF Pending, PendingIn, Before
    <3>3. CASE y[1] = p
      <4>1. y \in Pending <=> y[2] \in poll[p].page \/ y[2] = m
        BY <1>2, <1>3, <3>3 DEF Pending, PendingIn, Before
      <4>2. y \in Pending' <=> y[2] \in poll[p].page
        BY <1>1, <1>3, <3>3 DEF Pending, PendingIn, Before
      <4>3. y = x <=> y[2] = m
        BY <3>1, <3>3
      <4> QED
        BY <1>3, <4>1, <4>2, <4>3
    <3> QED
      BY <3>2, <3>3
  <2>4. Pending \subseteq Pollers \X Mails /\ Pending' \subseteq Pollers \X Mails
    BY DEF Pending, PendingIn, Before
  <2> QED
    BY <2>2, <2>3, <2>4
<1>5. x \notin Sending /\ Sending' = Sending \cup {x}
  <2>1. x \in Pollers \X Mails /\ x[1] = p /\ x[2] = m
    OBVIOUS
  <2>2. ASSUME NEW y \in Pollers \X Mails PROVE y \in Sending' <=> y \in Sending \cup {x}
    <3>1. y[1] \in Pollers /\ y = <<y[1], y[2]>>
      OBVIOUS
    <3>2. CASE y[1] # p
      BY <1>1, <2>1, <3>1, <3>2 DEF Sending, SendingIn, Before
    <3>3. CASE y[1] = p
      <4>1. y \notin Sending
        BY <3>3 DEF Sending, SendingIn
      <4>2. y \in Sending' <=> y[2] = m
        BY <1>1, <1>2, <3>3 DEF Sending, SendingIn, Before
      <4> QED
        BY <3>1, <3>3, <4>1, <4>2
    <3> QED
      BY <3>2, <3>3
  <2>3. x \notin Sending
    BY <2>1 DEF Sending, SendingIn
  <2>4. Sending \subseteq Pollers \X Mails /\ Sending' \subseteq Pollers \X Mails
    BY DEF Sending, SendingIn, Before
  <2> QED
    BY <2>1, <2>2, <2>3, <2>4
<1> HIDE DEF x
<1>6. /\ Cardinality(Pending') = Cardinality(Pending) - 1
      /\ Cardinality(Sending') = Cardinality(Sending) + 1
      /\ Cardinality(Pending) \in Nat /\ Cardinality(Sending) \in Nat
  BY <1>4, <1>5, PairsNow, FS_AddElement, FS_RemoveElement
<1>7. Tally'
  BY <1>0, <1>6 DEF CapInv, Tally
<1>8. ByPage'
  <2>1. Cardinality(Pollers) * Page \in Nat
    BY PairsNow
  <2> QED
    BY <1>0, <1>6, <2>1 DEF CapInv, ByPage
<1>9. ByCooldown'
  <2>1. /\ p \in ToReply /\ ToReply' = ToReply \ {p}
        /\ p \notin ToSettle /\ ToSettle' = ToSettle \cup {p}
    BY <1>1 DEF ToReply, ToSettle
  <2>2. /\ Cardinality(ToReply') = Cardinality(ToReply) - 1
        /\ Cardinality(ToSettle') = Cardinality(ToSettle) + 1
    BY <2>1, SetsAreFinite, FS_AddElement, FS_RemoveElement
  <2>3. ~AllSpent
    BY DEF AllSpent
  <2> QED
    BY <1>0, <2>2, <2>3, SetsAreFinite DEF CapInv, ByCooldown
<1> QED
  BY <1>7, <1>8, <1>9 DEF CapInv

\* A reply that has been sent is counted.
LEMMA CapCounts ==
  ASSUME MailInv, MailInv', PageInv, PageInv', CapInv, NEW p \in Pollers,
         poll[p].pc = "count", GoesTo(p, "record"), today' = today + 1,
         UNCHANGED <<sent, cooling, both, cooled, faults>>
  PROVE  CapInv'
<1>0. /\ poll \in [Pollers -> Polls] /\ Held /\ sent \in Nat /\ today \in Nat /\ Cap \in Nat
      /\ Cardinality(Pollers) \in Nat
  BY MailBounds DEF MailInv, TypeOK
<1>1. /\ poll'[p].pc = "record" /\ poll'[p].mail = poll[p].mail
      /\ poll'[p].count = poll[p].count /\ poll'[p].page = poll[p].page
      /\ \A q \in Pollers : q # p => poll'[q] = poll[q]
  BY OneMoves
<1>2. PICK m \in Mails : poll[p].mail = {m} /\ m \notin ForWorkflow
  BY <1>0 DEF Held, Replies
<1> DEFINE x == <<p, m>>
<1>3. x \in Sending /\ Sending' = Sending \ {x}
  <2>1. x \in Pollers \X Mails /\ x[1] = p /\ x[2] = m
    OBVIOUS
  <2>2. ASSUME NEW y \in Pollers \X Mails PROVE y \in Sending' <=> y \in Sending \ {x}
    <3>1. y[1] \in Pollers /\ y = <<y[1], y[2]>>
      OBVIOUS
    <3>2. CASE y[1] # p
      BY <1>1, <2>1, <3>1, <3>2 DEF Sending, SendingIn, Before
    <3>3. CASE y[1] = p
      <4>1. y \notin Sending'
        BY <1>1, <3>3 DEF Sending, SendingIn
      <4>2. y \in Sending <=> y[2] = m
        BY <1>2, <3>3 DEF Sending, SendingIn, Before
      <4> QED
        BY <3>1, <3>3, <4>1, <4>2
    <3> QED
      BY <3>2, <3>3
  <2>3. x \in Sending
    BY <1>2, <2>1 DEF Sending, SendingIn, Before
  <2>4. Sending \subseteq Pollers \X Mails /\ Sending' \subseteq Pollers \X Mails
    BY DEF Sending, SendingIn, Before
  <2> QED
    BY <2>2, <2>3, <2>4
<1>4. Pending' \subseteq Pending
  <2>1. ASSUME NEW y \in Pending' PROVE y \in Pending
    <3>1. CASE y[1] # p
      BY <1>1, <2>1, <3>1 DEF Pending, PendingIn, Before
    <3>2. CASE y[1] = p
      BY <1>1, <2>1, <3>2 DEF Pending, PendingIn, Before
    <3> QED
      BY <3>1, <3>2
  <2> QED
    BY <2>1
<1> HIDE DEF x
<1>5. /\ Cardinality(Sending') = Cardinality(Sending) - 1 /\ Cardinality(Sending) \in Nat
      /\ Cardinality(Pending') <= Cardinality(Pending)
      /\ Cardinality(Pending) \in Nat /\ Cardinality(Pending') \in Nat
  BY <1>3, <1>4, PairsNow, FS_Subset, FS_RemoveElement
<1>6. Tally'
  BY <1>0, <1>5 DEF CapInv, Tally
<1>7. ByPage'
  <2>1. Cardinality(Pollers) * Page \in Nat
    BY PairsNow
  <2> QED
    BY <1>0, <1>5, <2>1 DEF CapInv, ByPage
<1>8. ByCooldown'
  <2>1. poll[p].mail \cap ForWorkflow = {}
    BY <1>2
  <2>2. ToReply' = ToReply /\ ToSettle' = ToSettle
    BY <1>1, <2>1 DEF ToReply, ToSettle
  <2>3. AllSpent => AllSpent'
    BY <1>0, <1>1 DEF AllSpent
  <2> QED
    BY <1>0, <2>2, <2>3, SetsAreFinite DEF CapInv, ByCooldown
<1> QED
  BY <1>6, <1>7, <1>8 DEF CapInv

\* A mail is recorded, and may start the cooldown.
LEMMA CapRecords ==
  ASSUME MailInv, MailInv', PageInv, PageInv', CapInv, NEW p \in Pollers,
         Record(p), cooling' = (cooling \/ AsResponse(Of(p))), UNCHANGED faults
  PROVE  CapInv'
<1>0. /\ poll \in [Pollers -> Polls] /\ Held /\ sent \in Nat /\ today \in Nat /\ Cap \in Nat
      /\ cooling \in BOOLEAN /\ both \in BOOLEAN /\ Cardinality(Pollers) \in Nat
  BY MailBounds DEF MailInv, TypeOK
<1>1. /\ poll[p].pc = "record" /\ poll'[p].pc = "next" /\ poll'[p].count = poll[p].count
      /\ poll'[p].page = poll[p].page
      /\ \A q \in Pollers : q # p => poll'[q] = poll[q]
      /\ UNCHANGED <<sent, today, both, cooled, faults>>
  BY <1>0 DEF Record, At, Polls
<1>2. ToReply' = ToReply /\ Sending' = Sending /\ Pending' \subseteq Pending
  BY <1>1, PairsCalm DEF ToReply
<1>3. PICK m \in Mails : poll[p].mail = {m}
  BY <1>0, <1>1 DEF Held
<1>4. Of(p) = m
  BY <1>3, OfHeld
<1>5. CASE m \in ForWorkflow
  <2>1. ToSettle \subseteq ToSettle'
    BY <1>1, <1>3, <1>5 DEF ToSettle
  <2>2. cooling' = cooling
    BY <1>0, <1>4, <1>5 DEF AsResponse, Triggers
  <2>3. \A q \in Pollers : \/ poll'[q].pc = "idle" \/ poll'[q].count = today
                           \/ poll[q].pc # "idle" /\ poll'[q].count = poll[q].count
    BY <1>1
  <2> QED
    BY <1>1, <1>2, <2>1, <2>2, <2>3, CapCalm
<1>6. CASE m \notin ForWorkflow
  <2>1. Tally'
    BY <1>1, <1>2 DEF CapInv, Tally
  <2>2. ByPage'
    <3>1. /\ Cardinality(Pending') <= Cardinality(Pending)
          /\ Cardinality(Pending) \in Nat /\ Cardinality(Pending') \in Nat
      BY <1>2, PairsNow, FS_Subset
    <3>2. Cardinality(Pollers) * Page \in Nat
      BY PairsNow
    <3> QED
      BY <1>0, <1>1, <3>1, <3>2 DEF CapInv, ByPage
  <2>3. ByCooldown'
    <3>1. ~both => cooling' = TRUE
      BY <1>0, <1>4, <1>6 DEF AsResponse, Triggers
    <3>2. AllSpent => Cardinality(ToReply) = 0
      <4>1. AllSpent => ToReply = {}
        BY DEF AllSpent, ToReply
      <4> QED
        BY <4>1, FS_EmptySet
    <3> QED
      BY <1>0, <1>1, <1>2, <3>1, <3>2, SetsAreFinite, TogetherAtMostAll DEF CapInv, ByCooldown
  <2> QED
    BY <2>1, <2>2, <2>3 DEF CapInv
<1> QED
  BY <1>5, <1>6

LEMMA CapStep ==
  ASSUME MailInv, MailInv', PageInv, PageInv', CapInv, [Next]_vars
  PROVE  CapInv'
<1>0. /\ poll \in [Pollers -> Polls] /\ Held /\ FilesTypeOK /\ faults \in Nat
      /\ sent \in Nat /\ today \in Nat /\ cooling \in BOOLEAN /\ cooled \in BOOLEAN
      /\ Cap \in Nat /\ Cardinality(Pollers) \in Nat \ {0}
  BY MailBounds DEF MailInv, TypeOK, FilesTypeOK
<1>1. ASSUME UNCHANGED <<recorded, today, cooling, poll, both, sent, acted, cooled>>,
             UNCHANGED faults
      PROVE  CapInv'
  BY <1>1 DEF CapInv, Tally, ByPage, ByCooldown, AllSpent, ToReply, ToSettle, Pending, Sending
<1>2. ASSUME NEW p \in Pollers, EndPoll(p) PROVE CapInv'
  <2>1. /\ UNCHANGED <<sent, today, cooling, both, cooled, faults>>
        /\ poll[p].pc = "next" /\ poll'[p] = Resting
        /\ \A q \in Pollers : q # p => poll'[q] = poll[q]
    BY <1>0, <1>2 DEF EndPoll, At, fileVars
  <2>2. poll'[p].pc = "idle" /\ poll'[p].page = {} /\ poll'[p].mail = {}
    BY <2>1 DEF Resting
  <2>3. ToReply' = ToReply /\ ToSettle \subseteq ToSettle'
    BY <2>1, <2>2 DEF ToReply, ToSettle
  <2>4. \A q \in Pollers : \/ poll'[q].pc = "idle" \/ poll'[q].count = today
                           \/ poll[q].pc # "idle" /\ poll'[q].count = poll[q].count
    BY <2>1, <2>2
  <2>5. Sending' = Sending /\ Pending' \subseteq Pending
    BY <2>1, <2>2, PairsCalm
  <2> QED
    BY <2>1, <2>3, <2>4, <2>5, CapCalm
<1>3. ASSUME NEW p \in Pollers, NEW m \in Mails, LookUp(p, m), UNCHANGED faults PROVE CapInv'
  <2>1. /\ \/ poll' = [poll EXCEPT ![p].page = @ \ {m}]
           \/ poll' = [poll EXCEPT ![p] = TakeUp(p, m)]
        /\ poll[p].pc = "next" /\ m \in poll[p].page /\ poll[p].mail = {}
    BY <1>0, <1>3 DEF LookUp, At, Held
  <2>2. /\ poll'[p].page = poll[p].page \ {m} /\ poll'[p].mail \in {{}, {m}}
        /\ poll'[p].pc \in {"next", "act", "limit"} /\ poll'[p].count = poll[p].count
        /\ \A q \in Pollers : q # p => poll'[q] = poll[q]
    <3>1. poll[p] \in Polls
      BY <1>0
    <3>2. CASE poll' = [poll EXCEPT ![p].page = @ \ {m}]
      BY <1>0, <2>1, <3>1, <3>2 DEF Polls
    <3>3. CASE poll' = [poll EXCEPT ![p] = TakeUp(p, m)]
      BY <1>0, <2>1, <3>1, <3>3 DEF Polls, TakeUp
    <3> QED
      BY <2>1, <3>2, <3>3
  <2>3. ToReply' = ToReply /\ ToSettle \subseteq ToSettle'
    BY <2>1, <2>2 DEF ToReply, ToSettle
  <2>4. UNCHANGED <<sent, today, cooling, both, cooled>>
    BY <1>3 DEF LookUp
  <2>5. \A q \in Pollers : \/ poll'[q].pc = "idle" \/ poll'[q].count = today
                           \/ poll[q].pc # "idle" /\ poll'[q].count = poll[q].count
    BY <2>1, <2>2
  <2>6. Sending' = Sending /\ Pending' \subseteq Pending
    <3>1. poll'[p].mail \subseteq poll[p].page /\ poll'[p].page \subseteq poll[p].page
      BY <2>1, <2>2
    <3> QED
      BY <2>1, <2>2, <3>1, PairsCalm
  <2> QED
    BY <1>3, <2>3, <2>4, <2>5, <2>6, CapCalm
<1>4. ASSUME NEW p \in Pollers, NEW pc \in {"limit", "record"}, GoesTo(p, pc),
             poll[p].pc \in {"act", "limit"},
             UNCHANGED <<sent, today, cooling, both, cooled, faults>>
      PROVE  CapInv'
  <2>1. /\ poll'[p].pc = pc /\ poll'[p].count = poll[p].count
        /\ poll'[p].page = poll[p].page /\ poll'[p].mail = poll[p].mail
        /\ \A q \in Pollers : q # p => poll'[q] = poll[q]
    BY <1>4, OneMoves
  <2>2. ToReply' = ToReply /\ ToSettle \subseteq ToSettle'
    BY <1>4, <2>1 DEF ToReply, ToSettle
  <2>3. \A q \in Pollers : \/ poll'[q].pc = "idle" \/ poll'[q].count = today
                           \/ poll[q].pc # "idle" /\ poll'[q].count = poll[q].count
    BY <1>4, <2>1
  <2>4. Sending' = Sending /\ Pending' \subseteq Pending
    BY <1>4, <2>1, PairsCalm
  <2> QED
    BY <1>4, <2>2, <2>3, <2>4, CapCalm
<1>5. ASSUME NEW p \in Pollers, GoesTo(p, "reply"), poll[p].pc = "limit", ~Limited(p),
             UNCHANGED <<sent, today, cooling, both, cooled, faults>>
      PROVE  CapInv'
  <2>1. /\ poll'[p].pc = "reply" /\ ~cooling /\ ~(poll[p].count >= Cap)
        /\ poll'[p].count = poll[p].count
        /\ poll'[p].page = poll[p].page /\ poll'[p].mail = poll[p].mail
        /\ \A q \in Pollers : q # p => poll'[q] = poll[q]
    BY <1>5, OneMoves DEF Limited
  <2>2. Sending' = Sending /\ Pending' \subseteq Pending
    BY <1>5, <2>1, PairsCalm
  <2>3. Tally'
    BY <1>5, <2>2 DEF CapInv, Tally
  <2>4. ByPage'
    <3>1. /\ Cardinality(Pending') <= Cardinality(Pending)
          /\ Cardinality(Pending) \in Nat /\ Cardinality(Pending') \in Nat
      BY <2>2, PairsNow, FS_Subset
    <3>2. Cardinality(Pollers) * Page \in Nat
      BY PairsNow
    <3> QED
      BY <1>0, <1>5, <3>1, <3>2 DEF CapInv, ByPage
  <2>5. ToSettle' = ToSettle
    BY <1>5, <2>1 DEF ToSettle
  <2>6. ~AllSpent
    BY <1>5, <2>1 DEF AllSpent
  <2>7. ByCooldown'
    BY <1>5, <2>1, <2>5, <2>6 DEF CapInv, ByCooldown
  <2> QED
    BY <2>3, <2>4, <2>7 DEF CapInv
<1>6. ASSUME NEW p \in Pollers, Reply(p), UNCHANGED faults PROVE CapInv'
  <2>0. CASE Fault
    BY <2>0, CapFault
  <2>1. CASE GoesTo(p, "count") /\ sent' = sent + 1
    BY <1>6, <2>1, CapReplies DEF Reply, At
  <2> QED
    BY <1>6, <2>0, <2>1 DEF Reply
<1>7. ASSUME NEW p \in Pollers, CountReply(p), UNCHANGED faults PROVE CapInv'
  <2>0. CASE Fault
    BY <2>0, CapFault
  <2>1. CASE today' = today + 1
    BY <1>7, <2>1, CapCounts DEF CountReply, At
  <2> QED
    BY <1>7, <2>0, <2>1 DEF CountReply
<1>8. ASSUME NEW p \in Pollers, Record(p), UNCHANGED faults PROVE CapInv'
  <2>0. CASE Fault
    BY <2>0, CapFault
  <2>1. CASE cooling' = (cooling \/ AsResponse(Of(p)))
    BY <1>8, <2>1, CapRecords
  <2> QED
    BY <1>8, <2>0, <2>1 DEF Record
<1>9. CASE CoolDown
  <2>1. /\ UNCHANGED <<poll, sent, today, both, faults>> /\ cooling' = FALSE
        /\ ~cooled' => ~cooled /\ \A p \in Pollers : poll[p].pc = "idle"
    BY <1>9 DEF CoolDown, At, fileVars
  <2>2. Sending' = Sending /\ Pending' = Pending
    BY <2>1 DEF Sending, Pending, SendingIn, PendingIn, Before
  <2>3. Tally' /\ ByPage'
    BY <2>1, <2>2 DEF CapInv, Tally, ByPage
  <2>4. ByCooldown'
    <3> SUFFICES ASSUME faults = 0, ~both, ~cooled'
                 PROVE  /\ sent < Cap + Cardinality(Pollers)
                        /\ sent < Cap + Cardinality(ToSettle') \/ AllSpent'
      BY <2>1 DEF ByCooldown
    <3>1. Sending = {}
      BY <2>1 DEF Sending, SendingIn, Before
    <3>2. sent = today
      BY <1>0, <3>1, FS_EmptySet DEF CapInv, Tally
    <3>3. today >= Cap => AllSpent'
      BY <2>1 DEF AllSpent
    <3>4. sent < Cap + Cardinality(Pollers)
      BY <2>1 DEF CapInv, ByCooldown
    <3> QED
      BY <1>0, <3>2, <3>3, <3>4, SetsAreFinite
  <2> QED
    BY <2>3, <2>4 DEF CapInv
<1>10. CASE Crash
  BY <1>10, CapFault DEF Crash
<1>11. ASSUME NEW p \in Pollers, CheckLimit(p), UNCHANGED faults PROVE CapInv'
  <2>0. poll[p].pc = "limit" /\ UNCHANGED <<sent, today, cooling, both, cooled, faults>>
    BY <1>11 DEF CheckLimit, At
  <2>1. CASE Fault
    BY <2>1, CapFault
  <2>2. CASE GoesTo(p, IF Limited(p) THEN "record" ELSE "reply")
    <3>1. CASE Limited(p)
      BY <1>4, <2>0, <2>2, <3>1
    <3>2. CASE ~Limited(p)
      BY <1>5, <2>0, <2>2, <3>2
    <3> QED
      BY <3>1, <3>2
  <2> QED
    BY <1>11, <2>1, <2>2 DEF CheckLimit
<1>12. ASSUME NEW p \in Pollers, Trigger(p), UNCHANGED faults PROVE CapInv'
  <2>1. poll[p].pc = "act"
    <3>1. call[p] # "idle"
      BY <1>12 DEF Trigger, RequestNext, StartRun
    <3> QED
      BY <3>1 DEF MailInv, TypeOK, At
  <2>2. \E pc \in {"limit", "record"} : GoesTo(p, pc)
    BY <1>12 DEF Trigger, AfterTrigger
  <2>3. UNCHANGED <<sent, today, cooling, both, cooled, faults>>
    BY <1>12 DEF Trigger
  <2> QED
    BY <1>4, <2>1, <2>2, <2>3
<1>13. ASSUME NEW p \in Pollers, BeginPoll(p) PROVE CapInv'
  BY <1>13, CapBegins
<1>14. ASSUME faults' # faults PROVE CapInv'
  <2>1. Fault
    <3>1. ASSUME NEW p \in Pollers, BeginPoll(p) \/ EndPoll(p) \/ Trigger(p)
          PROVE  faults' = faults \/ Fault
      BY <3>1 DEF BeginPoll, EndPoll, Trigger, RequestNext, StartRun, fileVars
    <3>2. ASSUME NEW p \in Pollers, CheckLimit(p) \/ Reply(p) \/ CountReply(p)
          PROVE  faults' = faults \/ Fault
      BY <3>2 DEF CheckLimit, Reply, CountReply
    <3>3. ASSUME NEW p \in Pollers,
                 Record(p) \/ \E m \in Mails : LookUp(p, m)
          PROVE  faults' = faults \/ Fault
      BY <3>3 DEF Record, LookUp
    <3>4. ASSUME CoolDown \/ Crash
          PROVE  faults' = faults \/ Fault
      BY <3>4 DEF CoolDown, Crash, fileVars
    <3> QED
      BY <1>14, <3>1, <3>2, <3>3, <3>4, CountedSteps
  <2> QED
    BY <2>1, CapFault
<1> QED
  BY <1>1, <1>2, <1>3, <1>6, <1>7, <1>8, <1>9, <1>10, <1>11, <1>12, <1>13, <1>14, CountedSteps

\* There is a poll, and a page is not empty.
LEMMA PageOfEach ==
  ASSUME NEW n \in Nat \ {0}, NEW k \in Nat \ {0}
  PROVE  n * k \in Nat \ {0}
OBVIOUS

\* While nothing fails, the day's cap is passed by the polls under way only, for
\* any cap, page and number of polls: by one reply each but one if the cooldown
\* outlasts them, and otherwise - it never starts for an agent that triggers the
\* workflow, too - by what is on their pages, because each of them compares the
\* cap with the number it began with (_check_rate_limit).
THEOREM CapHoldsAlways == Spec => []CapHolds
<1>0. /\ Cap \in Nat /\ Cardinality(Pollers) \in Nat \ {0} /\ Page \in Nat \ {0}
      /\ Cardinality(Pollers) * Page \in Nat \ {0}
  BY MailBounds, MailAssumption, PageOfEach
<1>1. Init => PageInv
  BY PageStart DEF Init, PageInv, PagesFit
<1>2. MailInv /\ Init => CapInv
  <2> SUFFICES ASSUME MailInv, Init PROVE CapInv
    OBVIOUS
  <2>1. /\ sent = 0 /\ today = 0 /\ cooling = FALSE
        /\ \A p \in Pollers : poll[p].pc = "idle" /\ poll[p].page = {} /\ poll[p].mail = {}
    BY DEF Init, Resting
  <2>2. Sending = {} /\ Pending = {}
    BY <2>1 DEF Sending, Pending, SendingIn, PendingIn, Before
  <2>3. Cardinality(Sending) = 0 /\ Cardinality(Pending) = 0
    BY <2>2, FS_EmptySet
  <2>4. Tally /\ ByPage
    BY <1>0, <2>1, <2>3 DEF Tally, ByPage
  <2>5. Cap = 0 => AllSpent
    BY <2>1 DEF AllSpent
  <2>6. ByCooldown
    BY <1>0, <2>1, <2>5, SetsAreFinite DEF ByCooldown
  <2> QED
    BY <2>4, <2>6 DEF CapInv
<1>3. MailInv /\ PageInv /\ CapInv => CapHolds
  <2> SUFFICES ASSUME MailInv, PageInv, CapInv, faults = 0
               PROVE  sent <= Cap + Cardinality(Pollers) * Allowance - 1
    BY DEF CapHolds
  <2>1. sent \in Nat
    BY DEF MailInv, TypeOK
  <2>2. CASE both \/ cooled
    <3>1. Cardinality(Pending) \in Nat
      BY PairsAreFinite DEF Pending, PageInv
    <3>2. sent <= Cap + Cardinality(Pollers) * Page - 1
      BY <1>0, <2>1, <3>1 DEF CapInv, ByPage
    <3> QED
      BY <2>2, <3>2 DEF Allowance
  <2>3. CASE ~(both \/ cooled)
    <3>1. sent < Cap + Cardinality(Pollers)
      BY <2>3 DEF CapInv, ByCooldown
    <3>2. Allowance = 1
      BY <2>3 DEF Allowance
    <3> QED
      BY <1>0, <2>1, <3>1, <3>2
  <2> QED
    BY <2>2, <2>3
<1>4. MailInv /\ PageInv /\ CapInv /\ [Next]_vars => MailInv' /\ PageInv' /\ CapInv'
  BY MailStep, PageStep, CapStep
<1> QED
  BY <1>1, <1>2, <1>3, <1>4, MailStart, PTL DEF Spec
=============================================================================

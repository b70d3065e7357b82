--------------------------- MODULE EmailDispatcher ---------------------------
(***************************************************************************)
(* The e-mail agent dispatcher (src/email_agent_dispatcher.py) on top of   *)
(* FileDrops: polls, of its own thread and of /poll-now, read a page of    *)
(* the feed, the newest mails of those it keeps, and look up and record in *)
(* a table which mails they have dealt with. A mail starts the workflow,   *)
(* or gets an automatic reply within the agent's rate limit, or both.      *)
(***************************************************************************)
EXTENDS FileDrops

CONSTANTS
  Pollers,     \* threads in _poll_and_process
  Loop,        \* the dispatcher's own
  Mails,
  Order,       \* in which they arrive
  ForWorkflow, \* mails to an agent that triggers the workflow and does not reply;
               \* the others are to the agent that replies
  Cap,         \* max_auto_responses_per_day of the agent that replies
  Page         \* max_emails_per_poll

ASSUME MailAssumption ==
  /\ IsFiniteSet(Pollers) /\ Pollers \subseteq Callers /\ Loop \in Pollers
  /\ Pollers \cap People = {}
  /\ Mails \subseteq Files /\ ForWorkflow \subseteq Mails
  /\ Order \in [Mails -> Nat]
  /\ Cap \in Nat /\ Page \in Nat \ {0}

VARIABLES
  feed,      \* the mails the cloud has for us
  recorded,  \* mails with a row in AgentProcessedEmails
  today,     \* auto_responses_today, of one day
  cooling,   \* the last auto_response row is younger than cooldown_minutes
  poll,      \* a poll under way
  both,      \* the agent that triggers the workflow is the one that replies
  sent,      \* history: replies sent
  acted,     \* history: how often a mail got past the look-up
  cooled     \* history: the cooldown ran out in the middle of a poll

mailVars == <<feed, recorded, today, cooling, poll, both, sent, acted, cooled>>
vars == <<fileVars, mailVars>>

Resting == [pc |-> "idle", page |-> {}, mail |-> {}, count |-> 0]
Enough  == Cardinality(Pollers) * (1 + MaxFaults) + 1   \* bound of acted

Polls == [pc : {"idle", "next", "act", "limit", "reply", "count", "record"},
          page : SUBSET Mails, mail : SUBSET Mails, count : Nat]

At(p, pc) == poll[p].pc = pc
Of(p) == CHOOSE m \in Mails : m \in poll[p].mail
GoesTo(p, pc) == poll' = [poll EXCEPT ![p].pc = pc]

Triggers(m) == both \/ m \in ForWorkflow
Replies(m)  == m \notin ForWorkflow

\* What the feed answers with: the newest mails, as many as a poll asks for.
\* Polls take none away.
Pages ==
  {S \in SUBSET feed :
     /\ IsFiniteSet(S) /\ Cardinality(S) <= Page
     /\ S = feed \/ Cardinality(S) = Page
     /\ \A m \in S, n \in feed \ S : Order[n] <= Order[m]}

Expected == {m \in Mails : both => Replies(m)}

Arrive(m) ==
  /\ m \in Expected \ feed
  /\ \A n \in Expected : Order[n] < Order[m] => n \in feed
  /\ feed' = feed \cup {m}
  /\ UNCHANGED <<fileVars, recorded, today, cooling, poll, both, sent, acted, cooled>>

\* The day's counter is read with the configurations, before the feed.
BeginPoll(p) ==
  /\ At(p, "idle")
  /\ feed # {}
  /\ IF p = Loop THEN UNCHANGED events ELSE Event
  /\ \E page \in Pages :
       poll' = [poll EXCEPT ![p] = [pc |-> "next", page |-> page, mail |-> {}, count |-> today]]
  /\ UNCHANGED <<inbox, next, flag, done, run, agent, call, faults, told, late,
                 feed, recorded, today, cooling, both, sent, acted, cooled>>

\* A slip: a reply that was not sent does not count.
Answered(m) == m \in recorded /\ (Triggers(m) \/ sent > 1)

Recorded(m) == m \in recorded

TakeUp(p, m) ==
  [poll[p] EXCEPT !.pc = IF Triggers(m) THEN "act" ELSE "limit",
                  !.page = @ \ {m}, !.mail = {m}]

\* The newest mail first: _is_already_processed; an error reads as no.
LookUp(p, m) ==
  /\ At(p, "next")
  /\ m \in poll[p].page
  /\ \A n \in poll[p].page : Order[n] <= Order[m]
  /\ \/ /\ Recorded(m)
        /\ poll' = [poll EXCEPT ![p].page = @ \ {m}]
        /\ UNCHANGED <<acted, faults>>
     \/ /\ IF Recorded(m) THEN Fault ELSE UNCHANGED faults
        /\ poll' = [poll EXCEPT ![p] = TakeUp(p, m)]
        /\ acted' = [acted EXCEPT ![m] = IF @ < Enough THEN @ + 1 ELSE @]
  /\ UNCHANGED <<inbox, next, flag, done, run, agent, call, events, told, late,
                 feed, recorded, today, cooling, both, sent, cooled>>

EndPoll(p) ==
  /\ At(p, "next")
  /\ poll[p].page = {}
  /\ poll' = [poll EXCEPT ![p] = Resting]
  /\ UNCHANGED <<fileVars, feed, recorded, today, cooling, both, sent, acted, cooled>>

\* save_email_attachments: the attachments become files, if that works.
SaveFiles(p) ==
  /\ At(p, "act") /\ call[p] = "idle"
  /\ \/ inbox' = inbox \cup {Of(p)} /\ UNCHANGED faults
     \/ Fault /\ UNCHANGED inbox
  /\ call' = [call EXCEPT ![p] = "look"]
  /\ UNCHANGED <<next, flag, done, run, agent, events, told, late, mailVars>>

AfterTrigger(p) == IF Replies(Of(p)) THEN "limit" ELSE "record"

\* A slip: a thread asks for the run, and nobody waits for it.
LookForRunAside(p) ==
  /\ LookForRuns(p)
  /\ GoesTo(p, AfterTrigger(p))
  /\ UNCHANGED <<feed, recorded, today, cooling, both, sent, acted, cooled>>

LookForRun(p) == LookForRuns(p) /\ UNCHANGED mailVars

\* An exception on the way makes the poll run the workflow at once, as if it
\* had seen no run. The automatic reply comes after, if the agent replies.
Trigger(p) ==
  /\ RequestNext(p) \/ StartRun(p)
  /\ GoesTo(p, AfterTrigger(p))
  /\ UNCHANGED <<feed, recorded, today, cooling, both, sent, acted, cooled>>

\* A slip: the cooldown is not looked at.
LimitedByCount(p) == poll[p].count >= Cap

\* The rate limit: the counter as the poll has read it, the cooldown as it is.
Limited(p) == poll[p].count >= Cap \/ cooling

\* A failed query for the cooldown reads as none.
CheckLimit(p) ==
  /\ At(p, "limit")
  /\ \/ GoesTo(p, IF Limited(p) THEN "record" ELSE "reply") /\ UNCHANGED faults
     \/ poll[p].count < Cap /\ GoesTo(p, "reply") /\ Fault
  /\ UNCHANGED <<inbox, next, flag, done, run, agent, call, events, told, late,
                 feed, recorded, today, cooling, both, sent, acted, cooled>>

Reply(p) ==
  /\ At(p, "reply")
  /\ \/ GoesTo(p, "count") /\ sent' = sent + 1 /\ UNCHANGED faults
     \/ GoesTo(p, "record") /\ Fault /\ UNCHANGED sent
  /\ UNCHANGED <<inbox, next, flag, done, run, agent, call, events, told, late,
                 feed, recorded, today, cooling, both, acted, cooled>>

CountReply(p) ==
  /\ At(p, "count")
  /\ GoesTo(p, "record")
  /\ \/ today' = today + 1 /\ UNCHANGED faults
     \/ Fault /\ UNCHANGED today
  /\ UNCHANGED <<inbox, next, flag, done, run, agent, call, events, told, late,
                 feed, recorded, cooling, both, sent, acted, cooled>>

\* A reply, a refused one too, is recorded as auto_response; that of an agent
\* that triggers the workflow as workflow_trigger, and starts no cooldown.
AsResponse(m) == ~Triggers(m)

\* A slip: a mail is not recorded while the limit is reached.
RecordUnlessLimited(p) ==
  /\ At(p, "record")
  /\ poll' = [poll EXCEPT ![p] = [@ EXCEPT !.pc = "next", !.mail = {}]]
  /\ IF AsResponse(Of(p)) /\ Limited(p)
     THEN UNCHANGED <<recorded, cooling>>
     ELSE recorded' = recorded \cup {Of(p)} /\ cooling' = (cooling \/ AsResponse(Of(p)))
  /\ UNCHANGED <<fileVars, feed, today, both, sent, acted, cooled>>

\* _record_processing swallows its errors.
Record(p) ==
  /\ At(p, "record")
  /\ poll' = [poll EXCEPT ![p] = [@ EXCEPT !.pc = "next", !.mail = {}]]
  /\ \/ recorded' = recorded \cup {Of(p)} /\ cooling' = (cooling \/ AsResponse(Of(p)))
        /\ UNCHANGED faults
     \/ Fault /\ UNCHANGED <<recorded, cooling>>
  /\ UNCHANGED <<inbox, next, flag, done, run, agent, call, events, told, late,
                 feed, today, both, sent, acted, cooled>>

\* The cooldown may be a minute, and a poll many replies long.
CoolDown ==
  /\ cooling
  /\ cooling' = FALSE
  /\ cooled' = (cooled \/ \E p \in Pollers : ~At(p, "idle"))
  /\ UNCHANGED <<fileVars, feed, recorded, today, poll, both, sent, acted>>

\* The executor's process ends, with the dispatcher and the runs in it.
Crash ==
  /\ Fault
  /\ run' = [r \in Runs |-> "none"]
  /\ call' = [c \in Callers |-> IF c \in Pollers THEN "idle" ELSE call[c]]
  /\ poll' = [p \in Pollers |-> Resting]
  /\ UNCHANGED <<inbox, next, flag, done, agent, events, told, late, feed, recorded, today, cooling,
                 both, sent, acted, cooled>>

PollSteps(p) ==
  \/ EndPoll(p) \/ SaveFiles(p) \/ LookForRun(p) \/ Trigger(p)
  \/ CheckLimit(p) \/ Reply(p) \/ CountReply(p) \/ Record(p)
  \/ \E m \in Mails : LookUp(p, m)

Init ==
  /\ FilesInit
  /\ feed = {}
  /\ recorded = {}
  /\ today = 0
  /\ cooling = FALSE
  /\ poll = [p \in Pollers |-> Resting]
  /\ both \in BOOLEAN
  /\ sent = 0
  /\ acted = [m \in Mails |-> 0]
  /\ cooled = FALSE

Next ==
  \/ FilesNext /\ UNCHANGED mailVars
  \/ \E c \in People : (Drop(c) \/ CallSteps(c)) /\ UNCHANGED mailVars
  \/ \E p \in Pollers : BeginPoll(p) \/ PollSteps(p)
  \/ \E m \in Mails : Arrive(m)
  \/ CoolDown \/ Crash

Spec == Init /\ [][Next]_vars

\* Runs and their bookkeeping go on, and so do polls that have begun; the
\* dispatcher's own thread begins another one. Nobody has to poll by hand, drop
\* a file, or let The Agent ask.
Fairness ==
  /\ WF_vars((\E r \in Runs : RunSteps(r) \/ AgentSteps(r)) /\ UNCHANGED mailVars)
  /\ WF_vars(BeginPoll(Loop))
  /\ \A p \in Pollers : WF_vars(PollSteps(p))

FairSpec == Spec /\ Fairness

-----------------------------------------------------------------------------
(* Properties.                                                             *)

TypeOK ==
  /\ FilesTypeOK
  /\ feed \subseteq Mails /\ recorded \subseteq Mails
  /\ today \in Nat /\ sent \in Nat
  /\ cooling \in BOOLEAN /\ both \in BOOLEAN /\ cooled \in BOOLEAN
  /\ poll \in [Pollers -> Polls]
  /\ \A p \in Pollers : call[p] # "idle" => At(p, "act")
  /\ acted \in [Mails -> 0..Enough]

\* A mail is acted on once for each poll that may be under way, and once more
\* for what each failure makes it forget: a mail that is looked up before it
\* is recorded is not acted on without end (_is_already_processed,
\* _record_processing).
ActedSparingly ==
  \A m \in Mails : acted[m] <= Cardinality(Pollers) * (1 + faults)

\* How far one poll gets past the cap: it counts with the number it began with,
\* so the cooldown alone keeps it from answering its whole page. An agent that
\* triggers the workflow, too, never starts one, and a short one may run out.
Allowance == IF both \/ cooled THEN Page ELSE 1

\* The day's cap is passed by the polls under way only, each by its allowance
\* (_check_rate_limit, _increment_daily_counter).
CapHolds == faults = 0 => sent <= Cap + Cardinality(Pollers) * Allowance - 1

\* Again and again there is no mail to deal with: each is recorded in the end,
\* also when its reply is refused, unless newer ones push it off the page.
EveryMailIsSettled == []<>(faults > 0 \/ feed \cap UNION Pages \subseteq recorded)

\* Again and again no recorded mail's files are left: they are worked by the run
\* it started, or by the one that follows the run it found going, unless that
\* one was past looking for a request (start_or_queue, run_finished).
MailFilesAreWorked ==
  []<>(late \/ faults > 0 \/ {m \in recorded : Triggers(m)} \cap inbox = {})
=============================================================================

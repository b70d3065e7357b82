---------------------------- MODULE GateContract ----------------------------
(***************************************************************************)
(* What a checkpoint of an automation promises, with the files, requests,  *)
(* approval rows, sweeps and crashes left out. A script asks at one gate   *)
(* after the other; people may want a gate they have been asked about to   *)
(* proceed or to abort, as often as they like; the script gets past the    *)
(* gate it is at once, if somebody wants it to proceed. Each of the two    *)
(* is admitted while the run is live and done later: a run that is over    *)
(* does what it was admitted to and nothing more, and gets past no gate    *)
(* unless its outcome was recorded without stopping its script.            *)
(***************************************************************************)
EXTENDS Naturals

CONSTANTS
  Runs,
  Gates     \* how many gates the script of a run has at most

VARIABLES
  asked,    \* the number of gates a run has asked at
  wanted,   \* the verdicts people have asked for, per gate
  passed,   \* the gates a script has got past
  admitted, \* what a run may still do since it was last seen live
  over,     \* the runs that have their outcome
  loose     \* those of them whose script nobody could stop

contractVars == <<asked, wanted, passed, admitted, over, loose>>

Verdicts == {"proceed", "abort"}
GateIds  == UNION {{r} \X (1..Gates[r]) : r \in Runs}

Init ==
  /\ asked = [r \in Runs |-> 0]
  /\ wanted = [g \in GateIds |-> {}]
  /\ passed = {}
  /\ admitted = [r \in Runs |-> "none"]
  /\ over = {}
  /\ loose = {}

\* checkpoint() is called, or polls for the decision, while the run is live.
Admit(r) ==
  /\ r \notin over
  /\ admitted[r] = "none"
  /\ \E what \in {"ask", "pass"} : admitted' = [admitted EXCEPT ![r] = what]
  /\ UNCHANGED <<asked, wanted, passed, over, loose>>

\* Requests are lost with the service that works on them, scripts are killed,
\* and a poll finds no decision yet.
GiveUp(S) ==
  /\ admitted' = [r \in Runs |-> IF r \in S THEN "none" ELSE admitted[r]]
  /\ UNCHANGED <<asked, wanted, passed, over, loose>>

\* checkpoint() is called when the call before it has returned.
Ask(r) ==
  /\ admitted[r] = "ask"
  /\ asked[r] < Gates[r]
  /\ asked[r] > 0 => <<r, asked[r]>> \in passed
  /\ asked' = [asked EXCEPT ![r] = @ + 1]
  /\ admitted' = [admitted EXCEPT ![r] = "none"]
  /\ UNCHANGED <<wanted, passed, over, loose>>

\* A person decides a gate that was asked about, in either place.
Decide(g, v) ==
  /\ g[2] <= asked[g[1]]
  /\ wanted' = [wanted EXCEPT ![g] = @ \cup {v}]
  /\ UNCHANGED <<asked, passed, admitted, over, loose>>

\* checkpoint() returns True.
Pass(r) ==
  /\ admitted[r] = "pass"
  /\ r \in over => r \in loose
  /\ asked[r] > 0
  /\ <<r, asked[r]>> \notin passed
  /\ "proceed" \in wanted[<<r, asked[r]>>]
  /\ passed' = passed \cup {<<r, asked[r]>>}
  /\ admitted' = [admitted EXCEPT ![r] = "none"]
  /\ UNCHANGED <<asked, wanted, over, loose>>

\* The run gets its outcome from its supervisor, waiting at a gate or not ...
Finish(r) ==
  /\ r \notin over
  /\ over' = over \cup {r}
  /\ UNCHANGED <<asked, wanted, passed, admitted, loose>>

\* ... or without it, when the supervisor is taken for lost.
Abandon(r) ==
  /\ r \notin loose
  /\ over' = over \cup {r}
  /\ loose' = loose \cup {r}
  /\ UNCHANGED <<asked, wanted, passed, admitted>>

Next ==
  \/ \E r \in Runs : Admit(r) \/ Ask(r) \/ Pass(r) \/ Finish(r) \/ Abandon(r)
  \/ \E g \in GateIds, v \in Verdicts : Decide(g, v)
  \/ \E S \in SUBSET Runs : GiveUp(S)

Spec == Init /\ [][Next]_contractVars

\* Whoever is past a gate has got past all gates before it, each of which
\* somebody wanted to proceed.
InOrder ==
  \A g \in passed : \A n \in 1..g[2] :
    <<g[1], n>> \in passed /\ "proceed" \in wanted[<<g[1], n>>]
=============================================================================

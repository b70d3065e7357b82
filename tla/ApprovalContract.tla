-------------------------- MODULE ApprovalContract --------------------------
(***************************************************************************)
(* What a Human Approval node promises, with the threads, the polling, the *)
(* clock and the HTTP handlers left out. A request is opened once; while   *)
(* the run waits, its recorded decision may be set and replaced (by people *)
(* or by a timeout) or the request withdrawn; the run takes what is        *)
(* recorded, once, and from then on the record and what the run did are    *)
(* the same for ever.                                                      *)
(***************************************************************************)
CONSTANT Requests

VARIABLES
  record,   \* what the database says of the request
  taken     \* the verdict the run acted on

contractVars == <<record, taken>>

Decisions == {"approved", "rejected"}

TypeOK ==
  /\ record \in [Requests -> {"none", "open", "withdrawn"} \cup Decisions]
  /\ taken \in [Requests -> {"none"} \cup Decisions]

Init ==
  /\ record = [r \in Requests |-> "none"]
  /\ taken = [r \in Requests |-> "none"]

Open(r) ==
  /\ record[r] = "none"
  /\ record' = [record EXCEPT ![r] = "open"]
  /\ UNCHANGED taken

Decide(r, d) ==
  /\ record[r] \in {"open"} \cup Decisions
  /\ taken[r] = "none"
  /\ record' = [record EXCEPT ![r] = d]
  /\ UNCHANGED taken

Withdraw(r) ==
  /\ record[r] \in {"open"} \cup Decisions
  /\ taken[r] = "none"
  /\ record' = [record EXCEPT ![r] = "withdrawn"]
  /\ UNCHANGED taken

Take(r) ==
  /\ record[r] \in Decisions
  /\ taken[r] = "none"
  /\ taken' = [taken EXCEPT ![r] = record[r]]
  /\ UNCHANGED record

Next == \E r \in Requests :
  Open(r) \/ Withdraw(r) \/ Take(r) \/ \E d \in Decisions : Decide(r, d)

Spec == Init /\ [][Next]_contractVars

\* What was acted on is what is recorded.
TakenIsRecorded == \A r \in Requests : taken[r] # "none" => record[r] = taken[r]
=============================================================================

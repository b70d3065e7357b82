----------------------- MODULE ApprovalContractProofs -----------------------
(* What the approval contract is worth to whoever relies on it.             *)
EXTENDS ApprovalContract, TLAPS

\* In the contract, what a run acted on is the record, then and for ever.
THEOREM TakenStaysRecorded == Spec => []TakenIsRecorded
<1> DEFINE Inv == TypeOK /\ TakenIsRecorded
<1>1. Init => Inv
  BY DEF Init, TypeOK, TakenIsRecorded
<1>2. Inv /\ [Next]_contractVars => Inv'
  <2> SUFFICES ASSUME Inv, [Next]_contractVars PROVE Inv'
    OBVIOUS
  <2>1. ASSUME NEW r \in Requests, Open(r) PROVE Inv'
    BY <2>1 DEF Open, TypeOK, TakenIsRecorded, Decisions
  <2>2. ASSUME NEW r \in Requests, NEW d \in Decisions, Decide(r, d) PROVE Inv'
    BY <2>2 DEF Decide, TypeOK, TakenIsRecorded
  <2>3. ASSUME NEW r \in Requests, Withdraw(r) PROVE Inv'
    BY <2>3 DEF Withdraw, TypeOK, TakenIsRecorded
  <2>4. ASSUME NEW r \in Requests, Take(r) PROVE Inv'
    BY <2>4 DEF Take, TypeOK, TakenIsRecorded
  <2>5. CASE UNCHANGED contractVars
    BY <2>5 DEF contractVars, TypeOK, TakenIsRecorded
  <2>6. QED
    BY <2>1, <2>2, <2>3, <2>4, <2>5 DEF Next
<1>3. QED
  BY <1>1, <1>2, PTL DEF Spec, Inv

=============================================================================

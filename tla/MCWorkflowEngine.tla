-------------------------- MODULE MCWorkflowEngine --------------------------
(* A review workflow for TLC: "check" is a condition, "review" a Human      *)
(* Approval with a due date that rejects on timeout, "post" an action. A    *)
(* rejection goes back to "check" (a graph cycle), a failing "post" to a    *)
(* node that does not exist, a false condition ends at "post".              *)
EXTENDS WorkflowEngine

Edge(t, n) == [type |-> t, target |-> n]

MCNodes == {"check", "review", "post"}
MCKind  == [n \in MCNodes |-> CASE n = "check" -> "conditional"
                                [] n = "review" -> "approval"
                                [] n = "post" -> "action"]
MCConns == [n \in MCNodes |->
  CASE n = "check" -> <<Edge("pass", "review"), Edge("fail", "post")>>
    [] n = "review" -> <<Edge("fail", "check"), Edge("pass", "post")>>
    [] n = "post" -> <<Edge("fail", "missing")>>]
MCOnTimeout == [n \in MCNodes |-> "continue"]

MCReject == [n \in MCNodes |-> "fail"]

\* An approval alone, asked again after every rejection.
MCAsk        == {"review"}
MCAskKind    == [n \in MCAsk |-> "approval"]
MCAskConns   == [n \in MCAsk |-> <<Edge("fail", "review")>>]
MCAskTimeout == [n \in MCAsk |-> "continue"]

MCCalls(p, r, c) == [o \in Operations |->
  CASE o = "pause" -> p [] o = "resume" -> r [] o = "cancel" -> c]
CallsNone        == MCCalls(0, 0, 0)
CallsCancelResume == MCCalls(0, 1, 1)
CallsResume      == MCCalls(1, 1, 0)
=============================================================================

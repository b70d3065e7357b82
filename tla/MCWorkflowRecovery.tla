------------------------- MODULE MCWorkflowRecovery -------------------------
(* The recovery over the workflows of MCWorkflowEngine.                     *)
EXTENDS WorkflowRecovery

Edge(t, n) == [type |-> t, target |-> n]

MCNodes == {"check", "review", "post"}
MCKind  == [n \in MCNodes |-> CASE n = "check" -> "conditional"
                                [] n = "review" -> "approval"
                                [] n = "post" -> "action"]
MCConns == [n \in MCNodes |->
  CASE n = "check" -> <<Edge("pass", "review"), Edge("fail", "post")>>
    [] n = "review" -> <<Edge("fail", "check"), Edge("pass", "post")>>
    [] n = "post" -> <<Edge("fail", "missing")>>]
MCOnTimeout == [n \in MCNodes |-> "continue"]

MCReject    == [n \in MCNodes |-> "fail"]

MCCalls(p, r, c) == [o \in Operations |->
  CASE o = "pause" -> p [] o = "resume" -> r [] o = "cancel" -> c]
CallsPauseCancel == MCCalls(1, 0, 1)
CallsNone        == MCCalls(0, 0, 0)
=============================================================================

SPECIFICATION FairSpec
CONSTANTS
  Execs = {e1, e2}
  Nodes <- MCAsk
  StartNode = "review"
  NoNode = "none"
  Dangling = "missing"
  Kind <- MCAskKind
  Conns <- MCAskConns
  HasDue = {"review"}
  OnTimeout <- MCAskTimeout
  MaxConcurrent = 1
  MaxNodeVisits = 1
  Deciders = {"ann"}
  MaxCalls <- CallsCancelResume
  MaxFaults = 0
INVARIANTS
  TypeOK
  SlotsConserved
  PendingHasWaiter
  NoPassWithoutApproval
PROPERTIES
  EveryRunEnds
CHECK_DEADLOCK FALSE

SPECIFICATION FairSpec
CONSTANTS
  Execs = {e1}
  Nodes <- MCNodes
  StartNode = "check"
  NoNode = "none"
  Dangling = "missing"
  Kind <- MCKind
  Conns <- MCConns
  HasDue = {"review"}
  OnTimeout <- MCOnTimeout
  MaxConcurrent = 1
  MaxNodeVisits = 2
  Deciders = {}
  MaxCalls <- CallsResume
  MaxFaults = 0
PROPERTIES
  ResumeEndsPause
CHECK_DEADLOCK FALSE

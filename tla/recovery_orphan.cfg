SPECIFICATION RFairSpec
CONSTANTS
  Execs = {e1}
  Nodes <- MCNodes
  StartNode = "review"
  NoNode = "none"
  Dangling = "missing"
  Kind <- MCKind
  Conns <- MCConns
  HasDue = {"review"}
  OnTimeout <- MCOnTimeout
  MaxConcurrent = 2
  MaxNodeVisits = 1
  Deciders = {}
  MaxCalls <- CallsNone
  MaxFaults = 0
  MaxCrashes = 1
PROPERTIES
  DecidedRunMovesOn
CHECK_DEADLOCK FALSE

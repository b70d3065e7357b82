SPECIFICATION Spec
CONSTANTS
  Execs = {e1}
  Nodes <- MCNodes
  StartNode = "check"
  NoNode = "none"
  Dangling = "missing"
  Kind <- MCKind
  Conns <- MCConns
  HasDue = {"review"}
  OnTimeout <- MCOnTimeout
  MaxConcurrent = 1
  MaxNodeVisits = 2
  Deciders = {"ann"}
  MaxCalls <- CallsNone
  MaxFaults = 0
INVARIANTS
  RoutedAsRecorded
CHECK_DEADLOCK FALSE

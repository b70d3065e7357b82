SPECIFICATION RFairSpec
CONSTANTS
  Execs = {e1}
  Nodes <- MCNodes
  StartNode = "check"
  NoNode = "none"
  Dangling = "missing"
  Kind <- MCKind
  Conns <- MCConns
  HasDue = {"review"}
  OnTimeout <- MCReject
  MaxConcurrent = 1
  MaxNodeVisits = 2
  Deciders = {}
  MaxCalls <- CallsPauseCancel
  MaxFaults = 1
  MaxCrashes = 2
INVARIANTS
  RoutedAsRecorded
  StepsFollowTheThread
  QuietRunHasOutcome
PROPERTIES
  ApprovedRunIsNotFailed
  RecoveredNeedsApproval
  OutcomeSurvivesRestart
  KeepsContract
  LostRunIsSettled
  CancelStopsHolder
CHECK_DEADLOCK FALSE

SPECIFICATION FairSpec
CONSTANTS
  Runs = {"r1"}
  Home <- InApp
  Gates <- Once
  Yielding = {}
  Lasting = {}
  Deciders = {"d1"}
  App = "app"
  MaxFaults = 1
INVARIANTS
  TypeOK
  OutcomeMeansStopped
PROPERTIES
  KeepsGateContract
  FinishedNeverRevives
  AbortIsHeeded
  EveryRunFinishes
CHECK_DEADLOCK FALSE

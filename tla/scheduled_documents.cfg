SPECIFICATION FairSpec
CONSTANTS
  Jobs = {"papers"}
  Documents = {"papers"}
  Schedules = {"once", "often"}
  JobOf <- OneJob
  Recurring = {"often"}
  MaxRuns = 1
  Every = 1
  Instances = {1}
  Values = {"p", "q"}
  NoValue = "empty"
  MaxFaults = 1
  MaxEvents = 2
  MaxRows = 2
INVARIANTS
  TypeOK
  StoppedStaysStopped
PROPERTIES
  EditsReachEngine
  RunOnceRuns
  EveryAskIsServed
CHECK_DEADLOCK FALSE

SPECIFICATION Spec
CONSTANTS
  Jobs = {"papers"}
  Documents = {"papers"}
  Schedules = {"once", "often"}
  JobOf <- OneJob
  Recurring = {"often"}
  MaxRuns = 1
  Every = 1
  Instances = {1}
  Values = {"p", "q"}
  NoValue = "empty"
  MaxFaults = 0
  MaxEvents = 1
  MaxRows = 2
INVARIANT OnceFiresOnce
CHECK_DEADLOCK FALSE

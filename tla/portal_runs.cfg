SPECIFICATION FairSpec
CONSTANTS
  Runs = {r1}
  MaxSessions = 1
  MaxSteps = 3
  MaxCalls = 2
  MaxRestarts = 1
  GoneStrikes = 2
  MaxTurns = 2
  MaxCrashes = 1
  MaxFaults = 1
INVARIANTS
  TypeOK
  DeliveredOnce
  InputNeedsAPause
PROPERTIES
  EveryWatchIsSettled
CHECK_DEADLOCK FALSE

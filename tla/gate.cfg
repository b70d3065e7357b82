SPECIFICATION FairSpec
CONSTANTS
  Workers = {w1, w2, w3}
  Limit = 2
  MaxRequests = 6
  MaxBadBodies = 2
INVARIANTS
  TypeOK
  GateExact
PROPERTIES
  BusyEnds
CHECK_DEADLOCK FALSE

SPECIFICATION Spec
CONSTANTS
  Runs = {"r1", "r2"}
  Home <- InApp
  Gates <- Never
  Yielding = {"r1", "r2"}
  Lasting = {"r1", "r2"}
  Deciders = {}
  App = "app"
  MaxFaults = 1
INVARIANTS
  OneRunPerProcess
CHECK_DEADLOCK FALSE

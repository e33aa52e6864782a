SPECIFICATION Spec
CONSTANTS
  Runs = {a}
  Sessions = {s}
  None = None
  Retained = 1
  MaxSteps = 1
  MaxHandoffs = 0
  MaxCrashes = 0
  Features = {}
  Faults = {"bus"}
INVARIANTS
  CancelledIsAllItReports
CHECK_DEADLOCK FALSE

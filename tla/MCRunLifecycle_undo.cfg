SPECIFICATION Spec
CONSTANTS
  Runs = {a, b}
  Sessions = {s}
  None = None
  Retained = 1
  MaxSteps = 2
  MaxHandoffs = 1
  MaxCrashes = 0
  Features = {"undo"}
  Faults = {}
INVARIANTS
  CancelIsUndone
CHECK_DEADLOCK FALSE

SPECIFICATION Spec
CONSTANTS
  Runs = {a, b}
  Sessions = {s}
  None = None
  Retained = 1
  MaxSteps = 2
  MaxHandoffs = 1
  MaxCrashes = 1
  Features = {"resume","handoff","undo"}
  Faults = {"store", "snapshots", "registry", "bus"}
SYMMETRY Symmetry
VIEW LiveView
INVARIANTS
  StoreTellsTheEnd
  ExclusiveSession
  BusyIsAccountedFor
  FailureIsUndone
PROPERTIES
  AbortCancels
  ImplementsContract
CHECK_DEADLOCK FALSE

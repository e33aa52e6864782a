SPECIFICATION Spec
CONSTANTS
  Nodes = {a, x}
  Registered = {a}
  None = None
  MaxIssued = 5
INVARIANTS
  SnapshotKeepsUp
  AtMostOnce
  RunCompletesTheWalk

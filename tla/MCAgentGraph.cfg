SPECIFICATION FairSpec
CONSTANTS
  Nodes = {1, 2, 3, 4}
  Graphs <- Workflows
INVARIANTS
  ReturnedIsOver
  DrivenOnce
PROPERTIES
  Returns
CHECK_DEADLOCK FALSE

SPECIFICATION Spec
CONSTANTS
  Nodes = {a, x}
  Registered = {a}
  None = None
  MaxIssued = 3
INVARIANTS
  ResumeReturnsToTheNode

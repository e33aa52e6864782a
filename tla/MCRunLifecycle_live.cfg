SPECIFICATION FairSpec
CONSTANTS
  Runs = {a, b}
  Sessions = {s}
  None = None
  Retained = 1
  MaxSteps = 2
  MaxHandoffs = 1
  MaxCrashes = 0
  Features = {"handoff", "delegate", "stateless", "shared"}
  Faults = {}
INVARIANTS
  SubAgentsAreStopped
PROPERTIES
  ImplementsFairContract
  SessionsAreReleased
CHECK_DEADLOCK FALSE

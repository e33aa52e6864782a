SPECIFICATION FairSpec
CONSTANTS
  MaxInputs = 3
  MaxSteps = 2
  MaxHandoffs = 1
  MaxFaults = 2
INVARIANTS
  OrderIsKept
  NothingIsLost
PROPERTIES
  StoredInputsArePromoted

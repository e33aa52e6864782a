SPECIFICATION FairSpec
CONSTANTS
  Primary = a
  second = b
  third = c
  Failovers <- Fallbacks
  Compactor = TRUE
  MaxRetries = 1
  FailureThreshold = 3
  SuccessThreshold = 2
  MaxSteps = 4
INVARIANTS
  OutcomeIsTrue
PROPERTIES
  NobodyIsAskedInVain
  ClosesAfterProbes
  StepEnds
CHECK_DEADLOCK FALSE

CONSTANTS
  Flow <- Remerge
  HandlesFailed <- LastTask
  MaxDeliveries = 1
  SourceInFlight = 2
  MaxInFlight = 1
  MaxAttempts = 2
CHECK_DEADLOCK FALSE
SPECIFICATION Spec
INVARIANT
  AckAfterAllLeaves

CONSTANTS
  Flow <- Stem
  HandlesFailed <- LastTask
  MaxDeliveries = 2
  SourceInFlight = 1
  MaxInFlight = 1
  MaxAttempts = 2
CHECK_DEADLOCK FALSE
SPECIFICATION FairSpec
INVARIANTS
  AckAfterAllLeaves
PROPERTIES
  EveryDeliveryEnds
  CancelledFlowEnds

SPECIFICATION FairSpec
CONSTANTS
  p1 = p1
  p2 = p2
  Pods <- MCPods
  LeaseDuration = 1
  CallTimeout = 1
  ParallelInstances = 1
  MaxRev = 3
  MaxGen = 3
  MaxDisruptions = 1
CHECK_DEADLOCK FALSE
INVARIANTS
  OnlyHolderCanRenew
  FlowFollowsLease
PROPERTIES
  FlowIsTakenUp
  StaleLeaderStops

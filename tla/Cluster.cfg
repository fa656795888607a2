CONSTANTS
  Peers = {"p1", "p2"}
  Flows = {"f"}
  Score <- MCScore
  Unsteady = {"p2"}
  Watching = {"p1"}
  Percent = 10
  MaxStamp = 3
  MaxFeed = 1
  MaxFaults = 1
SPECIFICATION ClusterFairSpec
CHECK_DEADLOCK FALSE
PROPERTIES
  MembershipConverges
  HandOversCease

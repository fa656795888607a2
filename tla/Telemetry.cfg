CONSTANTS
  Viewer = "v"
  Peers = {"q"}
  ChanCapacity = 2
  WatchCapacity = 1
  MaxRecords = 2
  MaxOutages = 1
  LogPods = {"v", "q"}
  Reader = "v"
  Events <- MCEvents
  Filters <- MCFilters
  Limits = {1}
  RingSize = 1
  MaxLimit = 2
  MaxClock = 2
  MaxWriting = 2
  MaxLines = 3
  MaxSilent = 1
SPECIFICATION MCSpec
CHECK_DEADLOCK FALSE
INVARIANTS
  NoGap
PROPERTIES
  ViewConverges

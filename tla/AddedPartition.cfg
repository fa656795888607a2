SPECIFICATION SourcesSpec
CONSTANTS
  p1 = p1
  p2 = p2
  Partitions <- MCPartitions
  SourceSetups <- MCSources
  MaxLog = 2
  MaxBatch = 2
  MaxTime = 5
  Interval = 2
  MaxRuns = 2
CHECK_DEADLOCK FALSE
PROPERTIES
  AddedFromEarliest

SPECIFICATION MCSpec
CONSTANTS
  l1 = l1
  l2 = l2
  l3 = l3
  Leaves <- MCLeaves
  LeafCount = 2
  p1 = p1
  p2 = p2
  Partitions <- MCPartitions
  SourceSetups <- MCSources
  MaxLog = 2
  MaxBatch = 2
  MaxTime = 5
  Interval = 2
  MaxRuns = 2
CHECK_DEADLOCK FALSE
INVARIANTS
  AckAfterEveryLeaf
  StoredIsHandled
PROPERTIES
  SourceLearns
  ImplementsPromise
  RecordsAreRead

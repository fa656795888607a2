SPECIFICATION MCSpec
CONSTANTS
  e1 = e1  e2 = e2  k1 = k1  k2 = k2  u1 = u1  u2 = u2
  NoUser = NoUser
  Kinds <- AllKinds
  MaxLeaves = 2
  MaxAttempts = 2
  Events <- MCEvents
  Keys <- MCKeys
  BatchSetups <- MCShapes
  MaxElements = 2
  Capacity = 1
CHECK_DEADLOCK FALSE
INVARIANTS
  AckCoversEveryLeaf
  UnsafeCallOnce
  AckedIsDone
PROPERTIES
  Settles
  SourcesLearn

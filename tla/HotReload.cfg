CONSTANTS
  f1 = f1
  f2 = f2
  plain = plain
  elected = elected
  broken = broken
  badgraph = badgraph
  Flows = {f1, f2}
  Files = {f1}
  Configs = {plain, elected, broken, badgraph}
  FileConfig = plain
  Elected = {elected}
  Broken = {broken}
  BadGraph = {badgraph}
  MaxStarts = 4
  MaxWrites = 2
  MaxBreaks = 1
SPECIFICATION FairSpec
CHECK_DEADLOCK FALSE
INVARIANTS
  OneCopyUnlessAbandoned
  ReleasedIsStopped
PROPERTIES
  ChangesArrive

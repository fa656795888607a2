CONSTANTS
  a = a
  b = b
  bad = bad
  f = f
  Pods = {"p", "q"}
  FlowPods = {"p"}
  MaxRequests = 2
  MaxTokens = 2
  MaxOpen = 2
  MaxSigned = 4
  Ids = {i1}
  Paths = {f}
  Contents = {a, bad}
  Trim <- AsIs
  Invalid = {bad}
  TargetOf <- OneTargetOnly
  Deciders = {"user"}
  MaxApprovals = 2
  MaxEdits = 1
  MaxAttempts = 2
SPECIFICATION FairSpec
CHECK_DEADLOCK FALSE
INVARIANTS
  PublishedIsReviewed
  SessionSurvives
PROPERTIES
  NoEditIsLost
  PublishingEnds

SPECIFICATION FairSpec
CONSTANTS
  q1 = q1
  q2 = q2
  f1 = f1
  f2 = f2
  s1 = s1
  Requests <- MCRequests
  Flows <- MCFlows
  Sessions <- MCSessions
  Setups <- MCSetups
  SessionCap = 2
  MaxChanges = 2
  ProgressCap = 1
  BodyCap = 1
  InputCap = 1
CHECK_DEADLOCK FALSE
INVARIANTS
  SuccessIsComplete
  AdmittedAsConfigured
  StaleIsAnnounced
PROPERTIES
  EveryoneIsAnswered

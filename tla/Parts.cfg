CONSTANTS
  FlowConfigs <- MCFlowConfigs
  Talks <- MCTalks
  MaxPieces = 2
  MaxCalls = 2
  Subscribers = {s1, s2}
  Others = {h}
  MaxFaults = 1
  Users = {u, v}
  ServerLists <- MCServerLists
  MaxInFlight = 2
  Models = {m}
  MaxEvents = 2
  MaxTokens = 2
  MaxFails = 1
  BootFlows = {"e", "s"}
  Serving <- Served
  Electing <- Elected
  Deployments <- MCDeployments
  MaxTroubles = 1
  MaxBootWrites = 1
  Offers <- MCOffers
  Calls <- MCCalls
  ServerKeys <- MCServerKeys
  CompletionMax = 1
  MaxSwitches = 2
SPECIFICATION MCSpec
CHECK_DEADLOCK FALSE
INVARIANTS
  LeavesAreReachable
  TranscriptIsKept
  OwnToken
  ReadyIsServed
  HiddenIsAbsent
  MatchIsSubstitution
PROPERTIES
  ClientsHeal
  UserConnectionsClose

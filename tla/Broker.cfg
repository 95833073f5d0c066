SPECIFICATION FairParts
CONSTANTS
  Explored = {"broker", "store"}
  Hosts = {h1, h2, h3}
  Commands = {c1, c2}
  ReplayFirst = FALSE
  MaxFaults = 2
  Claims = {"db"}
  ClaimRequests <- TwoGenerations
  Contexts <- ThreeCapabilities
  Providers = {"p1"}
  Descriptors <- DatabaseProvider
  Answers <- AdapterAnswers
  Evidence = {"e1"}
  LeaseDurations = {1}
  MaxTime = 2
  MaxSkew = 0
  MaxDriftRevision = 4
INVARIANTS
  AnswersAreTrue
  BrokerStateValid
  ClaimsShowCurrentWork
  CapabilityPaysOnce
PROPERTIES
  RefinesAtomicStore
  StoreAcknowledges
  FencesHold
  ClaimsProgress
CHECK_DEADLOCK FALSE

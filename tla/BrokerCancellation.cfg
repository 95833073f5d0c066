SPECIFICATION FairParts
CONSTANTS
  Explored = {"broker"}
  Hosts = {h1, h2, h3}
  Commands = {c1, c2}
  ReplayFirst = FALSE
  MaxFaults = 2
  Claims = {"db"}
  ClaimRequests <- FirstGeneration
  Contexts <- TwoCapabilities
  Providers = {"p1"}
  Descriptors <- DatabaseProvider
  Answers <- AdapterAnswers
  Evidence = {"e1"}
  LeaseDurations = {1}
  MaxTime = 4
  MaxSkew = 0
  MaxDriftRevision = 0
PROPERTY CancellationEnds
CHECK_DEADLOCK FALSE

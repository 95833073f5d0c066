SPECIFICATION Spec
CONSTANTS
  NumTenants = 1
  Jobs = {"j1", "j2", "j3", "j4"}
  Resources = {"web"}
  Payloads = {p1, p2, p3}
  Keys = {k1, k2, k3, k4}
  Capabilities <- ReleaseCapabilities
  MaxGlobalConcurrency = 1
  MaxConcurrentBuilds <- OneEach
  MaxConcurrentDeployments <- OneEach
  MaxExecution <- TwoEach
  MaxAttempts = 1
  MaxHistory = 1
  MaxTime = 2
  MaxSkew = 0
  MaxDecisions = 4
  Outcomes = {"succeeded", "failed"}
  Redelivery = FALSE
SYMMETRY Symmetry
CONSTRAINT InOrder
INVARIANTS
  ReleasesAreAccountedFor
CHECK_DEADLOCK FALSE

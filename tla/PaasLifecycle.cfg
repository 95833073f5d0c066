SPECIFICATION FairSpec
CONSTANTS
  NumTenants = 1
  Jobs = {"j1", "j2"}
  Resources = {"web"}
  Payloads = {p1}
  Keys = {k1, k2}
  Capabilities <- LifecycleCapabilities
  MaxGlobalConcurrency = 2
  MaxConcurrentBuilds <- OneEach
  MaxConcurrentDeployments <- OneEach
  MaxExecution <- OneEach
  MaxAttempts = 2
  MaxHistory = 1
  MaxTime = 1
  MaxSkew = 0
  MaxDecisions = 3
  Outcomes = {"succeeded", "failed", "retryable", "crash"}
  Redelivery = FALSE
INVARIANTS
  StateInvariant
  OneJobPerKey
  WorkersHoldTheirLock
  LimitsAreRespected
PROPERTIES
  NothingFinalChanges
  WorkSettles
CHECK_DEADLOCK FALSE

SPECIFICATION Spec
CONSTANTS
  NumTenants = 1
  Jobs = {"j1"}
  Resources = {"web"}
  Payloads = {p1}
  Keys = {k1}
  Capabilities <- LifecycleCapabilities
  MaxGlobalConcurrency = 2
  MaxConcurrentBuilds <- OneEach
  MaxConcurrentDeployments <- OneEach
  MaxExecution <- TwoEach
  MaxAttempts = 2
  MaxHistory = 1
  MaxTime = 2
  MaxSkew = 0
  MaxDecisions = 1
  Outcomes = {"succeeded", "failed", "retryable", "crash"}
  Redelivery = TRUE
SYMMETRY Symmetry
CONSTRAINT InOrder
INVARIANT WorkersHoldTheirLock
CHECK_DEADLOCK FALSE

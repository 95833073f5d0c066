SPECIFICATION Spec
CONSTANTS
  NumTenants = 1
  Jobs = {"j1"}
  Resources = {"web"}
  Payloads = {p1}
  Keys = {k1}
  Capabilities <- LifecycleCapabilities
  MaxGlobalConcurrency = 2
  MaxConcurrentBuilds <- OneEach
  MaxConcurrentDeployments <- OneEach
  MaxExecution <- OneEach
  MaxAttempts = 2
  MaxHistory = 1
  MaxTime = 2
  MaxSkew = 1
  MaxDecisions = 1
  Outcomes = {"succeeded", "failed", "retryable", "crash"}
  Redelivery = FALSE
SYMMETRY Symmetry
CONSTRAINT InOrder
INVARIANT StateInvariant
CHECK_DEADLOCK FALSE

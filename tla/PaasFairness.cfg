SPECIFICATION HSpec
CONSTANTS
  NumTenants = 2
  Jobs = {"j1", "j2", "j3"}
  Resources = {"web"}
  Payloads = {p1}
  Keys = {k1, k2, k3}
  Capabilities <- BuildAndCancelCapabilities
  MaxGlobalConcurrency = 1
  MaxConcurrentBuilds <- OneEach
  MaxConcurrentDeployments <- OneEach
  MaxExecution <- OneEach
  MaxAttempts = 2
  MaxHistory = 1
  MaxTime = 1
  MaxSkew = 0
  MaxDecisions = 3
  Outcomes = {"retryable"}
  Redelivery = FALSE
SYMMETRY Symmetry
CONSTRAINT InOrder
INVARIANTS StateInvariant BoundedBypass FifoPerTenant
CHECK_DEADLOCK FALSE

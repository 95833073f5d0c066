SPECIFICATION SpecParts
CONSTANTS
  Explored = {"candidate", "access"}
  Versions = {"v1", "v2"}
  Checkouts <- OneCheckout
  Defects <- BrokenContract
  HostKit = "v1"
  MaxAge = 0
  MaxFaults = 2
  MaxPreviews = 2
  MaxFailures = 2
  Attempts = 3
  Budget = 5
  Lifetime = 1
  ReviewFields <- SchemaFields
  Runners = {r1, r2}
  MaxAttempts = 1
  MaxCrashes = 0
  CfnMayFail = TRUE
SYMMETRY Symmetry
INVARIANTS
  SealedRunsAreReviewed
  RetirementIsOrderly
PROPERTIES
  RefinesLifecycle
CHECK_DEADLOCK FALSE

SPECIFICATION FairParts
CONSTANTS
  Explored = {"apply", "access"}
  Versions = {"v1", "v2"}
  Checkouts <- OneCheckout
  Defects <- BrokenContract
  HostKit = "v1"
  MaxAge = 0
  MaxFaults = 2
  MaxPreviews = 2
  MaxFailures = 2
  Attempts = 3
  Budget = 5
  Lifetime = 1
  ReviewFields <- SchemaFields
  Runners = {r1}
  MaxAttempts = 2
  MaxCrashes = 1
  CfnMayFail = FALSE
INVARIANTS
  AppliedIsReviewed
  ReceiptsAreTrue
PROPERTIES
  OrganizationIsAccountedFor
  SeedCompletes
CHECK_DEADLOCK FALSE

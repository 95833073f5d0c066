SPECIFICATION SpecParts
CONSTANTS
  Explored = {"apply"}
  Versions = {"v1", "v2"}
  Checkouts <- OneCheckout
  Defects <- BrokenContract
  HostKit = "v1"
  MaxAge = 0
  MaxFaults = 2
  MaxPreviews = 2
  MaxFailures = 2
  Attempts = 3
  Budget = 5
  Lifetime = 1
  ReviewFields <- LauncherFields
  Runners = {r1}
  MaxAttempts = 1
  MaxCrashes = 0
  CfnMayFail = FALSE
INVARIANT PreviewsCanBeReviewed
CHECK_DEADLOCK FALSE

SPECIFICATION Spec
CONSTANTS
  ExpectedAudience = "controller"
  TrustedIssuers = {"auth"}
  MaxCapabilityTtl = 2
  MaxRetryAfter = 2
  MaxPage = 100
  Offers <- AllOffers
  Policies <- AllPolicies
  Intents <- RaceIntents
  PlanContents <- DeletionPlan
  Approvers = {"olga", "ann", "bob"}
  OperationIds = {"o1", "o2"}
  RetryDelays = {0, 2}
  PlanTtl = 2
  MaxTime = 3
  MaxApprovals = 2
  Subjects <- TwoOperations
  Writers = {"w1", "w2"}
  Phases = {"reconciling", "succeeded"}
  PageSize = 2
  CursorTtl = 1
  MaxWatchTime = 2
  MaxEvents = 3
  MaxInFlight = 2
  TrustedVerifiers <- OneVerifier
  AdmissionPolicy = "policy"
  TrustedObservers <- OneObserver
  Expected <- BootstrapProofs
  Replicas = {"r1", "r2"}
  Selections <- OneSelection
  Catalogs <- ProposedCatalogs
  Registries <- ProposedRegistries
  Handoffs <- ProposedHandoffs
  Profiles <- AccessProfiles
  Lifetimes = {2}
  ObservationAges = {1}
  ResolutionLives = {1, 3}
  MaxEvidence = 2
  MaxChanges = 1
  MaxAdmissionTime = 4
  PaasIntents <- ProposedIntents
  PaasRequests <- ClientRequests
  Grants <- DeployGrant
  MaxGatewayTime = 3
  MaxDecided = 2
  MaxGatewayFaults = 1
  MaxPaths = 8
  Documents <- ReviewedDocuments
  Edits <- AllEdits
  AdapterCapabilities = {"private-network", "centralized-egress", "managed-firewall", "workload-identity", "customer-managed-encryption", "immutable-audit-log", "external-sandbox", "dedicated-account-boundary", "private-control-plane"}
  MaxEdits = 3
  MaxReviewTime = 2
  PlanBlueprint <- WardenMind
  Extensions <- OperatorExtensions
  RawBindings <- AuthoredBindings
  PlatformTenants <- TenantsOfApplications
  PlanEnvironments = {"staging", "production"}
  MaxBindings = 3
INVARIANT CapabilitiesAreShortLived
CHECK_DEADLOCK FALSE

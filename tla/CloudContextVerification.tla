----------------------- MODULE CloudContextVerification -----------------------
(***************************************************************************)
(* What a placement depends on, who may resolve its references, and when   *)
(* signed evidence that its dependencies are ready is accepted             *)
(* (src/src/core/cloudContextVerification.ts).  A digest stands for what   *)
(* it digests; a selection is [organization, tenant, application,          *)
(* component, request], request being the digest of the deployment request *)
(* that asks; a registry is a set of resolvers.  Catalogs and registries   *)
(* go by name, and the digest of a document is a name of its content.      *)
(***************************************************************************)
EXTENDS CloudContext

CONSTANTS
    Registries,         \* resolver registries, by name
    TrustedVerifiers,   \* the verifiers whose signatures are accepted
    AdmissionPolicy     \* the digest of the admission policy in force

Lists == {"purposes", "confidentialities", "projections", "outputs", "environments",
          "organizations", "tenants", "contexts"}

\* createCloudReferenceResolverRegistry: closed, non-empty scopes; one
\* resolver per scheme; references only, never provider credentials.
createCloudReferenceResolverRegistry(resolvers) ==
    /\ resolvers # {}
    /\ \A r, s \in resolvers : r.scheme = s.scheme => r = s
    /\ \A r \in resolvers :
           /\ \A list \in Lists : r.allowed[list] # {}
           /\ r.ttl \in 1 .. 86400
           /\ r.literals = {"acceptsProviderCredentials", "serializesResolvedValues"}

AcceptedRegistries == {g \in DOMAIN Registries : createCloudReferenceResolverRegistry(Registries[g])}

-----------------------------------------------------------------------------
(* The dependencies of a placement *)

\* How a reference is treated follows from its purpose.
Confidential ==
    {"identity-binding", "audit-sink", "logs-sink", "metrics-sink", "traces-sink",
     "postgres-endpoint", "postgres-runtime-identity", "postgres-migration-identity"}
ControlPlaneOnly ==
    {"provider-boundary", "runtime-target", "network-boundary", "audit-sink",
     "provider-resource", "postgres-migration-identity"}

OutputType(purpose) ==
    CASE purpose \in {"identity-binding", "postgres-runtime-identity",
                      "postgres-migration-identity"} -> "workload-identity-reference"
      [] purpose \in {"logs-sink", "metrics-sink", "traces-sink"} -> "telemetry-sink-reference"
      [] OTHER -> purpose

ReferencesOf(doc) ==
    {[purpose |-> p, scheme |-> doc.refs[p],
      confidentiality |-> IF p \in Confidential THEN "confidential-reference" ELSE "public-metadata",
      projection |-> IF p \in ControlPlaneOnly THEN "control-plane-only" ELSE "workload-reference",
      output |-> OutputType(p)] : p \in DOMAIN doc.refs}

\* A dependency that carries its own status keeps the generation of it; the
\* definition is the desired state, without any status.
addContextDependency(context) ==
    [key |-> <<context.id, "context", context.id>>, generation |-> context.status.generation,
     definition |-> <<context.environment, context.literals>>, references |-> ReferencesOf(context)]

addCapabilityDependency(context, kind, id) ==
    LET capability == ById(Capabilities(context, kind), id)
    IN [key |-> <<context.id, kind, id>>, generation |-> context.status.generation,
        definition |-> capability, references |-> ReferencesOf(capability)]

DesiredBinding(b) == [f \in DOMAIN b \ {"status"} |-> b[f]]

addBindingDependency(context, binding) ==
    [key |-> <<context.id, "resource-binding", binding.id>>,
     generation |-> binding.status.generation,
     definition |-> DesiredBinding(binding), references |-> ReferencesOf(binding)]

\* locateBinding: the context whose binding has this id.
locateBinding(catalog, id) == CHOOSE c \in catalog.contexts : Has(c.bindings, id)

PlacementsOf(catalog, selection) ==
    {p \in catalog.placements :
        p.application = selection.application /\ p.component = selection.component}

selectedPlacement(catalog, selection) == CHOOSE p \in PlacementsOf(catalog, selection) : TRUE

DependencyInputs(catalog, p) ==
    LET c == ById(catalog.contexts, p.context)
    IN {addContextDependency(c)}
       \cup {addCapabilityDependency(c, kind, p.capabilities[kind]) : kind \in CapabilityKinds \ {"dns"}}
       \cup {addCapabilityDependency(c, "dns", id) : id \in p.dns}
       \cup {addBindingDependency(locateBinding(catalog, id), ById(locateBinding(catalog, id).bindings, id)) :
                id \in p.bindings}
       \cup UNION {{addContextDependency(ById(catalog.contexts, d.context)),
                    addCapabilityDependency(ById(catalog.contexts, d.context), "runtime", d.runtime)} :
                      d \in p.delegated}

\* deriveCloudContextPlacementDependencies: each subject is bound to the
\* selection that consumes it.
deriveCloudContextPlacementDependencies(catalog, selection) ==
    {[dependency |-> d, consumer |-> selection] :
        d \in DependencyInputs(catalog, selectedPlacement(catalog, selection))}

\* What the observer and the verifiers derive, for each catalog and selection.
Derivations == {q \in AcceptedCatalogs \X Selections : PlacementsOf(Catalogs[q[1]], q[2]) # {}}
Closures == [q \in Derivations |-> deriveCloudContextPlacementDependencies(Catalogs[q[1]], q[2])]

BindingsIn(closure) ==
    {d.dependency.key[3] : d \in {e \in closure : e.dependency.key[2] = "resource-binding"}}

\* The desired state of a catalog: all of it but its statuses.
DesiredState(catalog) ==
    [environment |-> catalog.environment, placements |-> catalog.placements,
     contexts |-> {[f \in DOMAIN c \ {"status"} |->
                        IF f = "bindings" THEN {DesiredBinding(b) : b \in c.bindings} ELSE c[f]] :
                      c \in catalog.contexts}]

cloudContextCatalogDesiredStateDigest ==
    Digests([c \in AcceptedCatalogs |-> DesiredState(Catalogs[c])])
placementDigest ==
    Digests([q \in Derivations |-> selectedPlacement(Catalogs[q[1]], q[2])])
cloudContextDependencyClosureDigest == Digests(Closures)

-----------------------------------------------------------------------------
(* Resolvers *)

\* requiredResolver: the one resolver of the scheme, and only within its scope.
requiredResolver(reference, context, selection, environment, registry) ==
    \E r \in registry :
        /\ r.scheme = reference.scheme
        /\ reference.purpose \in r.allowed["purposes"]
        /\ reference.confidentiality \in r.allowed["confidentialities"]
        /\ reference.projection \in r.allowed["projections"]
        /\ reference.output \in r.allowed["outputs"]
        /\ environment \in r.allowed["environments"]
        /\ selection.organization \in r.allowed["organizations"]
        /\ selection.tenant \in r.allowed["tenants"]
        /\ context \in r.allowed["contexts"]

DependencyAuthorized(d, environment, registry) ==
    \A reference \in d.dependency.references :
        requiredResolver(reference, d.dependency.key[1], d.consumer, environment, registry)

AuthorizedPart(q, registry) ==
    {d \in Closures[q] : DependencyAuthorized(d, Catalogs[q[1]].environment, Registries[registry])}

\* The dispatch sets each registry authorizes completely.
AuthorizedDispatches ==
    {x \in Derivations \X DOMAIN Registries : AuthorizedPart(x[1], x[2]) = Closures[x[1]]}

SchemesOf(closure) == {r.scheme : r \in UNION {d.dependency.references : d \in closure}}

\* The longest a resolution of one of these references may live.
ResolutionTtls(closure, registry) == {r.ttl : r \in {s \in registry : s.scheme \in SchemesOf(closure)}}

\* assertResolutionLifetime: a resolution spans the evidence that carries it.
assertResolutionLifetime(resolution, ttls, issued, expires) ==
    /\ resolution.resolved <= issued
    /\ resolution.expires >= expires
    /\ resolution.resolved < resolution.expires
    /\ \A ttl \in ttls : resolution.expires - resolution.resolved <= ttl

-----------------------------------------------------------------------------
(* Evidence *)

\* uniqueTrustedVerifier
uniqueTrustedVerifier(evidence) ==
    Cardinality({t \in TrustedVerifiers : t.key = evidence.key}) = 1

TrustOf(evidence) == CHOOSE t \in TrustedVerifiers : t.key = evidence.key

NotRevoked(evidence, revoked) == evidence.id \notin revoked.ids /\ evidence.key \notin revoked.keys

InTime(evidence, now) ==
    /\ evidence.issued <= now
    /\ now < evidence.expires
    /\ evidence.expires - evidence.issued <= TrustOf(evidence).ttl

\* The subject is the selection asked about, and the verifier may speak of it.
SubjectMatches(evidence, selection, environment) ==
    /\ evidence.selection = selection
    /\ evidence.environment = environment
    /\ selection.organization \in TrustOf(evidence).organizations
    /\ selection.tenant \in TrustOf(evidence).tenants
    /\ environment \in TrustOf(evidence).environments

\* verifyObservations: one ready observation for each dependency and one
\* live resolution, by an authorized resolver, for each of its references.
verifyObservations(evidence, q, registry) ==
    /\ evidence.observations = cloudContextDependencyClosureDigest[q]
    /\ <<q, registry>> \in AuthorizedDispatches
    /\ assertResolutionLifetime(evidence.resolution, ResolutionTtls(Closures[q], Registries[registry]),
                                evidence.issued, evidence.expires)

\* assertDeployableCloudContextPlacement, up to the redemption of the evidence.
CloudEvidenceAccepted(evidence, selection, catalog, registry, lineage, revoked, now) ==
    LET q == <<catalog, selection>>
    IN /\ q \in Derivations
       /\ uniqueTrustedVerifier(evidence)
       /\ NotRevoked(evidence, revoked)
       /\ InTime(evidence, now)
       /\ SubjectMatches(evidence, selection, Catalogs[catalog].environment)
       /\ evidence.catalog = cloudContextCatalogDesiredStateDigest[catalog]
       /\ evidence.placement = placementDigest[q]
       /\ evidence.registry = registry
       /\ evidence.policy = AdmissionPolicy
       /\ evidence.previous = lineage
       /\ verifyObservations(evidence, q, registry)
=============================================================================

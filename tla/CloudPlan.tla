------------------------------ MODULE CloudPlan ------------------------------
(***************************************************************************)
(* From a blueprint and an intent for databases to the catalog of the      *)
(* cloud contexts they need: compileAwsCloudContextCatalog                 *)
(* (src/src/adapters/aws/cloudContextAdapter.ts) and what the catalog is   *)
(* held against (src/src/core/cloudContext.ts).  The intent is a document  *)
(* that is amended and migrated while catalogs are compiled from it.       *)
(***************************************************************************)
EXTENDS ManagedPostgres, CloudContext

CONSTANTS
    PlanBlueprint,      \* the blueprint of what is deployed
    Extensions,         \* accounts and context ids an operator may pass
    RawBindings,        \* bindings authors may add to the intent
    PlatformTenants,    \* tenants of the applications a migration may be given
    PlanEnvironments,
    MaxBindings         \* bound on the bindings of an intent

ASSUME PlanBlueprintAssumption == DOMAIN PlanBlueprint = BlueprintFields /\ FiniteDocument(PlanBlueprint)

VARIABLES
    planIntent,       \* the intent as it is written
    planEnvironment,  \* where it is to be deployed
    migratedFrom,     \* what it was migrated from, if it was not changed since
    planned           \* the catalogs compiled from it as it stands

planVars == <<planIntent, planEnvironment, migratedFrom, planned>>

-----------------------------------------------------------------------------
(* The compiler *)

plannedStatus ==
    [phase |-> "planned", generation |-> 1, observedGeneration |-> 0, verifiedAt |-> NoTime,
     evidenceRef |-> FALSE]

\* Two accounts and two contexts, kept apart.
validateExtensions(x) == x.platformAccount # x.executionAccount /\ x.application # x.execution

networkDomainsForPlane(b, plane) == {n.id : n \in {n \in b.domains : n.zone = plane.zone}}

Provided(kind, id, literals, purposes, scheme) ==
    [kind |-> kind, id |-> id, literals |-> literals, refs |-> [p \in purposes |-> scheme]]
Hosted(id, plane, credentials) ==
    [kind |-> "runtime", id |-> id, literals |-> RuntimeLiterals, planes |-> {plane.id}, trust |-> plane.trust,
     isolation |-> plane.isolation, credentials |-> credentials,
     refs |-> [p \in {"runtime-target"} |-> "stack-output"]]
Assumable(id, identities) ==
    [kind |-> "identity", id |-> id, literals |-> IdentityLiterals, allowed |-> identities,
     refs |-> [p \in {"identity-binding"} |-> "stack-output"]]

\* What both contexts have: a network, a registry, observability and a zone.
Commons(prefix, zones) ==
    {Provided("network", prefix.network, NetworkLiterals, {"network-boundary"}, "stack-output"),
     Provided("registry", prefix.registry, RegistryLiterals, {"registry-target"}, "provider-reference"),
     Provided("observability", prefix.observability, ObservabilityLiterals,
              {"audit-sink", "logs-sink", "metrics-sink", "traces-sink"}, "stack-output")}
    \cup {Provided("dns", z, DnsLiterals, {"dns-zone"}, "stack-output") : z \in zones}

PlatformNames ==
    [network |-> "platform-private-network", registry |-> "platform-registry",
     observability |-> "platform-observability"]
ExecutionNames ==
    [network |-> "isolated-execution-network", registry |-> "execution-registry",
     observability |-> "execution-observability"]

PlannedBinding(k) ==
    [id |-> k.id, application |-> k.tenant, component |-> k.module, literals |-> BindingLiterals,
     service |-> codeflyServiceRef(k), boundary |-> k.boundary, database |-> k.database,
     runtimeIdentity |-> k.runtimeIdentity, migrationIdentity |-> k.migrationIdentity,
     runtimeBoundary |-> k.runtimeBoundary, migrationBoundary |-> k.migrationBoundary,
     refs |-> [p \in {"provider-resource", "postgres-endpoint", "postgres-ca-bundle",
                      "postgres-runtime-identity", "postgres-migration-identity"} |-> p],
     status |-> plannedStatus]

PlannedContext(id, env, capabilities, bindings) ==
    [id |-> id, environment |-> env, literals |-> ContextLiterals,
     refs |-> [p \in {"provider-boundary"} |-> "provider-boundary"],
     capabilities |-> capabilities, bindings |-> bindings, status |-> plannedStatus]

applicationContext(b, i, x) ==
    LET identities == {c[2].identity : c \in Components(b)}
                      \cup UNION {{k.runtimeIdentity, k.migrationIdentity} : k \in i.bindings}
    IN PlannedContext(x.application, i.environment,
           Commons(PlatformNames, {"platform-private-dns", "platform-public-dns"})
           \cup {Hosted("platform-runtime", Find(b.planes, <<"platform-applications">>), "workload-identity"),
                 Assumable("platform-workload-identities", identities)},
           {PlannedBinding(k) : k \in i.bindings})

executionContext(b, i, x, plane) ==
    LET identities == {<<"mind", "execution", "service">>}
                      \cup {d.id : d \in {d \in b.identities : d.tenant # Undefined}}
    IN PlannedContext(x.execution, i.environment,
           Commons(ExecutionNames, {"execution-private-dns"})
           \cup {Hosted("isolated-execution-runtime", plane, "brokered"),
                 Assumable("execution-brokered-identities", identities)},
           {})

PlannedPlacement(application, component, i, x) ==
    [application |-> application, component |-> component.id, context |-> x.application,
     capabilities |->
        [kind \in CapabilityKinds \ {"dns"} |->
            CASE kind = "runtime" -> "platform-runtime"
              [] kind = "identity" -> "platform-workload-identities"
              [] OTHER -> PlatformNames[kind]],
     dns |-> {"platform-private-dns"} \cup Report("platform-public-dns", component.ingress = "public"),
     bindings |-> {k.id : k \in {k \in i.bindings : k.tenant = application /\ k.module = component.id}},
     delegated |-> IF application = <<"mind">> /\ component.id = <<"execution">>
                   THEN {[context |-> x.execution, runtime |-> "isolated-execution-runtime"]} ELSE {}]

\* The catalog, for the untrusted plane that comes first in the blueprint.
PlannedCatalog(b, i, x, plane) ==
    [environment |-> i.environment,
     contexts |-> {applicationContext(b, i, x), executionContext(b, i, x, plane)},
     placements |-> {PlannedPlacement(c[1], c[2], i, x) : c \in Components(b)}]

-----------------------------------------------------------------------------
(* What the catalog is held against *)

assertBlueprintPlacements(catalog, b) ==
    /\ {<<p.application, p.component>> : p \in catalog.placements} = {<<c[1], c[2].id>> : c \in Components(b)}
    /\ \A c \in Components(b) : \A p \in catalog.placements :
           (p.application = c[1] /\ p.component = c[2].id) =>
               LET context == ById(catalog.contexts, p.context)
               IN /\ c[2].plane \in ById(Capabilities(context, "runtime"), p.capabilities["runtime"]).planes
                  /\ c[2].identity \in ById(Capabilities(context, "identity"), p.capabilities["identity"]).allowed

assertManagedPostgresBindings(catalog, i) ==
    /\ i.environment = catalog.environment
    /\ {b.id : b \in AllBindings(catalog)} = {k.id : k \in i.bindings}
    /\ \A k \in i.bindings : \A b \in AllBindings(catalog) : b.id = k.id =>
           /\ b.application = k.tenant /\ b.component = k.module
           /\ b.service = codeflyServiceRef(k)
           /\ b.boundary = k.boundary
           /\ b.runtimeBoundary = k.runtimeBoundary /\ b.migrationBoundary = k.migrationBoundary
           /\ b.runtimeIdentity = k.runtimeIdentity /\ b.migrationIdentity = k.migrationIdentity
           /\ b.database = k.database

untrustedPlanes(b) == {w \in b.planes : w.trust = "untrusted"}

\* Whether compileAwsCloudContextCatalog returns.
compileAwsCloudContextCatalog(b, i, x, plane) ==
    /\ assertManagedPostgresIntent(i, {b}, 1)
    /\ validateExtensions(x)
    /\ <<"platform-applications">> \in Ids(b.planes)
    /\ plane \in untrustedPlanes(b)
    /\ networkDomainsForPlane(b, Find(b.planes, <<"platform-applications">>)) # {}
    /\ networkDomainsForPlane(b, plane) # {}
    /\ LET catalog == PlannedCatalog(b, i, x, plane)
       IN /\ assertCloudContextCatalog(catalog)
          /\ assertBlueprint(b, 1)
          /\ assertBlueprintPlacements(catalog, b)
          /\ assertManagedPostgresBindings(catalog, i)

-----------------------------------------------------------------------------
(* The life of an intent *)

InitPlan ==
    /\ planIntent \in [apiVersion : {"v1alpha1", "v1alpha2"}, literals : {IntentLiterals}, bindings : {{}}]
    /\ planEnvironment \in PlanEnvironments
    /\ migratedFrom = {}
    /\ planned = {}

AmendIntent(raw) ==
    /\ raw \notin planIntent.bindings
    /\ Cardinality(planIntent.bindings) < MaxBindings
    /\ planIntent' = [planIntent EXCEPT !.bindings = @ \cup {raw}]
    /\ migratedFrom' = {}
    /\ planned' = {}
    /\ UNCHANGED planEnvironment

\* With or without the blueprint, as the caller likes.
MigrateIntent(blueprints, tenants) ==
    /\ migrateManagedPostgresV1alpha1ToV1alpha2(planIntent, planEnvironment, blueprints, "deus", tenants, 1)
    /\ planIntent' = WithTenancy(planIntent, "deus", tenants)
    /\ migratedFrom' = {planIntent}
    /\ planned' = {}
    /\ UNCHANGED planEnvironment

\* The script parses the intent against the blueprint and compiles.
RenderCloudContexts(x, plane) ==
    LET i == ParsedIntent(planIntent, planEnvironment)
    IN /\ parseManagedPostgresIntent(planIntent, planEnvironment, {PlanBlueprint}, 1)
       /\ compileAwsCloudContextCatalog(PlanBlueprint, i, x, plane)
       /\ planned' = {PlannedCatalog(PlanBlueprint, i, x, plane)}
       /\ UNCHANGED <<planIntent, planEnvironment, migratedFrom>>

NextPlan ==
    \/ \E raw \in RawBindings : AmendIntent(raw)
    \/ \E blueprints \in SUBSET {PlanBlueprint}, tenants \in PlatformTenants : MigrateIntent(blueprints, tenants)
    \/ \E x \in Extensions, plane \in untrustedPlanes(PlanBlueprint) : RenderCloudContexts(x, plane)

SpecPlan == InitPlan /\ [][NextPlan]_planVars

-----------------------------------------------------------------------------
(* Properties *)

\* In whatever order an intent is amended, migrated and compiled, a database
\* of a planned catalog is consumed by one placement, of the component that
\* alone holds its data boundary and runs under its runtime identity; nobody
\* who runs as a component migrates a database; and customer code is never
\* placed beside the databases.
PlannedDatabasesAreOwned ==
    \A catalog \in planned :
        LET components == Components(PlanBlueprint)
            own(p) == {c \in components : <<c[1], c[2].id>> = <<p.application, p.component>>}
        IN \A b \in AllBindings(catalog) :
              /\ \A c \in components : c[2].identity # b.migrationIdentity
              /\ Cardinality({p \in catalog.placements : b.id \in p.bindings}) = 1
              /\ \A p \in catalog.placements : b.id \in p.bindings =>
                     /\ {c \in components : b.boundary \in c[2].boundaries} = own(p)
                     /\ \A c \in own(p) : c[2].identity = b.runtimeIdentity
              /\ \A p \in catalog.placements : \A d \in p.delegated :
                     b \notin ById(catalog.contexts, d.context).bindings

\* Migrating an intent to the version with tenants changes nothing about what
\* is deployed: it renders whenever its source did, to the same catalog, and
\* two databases have one platform tenant exactly if they have one application.
MigrationKeepsThePlan ==
    \A source \in migratedFrom :
        LET before == ParsedIntent(source, planEnvironment)
            after == ParsedIntent(planIntent, planEnvironment)
        IN /\ \A x \in Extensions, plane \in untrustedPlanes(PlanBlueprint) :
                 /\ compileAwsCloudContextCatalog(PlanBlueprint, before, x, plane)
                    <=> compileAwsCloudContextCatalog(PlanBlueprint, after, x, plane)
                 /\ PlannedCatalog(PlanBlueprint, before, x, plane) = PlannedCatalog(PlanBlueprint, after, x, plane)
           /\ \A k, l \in planIntent.bindings :
                 (k.tenancy.platformTenant = l.tenancy.platformTenant)
                 <=> (k.tenancy.application = l.tenancy.application)
=============================================================================

-------------------------- MODULE BlueprintPolicies --------------------------
(***************************************************************************)
(* The security evaluation of blueprints: the graph (src/src/core/graph.ts)*)
(* network paths (reachability.ts), effective entitlements                 *)
(* (entitlements.ts) and the nine default policies (policy.ts), each as    *)
(* the set of the codes it reports.                                        *)
(***************************************************************************)
EXTENDS BlueprintSchema, Sequences, Violations

CONSTANT MaxPaths     \* the limit on paths from one zone, or one identity

Ids(entries) == {e.id : e \in entries}
Find(entries, id) == CHOOSE e \in entries : e.id = id
UnknownScope == [mode |-> "unknown", tenants |-> {}]
ScopeOf(entries, id) == IF id \in Ids(entries) THEN Find(entries, id).scope ELSE UnknownScope
KindOf(b, id) == IF id \in Ids(b.zones) THEN Find(b.zones, id).kind ELSE "unknown"

\* duplicateValues: a value that two of the lists, or of the owners, hold.
Shared(lists) == \E l, k \in DOMAIN lists : l # k /\ lists[l] \cap lists[k] # {}

-----------------------------------------------------------------------------
(* The graph: only the flows and the grants of it are read. *)

\* Every hop of a flow carries the authorization of the whole flow.
Hops(f) ==
    LET stops == <<f.from>> \o f.via \o <<f.to>>
    IN {[flow |-> f.id, hop |-> i, from |-> stops[i], to |-> stops[i + 1],
         brokered |-> f.authorization = "brokered"] : i \in 1..(Len(stops) - 1)}

CanReach(b) == UNION {Hops(f) : f \in b.flows}

-----------------------------------------------------------------------------
(* Network reachability *)

Zones(path, from) == {from} \cup {path[i].to : i \in DOMAIN path}

\* Where a path or a chain that starts at a place ends.
EndOf(path, from) == IF path = <<>> THEN from ELSE path[Len(path)].to

\* Every path is explored: one more edge, never to a zone it has visited.
Extended(paths, edges, from) ==
    UNION {{Append(p, e) : e \in {e \in edges : e.from = EndOf(p, from) /\ e.to \notin Zones(p, from)}} :
              p \in paths}

\* The paths of each length.
PathLevels(edges, from, depth) ==
    LET level[n \in 0..depth] == IF n = 0 THEN {<<>>} ELSE Extended(level[n - 1], edges, from)
    IN level

PathsUpTo(b, from, depth) ==
    LET level == PathLevels(CanReach(b), from, depth)
    IN UNION {level[n] : n \in 1..depth}

\* Variant: paths through at most one zone in between.
findNetworkPaths_OneTransit(b, from) == PathsUpTo(b, from, 2)

findNetworkPaths(b, from) == PathsUpTo(b, from, Cardinality(b.zones))

TooManyPaths(b) == \E z \in b.zones : Cardinality(findNetworkPaths(b, z.id)) > MaxPaths

-----------------------------------------------------------------------------
(* Effective entitlements *)

\* Variant: only what an identity may assume directly.
reachableIdentities_Direct(b, principal) ==
    {<<>>} \cup {<<d>> : d \in {d \in b.delegations : d.from = principal /\ d.to # principal}}

\* The chains of delegations that start at a principal, without repetition.
reachableIdentities(b, principal) ==
    LET n == Cardinality(b.identities)
        level == PathLevels(b.delegations, principal, n)
    IN UNION {level[i] : i \in 0..n}

resourceMatches(resources, requested) == <<"*">> \in resources \/ requested \in resources
actionMatches(actions, requested) ==
    \E a \in actions : a \in {requested, <<"*", "*">>, <<requested[1], "*">>}

Held(b, principal, effect) ==
    {g \in b.grants :
        /\ g.effect = effect
        /\ \E c \in reachableIdentities(b, principal) : EndOf(c, principal) = g.identity}

\* A deny on any identity of the chain counts against every allow.
analyzeEntitlements(b, principal) ==
    LET denies == Held(b, principal, "deny")
    IN UNION {{[grant |-> g, resource |-> x[1], action |-> x[2],
                allowed |-> ~\E d \in denies : /\ resourceMatches(d.resources, x[1])
                                               /\ actionMatches(d.actions, x[2])] :
                  x \in g.resources \X g.actions} : g \in Held(b, principal, "allow")}

TooManyChains(b) == \E i \in b.identities : Cardinality(reachableIdentities(b, i.id)) > MaxPaths

-----------------------------------------------------------------------------
(* structuralIntegrityPolicy *)

\* The identifiers of resources, list by list, and of everything else.
ResourceLists(b) ==
    [l \in {"zones", "domains", "planes", "applications", "tenants", "boundaries", "identities", "sinks"} |->
        Ids(b[l])]
ResourceIds(b) == UNION {ResourceLists(b)[l] : l \in DOMAIN ResourceLists(b)}
Repeats(entries) == Cardinality(Ids(entries)) # Cardinality(entries)

DuplicateIds(b) ==
    LET lists == [l \in DOMAIN ResourceLists(b) \cup {"flows", "grants", "delegations", "requirements"} |-> b[l]]
    IN \/ \E l \in DOMAIN lists : Repeats(lists[l])
       \/ Shared([l \in DOMAIN lists |-> Ids(lists[l])])

ValidCidr(c) == c[1] <= c[2]
cidrsOverlap(c, d) == c[1] <= d[2] /\ d[1] <= c[2]

NetworkIntegrity(b) ==
    LET zones == Ids(b.zones)
        allocations == UNION {{d.id} \X d.cidrs : d \in b.domains}
    IN Report("CORE_UNKNOWN_ZONE", \E d \in b.domains : d.zone \notin zones)
       \cup Report("CORE_INVALID_RESILIENCE", \E d \in b.domains : d.availabilityZones < 1)
       \cup Report("CORE_INVALID_CIDR", \E a \in allocations : ~ValidCidr(a[2]))
       \cup Report("CORE_OVERLAPPING_CIDR",
                   \E a, c \in allocations : /\ a # c
                                             /\ ValidCidr(a[2]) /\ ValidCidr(c[2])
                                             /\ cidrsOverlap(a[2], c[2]))
       \cup Report("CORE_INVALID_FLOW", \E f \in b.flows : {f.from, f.to} \ zones # {})
       \cup Report("CORE_INVALID_FLOW_HOP", \E f \in b.flows : \E i \in DOMAIN f.via : f.via[i] \notin zones)
       \cup Report("CORE_UNKNOWN_WORKLOAD_ZONE", \E w \in b.planes : w.zone \notin zones)

ReferenceIntegrity(b) ==
    LET identities == Ids(b.identities)
        resources == ResourceIds(b)
    IN Report("CORE_UNKNOWN_IDENTITY", \E g \in b.grants : g.identity \notin identities)
       \cup Report("CORE_UNKNOWN_RESOURCE", \E g \in b.grants : ~(g.resources \subseteq resources))
       \cup Report("CORE_UNKNOWN_DELEGATION_SOURCE", \E d \in b.delegations : d.from \notin identities)
       \cup Report("CORE_UNKNOWN_DELEGATION_TARGET", \E d \in b.delegations : d.to \notin identities)
       \cup Report("CORE_UNKNOWN_EVIDENCE_SINK", \E r \in b.requirements : r.sink \notin resources)
       \cup Report("CORE_UNKNOWN_EVIDENCE_SOURCE", \E r \in b.requirements : ~(r.sources \subseteq resources))

structuralIntegrityPolicy(b) ==
    Report("CORE_DUPLICATE_ID", DuplicateIds(b)) \cup NetworkIntegrity(b) \cup ReferenceIntegrity(b)

-----------------------------------------------------------------------------
(* networkBoundaryPolicy and transitiveNetworkPolicy *)

Trusted(kind) == kind \in {"control-plane", "data"}
InspectedZones(b) == {d.zone : d \in {d \in b.domains : "inspectedEgress" \in d.flags}}

EgressBoundary(b) ==
    LET external == {f \in b.flows : KindOf(b, f.to) = "external"}
    IN IF "requireInspectedEgress" \notin b.posture.flags
       THEN {}
       ELSE Report("NET_INSPECTION_MISSING", InspectedZones(b) = {})
            \cup Report("NET_EMPTY_EGRESS_ALLOWLIST", \E f \in external : f.destinations = {})
            \cup Report("NET_UNINSPECTED_EGRESS",
                        \E f \in external : \A i \in DOMAIN f.via : f.via[i] \notin InspectedZones(b))

networkBoundaryPolicy(b) ==
    Report("NET_PUBLIC_TRUSTED_ZONE",
           /\ "forbidPublicControlPlanes" \in b.posture.flags
           /\ \E z \in b.zones : Trusted(z.kind) /\ z.public)
    \cup Report("NET_DIRECT_INTERNET",
                \E d \in b.domains : /\ "directInternetAccess" \in d.flags
                                     /\ KindOf(b, d.zone) \notin {"egress", "edge"})
    \cup EgressBoundary(b)
    \cup Report("NET_EXECUTION_BYPASS",
                \E f \in b.flows : /\ KindOf(b, f.from) = "execution"
                                   /\ Trusted(KindOf(b, f.to))
                                   /\ f.authorization # "brokered")

\* What is wrong with one path from a zone.
PathViolations(b, source, path) ==
    LET end == path[Len(path)].to
        scope == ScopeOf(b.zones, end)
    IN Report("NET_TRANSITIVE_EXECUTION_BYPASS",
              /\ source.kind = "execution"
              /\ Trusted(KindOf(b, end))
              /\ ~path[1].brokered
              /\ Len(path) > 1)
       \cup Report("NET_TRANSITIVE_UNINSPECTED_EGRESS",
                   /\ "requireInspectedEgress" \in b.posture.flags
                   /\ KindOf(b, end) = "external"
                   /\ Zones(path, source.id) \cap InspectedZones(b) = {})
       \cup Report("NET_CROSS_TENANT_PATH",
                   /\ source.scope.tenants # {}
                   /\ scope.tenants # {}
                   /\ source.scope.tenants \cap scope.tenants = {})

transitiveNetworkPolicy(b) ==
    UNION {UNION {PathViolations(b, z, p) :
                     p \in {p \in findNetworkPaths(b, z.id) : p[Len(p)].to \in Ids(b.zones)}} : z \in b.zones}

-----------------------------------------------------------------------------
(* workloadPlanePolicy *)

workloadCapabilities(w) ==
    Report("workload-identity", "workloadIdentity" \in w.flags)
    \cup Report("private-control-plane",
                w.orchestrator = "managed-kubernetes" /\ "controlPlanePublic" \notin w.flags)
    \cup Report("microvm-runtime", "microvm" \in {w.orchestrator, w.isolation})
    \cup Report("external-sandbox", w.orchestrator = "external-sandbox")
    \cup Report("serverless-runtime", w.orchestrator = "serverless")

UntrustedPlane(b, w) ==
    Report("WORKLOAD_UNTRUSTED_ZONE", KindOf(b, w.zone) # "execution")
    \cup Report("WORKLOAD_UNBROKERED_CREDENTIALS", w.credentials # "brokered")
    \cup Report("WORKLOAD_WEAK_RUNTIME_ISOLATION", w.isolation \notin {"microvm", "dedicated-vm"})
    \cup Report("WORKLOAD_UNBOUNDED_EXECUTION", w.minutes = {})

workloadPlanePolicy(b) ==
    UNION {
        Report("WORKLOAD_PUBLIC_CONTROL_PLANE",
               "forbidPublicControlPlanes" \in b.posture.flags /\ "controlPlanePublic" \in w.flags)
        \cup Report("WORKLOAD_IDENTITY_MISSING", "workloadIdentity" \notin w.flags)
        \cup (IF w.trust = "untrusted"
              THEN UntrustedPlane(b, w)
              ELSE Report("WORKLOAD_AMBIENT_CREDENTIALS", w.credentials = "ambient"))
        \cup Report("WORKLOAD_CAPABILITY_UNDECLARED", ~(workloadCapabilities(w) \subseteq b.capabilities)) :
        w \in b.planes}

-----------------------------------------------------------------------------
(* applicationDeploymentPolicy *)

\* Every component of every application, with the application it is part of.
Components(b) == UNION {{a.id} \X a.components : a \in b.applications}

SharedOwnership(b) ==
    Report("APP_SHARED_SERVICE_IDENTITY", Shared([a \in b.applications |-> {a.identity}]))
    \cup Report("APP_SHARED_DATA_BOUNDARY", Shared([a \in b.applications |-> a.boundaries]))
    \cup Report("APP_SHARED_COMPONENT_IDENTITY", Shared([c \in Components(b) |-> {c[2].identity}]))
    \cup Report("APP_SHARED_COMPONENT_DATA", Shared([c \in Components(b) |-> c[2].boundaries]))

ShortLivedWorkload(b, id) ==
    id \in Ids(b.identities) /\ Find(b.identities, id).kind = "workload" /\ Find(b.identities, id).shortLived
Retains(e, minimum) == e.minimumReplicas >= minimum /\ e.maximumUnavailable < e.minimumReplicas

ComponentViolations(b, a, c) ==
    Report("APP_COMPONENT_WORKLOAD_POSTURE", ScopeOf(b.planes, c.plane) # a.scope)
    \cup Report("APP_COMPONENT_IDENTITY_POSTURE", ~ShortLivedWorkload(b, c.identity))
    \cup Report("APP_COMPONENT_AVAILABILITY_POSTURE", ~Retains(c, 1))
    \cup Report("APP_COMPONENT_DATA_POSTURE", \E d \in c.boundaries : ScopeOf(b.boundaries, d) # a.scope)

\* Calls between components, within the application and to another one.
DependencyViolations(b, a) ==
    LET own == Ids(a.components)
        Key(c) == <<c.from, c.to, c.audience>>
        Known(d) == /\ d.deployment \in Ids(b.applications) \ {a.id}
                    /\ d.to \in Ids(Find(b.applications, d.deployment).components)
    IN Report("APP_COMPONENT_DEPENDENCY_INVALID",
              \E c \in a.calls : \/ c.from = c.to
                                 \/ {c.from, c.to} \ own # {}
                                 \/ c.actions = {}
                                 \/ \E d \in a.calls : d # c /\ Key(d) = Key(c))
       \cup Report("APP_DEPENDENCY_INVALID",
                   \E d \in a.dependencies : ~Known(d) \/ d.from \notin own \/ d.actions = {})

ApplicationViolations(b, a) ==
    Report("APP_UNKNOWN_WORKLOAD_PLANE", a.plane \notin Ids(b.planes))
    \cup Report("APP_SCOPE_MISMATCH", a.plane \in Ids(b.planes) /\ ScopeOf(b.planes, a.plane) # a.scope)
    \cup Report("APP_IDENTITY_POSTURE", ~ShortLivedWorkload(b, a.identity))
    \cup Report("APP_DUPLICATE_COMPONENT", Repeats(a.components))
    \cup Report("APP_COMPONENT_DATA_COVERAGE", UNION {c.boundaries : c \in a.components} # a.boundaries)
    \cup (UNION {ComponentViolations(b, a, c) : c \in a.components})
    \cup Report("APP_UNKNOWN_DATA_BOUNDARY", ~(a.boundaries \subseteq Ids(b.boundaries)))
    \cup Report("APP_DATA_SCOPE_MISMATCH",
                \E d \in a.boundaries \cap Ids(b.boundaries) : ScopeOf(b.boundaries, d) # a.scope)
    \cup DependencyViolations(b, a)
    \cup Report("APP_AVAILABILITY_POSTURE", ~Retains(a, 2))
    \cup Report("APP_RELEASE_POSTURE", Cardinality(a.release) < 4)
    \cup Report("APP_EVIDENCE_MISSING",
                ~\E r \in b.requirements : a.id \in r.sources /\ {"deployment", "authorization"} \subseteq r.events)

applicationDeploymentPolicy(b) ==
    SharedOwnership(b) \cup UNION {ApplicationViolations(b, a) : a \in b.applications}

-----------------------------------------------------------------------------
(* tenantIsolationPolicy and dataProtectionPolicy *)

scopeContainsTenant(scope, tenant) == tenant \in scope.tenants
TenantOf(b, id) == IF id \in Ids(b.identities) THEN Find(b.identities, id).tenant ELSE Undefined

\* What an account of its own asks of a tenant's zones and data.
DedicatedAccount(b, t) ==
    Report("TENANT_ACCOUNT_BOUNDARY_MISSING",
           \E z \in t.zones : \/ z \notin Ids(b.zones)
                              \/ Find(b.zones, z).boundary = Undefined
                              \/ Find(b.zones, z).scope.mode # "dedicated")
    \cup Report("TENANT_DEDICATED_KEY_MISSING",
                \E d \in t.boundaries : \/ d \notin Ids(b.boundaries)
                                        \/ "dedicatedPerTenant" \notin Find(b.boundaries, d).encryption)

tenantIsolationPolicy(b) ==
    UNION {
        Report("TENANT_INCOMPLETE_PLACEMENT", t.zones = {} \/ t.boundaries = {})
        \cup Report("TENANT_ZONE_SCOPE_MISMATCH",
                    \E z \in t.zones : ~scopeContainsTenant(ScopeOf(b.zones, z), t.id))
        \cup Report("TENANT_DATA_SCOPE_MISMATCH",
                    \E d \in t.boundaries : ~scopeContainsTenant(ScopeOf(b.boundaries, d), t.id))
        \cup Report("TENANT_IDENTITY_SCOPE_MISMATCH", \E i \in t.identities : TenantOf(b, i) # t.id)
        \cup (IF t.tier = "dedicated-account" THEN DedicatedAccount(b, t) ELSE {}) :
        t \in b.tenants}

\* Public and internal data is asked for no more than a service and restore tests.
dataViolations(d) ==
    Report("DATA_SERVICE_MISSING", d.services = {})
    \cup Report("DATA_RESTORE_TEST_MISSING", "backup" \in d.recovery /\ d.restoreTestIntervalDays < 1)
    \cup (IF d.classification \in {"public", "internal"}
          THEN {}
          ELSE Report("DATA_ENCRYPTION_POSTURE",
                      ~({"customerManagedKey", "rotationRequired"} \subseteq d.encryption))
               \cup Report("DATA_REGULATED_SHARED_KEY",
                           d.classification = "regulated" /\ "dedicatedPerTenant" \notin d.encryption)
               \cup Report("DATA_DELETION_EVIDENCE", "deletionEvidence" \notin d.required)
               \cup Report("DATA_RETENTION_POSTURE",
                           \/ "object" \in d.services /\ "versioning" \notin d.required
                           \/ d.retentionDays < 1)
               \cup Report("DATA_OBJECT_AUDIT_MISSING",
                           "object" \in d.services /\ "objectAudit" \notin d.required)
               \cup Report("DATA_EXPORT_EVIDENCE", "exportEvidence" \notin d.required)
               \cup Report("DATA_RECOVERY_POSTURE", Cardinality(d.recovery) < 4))

dataProtectionPolicy(b) == UNION {dataViolations(d) : d \in b.boundaries}

-----------------------------------------------------------------------------
(* identityPolicy and evidencePolicy *)

\* The tenants of a resource; of two lists that hold it the last one counts,
\* and identifiers are unique in what the structural policy accepts.
tenantScopesByResource(b, resource) ==
    UNION {e.scope.tenants : e \in {e \in b.boundaries \cup b.planes \cup b.zones : e.id = resource}}

validAccessException(b, exception, resource, now) ==
    /\ exception.expires > now
    /\ \E r \in b.requirements : r.id = exception.requirement /\ resource \in r.sources

\* One entitlement of one principal that leaves its tenant without leave.
CrossesTenants(b, principal, e, now) ==
    LET tenants == tenantScopesByResource(b, e.resource)
    IN /\ e.allowed
       /\ principal.tenant # Undefined
       /\ tenants # {}
       /\ principal.tenant \notin tenants
       /\ ~\E x \in e.grant.exception : validAccessException(b, x, e.resource, now)

GrantScopes(b) ==
    LET scoped == {g \in b.grants : g.effect = "allow" /\ g.tenant # Undefined}
    IN Report("IDENTITY_GRANT_SCOPE_MISMATCH", \E g \in scoped : TenantOf(b, g.identity) # g.tenant)
       \cup Report("IDENTITY_CROSS_TENANT_GRANT",
                   \E g \in scoped : \E r \in g.resources \cap Ids(b.boundaries) :
                       ~scopeContainsTenant(ScopeOf(b.boundaries, r), g.tenant))

identityPolicy(b, now) ==
    Report("IDENTITY_LONG_LIVED", \E i \in b.identities : ~i.shortLived)
    \cup GrantScopes(b)
    \cup Report("IDENTITY_CROSS_TENANT_PATH",
                \E i \in b.identities : \E e \in analyzeEntitlements(b, i.id) : CrossesTenants(b, i, e, now))
    \cup Report("IDENTITY_VENDOR_CONFUSED_DEPUTY",
                \E d \in b.delegations : /\ d.from \in Ids(b.identities)
                                         /\ Find(b.identities, d.from).kind = "vendor"
                                         /\ ~({"audience", "externalSubject"} \subseteq d.conditions))
    \cup Report("IDENTITY_WILDCARD_GRANT",
                \E g \in b.grants : g.effect = "allow" /\ \E a \in g.actions : a[2] = "*")

WeakSink(b, s) == ~s.immutable \/ s.retentionDays < b.posture.minimumAuditRetentionDays

evidencePolicy(b) ==
    IF "requireImmutableAudit" \notin b.posture.flags
    THEN {}
    ELSE Report("EVIDENCE_SINK_MISSING", b.sinks = {})
         \cup Report("EVIDENCE_UNKNOWN_SINK", \E r \in b.requirements : r.sink \notin Ids(b.sinks))
         \cup Report("EVIDENCE_WEAK_SINK",
                     \E r \in b.requirements : /\ r.sink \in Ids(b.sinks)
                                               /\ WeakSink(b, Find(b.sinks, r.sink)))
         \cup Report("EVIDENCE_DATA_NOT_COVERED",
                     \E d \in b.boundaries : /\ d.classification # "public"
                                             /\ d.id \notin UNION {r.sources : r \in b.requirements})

-----------------------------------------------------------------------------
(* All of them *)

evaluateBlueprint(b, now) ==
    structuralIntegrityPolicy(b) \cup networkBoundaryPolicy(b) \cup transitiveNetworkPolicy(b)
    \cup workloadPlanePolicy(b) \cup applicationDeploymentPolicy(b) \cup tenantIsolationPolicy(b)
    \cup dataProtectionPolicy(b) \cup identityPolicy(b, now) \cup evidencePolicy(b)

\* Whether assertBlueprint returns: both searches end below their limit and
\* no policy reports anything.
assertBlueprint(b, now) ==
    ~TooManyPaths(b) /\ ~TooManyChains(b) /\ evaluateBlueprint(b, now) = {}
=============================================================================

--------------------------- MODULE BlueprintSchema ---------------------------
(***************************************************************************)
(* Blueprint documents: what the parser accepts (src/src/core/schema.ts)   *)
(* and what loading makes of the older version (src/src/core/migrations.ts)*)
(* A list of entries is a set of records, booleans are a set of the fields *)
(* that are true, a scope is its mode and its tenants, an address range is *)
(* the pair of its ends, an action is a service and a verb, and a value    *)
(* that may be absent is a set of at most one.  An entry repeated verbatim *)
(* has no counterpart here; the policies refuse it like any duplicate.     *)
(* Identifiers are sequences of the names they are put together from.      *)
(***************************************************************************)
EXTENDS Integers, FiniteSets

Undefined == <<>>      \* an optional identifier that is absent
Current == "v1alpha1"
ZoneKinds == {"edge", "control-plane", "workload", "execution", "data", "security", "egress", "external"}
CapabilityNames ==
    {"private-network", "centralized-egress", "managed-firewall", "private-control-plane",
     "workload-identity", "customer-managed-encryption", "immutable-audit-log",
     "dedicated-account-boundary", "microvm-runtime", "external-sandbox", "serverless-runtime"}
forbiddenSecretKeys ==
    {"password", "privateKey", "secret", "secretMaterial", "secretString", "secretValue", "token"}

\* A document is a text that was read: each of its lists ends.
FiniteDocument(d) ==
    /\ \A f \in DOMAIN d \ {"apiVersion", "posture"} : IsFiniteSet(d[f])
    /\ "applications" \in DOMAIN d => \A a \in d.applications : IsFiniteSet(a.components)

\* object: no field beyond the known ones.
Fields(entry, known) == DOMAIN entry \subseteq known

PlatformScope == [mode |-> "platform", tenants |-> {}]
Pooled(tenants) == [mode |-> "pooled", tenants |-> tenants]
Dedicated(tenant) == [mode |-> "dedicated", tenants |-> {tenant}]

\* The document lists a dedicated scope's one tenant and a platform scope's none.
parseTenantScope(s) ==
    \/ s = PlatformScope
    \/ s.mode = "pooled"
    \/ s.mode = "dedicated" /\ Cardinality(s.tenants) = 1

parsePosture(p) ==
    /\ p.flags \subseteq {"forbidPublicControlPlanes", "requireInspectedEgress", "requireImmutableAudit"}
    /\ p.minimumAuditRetentionDays >= 0

parseTrustZone(z) ==
    /\ Fields(z, {"id", "kind", "public", "scope", "boundary"})
    /\ z.kind \in ZoneKinds
    /\ parseTenantScope(z.scope)

parseNetworkDomain(d) ==
    /\ Fields(d, {"id", "zone", "cidrs", "availabilityZones", "flags"})
    /\ d.availabilityZones >= 1
    /\ d.flags \subseteq {"directInternetAccess", "inspectedEgress"}

parseFlow(f) ==
    /\ Fields(f, {"id", "from", "to", "authorization", "via", "destinations"})
    /\ f.authorization \in {"direct", "brokered"}

parseWorkloadPlane(w) ==
    /\ Fields(w, {"id", "zone", "scope", "trust", "orchestrator", "isolation", "flags", "credentials",
                  "minutes"})
    /\ parseTenantScope(w.scope)
    /\ w.trust \in {"trusted", "semi-trusted", "untrusted"}
    /\ w.orchestrator \in {"managed-kubernetes", "serverless", "microvm", "external-sandbox"}
    /\ w.isolation \in {"process", "container", "microvm", "dedicated-vm"}
    /\ w.flags \subseteq {"controlPlanePublic", "workloadIdentity"}
    /\ w.credentials \in {"ambient", "workload-identity", "brokered"}
    /\ \A m \in w.minutes : m >= 1

Ingresses == {"none", "private", "public"}

Availability(e) == e.minimumReplicas >= 1 /\ e.maximumUnavailable >= 0

parseApplicationDeployment(a) ==
    /\ Fields(a, {"id", "plane", "identity", "scope", "boundaries", "components", "calls",
                  "dependencies", "ingress", "minimumReplicas", "maximumUnavailable", "release"})
    /\ parseTenantScope(a.scope)
    /\ a.ingress \in Ingresses
    /\ Availability(a)
    /\ a.release \subseteq {"digestPinnedImages", "signatureVerification", "provenanceVerification",
                            "rollbackRequired"}
    /\ \A c \in a.components :
          /\ Fields(c, {"id", "plane", "identity", "boundaries", "ingress", "minimumReplicas",
                        "maximumUnavailable"})
          /\ c.ingress \in Ingresses
          /\ Availability(c)
    /\ \A c \in a.calls : Fields(c, {"from", "to", "audience", "actions"})
    /\ \A d \in a.dependencies : Fields(d, {"deployment", "from", "to", "audience", "actions"})

parseTenantPlacement(t) ==
    /\ Fields(t, {"id", "tier", "zones", "boundaries", "identities"})
    /\ t.tier \in {"pooled", "dedicated-data", "dedicated-network", "dedicated-account"}

parseDataBoundary(b) ==
    /\ Fields(b, {"id", "zone", "classification", "scope", "services", "encryption", "recovery",
                  "restoreTestIntervalDays", "retentionDays", "required"})
    /\ b.classification \in {"public", "internal", "confidential", "regulated"}
    /\ parseTenantScope(b.scope)
    /\ b.services \subseteq {"object", "relational"}
    /\ b.encryption \subseteq {"customerManagedKey", "dedicatedPerTenant", "rotationRequired"}
    /\ b.recovery \subseteq {"backup", "multiAz", "deletionProtection", "finalSnapshot"}
    /\ b.restoreTestIntervalDays >= 1
    /\ b.retentionDays >= 1
    /\ b.required \subseteq {"versioning", "replication", "objectAudit", "deletionEvidence",
                             "exportEvidence"}

parseBlueprintIdentity(i) ==
    /\ Fields(i, {"id", "kind", "tenant", "shortLived"})
    /\ i.kind \in {"workforce", "workload", "automation", "vendor"}

parseIdentityDelegation(d) == Fields(d, {"id", "from", "to", "conditions"})

parseGrant(g) ==
    /\ Fields(g, {"id", "identity", "resources", "actions", "effect", "tenant", "conditions", "exception"})
    /\ g.effect \in {"allow", "deny"}
    /\ \A x \in g.exception : Fields(x, {"expires", "requirement"})

parseEvidenceSink(s) ==
    /\ Fields(s, {"id", "immutable", "retentionDays", "scope"})
    /\ s.retentionDays >= 0
    /\ parseTenantScope(s.scope)

parseEvidenceRequirement(r) == Fields(r, {"id", "sources", "sink", "events"})

\* The keys of conditions are the only ones the known fields leave free.
rejectSecretMaterial(d) ==
    \A e \in d.delegations \cup d.grants : e.conditions \cap forbiddenSecretKeys = {}

BlueprintFields ==
    {"apiVersion", "posture", "capabilities", "zones", "domains", "flows", "planes", "applications",
     "tenants", "boundaries", "identities", "delegations", "grants", "sinks", "requirements"}

parsePlatformBlueprint(d) ==
    /\ DOMAIN d = BlueprintFields
    /\ d.apiVersion = Current
    /\ rejectSecretMaterial(d)
    /\ parsePosture(d.posture)
    /\ d.capabilities \subseteq CapabilityNames
    /\ \A z \in d.zones : parseTrustZone(z)
    /\ \A n \in d.domains : parseNetworkDomain(n)
    /\ \A f \in d.flows : parseFlow(f)
    /\ \A w \in d.planes : parseWorkloadPlane(w)
    /\ \A a \in d.applications : parseApplicationDeployment(a)
    /\ \A t \in d.tenants : parseTenantPlacement(t)
    /\ \A b \in d.boundaries : parseDataBoundary(b)
    /\ \A i \in d.identities : parseBlueprintIdentity(i)
    /\ \A g \in d.delegations : parseIdentityDelegation(g)
    /\ \A g \in d.grants : parseGrant(g)
    /\ \A s \in d.sinks : parseEvidenceSink(s)
    /\ \A r \in d.requirements : parseEvidenceRequirement(r)

\* The collections the older version may leave out become empty ones.
Migrated(d) ==
    IF d.apiVersion = "v1alpha0"
    THEN [f \in DOMAIN d \cup {"planes", "applications", "delegations"} |->
             IF f = "apiVersion" THEN Current ELSE IF f \in DOMAIN d THEN d[f] ELSE {}]
    ELSE d

\* Whether loading returns; what it returns is Migrated(d).
loadPlatformBlueprint(d) ==
    d.apiVersion \in {"v1alpha0", Current} /\ parsePlatformBlueprint(Migrated(d))
=============================================================================

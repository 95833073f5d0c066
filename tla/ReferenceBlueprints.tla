------------------------- MODULE ReferenceBlueprints -------------------------
(***************************************************************************)
(* The reference blueprints of src/src/core/referenceBlueprints.ts, one    *)
(* per isolation tier, and the altered ones the policies have to refuse.   *)
(***************************************************************************)
EXTENDS BlueprintPolicies

ReferenceNames ==
    {"pooled", "dedicated-data", "dedicated-network", "dedicated-account", "e2b-byoc", "microvm-fallback"}
TenantIds == {<<"a">>, <<"b">>}

tierFor(name) ==
    IF name \in {"pooled", "dedicated-data", "dedicated-network"} THEN name ELSE "dedicated-account"

zone(id, kind, scope, public, boundary) ==
    [id |-> id, kind |-> kind, public |-> public, scope |-> scope, boundary |-> boundary]

\* Address ranges are numbered; each network takes the range of its number.
domain(id, inZone, number, flags) ==
    [id |-> id, zone |-> inZone, cidrs |-> {<<10 * number, 10 * number + 9>>}, availabilityZones |-> 3,
     flags |-> flags]

executionPlane(id, inZone, scope, microvm) ==
    [id |-> id, zone |-> inZone, scope |-> scope, trust |-> "untrusted",
     orchestrator |-> IF microvm THEN "microvm" ELSE "external-sandbox",
     isolation |-> IF microvm THEN "microvm" ELSE "dedicated-vm",
     flags |-> {"workloadIdentity"}, credentials |-> "brokered", minutes |-> {60}]

Flow(id, from, via, to, authorization, destinations) ==
    [id |-> id, from |-> from, via |-> via, to |-> to, authorization |-> authorization,
     destinations |-> destinations]

executionFlows(z) ==
    {Flow(z \o <<"broker">>, z, <<>>, <<"control">>, "brokered", {}),
     Flow(z \o <<"egress">>, z, <<<<"egress">>>>, <<"internet">>, "brokered", {"api.github.com"})}

dataBoundary(id, inZone, scope, dedicated) ==
    [id |-> id, zone |-> inZone, classification |-> "confidential", scope |-> scope,
     services |-> {"object"},
     encryption |-> {"customerManagedKey", "rotationRequired"} \cup Report("dedicatedPerTenant", dedicated),
     recovery |-> {"backup", "multiAz", "deletionProtection", "finalSnapshot"},
     restoreTestIntervalDays |-> 30, retentionDays |-> 365,
     required |-> {"versioning", "objectAudit", "deletionEvidence", "exportEvidence"}]

createReferenceBlueprint(name) ==
    LET tier == tierFor(name)
        microvm == name = "microvm-fallback"
        ownNetwork == tier \in {"dedicated-network", "dedicated-account"}
        ownData == tier \in {"dedicated-data", "dedicated-account"}
        pool == Pooled(TenantIds)
        boundary(t, kind) == t \o <<IF tier = "dedicated-account" THEN "account" ELSE kind>>
        executionZone(t) == IF ownNetwork THEN t \o <<"execution">> ELSE <<"execution-shared">>
        dataZone(t) == IF ownData THEN t \o <<"data-zone">> ELSE <<"data-shared">>
        data(t) == IF ownData THEN t \o <<"data">> ELSE <<"data-shared-boundary">>
        identity(t) == t \o <<"workload">>
        executionZones == {executionZone(t) : t \in TenantIds}
        scopeIn(z, own) == IF own THEN Dedicated(<<z[1]>>) ELSE pool
        number(t) == IF t = <<"a">> THEN 0 ELSE 1
    IN [apiVersion |-> Current,
        posture |-> [flags |-> {"forbidPublicControlPlanes", "requireInspectedEgress",
                                "requireImmutableAudit"},
                     minimumAuditRetentionDays |-> 365],
        capabilities |->
            {"private-network", "centralized-egress", "managed-firewall", "workload-identity",
             "customer-managed-encryption", "immutable-audit-log",
             IF microvm THEN "microvm-runtime" ELSE "external-sandbox"}
            \cup Report("dedicated-account-boundary", tier = "dedicated-account"),
        zones |->
            {zone(<<"internet">>, "external", PlatformScope, TRUE, Undefined),
             zone(<<"egress">>, "egress", PlatformScope, TRUE, <<"network-account">>),
             zone(<<"control">>, "control-plane", PlatformScope, FALSE, <<"platform-account">>)}
            \cup {zone(executionZone(t), "execution", scopeIn(t, ownNetwork), FALSE,
                       IF ownNetwork THEN boundary(t, "network") ELSE Undefined) : t \in TenantIds}
            \cup {zone(dataZone(t), "data", scopeIn(t, ownData), FALSE,
                       IF ownData THEN boundary(t, "data") ELSE Undefined) : t \in TenantIds},
        domains |->
            {domain(<<"egress-net">>, <<"egress">>, 0, {"directInternetAccess", "inspectedEgress"}),
             domain(<<"control-net">>, <<"control">>, 1, {})}
            \cup {domain(executionZone(t) \o <<"net">>, executionZone(t),
                         IF ownNetwork THEN 30 + number(t) ELSE 10, {}) : t \in TenantIds}
            \cup {domain(dataZone(t) \o <<"net">>, dataZone(t),
                         IF ownData THEN 40 + number(t) ELSE 20, {}) : t \in TenantIds},
        flows |-> UNION {executionFlows(z) : z \in executionZones},
        planes |-> {executionPlane(z \o <<"plane">>, z, scopeIn(z, ownNetwork), microvm) : z \in executionZones},
        applications |-> {},
        tenants |-> {[id |-> t, tier |-> tier, zones |-> {executionZone(t), dataZone(t)},
                      boundaries |-> {data(t)}, identities |-> {identity(t)}] : t \in TenantIds},
        boundaries |-> {dataBoundary(data(t), dataZone(t), scopeIn(t, ownData), ownData) : t \in TenantIds},
        identities |-> {[id |-> identity(t), kind |-> "workload", tenant |-> t, shortLived |-> TRUE] :
                            t \in TenantIds},
        delegations |-> {},
        grants |-> {[id |-> t \o <<"data-access">>, identity |-> identity(t), resources |-> {data(t)},
                     actions |-> {<<"data", "read">>, <<"data", "write">>}, effect |-> "allow",
                     tenant |-> t, conditions |-> {"brokered"}, exception |-> {}] : t \in TenantIds},
        sinks |-> {[id |-> <<"audit-log">>, immutable |-> TRUE, retentionDays |-> 2555,
                    scope |-> PlatformScope]},
        requirements |-> {[id |-> data(t) \o <<"audit">>, sources |-> {data(t)}, sink |-> <<"audit-log">>,
                           events |-> {"read", "write", "delete", "backup", "restore-test"}] :
                              t \in TenantIds}]

\* One entry of a list replaced by an altered one.
Altered(b, list, id, New(_)) ==
    [b EXCEPT ![list] = {IF e.id = id THEN New(e) ELSE e : e \in @}]

\* The altered blueprints with the code each of them must be refused with.
createHostileReferenceBlueprints ==
    {<<Altered(createReferenceBlueprint("dedicated-account"), "grants", <<"a", "data-access">>,
               LAMBDA g : [g EXCEPT !.resources = {<<"b", "data">>}]),
       "IDENTITY_CROSS_TENANT_GRANT">>,
     <<Altered(createReferenceBlueprint("dedicated-network"), "domains", <<"a", "execution", "net">>,
               LAMBDA d : [d EXCEPT !.flags = @ \cup {"directInternetAccess"}]),
       "NET_DIRECT_INTERNET">>,
     <<Altered(createReferenceBlueprint("e2b-byoc"), "planes", <<"a", "execution", "plane">>,
               LAMBDA w : [w EXCEPT !.orchestrator = "managed-kubernetes", !.isolation = "container",
                                    !.credentials = "ambient"]),
       "WORKLOAD_UNBROKERED_CREDENTIALS">>,
     <<Altered(createReferenceBlueprint("dedicated-account"), "boundaries", <<"a", "data">>,
               LAMBDA d : [d EXCEPT !.classification = "regulated",
                                    !.encryption = @ \ {"dedicatedPerTenant"}]),
       "DATA_REGULATED_SHARED_KEY">>}

\* The policies agree with the examples: no reference is refused, every
\* altered one is, with the code the repository's tests expect.
ASSUME ReferencesAreAccepted ==
    \A name \in ReferenceNames : assertBlueprint(createReferenceBlueprint(name), 1)
ASSUME HostileAreRefused ==
    \A h \in createHostileReferenceBlueprints : h[2] \in evaluateBlueprint(h[1], 1)
=============================================================================

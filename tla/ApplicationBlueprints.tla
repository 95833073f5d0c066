------------------------ MODULE ApplicationBlueprints ------------------------
(* The blueprint of the two applications the platform runs                 *)
(* (src/src/core/applicationBlueprints.ts): the pooled reference with      *)
(* warden and mind on a plane of their own.  Names of dependencies'        *)
(* protocols are left out.                                                 *)
EXTENDS ReferenceBlueprints

Plane == <<"platform-applications">>

Component(application, id, identity, ingress, replicas) ==
    [id |-> <<id>>, plane |-> Plane, identity |-> <<application, identity, "service">>,
     boundaries |-> {<<application, identity, "state">>}, ingress |-> ingress,
     minimumReplicas |-> replicas, maximumUnavailable |-> IF replicas = 1 THEN 0 ELSE 1]

Deployment(id, components, calls, dependency) ==
    [id |-> <<id>>, plane |-> Plane, identity |-> <<id, "service">>, scope |-> PlatformScope,
     boundaries |-> UNION {c.boundaries : c \in components}, ingress |-> "public",
     components |-> components, calls |-> calls, dependencies |-> {dependency},
     minimumReplicas |-> 3, maximumUnavailable |-> 1,
     release |-> {"digestPinnedImages", "signatureVerification", "provenanceVerification", "rollbackRequired"}]

Warden ==
    Deployment("warden",
        {Component("warden", "platform", "platform", "public", 3), Component("warden", "saas", "saas", "public", 3)},
        {[from |-> <<"platform">>, to |-> <<"saas">>, audience |-> "warden-saas.internal",
          actions |-> {"accounts:read", "state:write"}],
         [from |-> <<"saas">>, to |-> <<"platform">>, audience |-> "warden-platform.internal",
          actions |-> {"gateway:invoke"}]},
        [deployment |-> <<"mind">>, from |-> <<"platform">>, to |-> <<"mind">>, audience |-> "mind.internal",
         actions |-> {"agents:request", "approvals:redeem"}])

Mind ==
    Deployment("mind",
        {Component("mind", "mind", "core", "public", 3), Component("mind", "execution", "execution", "none", 2),
         Component("mind", "infra", "infra", "none", 1), Component("mind", "users", "users", "private", 3)},
        {[from |-> <<"mind">>, to |-> <<"infra">>, audience |-> "mind-infra.internal",
          actions |-> {"state:read", "state:write"}]},
        [deployment |-> <<"warden">>, from |-> <<"mind">>, to |-> <<"platform">>, audience |-> "warden.internal",
         actions |-> {"plugins:read", "approvals:request"}])

\* The components with a database of their own.
WithDatabase == {<<"warden", "saas">>, <<"mind", "infra">>, <<"mind", "users">>}

applicationDataBoundary(id) ==
    [id |-> id, zone |-> <<"control">>, classification |-> "confidential", scope |-> PlatformScope,
     services |-> {"object"} \cup Report("relational", <<id[1], id[2]>> \in WithDatabase),
     encryption |-> {"customerManagedKey", "rotationRequired"},
     recovery |-> {"backup", "multiAz", "deletionProtection", "finalSnapshot"},
     restoreTestIntervalDays |-> 30, retentionDays |-> 365,
     required |-> {"versioning", "replication", "objectAudit", "deletionEvidence", "exportEvidence"}]

\* With the address ranges of the reference; other ranges may be given.
createWardenMindBlueprint ==
    LET applications == {Warden, Mind}
        boundaries == UNION {a.boundaries : a \in applications}
        services == {a.identity : a \in applications}
                    \cup UNION {{c.identity : c \in a.components} : a \in applications}
        audit(source, suffix, events) ==
            [id |-> source \o suffix, sources |-> {source}, sink |-> <<"audit-log">>, events |-> events]
    IN [createReferenceBlueprint("pooled") EXCEPT
           !.capabilities = @ \cup {"private-control-plane"},
           !.planes = @ \cup
               {[id |-> Plane, zone |-> <<"control">>, scope |-> PlatformScope, trust |-> "trusted",
                 orchestrator |-> "managed-kubernetes", isolation |-> "container",
                 flags |-> {"workloadIdentity"}, credentials |-> "workload-identity", minutes |-> {}]},
           !.applications = applications,
           !.identities = @
               \cup {[id |-> s, kind |-> "workload", tenant |-> Undefined, shortLived |-> TRUE] : s \in services}
               \cup {[id |-> m \o <<"migration">>, kind |-> "automation", tenant |-> Undefined,
                      shortLived |-> TRUE] : m \in WithDatabase},
           !.boundaries = @ \cup {applicationDataBoundary(d) : d \in boundaries},
           !.requirements = @
               \cup {audit(d, <<"audit">>, {"read", "write", "delete", "backup", "restore-test"}) : d \in boundaries}
               \cup {audit(a.id, <<"deployment-audit">>, {"deployment", "authorization"}) : a \in applications}]

\* What the platform runs is accepted by its own policies.
ASSUME PlatformIsAccepted == assertBlueprint(createWardenMindBlueprint, 1)
=============================================================================

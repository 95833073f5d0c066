----------------------------- MODULE MCBlueprint -----------------------------
(* Documents and edits for TLC: the reference blueprint of the account tier *)
(* with an application, and the reference in the older version; then the    *)
(* platform's blueprint with intents for its databases.                     *)
EXTENDS ReferenceBlueprints, ApplicationBlueprints, BlueprintReview, CloudPlan

AccountBlueprint == createReferenceBlueprint("dedicated-account")
TenantA == <<"a">>

\* The account tier with a hub, a relay, a deployer and one application.
Shop ==
    LET component(id, boundaries) ==
            [id |-> <<id>>, plane |-> <<"platform-applications">>, identity |-> <<id, "svc">>,
             boundaries |-> boundaries, ingress |-> "private", minimumReplicas |-> 1, maximumUnavailable |-> 0]
    IN [id |-> <<"shop">>, plane |-> <<"platform-applications">>, identity |-> <<"shop", "svc">>,
        scope |-> Dedicated(TenantA), boundaries |-> {<<"a", "data">>}, ingress |-> "private",
        components |-> {component("api", {<<"a", "data">>}), component("job", {})},
        calls |-> {[from |-> <<"api">>, to |-> <<"job">>, audience |-> "jobs", actions |-> {"run"}]},
        dependencies |-> {}, minimumReplicas |-> 2, maximumUnavailable |-> 1,
        release |-> {"digestPinnedImages", "signatureVerification", "provenanceVerification", "rollbackRequired"}]

Service(id, kind, tenant) == [id |-> id, kind |-> kind, tenant |-> tenant, shortLived |-> TRUE]
ShopBlueprint ==
    [AccountBlueprint EXCEPT
        !.capabilities = @ \cup {"private-control-plane"},
        !.zones = @ \cup {zone(<<z>>, "workload", PlatformScope, FALSE, Undefined) : z \in {"hub", "relay"}},
        !.planes = @ \cup {[id |-> <<"platform-applications">>, zone |-> <<"hub">>,
                            scope |-> Dedicated(TenantA), trust |-> "trusted",
                            orchestrator |-> "managed-kubernetes", isolation |-> "container", flags |-> {"workloadIdentity"}, credentials |-> "workload-identity", minutes |-> {}]},
        !.applications = {Shop},
        !.identities = @ \cup {Service(<<s, "svc">>, "workload", Undefined) : s \in {"shop", "api", "job"}}
                         \cup {Service(<<"deployer">>, "automation", Undefined)},
        !.requirements = @ \cup {[id |-> <<"shop-audit">>, sources |-> {<<"shop">>}, sink |-> <<"audit-log">>,
                                  events |-> {"deployment", "authorization"}]}]
\* The same of the older version, without the lists it need not have.
OldBlueprint ==
    [f \in BlueprintFields \ {"planes", "applications", "delegations"} |->
        IF f = "apiVersion" THEN "v1alpha0" ELSE AccountBlueprint[f]]
ReviewedDocuments == [d \in {"shop", "old"} |-> IF d = "shop" THEN ShopBlueprint ELSE OldBlueprint]

Grant(id, identity, action, effect, exception) ==
    [id |-> id, identity |-> identity, resources |-> {<<"b", "data">>}, actions |-> {action}, effect |-> effect,
     tenant |-> Undefined, conditions |-> {}, exception |-> exception]
Delegation(id, from, to, conditions) == [id |-> <<id>>, from |-> from, to |-> to, conditions |-> conditions]
\* Flows of several hops, one that leaves without inspection, one through an
\* execution zone and one between tenants; a chain of delegations and one that
\* carries a secret; a denial and an exception that expires.
AllEdits ==
    LET flow(id, from, via, to) ==
            [list |-> "flows", entry |-> Flow(<<id>>, from, via, to, "direct", {"api"})]
        exec == <<"a", "execution">>
        hub == <<"hub">>
        relay == <<"relay">>
        data == <<"a", "data-zone">>
        workload == <<"a", "workload">>
    IN {flow("in", exec, <<>>, hub), flow("pass", hub, <<>>, relay), flow("out", relay, <<>>, data),
        flow("web", relay, <<<<"egress">>>>, <<"internet">>), flow("leak", hub, <<>>, <<"internet">>),
        flow("through", hub, <<exec>>, data), flow("cross", exec, <<>>, <<"b", "execution">>)}
       \cup {[list |-> "delegations", entry |-> d] :
                d \in {Delegation("assume", workload, <<"deployer">>, {}),
                       Delegation("act", <<"deployer">>, <<"b", "workload">>, {}),
                       Delegation("key", workload, <<"deployer">>, {"token"})}}
       \cup {[list |-> "grants", entry |-> g] :
                g \in {Grant(<<"never">>, workload, <<"*", "*">>, "deny", {}),
                       Grant(<<"visit">>, <<"deployer">>, <<"data", "read">>, "allow",
                             {[expires |-> 2, requirement |-> <<"b", "data", "audit">>]})}}

-----------------------------------------------------------------------------
WardenMind == createWardenMindBlueprint
\* Two accounts, and one account for everything.
OperatorExtensions ==
    {[platformAccount |-> "p", executionAccount |-> a, application |-> "aws-platform",
      execution |-> "aws-execution"] : a \in {"e", "p"}}

\* The database of a component, as the older version asks for it.
Database(application, module, service, migrator, days) ==
    [id |-> <<application, module, service>>, tenant |-> <<application>>,
     boundary |-> <<application, module, "state">>, workspace |-> application, module |-> <<module>>,
     service |-> service, database |-> module, backupRetentionDays |-> days, restoreTestIntervalDays |-> 30,
     runtimeIdentity |-> <<application, module, "service">>, migrationIdentity |-> migrator,
     runtimeBoundary |-> "runtime-db-access", migrationBoundary |-> "migration-db-access",
     literals |-> IntentBindingLiterals]
Tenanted(raw, owner) ==
    [f \in CommonFields \cup {"tenancy"} |->
        IF f = "tenancy" THEN [organization |-> "deus", platformTenant |-> <<"tenant-mind">>,
                               application |-> raw.tenant, owner |-> owner]
        ELSE raw[f]]
Migrator(application, module) == <<application, module, "migration">>

\* Three databases; one that keeps too few backups; one migrated by a service,
\* one by the application itself; one of a component without a relational
\* boundary; one on another's boundary; and some of the newer version.
AuthoredBindings ==
    LET users == Database("mind", "users", "postgres", Migrator("mind", "users"), 35)
    IN {Database("warden", "saas", "store", Migrator("warden", "saas"), 35),
        Database("mind", "infra", "postgres", Migrator("mind", "infra"), 35),
        Database("mind", "infra", "spare", Migrator("mind", "infra"), 7),
        Database("mind", "infra", "reused", <<"mind", "users", "service">>, 35),
        Database("mind", "core", "postgres", Migrator("mind", "infra"), 35),
        [Database("warden", "saas", "foreign", Migrator("warden", "saas"), 35)
            EXCEPT !.boundary = <<"mind", "users", "state">>],
        users, Tenanted(users, users.runtimeIdentity), Tenanted(users, <<"mind", "service">>)}

\* A tenant for each application, and one for both.
TenantsOfApplications ==
    {[a \in {<<"warden">>, <<"mind">>} |-> IF a = <<"mind">> THEN <<"tenant-mind">> ELSE t] :
        t \in {<<"tenant-warden">>, <<"tenant-mind">>}}
=============================================================================

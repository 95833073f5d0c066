----------------------- MODULE MCInfrastructure -----------------------
(* An instance for TLC of the infrastructure controller, of the admission *)
(* of deployments, of the PaaS gateway, of the review of blueprints and   *)
(* of the planning of databases.                                          *)
(* The parts share no variable, so one run explores each part by itself,  *)
(* the others at rest.                                                    *)
EXTENDS InfrastructureRequests, OperationWatch, DeploymentAdmission, PaasGateway, MCBlueprint

VARIABLE part

vars == <<part, requestVars, watchVars, admissionVars, gatewayVars, reviewVars, planVars>>

Init ==
    /\ part \in {"requests", "events", "admission", "gateway", "blueprint", "plan"}
    /\ InitRequests
    /\ InitWatch
    /\ InitAdmission
    /\ InitGateway
    /\ InitReview
    /\ InitPlan
    /\ part # "blueprint" => document = "shop"
    /\ part # "plan" => planIntent.apiVersion = "v1alpha1" /\ planEnvironment = "staging"

Next ==
    /\ UNCHANGED part
    /\ \/ /\ part = "requests" /\ NextRequests
          /\ UNCHANGED <<watchVars, admissionVars, gatewayVars, reviewVars, planVars>>
       \/ /\ part = "events" /\ NextWatch
          /\ UNCHANGED <<requestVars, admissionVars, gatewayVars, reviewVars, planVars>>
       \/ /\ part = "admission" /\ NextAdmission
          /\ UNCHANGED <<requestVars, watchVars, gatewayVars, reviewVars, planVars>>
       \/ /\ part = "gateway" /\ NextGateway
          /\ UNCHANGED <<requestVars, watchVars, admissionVars, reviewVars, planVars>>
       \/ /\ part = "blueprint" /\ NextReview
          /\ UNCHANGED <<requestVars, watchVars, admissionVars, gatewayVars, planVars>>
       \/ /\ part = "plan" /\ NextPlan
          /\ UNCHANGED <<requestVars, watchVars, admissionVars, gatewayVars, reviewVars>>

Spec == Init /\ [][Next]_vars
FairSpec == Spec /\ WatchFairness

(* One tenant, one claim; an operator asks and may also approve. *)
Intent(operation, environment, id, key, plan, deadline) ==
    [operation |-> operation, environment |-> environment,
     actor |-> [principal |-> "olga", organization |-> "org", tenant |-> "t",
                methods |-> {"oidc", "mtls"}],
     claim |-> [tenant |-> "t", context |-> "dev", claim |-> "db", generation |-> 1,
                desired |-> "s1"],
     plugin |-> [sandboxed |-> TRUE,
                 permissions |-> {[action |-> operation, prefix |-> <<"org", "t", "dev">>]}],
     grant |-> [subject |-> "olga", organization |-> "org", tenant |-> "t",
                actions |-> {operation}, prefixes |-> {<<"org", "t", "dev">>}, expires |-> 4],
     capability |-> [id |-> id, issuer |-> "auth", subject |-> "olga", audience |-> "controller",
                     organization |-> "org", tenant |-> "t", action |-> operation,
                     resource |-> <<"org", "t", "dev", "db">>, generation |-> 1, desired |-> "s1",
                     plan |-> plan, issued |-> 1, notBefore |-> 1, expires |-> 3,
                     oneUse |-> TRUE, verified |-> TRUE],
     plan |-> NoPlan, approvals |-> {}, key |-> key, deadline |-> deadline]

(* A deletion, a cancellation and the same capability under another key. *)
RaceIntents ==
    {Intent("delete", "nonproduction", "c1", "k1", "d1", 3),
     Intent("cancel", "nonproduction", "c2", "k2", NoDigest, 2),
     Intent("cancel", "nonproduction", "c2", "k3", NoDigest, 2)}

DeletionPlan == [d \in {"d1"} |-> [desired |-> "s1", destructive |-> TRUE]]

Versions == {<<"v1">>, <<"v2", "v1">>, <<"v1", "v2">>}
AllOffers == [versions : {{"v1"}, {"v2"}, {"v1", "v2"}}, features : {{}, {"watch"}}]
AllPolicies ==
    {[versions |-> vs, features |-> fs, deprecations |-> ds] :
        vs \in Versions, fs \in {{}, {"watch"}},
        ds \in {<<>>, <<[version |-> "v1", replacement |-> "v2", sunset |-> 2]>>}}

TwoOperations ==
    [o \in {"o1", "o2"} |-> [operation |-> o, organization |-> "org", tenant |-> "t",
                             generation |-> 1, desired |-> "s1"]]

-----------------------------------------------------------------------------
(* Admission: one component, its database and the sandbox it delegates to. *)

Ready(g) == [phase |-> "ready", generation |-> g, observedGeneration |-> g, verifiedAt |-> 1,
             evidenceRef |-> TRUE]
Capability(kind, id, literals, purposes, scheme) ==
    [kind |-> kind, id |-> id, literals |-> literals, refs |-> [p \in purposes |-> scheme]]
Runtime(id, trust, credentials, isolation, scheme) ==
    [kind |-> "runtime", id |-> id, literals |-> RuntimeLiterals, planes |-> {"plane"},
     trust |-> trust, credentials |-> credentials, isolation |-> isolation,
     refs |-> [p \in {"runtime-target"} |-> scheme]]
Identity(id) ==
    [kind |-> "identity", id |-> id, literals |-> IdentityLiterals, allowed |-> {"svc"},
     refs |-> [p \in {"identity-binding"} |-> "aws"]]
Binding(id, generation) ==
    [id |-> id, application |-> "shop", component |-> "api", literals |-> BindingLiterals,
     runtimeIdentity |-> "svc", migrationIdentity |-> "mig", runtimeBoundary |-> "rt",
     migrationBoundary |-> "mg", status |-> Ready(generation),
     refs |-> [p \in {"provider-resource", "postgres-endpoint", "postgres-ca-bundle",
                      "postgres-runtime-identity", "postgres-migration-identity"} |-> "rds"]]
Context(id, scheme, bindings) ==
    [id |-> id, environment |-> "production", literals |-> ContextLiterals,
     refs |-> [p \in {"provider-boundary"} |-> scheme],
     capabilities |->
        {Runtime("run", "trusted", "workload-identity", "container", scheme),
         Runtime("box", "untrusted", "brokered", "microvm", scheme),
         Capability("network", "net", NetworkLiterals, {"network-boundary"}, scheme),
         Capability("registry", "reg", RegistryLiterals, {"registry-target"}, scheme),
         Capability("dns", "zone", DnsLiterals, {"dns-zone"}, scheme),
         Capability("observability", "obs", ObservabilityLiterals,
                    {"audit-sink", "logs-sink", "metrics-sink", "traces-sink"}, scheme),
         Identity("idp")},
     bindings |-> bindings, status |-> Ready(1)]
Placement(component, bindings, box) ==
    [application |-> "shop", component |-> component, context |-> "main",
     capabilities |-> [k \in CapabilityKinds \ {"dns"} |->
        CASE k = "runtime" -> "run" [] k = "network" -> "net" [] k = "registry" -> "reg"
          [] k = "identity" -> "idp" [] k = "observability" -> "obs"],
     dns |-> {"zone"}, bindings |-> bindings, delegated |-> {[context |-> box, runtime |-> "box"]}]
Catalog(bindings, placements) ==
    [environment |-> "production",
     contexts |-> {Context("main", "aws", bindings), Context("sandbox", "box", {})},
     placements |-> placements]

\* Two generations of one database, no database, and one component placed twice.
ProposedCatalogs ==
    [c \in {"first", "second", "none", "twice"} |->
        CASE c = "first" -> Catalog({Binding("db", 1)}, {Placement("api", {"db"}, "sandbox")})
          [] c = "second" -> Catalog({Binding("db", 2)}, {Placement("api", {"db"}, "sandbox")})
          [] c = "none" -> Catalog({}, {Placement("api", {}, "main")})
          [] c = "twice" -> Catalog({Binding("db", 1)}, {Placement("api", {"db"}, "sandbox"),
                                                         Placement("api", {"db"}, "main")})]

AllPurposes == Confidential \cup ControlPlaneOnly
               \cup {"registry-target", "dns-zone", "postgres-ca-bundle"}
Resolver(scheme, contexts) ==
    [scheme |-> scheme, ttl |-> 4, literals |-> {"acceptsProviderCredentials", "serializesResolvedValues"},
     allowed |-> [l \in Lists |->
        CASE l = "purposes" -> AllPurposes
          [] l = "confidentialities" -> {"public-metadata", "confidential-reference"}
          [] l = "projections" -> {"control-plane-only", "workload-reference"}
          [] l = "outputs" -> {OutputType(p) : p \in AllPurposes}
          [] l = "environments" -> {"production"}
          [] l = "organizations" -> {"org"}
          [] l = "tenants" -> {"t"}
          [] l = "contexts" -> contexts]]
\* A full registry and one that does not know the sandbox.
ProposedRegistries ==
    [g \in {"full", "narrow"} |->
        IF g = "full"
        THEN {Resolver("aws", {"main"}), Resolver("rds", {"main"}), Resolver("box", {"sandbox"})}
        ELSE {Resolver("aws", {"main"}), Resolver("rds", {"main"})}]

Entry(class, account) ==
    LET name == ManagedName("db", class)
        manifests == [k \in ObservationKeys \ {"podIdentityAssociation"} |->
            [name |-> CASE k = "namespace" -> <<"ns">> [] k = "serviceAccount" -> <<account>>
                        [] OTHER -> name,
             namespace |-> <<"ns">>]]
    IN [namespace |-> <<"ns">>, serviceAccount |-> <<account>>, annotation |-> <<account>>,
        bindingDigest |-> <<account>>, manifests |-> manifests, bundle |-> manifests,
        selector |-> {class}, toleration |-> {class},
        mode |-> IF class \in Persistent THEN "persistent" ELSE "just-in-time",
        association |-> IF class \in Persistent THEN "assoc" ELSE NoAssociation]
\* The published handoff and the one of a rotated service account.
ProposedHandoffs ==
    [h \in {"current", "rotated"} |->
        [binding |-> "db", credentialFree |-> TRUE, literals |-> HandoffLiterals,
         classes |-> [class \in accessClasses |-> Entry(class, IF h = "current" THEN "sa" ELSE "sb")]]]
Profile(class) ==
    LET entry == Entry(class, "sa")
        body == [id |-> <<"db", class>>, literals |-> ProfileLiterals, binding |-> "db", class |-> class,
                 component |-> "api", module |-> "api",
                 namespace |-> entry.namespace, serviceAccount |-> entry.serviceAccount,
                 association |-> entry.association, bindingDigest |-> entry.bindingDigest,
                 annotation |-> entry.bindingDigest, bundle |-> entry.bundle]
    IN [f \in DOMAIN body \cup {"digest", "blockers"} |->
            IF f = "digest" THEN body ELSE IF f = "blockers" THEN PendingBlockers ELSE body[f]]
AccessProfiles == [class \in Persistent |-> Profile(class)]

OneSelection ==
    {[organization |-> "org", tenant |-> "t", application |-> "shop", component |-> "api", request |-> "q1"]}
OneVerifier ==
    {[key |-> "cloud-key", ttl |-> 3, organizations |-> {"org"}, tenants |-> {"t"},
      environments |-> {"production"}]}
OneObserver ==
    {[key |-> "db-key", ttl |-> 3, age |-> 2, activation |-> 2, bindings |-> {"db"},
      classes |-> {"runtime"}]}
BootstrapProofs == [b \in {"db"} |-> [activated |-> -3, completed |-> -2, removed |-> -1]]

-----------------------------------------------------------------------------
(* The gateway *)

Change(intent, id, endpoint) ==
    [intent EXCEPT !.endpoints = {e \in @ : e.id # id} \cup {endpoint}]
\* The secure intent, one whose API takes grants and is public and whose
\* capabilities may live for 15 minutes, and one that runs commands on the
\* control plane.
ProposedIntents ==
    LET secure == createSecurePaasSecurityIntent({"t1"})
        api == CHOOSE e \in secure.endpoints : e.id = "codefly-api"
        exec == CHOOSE e \in secure.endpoints : e.id = "codefly-exec-api"
    IN [i \in {"secure", "grants", "bypass"} |->
            CASE i = "secure" -> secure
              [] i = "grants" -> Change([secure EXCEPT !.accessControl.ttl = 900], "codefly-api",
                                        [api EXCEPT !.authorization = "rbac", !.exposure = "public",
                                                    !.authentication = "oidc+mtls"])
              [] i = "bypass" -> Change(secure, "codefly-exec-api",
                                        [exec EXCEPT !.target = "control-plane"])]
PaasCapability(id, audience, operation) ==
    [id |-> id, issuer |-> "codefly-control-plane", subject |-> "ann", tenant |-> "t1",
     audience |-> audience, operations |-> {operation}, resources |-> {"app"}, issued |-> 1,
     notBefore |-> 1, expires |-> 3, verified |-> TRUE, oneUse |-> TRUE]
PaasRequest(key, artifact, capability) ==
    [endpoint |-> "codefly-api", actor |-> [id |-> "ann", tenant |-> "t1", methods |-> {"mtls", "oidc"}],
     tenant |-> "t1", operation |-> "deploy", resource |-> "app", target |-> "control-plane",
     key |-> key, source |-> Absent, artifact |-> artifact, capability |-> capability]
\* A deployment, its retry with a fresh capability, another artifact under the
\* same key, another key, a command outside the sandbox, and one inside with a
\* capability of ten minutes.
ClientRequests ==
    LET c(id) == PaasCapability(id, "codefly-api", "deploy")
    IN {PaasRequest("k1", "a1", c("c1")), PaasRequest("k1", "a1", c("c2")),
        PaasRequest("k1", "a2", c("c2")), PaasRequest("k2", "a2", c("c1")),
        [PaasRequest("k3", "a1", PaasCapability("c3", "codefly-exec-api", "exec-command"))
            EXCEPT !.operation = "exec-command", !.endpoint = "codefly-exec-api"],
        [PaasRequest("k3", "a1", [PaasCapability("c4", "codefly-exec-api", "exec-command")
                                      EXCEPT !.expires = 601])
            EXCEPT !.operation = "exec-command", !.endpoint = "codefly-exec-api",
                   !.target = "tenant-sandbox"]}
DeployGrant ==
    {[subject |-> "ann", tenant |-> "t1", endpoint |-> "codefly-api", operations |-> {"deploy"},
      resources |-> {"app"}, expires |-> {2}]}
=============================================================================

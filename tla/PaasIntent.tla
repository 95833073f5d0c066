------------------------------ MODULE PaasIntent ------------------------------
(***************************************************************************)
(* The security intent of the PaaS (src/src/core/paas.ts): what its parser *)
(* accepts and which violations its evaluation reports.  A list of entries *)
(* is a set of records, so an entry repeated verbatim, which the code      *)
(* refuses like any other duplicate, has no counterpart here.  What a      *)
(* section states with booleans is a set: a member is a field that is true.*)
(***************************************************************************)
EXTENDS Integers, FiniteSets, Violations

CONSTANT PaasIntents        \* intents somebody may propose, by name

requiredOperations ==
    {"build", "deploy", "cancel", "rollback", "read-state", "read-file", "write-file", "exec-command",
     "open-terminal", "push-artifact", "pull-artifact", "invoke-agent"}
sandboxOperations == {"read-file", "write-file", "exec-command", "open-terminal", "invoke-agent"}
requiredRoles == {"control-plane", "builder", "deployer", "egress", "registry", "runtime", "audit"}
TenantRoles == {"builder", "deployer", "egress", "runtime"}
requiredAuditFields ==
    {"actor", "tenant", "request-id", "operation", "source-revision", "artifact-digest",
     "authorization-decision", "decision-epoch-seconds"}
HostAccess == {"hostNetwork", "hostPid", "hostPathMounts", "containerSocket"}
SandboxFlags == {"ephemeral", "privileged", "ambientCloudCredentials", "perTenant"} \cup HostAccess
SchedulingFlags == {"perTenantQueues", "fairScheduling", "cancellation", "timeouts"}
SupplyChainFlags ==
    {"digestPinned", "signatureVerification", "provenanceVerification", "sbomRequired",
     "immutableArtifacts"}
StateFlags == {"durable", "encrypted", "idempotencyKeys", "perTenantLocks", "rollback"}
RecoveryFlags == {"backup", "restoreTests", "regionalRecovery"}
AccessFlags == {"denyByDefault", "oneUseMutations", "idempotencyKeys"}

-----------------------------------------------------------------------------
(* Parsing *)

parseTenant(t) == t.builds >= 1 /\ t.deployments >= 1 /\ t.minutes >= 1

parseEndpoint(e) ==
    /\ e.exposure \in {"private", "public"}
    /\ e.authentication \in {"none", "oidc", "mtls", "oidc+mtls"}
    /\ e.authorization \in {"none", "rbac", "capability"}
    /\ e.flags \subseteq {"tenantBindingRequired", "directHostExecution"}
    /\ e.target \in {"control-plane", "tenant-sandbox"}
    /\ e.operations \subseteq requiredOperations

parseAccessControl(a) == a.flags \subseteq AccessFlags /\ a.ttl \in Nat \ {0}

parsePaasIdentity(i) == i.role \in requiredRoles /\ i.flags \subseteq {"shortLived", "tenantScoped"}

parseSandbox(s) ==
    /\ s.trust \in {"trusted", "untrusted"}
    /\ s.isolation \in {"container", "microvm", "dedicated-vm"}
    /\ s.flags \subseteq SandboxFlags
    /\ s.egress \in {"none", "brokered", "direct"}
    /\ s.minutes >= 1

parseScheduling(s) == s.flags \subseteq SchedulingFlags /\ s.concurrency >= 1
parseSupplyChain(s) == s.flags \subseteq SupplyChainFlags /\ s.days >= 1
parseDeploymentState(flags) == flags \subseteq StateFlags \cup RecoveryFlags
parseAudit(a) == a.flags \subseteq {"immutable", "denialEvents"} /\ a.days >= 1

-----------------------------------------------------------------------------
(* Evaluation: the codes of the violations *)

\* duplicates
HasDuplicates(docs) == \E d, e \in docs : d # e /\ d.id = e.id

EvaluateTenants(tenants) ==
    Report("PAAS_DUPLICATE_TENANT", HasDuplicates(tenants))
    \cup Report("PAAS_TENANT_QUOTA_MISSING", tenants = {})
    \cup Report("PAAS_TENANT_QUOTA_INVALID", \E t \in tenants : ~parseTenant(t))

\* Variant: only a public endpoint has to sandbox what touches files and commands.
SandboxBypass_PublicOnly(e) ==
    e.exposure = "public" /\ e.operations \cap sandboxOperations # {} /\ e.target # "tenant-sandbox"

\* Files, commands, terminals and agents outside a tenant's sandbox.
SandboxBypass(e) == e.operations \cap sandboxOperations # {} /\ e.target # "tenant-sandbox"

EvaluateEndpoint(e) ==
    Report("PAAS_ENDPOINT_UNAUTHENTICATED", e.authentication = "none")
    \cup Report("PAAS_ENDPOINT_UNAUTHORIZED", e.authorization = "none")
    \cup Report("PAAS_PUBLIC_ENDPOINT_WEAK_AUTH", e.exposure = "public" /\ e.authentication # "oidc+mtls")
    \cup Report("PAAS_ENDPOINT_TENANT_UNBOUND", "tenantBindingRequired" \notin e.flags)
    \cup Report("PAAS_ENDPOINT_HOST_EXECUTION", "directHostExecution" \in e.flags)
    \cup Report("PAAS_ENDPOINT_SANDBOX_BYPASS", SandboxBypass(e))
    \cup Report("PAAS_ENDPOINT_OPERATION_UNBOUNDED", e.operations = {})

EvaluateEndpoints(endpoints) ==
    Report("PAAS_DUPLICATE_ENDPOINT", HasDuplicates(endpoints))
    \cup UNION {EvaluateEndpoint(e) : e \in endpoints}
    \cup Report("PAAS_OPERATION_MISSING",
              ~(requiredOperations \subseteq UNION {e.operations : e \in endpoints}))

EvaluateAccessControl(a) ==
    Report("PAAS_ACCESS_CONTROL_WEAK", a.flags # AccessFlags \/ a.issuers = {} \/ a.ttl > 900)

\* One short-lived identity for each role, bound to its tenant where it acts for one.
EvaluateIdentities(identities) ==
    LET Holding(role) == {i \in identities : i.role = role}
        Sole(role) == Cardinality(Holding(role)) = 1
    IN Report("PAAS_IDENTITY_REUSED", HasDuplicates(identities))
       \cup Report("PAAS_IDENTITY_ROLE_CARDINALITY", \E role \in requiredRoles : ~Sole(role))
       \cup Report("PAAS_IDENTITY_LONG_LIVED",
                 \E role \in requiredRoles :
                     Sole(role) /\ \E i \in Holding(role) : "shortLived" \notin i.flags)
       \cup Report("PAAS_IDENTITY_TENANT_UNBOUND",
                 \E role \in TenantRoles :
                     Sole(role) /\ \E i \in Holding(role) : "tenantScoped" \notin i.flags)

evaluateSandbox(s) ==
    Report("PAAS_SANDBOX_WEAK_ISOLATION", s.trust = "untrusted" /\ s.isolation = "container")
    \cup Report("PAAS_SANDBOX_PRIVILEGED", "privileged" \in s.flags)
    \cup Report("PAAS_SANDBOX_HOST_ACCESS", s.flags \cap HostAccess # {})
    \cup Report("PAAS_SANDBOX_AMBIENT_CREDENTIALS", "ambientCloudCredentials" \in s.flags)
    \cup Report("PAAS_SANDBOX_DIRECT_EGRESS", s.egress = "direct")
    \cup Report("PAAS_SANDBOX_LIFECYCLE_UNBOUNDED",
              ~({"ephemeral", "perTenant"} \subseteq s.flags) \/ s.minutes < 1)

\* Scheduling, supply chain, deployment state and audit.
EvaluateOperations(intent) ==
    Report("PAAS_BUILDER_TRUST_INVALID", intent.builder.trust # "untrusted")
    \cup Report("PAAS_SCHEDULER_UNBOUNDED",
              intent.scheduling.flags # SchedulingFlags \/ intent.scheduling.concurrency < 1)
    \cup Report("PAAS_SUPPLY_CHAIN_WEAK",
              intent.supplyChain.flags # SupplyChainFlags \/ intent.supplyChain.days < 30)
    \cup Report("PAAS_STATE_UNSAFE", ~(StateFlags \subseteq intent.deploymentState))
    \cup Report("PAAS_RECOVERY_UNPROVEN", ~(RecoveryFlags \subseteq intent.deploymentState))
    \cup Report("PAAS_AUDIT_WEAK",
              intent.audit.flags # {"immutable", "denialEvents"} \/ intent.audit.days < 365)
    \cup Report("PAAS_AUDIT_FIELDS_MISSING", ~(requiredAuditFields \subseteq intent.audit.fields))

evaluatePaasSecurityIntent(intent) ==
    EvaluateTenants(intent.tenants)
    \cup EvaluateEndpoints(intent.endpoints)
    \cup EvaluateAccessControl(intent.accessControl)
    \cup EvaluateIdentities(intent.identities)
    \cup evaluateSandbox(intent.builder)
    \cup evaluateSandbox(intent.runtime)
    \cup EvaluateOperations(intent)

parsePaasSecurityIntent(intent) ==
    /\ \A t \in intent.tenants : parseTenant(t)
    /\ \A e \in intent.endpoints : parseEndpoint(e)
    /\ parseAccessControl(intent.accessControl)
    /\ \A i \in intent.identities : parsePaasIdentity(i)
    /\ parseSandbox(intent.builder)
    /\ parseSandbox(intent.runtime)
    /\ parseScheduling(intent.scheduling)
    /\ parseSupplyChain(intent.supplyChain)
    /\ parseDeploymentState(intent.deploymentState)
    /\ parseAudit(intent.audit)
    /\ evaluatePaasSecurityIntent(intent) = {}

AcceptedIntents == {i \in DOMAIN PaasIntents : parsePaasSecurityIntent(PaasIntents[i])}

-----------------------------------------------------------------------------
(* The intent the repository proposes *)

secureSandbox(trust, isolation, minutes) ==
    [trust |-> trust, isolation |-> isolation, flags |-> {"ephemeral", "perTenant"},
     egress |-> "brokered", minutes |-> minutes]

SecureEndpoint(id, target, operations) ==
    [id |-> id, exposure |-> "private", authentication |-> "mtls", authorization |-> "capability",
     flags |-> {"tenantBindingRequired"}, target |-> target, operations |-> operations]

createSecurePaasSecurityIntent(tenantIds) ==
    [tenants |-> {[id |-> t, builds |-> 4, deployments |-> 2, minutes |-> 30] : t \in tenantIds},
     endpoints |->
        {SecureEndpoint("codefly-api", "control-plane",
                        {"build", "deploy", "cancel", "rollback", "read-state"}),
         SecureEndpoint("codefly-workspace-api", "tenant-sandbox", {"read-file", "write-file"}),
         SecureEndpoint("codefly-exec-api", "tenant-sandbox", {"exec-command", "open-terminal"}),
         SecureEndpoint("codefly-registry-api", "control-plane", {"push-artifact", "pull-artifact"}),
         SecureEndpoint("codefly-agent-api", "tenant-sandbox", {"invoke-agent"})},
     accessControl |-> [flags |-> AccessFlags, issuers |-> {"codefly-control-plane"}, ttl |-> 300],
     identities |->
        {[id |-> <<"codefly", role>>, role |-> role,
          flags |-> {"shortLived"} \cup (IF role \in TenantRoles THEN {"tenantScoped"} ELSE {})] :
            role \in requiredRoles},
     builder |-> secureSandbox("untrusted", "microvm", 30),
     runtime |-> secureSandbox("trusted", "container", 1440),
     scheduling |-> [flags |-> SchedulingFlags, concurrency |-> 32],
     supplyChain |-> [flags |-> SupplyChainFlags, days |-> 365],
     deploymentState |-> StateFlags \cup RecoveryFlags,
     audit |-> [flags |-> {"immutable", "denialEvents"}, days |-> 2555,
                fields |-> requiredAuditFields]]
=============================================================================

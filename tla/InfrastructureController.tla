------------------------ MODULE InfrastructureController ------------------------
(***************************************************************************)
(* The authorization of infrastructure requests                            *)
(* (src/src/core/infrastructureController.ts): what the parser lets        *)
(* through, and the reasons for which the evaluator denies a request.  An  *)
(* identifier is an opaque value, a digest stands for what it digests, a   *)
(* resource is the tuple of the identifiers in its path and a prefix is    *)
(* that tuple without the claim.  The audit record repeats the request and *)
(* is left out.                                                            *)
(***************************************************************************)
EXTENDS Integers, Sequences, FiniteSets

CONSTANTS
    ExpectedAudience,   \* the audience this controller answers to
    TrustedIssuers,     \* issuers whose capabilities it accepts
    MaxCapabilityTtl    \* the longest life of a capability, in ticks

ASSUME MaxCapabilityTtlAssumption == MaxCapabilityTtl \in Nat \ {0}

InfrastructureOperations == {"plan", "reconcile", "observe", "cancel", "delete"}
EnvironmentClasses == {"nonproduction", "preproduction", "production"}

\* The null of plan and of capability.planDigest.
NoDigest == "null"
NoPlan == [digest |-> NoDigest]
NoKey == "null"

mutationOperations == {"reconcile", "cancel", "delete"}
RequiresPlan(operation) == operation \in {"reconcile", "delete"}

\* The documents a request is made of.
InfrastructureActor ==
    [principal : STRING, organization : STRING, tenant : STRING,
     methods : SUBSET {"oidc", "mtls"}]
InfrastructureClaimTarget ==
    [tenant : STRING, context : STRING, claim : STRING, generation : Nat, desired : STRING]
InfrastructureRequestPlugin ==
    [sandboxed : BOOLEAN, permissions : SUBSET [action : InfrastructureOperations, prefix : Seq(STRING)]]
InfrastructureRoleGrant ==
    [subject : STRING, organization : STRING, tenant : STRING,
     actions : SUBSET InfrastructureOperations, prefixes : SUBSET Seq(STRING), expires : Nat]
InfrastructureCapability ==
    [id : STRING, issuer : STRING, subject : STRING, audience : STRING, organization : STRING,
     tenant : STRING, action : InfrastructureOperations, resource : Seq(STRING),
     generation : Nat, desired : STRING, plan : STRING,
     issued : Nat, notBefore : Nat, expires : Nat, oneUse : BOOLEAN, verified : BOOLEAN]
InfrastructurePlanBinding ==
    [digest : STRING, desired : STRING, created : Nat, expires : Nat,
     policyChecksPassed : BOOLEAN, destructive : BOOLEAN] \cup {NoPlan}
InfrastructureApproval == [approver : STRING, plan : STRING, at : Nat]
InfrastructureControllerRequest ==
    [operation : InfrastructureOperations, environment : EnvironmentClasses,
     actor : InfrastructureActor, claim : InfrastructureClaimTarget,
     plugin : InfrastructureRequestPlugin, grant : InfrastructureRoleGrant,
     capability : InfrastructureCapability, plan : InfrastructurePlanBinding,
     approvals : SUBSET InfrastructureApproval, key : STRING, deadline : Nat]

\* infrastructureResource and infrastructureClaimResourcePrefix
Resource(r) == <<r.actor.organization, r.claim.tenant, r.claim.context, r.claim.claim>>
Prefix(r) == <<r.actor.organization, r.claim.tenant, r.claim.context>>

\* Variant: one approver may be counted more than once.
ApprovalsParse_Repeated(r) == TRUE

\* parseApproval: approvals are unique by the principal who gave them.
ApprovalsParse(r) ==
    \A a, b \in r.approvals : a.approver = b.approver => a = b

\* parsePlan
PlanParses(p) == p = NoPlan \/ (p.created > 0 /\ p.expires > 0)

GrantParses(g) == g.actions # {} /\ g.prefixes # {} /\ g.expires > 0

CapabilityParses(c) ==
    \A n \in {c.generation, c.issued, c.notBefore, c.expires} : n > 0

\* parseInfrastructureControllerRequest: closed documents whose sandbox
\* promises hold literally, lists that must not be empty, positive numbers.
RequestParses(r) ==
    /\ r.operation \in InfrastructureOperations
    /\ r.environment \in EnvironmentClasses
    /\ r.actor.methods # {} /\ r.actor.methods \subseteq {"oidc", "mtls"}
    /\ r.claim.generation > 0
    /\ r.plugin.sandboxed /\ r.plugin.permissions # {}
    /\ GrantParses(r.grant)
    /\ CapabilityParses(r.capability)
    /\ PlanParses(r.plan)
    /\ ApprovalsParse(r)
    /\ r.deadline > 0

When(condition, reason) == IF condition THEN {reason} ELSE {}

\* Who asks: authentication, organization, tenant, plugin manifest, role grant.
SubjectReasons(r, now) ==
    LET act == r.operation IN
    UNION {
        When(~ {"oidc", "mtls"} \subseteq r.actor.methods, "AUTHENTICATION_INSUFFICIENT"),
        When(\E o \in {r.capability.organization, r.grant.organization} : o # r.actor.organization,
             "ORGANIZATION_MISMATCH"),
        When(\E t \in {r.claim.tenant, r.capability.tenant, r.grant.tenant} : t # r.actor.tenant,
             "TENANT_MISMATCH"),
        When([action |-> act, prefix |-> Prefix(r)] \notin r.plugin.permissions,
             "PLUGIN_MANIFEST_DENIED"),
        When(\/ r.grant.subject # r.actor.principal
             \/ act \notin r.grant.actions
             \/ Prefix(r) \notin r.grant.prefixes,
             "ROLE_GRANT_DENIED"),
        When(r.grant.expires <= now, "ROLE_GRANT_EXPIRED")}

\* With what: the capability, its binding, its life and its earlier use.
CapabilityReasons(r, now, redeemed) ==
    LET c == r.capability IN
    UNION {
        When(~ c.verified, "CAPABILITY_UNVERIFIED"),
        When(c.issuer \notin TrustedIssuers, "CAPABILITY_ISSUER_UNTRUSTED"),
        When(c.audience # ExpectedAudience, "CAPABILITY_AUDIENCE_MISMATCH"),
        When(\/ c.subject # r.actor.principal
             \/ c.action # r.operation
             \/ c.resource # Resource(r)
             \/ c.generation # r.claim.generation
             \/ c.desired # r.claim.desired,
             "CAPABILITY_BINDING_MISMATCH"),
        When(\/ c.issued > now \/ c.notBefore > now
             \/ c.expires <= now \/ c.notBefore < c.issued,
             "CAPABILITY_TIME_INVALID"),
        When(c.expires - c.issued > MaxCapabilityTtl, "CAPABILITY_TTL_EXCEEDED"),
        When(r.operation \in mutationOperations /\ ~ c.oneUse, "CAPABILITY_NOT_ONE_USE"),
        When(c.id \in redeemed, "CAPABILITY_REPLAYED"),
        When(r.operation \in mutationOperations /\ r.key = NoKey, "IDEMPOTENCY_KEY_MISSING"),
        When(r.deadline <= now \/ r.deadline > c.expires, "DEADLINE_INVALID")}

RequiredApprovals(r) ==
    CASE r.operation = "delete" -> 2
      [] r.operation # "delete" /\ r.environment = "production" -> 1
      [] OTHER -> 0

\* authorizePlanAndApprovals for the operations that carry out a plan.
PlanReasons(r, now) ==
    LET p == r.plan IN
    UNION {
        When(\/ p.desired # r.claim.desired
             \/ p.expires <= now \/ p.created > now \/ p.expires <= p.created
             \/ p.destructive # (r.operation = "delete"),
             "PLAN_INVALID"),
        When(\/ r.capability.plan # p.digest
             \/ \E a \in r.approvals : a.plan # p.digest,
             "PLAN_DIGEST_MISMATCH"),
        When(~ p.policyChecksPassed, "POLICY_CHECKS_FAILED"),
        When(\/ \E a \in r.approvals :
                   a.approver = r.actor.principal \/ a.at < p.created \/ a.at > now
             \/ Cardinality(r.approvals) < RequiredApprovals(r),
             "APPROVAL_INSUFFICIENT")}

authorizePlanAndApprovals(r, now) ==
    CASE ~ RequiresPlan(r.operation) ->
            When(r.plan # NoPlan, "PLAN_UNEXPECTED")
              \cup When(r.capability.plan # NoDigest, "PLAN_DIGEST_MISMATCH")
      [] RequiresPlan(r.operation) /\ r.plan = NoPlan -> {"PLAN_REQUIRED"}
      [] OTHER -> PlanReasons(r, now)

\* authorizeInfrastructureControllerRequest: a request that does not parse is
\* denied for that alone; otherwise every reason is collected.
DenialReasons(r, now, redeemed) ==
    IF ~ RequestParses(r) THEN {"REQUEST_INVALID"}
    ELSE SubjectReasons(r, now)
           \cup CapabilityReasons(r, now, redeemed)
           \cup authorizePlanAndApprovals(r, now)

authorizeInfrastructureControllerRequest(r, now, redeemed) ==
    DenialReasons(r, now, redeemed) = {}

\* Variant: a cancellation leaves its capability usable.
CapabilityToRedeem_NotCancel(r) ==
    IF r.operation \in mutationOperations \ {"cancel"} THEN {r.capability.id} ELSE {}

\* capabilityToRedeem of an allowed request: only mutations use theirs up.
CapabilityToRedeem(r) == IF r.operation \in mutationOperations THEN {r.capability.id} ELSE {}
=============================================================================

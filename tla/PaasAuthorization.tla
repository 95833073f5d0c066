-------------------------- MODULE PaasAuthorization --------------------------
(***************************************************************************)
(* The authorizer of the PaaS (src/src/core/paasAuthorization.ts): which   *)
(* reasons it finds to deny a request, and the capability an allowed       *)
(* request uses up.  It keeps no state: the time, the capabilities already *)
(* redeemed and the grants are what its caller hands it.  A field left out *)
(* of a request is Absent; a resource with a wildcard is Wildcard.         *)
(***************************************************************************)
EXTENDS PaasIntent

Absent == "absent"
Wildcard == "*"
NoCapability == [id |-> Absent]

readOnlyOperations == {"read-state", "read-file", "pull-artifact"}
sourceRevisionOperations == {"build"}
artifactDigestOperations == {"deploy", "rollback", "push-artifact", "pull-artifact"}

Mutating(request) == request.operation \notin readOnlyOperations

boundedResource(resource) == resource # Absent /\ resource # Wildcard

-----------------------------------------------------------------------------
(* Parsing *)

parseActor(actor) ==
    /\ actor.id # Absent
    /\ actor.tenant # Absent
    /\ actor.methods # {}
    /\ actor.methods \subseteq {"oidc", "mtls"}

parseCapability(c) ==
    /\ c.operations # {}
    /\ c.operations \subseteq requiredOperations
    /\ c.resources # {}
    /\ \A resource \in c.resources : boundedResource(resource)
    /\ {c.issued, c.notBefore, c.expires} \subseteq Nat

parsePaasAuthorizationRequest(request) ==
    /\ parseActor(request.actor)
    /\ request.tenant # Absent
    /\ request.operation \in requiredOperations
    /\ boundedResource(request.resource)
    /\ request.target \in {"control-plane", "tenant-sandbox", "host"}
    /\ request.capability # NoCapability => parseCapability(request.capability)

-----------------------------------------------------------------------------
(* Decision *)

authenticationSatisfies(required, actor) ==
    CASE required = "oidc" -> "oidc" \in actor.methods
      [] required = "mtls" -> "mtls" \in actor.methods
      [] required = "oidc+mtls" -> {"oidc", "mtls"} \subseteq actor.methods
      [] OTHER -> FALSE

\* What ends a grant is a set: there may be no such time.
hasRbacGrant(request, grants, time) ==
    \E g \in grants :
        /\ g.subject = request.actor.id
        /\ g.tenant = request.tenant
        /\ g.endpoint = request.endpoint
        /\ request.operation \in g.operations
        /\ request.resource \in g.resources
        /\ \A resource \in g.resources : boundedResource(resource)
        /\ \A end \in g.expires : time < end

\* In order and in force.
CapabilityInTime(c, time) ==
    /\ c.issued <= c.notBefore
    /\ c.notBefore < c.expires
    /\ c.notBefore <= time
    /\ time < c.expires

evaluateCapability(access, request, time, redeemedIds) ==
    LET c == request.capability
    IN IF c = NoCapability
       THEN {"PAAS_AUTH_CAPABILITY_MISSING"}
       ELSE Report("PAAS_AUTH_CAPABILITY_INVALID", c.operations = {} \/ c.resources = {})
            \cup Report("PAAS_AUTH_CAPABILITY_UNVERIFIED", ~c.verified)
            \cup Report("PAAS_AUTH_CAPABILITY_ISSUER_UNTRUSTED", c.issuer \notin access.issuers)
            \cup Report("PAAS_AUTH_CAPABILITY_SUBJECT_MISMATCH", c.subject # request.actor.id)
            \cup Report("PAAS_AUTH_CAPABILITY_TENANT_MISMATCH", c.tenant # request.tenant)
            \cup Report("PAAS_AUTH_CAPABILITY_AUDIENCE_MISMATCH", c.audience # request.endpoint)
            \cup Report("PAAS_AUTH_CAPABILITY_OPERATION_DENIED", request.operation \notin c.operations)
            \cup Report("PAAS_AUTH_CAPABILITY_RESOURCE_DENIED",
                      request.resource \notin c.resources
                          \/ \E resource \in c.resources : ~boundedResource(resource))
            \cup Report("PAAS_AUTH_CAPABILITY_TIME_INVALID", ~CapabilityInTime(c, time))
            \cup Report("PAAS_AUTH_CAPABILITY_TTL_EXCEEDED", c.expires - c.issued > access.ttl)
            \cup Report("PAAS_AUTH_CAPABILITY_REPLAYED", c.id \in redeemedIds)
            \cup Report("PAAS_AUTH_CAPABILITY_NOT_ONE_USE",
                      Mutating(request) /\ "oneUseMutations" \in access.flags /\ ~c.oneUse)

\* What the endpoint itself asks of a request, whatever authorizes it.
EvaluateEndpointUse(endpoint, request) ==
    Report("PAAS_AUTH_OPERATION_UNDECLARED", request.operation \notin endpoint.operations)
    \cup Report("PAAS_AUTHENTICATION_INSUFFICIENT",
              ~authenticationSatisfies(endpoint.authentication, request.actor))
    \cup Report("PAAS_AUTH_HOST_EXECUTION_DENIED", request.target = "host")
    \cup Report("PAAS_AUTH_EXECUTION_TARGET_INVALID", request.target # endpoint.target)

EvaluateRequest(intent, request) ==
    Report("PAAS_AUTH_TENANT_UNKNOWN", request.tenant \notin {t.id : t \in intent.tenants})
    \cup Report("PAAS_AUTH_TENANT_MISMATCH", request.actor.tenant # request.tenant)
    \cup Report("PAAS_AUTH_IDEMPOTENCY_KEY_MISSING",
              Mutating(request) /\ "idempotencyKeys" \in intent.accessControl.flags
                  /\ request.key = Absent)
    \cup Report("PAAS_AUTH_SOURCE_REVISION_MISSING",
              request.operation \in sourceRevisionOperations /\ request.source = Absent)
    \cup Report("PAAS_AUTH_ARTIFACT_DIGEST_MISSING",
              request.operation \in artifactDigestOperations /\ request.artifact = Absent)

EvaluateAuthorization(intent, endpoint, request, time, redeemedIds, grants) ==
    CASE endpoint.authorization = "capability" ->
            evaluateCapability(intent.accessControl, request, time, redeemedIds)
      [] endpoint.authorization = "rbac" ->
            Report("PAAS_AUTH_RBAC_GRANT_MISSING", ~hasRbacGrant(request, grants, time))
      [] OTHER -> {"PAAS_AUTHORIZATION_MODE_UNSAFE"}

Reasons(intent, request, time, redeemedIds, grants) ==
    EvaluateRequest(intent, request)
    \cup IF \E e \in intent.endpoints : e.id = request.endpoint
         THEN LET endpoint == CHOOSE e \in intent.endpoints : e.id = request.endpoint
              IN EvaluateEndpointUse(endpoint, request)
                 \cup EvaluateAuthorization(intent, endpoint, request, time, redeemedIds, grants)
         ELSE {"PAAS_AUTH_ENDPOINT_UNKNOWN"}

\* authorizePaasRequest.  The one-use capability of an allowed request is used
\* up, whether or not it is what authorized the request.
authorizePaasRequest(intent, request, time, redeemedIds, grants) ==
    LET reasons == Reasons(intent, request, time, redeemedIds, grants)
        redeems == reasons = {} /\ request.capability # NoCapability
    IN [allowed |-> reasons = {}, reasons |-> reasons, evaluated |-> time, request |-> request,
        redeem |-> IF redeems /\ request.capability.oneUse THEN request.capability.id ELSE Absent]
=============================================================================

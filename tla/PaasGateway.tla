----------------------------- MODULE PaasGateway -----------------------------
(***************************************************************************)
(* The way of a request through the authorizer to the control state.       *)
(* Several gateways decide requests with authorizePaasRequest and hand the *)
(* allowed ones to enqueuePaasJob (src/src/core/paasControlState.ts), of   *)
(* whose state only the idempotency records and the redeemed capabilities  *)
(* are kept here.  Requests are delivered any number of times, gateways    *)
(* crash between the decision and the command, answers get lost, and the   *)
(* intent in force changes.                                                *)
(***************************************************************************)
EXTENDS PaasAuthorization

CONSTANTS
    PaasRequests,       \* the requests clients send
    Grants,             \* the grants the gateways read
    MaxGatewayTime,     \* bound on the clock
    MaxDecided,         \* bound on decisions on their way to the control state
    MaxGatewayFaults    \* bound on crashes and changes of the intent

ASSUME SomeIntentIsAccepted == AcceptedIntents # {}
ASSUME RequestsParse == \A q \in PaasRequests : parsePaasAuthorizationRequest(q)

VARIABLES
    intentNow,     \* the intent in force
    gatewayTime,
    decided,       \* allowed decisions whose command is not yet applied
    jobOf,         \* idempotency key -> the request whose job it names
    spent,         \* redeemed capabilities
    lastDecision,  \* the last decision, with the intent it was made under
    answered,      \* the last answer of the control state
    gatewayFaults

gatewayVars == <<intentNow, gatewayTime, decided, jobOf, spent, lastDecision, answered, gatewayFaults>>

JobOperations == {"build", "deploy", "rollback"}
NoJob == [operation |-> Absent]
NoDecision == [allowed |-> FALSE, reasons |-> {}]
Keys == {<<q.tenant, q.key>> : q \in PaasRequests}

InitGateway ==
    /\ intentNow = CHOOSE i \in AcceptedIntents : TRUE
    /\ gatewayTime = 1
    /\ decided = {}
    /\ jobOf = [k \in Keys |-> NoJob]
    /\ spent = {}
    /\ lastDecision = [decision |-> NoDecision, intent |-> intentNow]
    /\ answered = [code |-> Absent]
    /\ gatewayFaults = 0

\* A delivery of a request: the decision, and its command if it starts a job.
Decide(q) ==
    LET d == authorizePaasRequest(PaasIntents[intentNow], q, gatewayTime, spent, Grants)
        pending == d.allowed /\ q.operation \in JobOperations
    IN /\ pending => Cardinality(decided) < MaxDecided
       /\ decided' = IF pending THEN decided \cup {d} ELSE decided
       /\ lastDecision' = [decision |-> d, intent |-> intentNow]
       /\ UNCHANGED <<intentNow, gatewayTime, jobOf, spent, answered, gatewayFaults>>

\* enqueueFingerprint: what makes two commands the same command.
enqueueFingerprint(q) == <<q.tenant, q.operation, q.resource, q.source, q.artifact>>

\* The answer of enqueuePaasJob to a command that carries this decision.
EnqueueCode(d) ==
    LET q == d.request
        existing == jobOf[<<q.tenant, q.key>>]
    IN IF q.tenant \notin {t.id : t \in PaasIntents[intentNow].tenants} THEN "TENANT_UNKNOWN"
       ELSE IF existing # NoJob /\ enqueueFingerprint(existing) = enqueueFingerprint(q) THEN "DEDUPLICATED"
       ELSE IF existing # NoJob THEN "IDEMPOTENCY_CONFLICT"
       ELSE IF d.redeem \in spent THEN "CAPABILITY_REPLAYED"
       ELSE "ACCEPTED"

\* Variant: the capability is used up before the command is looked at.
Redeemed_Always(d) == {d.redeem} \ {Absent}

\* The capability is redeemed together with the job it pays for.
Redeemed(d) == IF EnqueueCode(d) = "ACCEPTED" THEN {d.redeem} \ {Absent} ELSE {}

Enqueue(d) ==
    LET q == d.request
    IN /\ answered' = [code |-> EnqueueCode(d), request |-> q]
       /\ jobOf' = IF EnqueueCode(d) = "ACCEPTED"
                   THEN [jobOf EXCEPT ![<<q.tenant, q.key>>] = q]
                   ELSE jobOf
       /\ spent' = spent \cup Redeemed(d)
       /\ decided' = decided \ {d}
       /\ UNCHANGED <<intentNow, gatewayTime, lastDecision, gatewayFaults>>

\* A gateway stops between a decision and its command.
CrashGateway(d) ==
    /\ gatewayFaults < MaxGatewayFaults
    /\ decided' = decided \ {d}
    /\ gatewayFaults' = gatewayFaults + 1
    /\ UNCHANGED <<intentNow, gatewayTime, jobOf, spent, lastDecision, answered>>

ChangeIntent(i) ==
    /\ gatewayFaults < MaxGatewayFaults
    /\ i \in AcceptedIntents
    /\ i # intentNow
    /\ intentNow' = i
    /\ gatewayFaults' = gatewayFaults + 1
    /\ UNCHANGED <<gatewayTime, decided, jobOf, spent, lastDecision, answered>>

GatewayTick ==
    /\ gatewayTime < MaxGatewayTime
    /\ gatewayTime' = gatewayTime + 1
    /\ UNCHANGED <<intentNow, decided, jobOf, spent, lastDecision, answered, gatewayFaults>>

NextGateway ==
    \/ \E q \in PaasRequests : Decide(q)
    \/ \E d \in decided : Enqueue(d) \/ CrashGateway(d)
    \/ \E i \in DOMAIN PaasIntents : ChangeIntent(i)
    \/ GatewayTick

SpecGateway == InitGateway /\ [][NextGateway]_gatewayVars

-----------------------------------------------------------------------------
(* Properties *)

\* A request is told that its capability was replayed, by the authorizer or
\* by the control state, only if a job was started with that capability: a
\* client whose answer was lost may take it that its work is on the way, and
\* no crash, conflict or change of the intent uses a capability up for nothing.
ReplayedMeansDone ==
    LET StartedWith(c) == \E k \in Keys : jobOf[k] # NoJob /\ jobOf[k].capability.id = c
    IN /\ "PAAS_AUTH_CAPABILITY_REPLAYED" \in lastDecision.decision.reasons =>
              StartedWith(lastDecision.decision.request.capability.id)
       /\ answered.code = "CAPABILITY_REPLAYED" => StartedWith(answered.request.capability.id)

\* What the authorizer allows under an intent the evaluation accepts stays
\* within it: never on the host, files and commands only in the sandbox, both
\* credentials at a public endpoint, and where a capability authorizes a
\* mutation it is used up and never older than the intent lets one live.
AllowedIsGoverned ==
    lastDecision.decision.allowed =>
        LET q == lastDecision.decision.request
            endpoint == CHOOSE e \in PaasIntents[lastDecision.intent].endpoints : e.id = q.endpoint
        IN /\ q.target # "host"
           /\ q.operation \in sandboxOperations => q.target = "tenant-sandbox"
           /\ endpoint.exposure = "public" => q.actor.methods = {"oidc", "mtls"}
           /\ q.actor.tenant = q.tenant
           /\ endpoint.authorization = "capability" /\ Mutating(q) =>
                  /\ lastDecision.decision.redeem = q.capability.id
                  /\ lastDecision.decision.evaluated - q.capability.issued
                         < PaasIntents[lastDecision.intent].accessControl.ttl

\* "At most a five-minute lifetime" (docs/codefly-paas.md, on the capability of
\* an allowed request).
CapabilitiesAreShortLived ==
    lastDecision.decision.allowed =>
        LET q == lastDecision.decision.request
            endpoint == CHOOSE e \in PaasIntents[lastDecision.intent].endpoints : e.id = q.endpoint
        IN endpoint.authorization = "capability" => q.capability.expires - q.capability.issued <= 300
=============================================================================

-------------------------- MODULE ResourceProvider --------------------------
(***************************************************************************)
(* The provider protocol of the resource broker                            *)
(* (src/src/core/resourceBroker.ts): what a claim may ask for, what a      *)
(* provider must declare, and what the broker's side takes of the plans    *)
(* and results an adapter returns.  A digest is the tuple of what is       *)
(* hashed.  A string is what the checks see of it: the scheme of its       *)
(* reference, whether it is bounded, holds an "@" or credentials.          *)
(***************************************************************************)
EXTENDS Integers, Sequences, FiniteSets

Text(scheme) == [scheme |-> scheme, bounded |-> TRUE, at |-> FALSE, credentials |-> FALSE]
NoScheme == "none"
\* null, where an adapter may return one.
NoReference == Text(NoScheme)

reference(v, schemes) == v.bounded /\ v.scheme \in schemes /\ ~v.at

forbiddenOutputs == {"password", "secret", "token", "credential", "private-key"}

\* A value is a bounded scalar without user and password.
OutputValueAllowed(o) ==
    \/ o.kind = "reference" /\ reference(o.value, {"broker", "provider", "identity", "evidence"})
    \/ o.kind = "value" /\ o.value.bounded /\ ~o.value.credentials

validateOutputs(outputs) ==
    /\ \A i, j \in DOMAIN outputs : outputs[i].name = outputs[j].name => i = j
    /\ \A i \in DOMAIN outputs : /\ outputs[i].name \notin forbiddenOutputs
                                 /\ OutputValueAllowed(outputs[i])

lifecycleGuards == {"deletionProtection", "destructionApprovalRequired", "finalizationEvidenceRequired"}
mostReconcileAttempts == 10

\* A claim holds every lifecycle guard and names what its provider must do.
parseResourceClaimRequest(q) ==
    /\ q.generation \in Nat \ {0}
    /\ reference(q.desiredStateRef, {"broker"})
    /\ q.requiredProviderCapabilities # {}
    /\ q.lifecycle = lifecycleGuards
    /\ q.maxReconcileAttempts \in 1 .. mostReconcileAttempts

\* "secure": protocol version, mutation mode, credentials, output mode and
\* planning are the literals of the protocol.
validateProviderDescriptor(d) == d.secure /\ d.resourceKinds # {} /\ d.capabilities # {}

lacksCapability(d, q) == q.requiredProviderCapabilities \ d.capabilities # {}

validateProviderRequest(d, request) ==
    /\ parseResourceClaimRequest(request.claim)
    /\ request.claim.resourceKind \in d.resourceKinds
    /\ ~lacksCapability(d, request.claim)
    /\ request.operation \in {"reconcile", "destroy"}

\* What a plan and a result must repeat of the request they answer.
AnswersRequest(d, request, answer) ==
    /\ answer.providerId = d.id
    /\ answer.claimId = request.claim.claimId
    /\ answer.generation = request.claim.generation
    /\ answer.operation = request.operation

planDigest(plan) ==
    <<plan.providerId, plan.claimId, plan.generation, plan.desiredStateDigest, plan.operation,
      plan.semanticOperations>>

\* The adapter's plan is taken: it is about this request, and its digest is
\* the digest of what it says.
planWithResourceProvider(d, request, plan) ==
    /\ validateProviderDescriptor(d)
    /\ validateProviderRequest(d, request)
    /\ AnswersRequest(d, request, plan)
    /\ plan.desiredStateDigest = request.claim.desiredStateDigest
    /\ plan.semanticOperations # {}
    /\ plan.planDigest = planDigest(plan)

\* The result of a destruction is empty, the one of a reconciliation is not.
CompleteObservation(request, result) ==
    IF request.operation = "destroy"
    THEN result.providerResourceRef = NoReference /\ result.outputs = <<>>
    ELSE reference(result.providerResourceRef, {"provider"}) /\ result.outputs # <<>>

\* The adapter's result is taken: it is within the fenced claim it was asked
\* about, complete and free of secrets.
executeWithResourceProvider(d, request, result) ==
    /\ validateProviderDescriptor(d)
    /\ validateProviderRequest(d, request)
    /\ AnswersRequest(d, request, result)
    /\ result.fenceToken = request.fenceToken
    /\ result.observedStateDigest = request.claim.desiredStateDigest
    /\ validateOutputs(result.outputs)
    /\ CompleteObservation(request, result)

-----------------------------------------------------------------------------
(* Conformance *)

conformanceFence == "f"

conformanceRequest(claim, operation) ==
    [claim |-> claim, operation |-> operation, fenceToken |-> conformanceFence]

\* An adapter is what it answers, call by call.  It conforms for a claim if
\* it plans and reconciles twice alike and then destroys cleanly.
evaluateResourceProviderConformance(d, claim, plans, results) ==
    LET request == conformanceRequest(claim, "reconcile")
    IN /\ \A n \in 1 .. 2 : /\ planWithResourceProvider(d, request, plans[n])
                            /\ executeWithResourceProvider(d, request, results[n])
       /\ plans[1] = plans[2]
       /\ results[1] = results[2]
       /\ executeWithResourceProvider(d, conformanceRequest(claim, "destroy"), results[3])

(* createFakeResourceProvider: the adapter the tests run the broker with.  *)
FakePlan(d, request) ==
    LET plan == [providerId |-> d.id, claimId |-> request.claim.claimId,
                 generation |-> request.claim.generation,
                 desiredStateDigest |-> request.claim.desiredStateDigest,
                 operation |-> request.operation,
                 semanticOperations |-> {<<IF request.operation = "destroy" THEN "delete" ELSE "ensure",
                                           request.claim.resourceKind>>},
                 planDigest |-> <<>>]
    IN [plan EXCEPT !.planDigest = planDigest(plan)]

FakeResult(d, request) ==
    LET destroying == request.operation = "destroy"
    IN [providerId |-> d.id, claimId |-> request.claim.claimId,
        generation |-> request.claim.generation, fenceToken |-> request.fenceToken,
        operation |-> request.operation, observedStateDigest |-> request.claim.desiredStateDigest,
        providerResourceRef |-> IF destroying THEN NoReference ELSE Text("provider"),
        outputs |-> IF destroying THEN <<>>
                    ELSE <<[name |-> "resource", kind |-> "reference", value |-> Text("broker")]>>]
=============================================================================

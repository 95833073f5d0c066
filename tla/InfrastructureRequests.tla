------------------------- MODULE InfrastructureRequests -------------------------
(***************************************************************************)
(* Requests to the infrastructure controller: a client negotiates a        *)
(* version, plans are computed and approved, and hosts evaluate requests   *)
(* and commit what was allowed.  The evaluator and the messages are the    *)
(* code's (InfrastructureController, InfrastructureProtocol).  The store   *)
(* is not under src/; that it redeems the capability and stores the        *)
(* operation in one step is what docs/codefly-paas.md:163 asks of it.      *)
(***************************************************************************)
EXTENDS InfrastructureController, InfrastructureProtocol

CONSTANTS
    Offers, Policies,   \* what clients and servers may negotiate with
    Intents,            \* requests, before the host loads plan and approvals
    PlanContents,       \* digest -> [desired, destructive]
    Approvers,          \* principals who approve plans
    OperationIds,
    RetryDelays,        \* delays the host puts in its refusals
    PlanTtl,
    MaxTime, MaxApprovals

ASSUME RequestBoundsAssumption ==
    /\ MaxTime \in Nat /\ MaxApprovals \in Nat
    /\ PlanTtl \in Nat \ {0}
    /\ NoDigest \notin DOMAIN PlanContents
    /\ Intents \subseteq InfrastructureControllerRequest
    /\ None \notin OperationIds
\* Hosts ask for delays the protocol has, none or a positive number.
ASSUME DelaysAssumption == MaxRetryAfter \in Nat /\ RetryDelays \subseteq 0 .. MaxRetryAfter
\* Versions and deprecations are lists.
ASSUME PoliciesAssumption ==
    \A p \in Policies : DOMAIN p.versions \subseteq Nat /\ DOMAIN p.deprecations \subseteq Nat

VARIABLES
    now,
    session,     \* whether a version is agreed, and the last negotiation
    plans,       \* digest -> the stored plan evidence
    approvals,   \* approvals given so far
    pending,     \* allowed decisions that are not yet committed
    redeemed,    \* capabilities that have been used up
    operations,  \* id -> the decision that started it, or NoOperation
    answer       \* the last response to the client

requestVars == <<now, session, plans, approvals, pending, redeemed, operations, answer>>

NoSession == [connected |-> FALSE, last |-> <<>>]
NoOperation == [at |-> 0]
NoAnswer == [outcome |-> "none"]

Started == {o \in OperationIds : operations[o] # NoOperation}

InitRequests ==
    /\ now = 1
    /\ session = NoSession
    /\ plans = [d \in DOMAIN PlanContents |-> NoPlan]
    /\ approvals = {} /\ pending = {} /\ redeemed = {}
    /\ operations = [o \in OperationIds |-> NoOperation]
    /\ answer = NoAnswer

Tick ==
    /\ now < MaxTime
    /\ now' = now + 1
    /\ UNCHANGED <<session, plans, approvals, pending, redeemed, operations, answer>>

---------------------------------------------------------------------------
(* Negotiation. *)

Negotiate(offer, policy) ==
    /\ ~ session.connected
    /\ NegotiationAnswers(offer, policy)
    /\ session' = [session EXCEPT !.last =
                      <<[offer |-> offer, policy |-> policy, at |-> now,
                         answer |-> Negotiated(offer, policy, now)]>>]
    /\ UNCHANGED <<now, plans, approvals, pending, redeemed, operations, answer>>

\* The client reads the answer and goes on with the version it names.
Connect ==
    /\ session.last # <<>>
    /\ VersionResponseParses(session.last[1].answer, session.last[1].policy)
    /\ session.last[1].answer.compatible
    /\ session' = [connected |-> TRUE, last |-> <<>>]
    /\ UNCHANGED <<now, plans, approvals, pending, redeemed, operations, answer>>

---------------------------------------------------------------------------
(* Plans, approvals, evaluation and commit. *)

\* A plan is computed, or computed again for the same digest.
StorePlan(d, checksPassed) ==
    /\ session.connected
    /\ plans' = [plans EXCEPT ![d] =
                    [digest |-> d, desired |-> PlanContents[d].desired,
                     destructive |-> PlanContents[d].destructive,
                     created |-> now, expires |-> now + PlanTtl,
                     policyChecksPassed |-> checksPassed]]
    /\ UNCHANGED <<now, session, approvals, pending, redeemed, operations, answer>>

Approve(p, d) ==
    /\ plans[d] # NoPlan
    /\ Cardinality(approvals) < MaxApprovals
    /\ approvals' = approvals \cup {[approver |-> p, plan |-> d, at |-> now]}
    /\ UNCHANGED <<now, session, plans, pending, redeemed, operations, answer>>

\* The plan and approvals the host loads for an intent.
Assembled(i, d, given) ==
    [i EXCEPT !.plan = IF d = NoDigest THEN NoPlan ELSE plans[d], !.approvals = given]

\* A host evaluates a request against the redemptions it has read.
Evaluate(r) ==
    /\ session.connected
    /\ OperationRequestParses(r.operation, r.plan.digest, r.approvals, r.key)
    /\ authorizeInfrastructureControllerRequest(r, now, redeemed)
    /\ pending' = pending \cup {[request |-> r, at |-> now]}
    /\ UNCHANGED <<now, session, plans, approvals, redeemed, operations, answer>>

\* A refusal, with a delay where the client may come back.
Refuse(r, retryAfter) ==
    /\ session.connected
    /\ OperationRequestParses(r.operation, r.plan.digest, r.approvals, r.key)
    /\ ~ authorizeInfrastructureControllerRequest(r, now, redeemed)
    /\ LET reasons == IF "DEADLINE_INVALID" \in DenialReasons(r, now, redeemed)
                        THEN {"DEADLINE_EXCEEDED"} ELSE {"OPERATION_DENIED"}
       IN /\ RejectAllowed(reasons, retryAfter)
          /\ answer' = rejectInfrastructureOperation(reasons, retryAfter)
    /\ UNCHANGED <<now, session, plans, approvals, pending, redeemed, operations>>

\* The host stores the operation and the redemption at once,
\* or finds the capability or the key used and forgets the decision.
CommitFits(d) ==
    /\ CapabilityToRedeem(d.request) \cap redeemed = {}
    /\ \A o \in Started : d.request.key # NoKey => operations[o].request.key # d.request.key

Commit(d, o) ==
    /\ o \notin Started
    /\ CommitFits(d)
    /\ pending' = pending \ {d}
    /\ redeemed' = redeemed \cup CapabilityToRedeem(d.request)
    /\ operations' = [operations EXCEPT ![o] = d]
    /\ answer' = acceptInfrastructureOperation(o)
    /\ UNCHANGED <<now, session, plans, approvals>>

Forget(d) ==
    /\ ~ CommitFits(d)
    /\ pending' = pending \ {d}
    /\ UNCHANGED <<now, session, plans, approvals, redeemed, operations, answer>>

---------------------------------------------------------------------------
Assemblies ==
    {Assembled(i, d, given) : i \in Intents, d \in DOMAIN PlanContents \cup {NoDigest},
                              given \in SUBSET approvals}

NextRequests ==
    \/ Tick
    \/ \E offer \in Offers, policy \in Policies : Negotiate(offer, policy)
    \/ Connect
    \/ \E d \in DOMAIN PlanContents, checksPassed \in BOOLEAN : StorePlan(d, checksPassed)
    \/ \E p \in Approvers, d \in DOMAIN PlanContents : Approve(p, d)
    \/ \E r \in Assemblies : Evaluate(r)
    \/ \E r \in Assemblies, retryAfter \in RetryDelays : Refuse(r, retryAfter)
    \/ \E d \in pending, o \in OperationIds : Commit(d, o)
    \/ \E d \in pending : Forget(d)

SpecRequests == InitRequests /\ [][NextRequests]_requestVars

---------------------------------------------------------------------------
(* Properties. *)

\* However hosts race between evaluation and commit, and however often a
\* client sends its request again, a capability and an idempotency key start
\* at most one mutation.
CapabilityStartsOneOperation ==
    \A o, p \in Started :
        LET r == operations[o].request
            q == operations[p].request
        IN /\ r.operation \in mutationOperations
           /\ q.operation \in mutationOperations
           /\ r.capability.id = q.capability.id \/ r.key = q.key
           => o = p

\* What was started by a plan was approved, before the decision and after
\* the plan was last computed, by as many different principals as the
\* operation and the environment ask for, none of them the one who asked.
PlansAreApproved ==
    \A o \in Started :
        LET r == operations[o].request
            by == {p \in Approvers \ {r.actor.principal} :
                     \E a \in approvals : /\ a.approver = p /\ a.plan = r.plan.digest
                                          /\ a.at \in r.plan.created .. operations[o].at}
        IN RequiresPlan(r.operation) =>
              /\ r.plan.digest = r.capability.plan
              /\ operations[o].at < r.plan.expires
              /\ Cardinality(by) >= IF r.operation = "delete" THEN 2
                                    ELSE IF r.environment = "production" THEN 1 ELSE 0

\* Every answer the server gives is one the client's parser accepts.
AnswersParse ==
    /\ answer # NoAnswer => OperationResponseParses(answer)
    /\ session.last # <<>> => VersionResponseParses(session.last[1].answer, session.last[1].policy)

\* A client is refused for the sunset of a version only where the server
\* prefers that version to its replacement or the client lacks the
\* replacement.
SunsetFollowsPreference ==
    \A n \in {session.last[i] : i \in DOMAIN session.last} :
        "VERSION_SUNSET" \in n.answer.reasons =>
            \A d \in n.answer.deprecations :
                \/ d.replacement \notin n.offer.versions
                \/ \E i, j \in DOMAIN n.policy.versions :
                      /\ i < j
                      /\ n.policy.versions[i] = d.version
                      /\ n.policy.versions[j] = d.replacement

\* Server and client agree on every answer, version negotiation at a sunset
\* included.
AnswersAreAgreed == AnswersParse /\ SunsetFollowsPreference
=============================================================================

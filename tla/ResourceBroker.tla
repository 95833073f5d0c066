--------------------------- MODULE ResourceBroker ---------------------------
(***************************************************************************)
(* The resource broker (src/core/resourceBroker.ts): the lifecycle of      *)
(* resource claims, the leases and fence tokens given to provider workers, *)
(* the idempotency records and the one-use capabilities of its mutations.  *)
(*                                                                         *)
(* Every operation is a transition on the current state with a matching    *)
(* expectedRevision; an operation that throws and a replay both leave the  *)
(* state as it is and are stuttering steps.  Workers hold on to the lease  *)
(* they were granted and may report at any later time, so every report can *)
(* be late or repeated, with the answer of an adapter to an older request. *)
(***************************************************************************)
EXTENDS ResourceProvider

CONSTANTS
    Claims,          \* claim ids
    ClaimRequests,   \* the requests callers apply, a generation of a claim each
    Contexts,        \* the mutation contexts callers present
    Providers,       \* provider ids
    Descriptors,     \* provider -> the descriptor it registers with
    Answers,         \* what adapters say of the state they observe
    Evidence,        \* finalization evidence references
    LeaseDurations,  \* durations workers ask for (1 to 900 seconds in the code)
    MaxTime,         \* bound on the clock
    MaxSkew,         \* how far occurredAt may lag behind the clock
    MaxDriftRevision \* bound: drift is reported up to this revision

ASSUME BoundsAssumption ==
    /\ LeaseDurations \subseteq Nat \ {0}
    /\ MaxTime \in Nat
    /\ MaxSkew \in Nat
    /\ MaxDriftRevision \in Nat
\* A provider is known by its descriptor's id.
ASSUME DescriptorsAssumption == \A p \in Providers : Descriptors[p].id = p

\* The idempotency keys and one-use capabilities of the contexts.
Keys == {ctx.key : ctx \in Contexts}
CapabilityIds == {ctx.capability : ctx \in Contexts}

VARIABLES
    revision,
    claims,               \* claim id -> ResourceClaimState, phase "absent" before apply
    idempotencyRecords,   \* set of [operation, claim, key, capability, revision]
    redeemedCapabilityIds,
    clock,                \* environment: true time
    grants,               \* environment: leases workers were given, and still know of
    accepted,             \* history: claim -> grant whose report was accepted last
    tries                 \* history: claim -> leases since its work began

state == <<revision, claims, idempotencyRecords, redeemedCapabilityIds>>
vars == <<state, clock, grants, accepted, tries>>

NoEvidence == "no-evidence"
NoProvider == "no-provider"

ASSUME EvidenceAssumption == NoEvidence \notin Evidence /\ NoProvider \notin Providers

Phases == {"pending", "reconciling", "available", "failed", "drifted",
           "cancelling", "cancelled", "deleting", "deleted"}

NoLease == [provider |-> NoProvider, generation |-> 0, token |-> << >>,
            attempt |-> 0, expires |-> 0]
NoFailure == [retryable |-> FALSE, attempt |-> 0]
NoRequest == [claimId |-> NoProvider]
NoGrant == [id |-> 0, generation |-> 0, provider |-> NoProvider, token |-> << >>, request |-> NoRequest]

AbsentClaim ==
    [phase |-> "absent", generation |-> 0, observedGeneration |-> 0,
     providerResourceRef |-> NoReference, outputs |-> << >>, lease |-> NoLease,
     failure |-> NoFailure, deletion |-> NoEvidence, maxReconcileAttempts |-> 1,
     request |-> NoRequest]

Exists(c) == claims[c].phase # "absent"

(* occurredAt of an operation issued now. *)
Stamps == {s \in 0 .. MaxTime : s <= clock /\ clock - s <= MaxSkew}

-----------------------------------------------------------------------------
(***************************************************************************)
(* Governed mutations: apply, cancel, delete.                              *)
(***************************************************************************)

(* The context is verified, for this operation, and crosses neither the    *)
(* tenant nor the resource of the claim.                                   *)
validateMutationContext(ctx, op, claim) ==
    /\ ctx.operation = op
    /\ ctx.capabilityVerified
    /\ ctx.tenant = claim.tenantId
    /\ ctx.resource = claim.claimId

(* Mutant: the records are not consulted. *)
KeyUnused_NotChecked(op, c, k) == TRUE

(* mutationReplay: a key used for this operation on this claim answers the *)
(* current claim, or throws when payload or capability differ.             *)
KeyUnused(op, c, k) ==
    ~\E r \in idempotencyRecords : r.operation = op /\ r.claim = c /\ r.key = k

(* Mutant: the replay check was left to the caller. *)
CommitMutation_NoReplayCheck(op, c, k, cap) ==
    /\ redeemedCapabilityIds' = redeemedCapabilityIds \cup {cap}
    /\ idempotencyRecords' = idempotencyRecords \cup
          {[operation |-> op, claim |-> c, key |-> k, capability |-> cap,
            revision |-> revision + 1]}
    /\ revision' = revision + 1

(* commitMutation: redemption and record are written with the claim. *)
CommitMutation(op, c, k, cap) ==
    /\ cap \notin redeemedCapabilityIds
    /\ redeemedCapabilityIds' = redeemedCapabilityIds \cup {cap}
    /\ idempotencyRecords' = idempotencyRecords \cup
          {[operation |-> op, claim |-> c, key |-> k, capability |-> cap,
            revision |-> revision + 1]}
    /\ revision' = revision + 1

(* Mutant: a deletion under way does not count. *)
WorkActive_NotDeleting(claim) == claim.phase \in {"reconciling", "cancelling"}

WorkActive(claim) == claim.phase \in {"reconciling", "cancelling", "deleting"}

(* A request continues the claim: the next generation of the same kind.    *)
(* resourceKind stands for the kind and the version of its API.            *)
Continues(c, q) ==
    /\ q.generation = claims[c].generation + 1
    /\ Exists(c) => /\ q.tenantId = claims[c].request.tenantId
                    /\ q.resourceKind = claims[c].request.resourceKind

(* applyResourceClaim: a new generation of desired state. *)
ApplyResourceClaim(c, ctx, q) ==
    /\ q.claimId = c
    /\ parseResourceClaimRequest(q)
    /\ KeyUnused("claim.apply", c, ctx.key)
    /\ validateMutationContext(ctx, "claim.apply", q)
    /\ Continues(c, q)
    /\ ~WorkActive(claims[c])
    /\ CommitMutation("claim.apply", c, ctx.key, ctx.capability)
    /\ claims' = [claims EXCEPT ![c] =
          [AbsentClaim EXCEPT !.phase = "pending",
                              !.generation = q.generation,
                              !.observedGeneration = claims[c].observedGeneration,
                              !.providerResourceRef = claims[c].providerResourceRef,
                              !.maxReconcileAttempts = q.maxReconcileAttempts,
                              !.request = q]]
    /\ tries' = [tries EXCEPT ![c] = 0]
    /\ UNCHANGED <<clock, grants, accepted>>

(* cancelResourceClaim: while a worker reconciles, its fence stays. *)
CancelResourceClaim(c, ctx) ==
    /\ Exists(c)
    /\ KeyUnused("claim.cancel", c, ctx.key)
    /\ validateMutationContext(ctx, "claim.cancel", claims[c].request)
    /\ claims[c].phase \in {"pending", "reconciling", "failed", "drifted"}
    /\ CommitMutation("claim.cancel", c, ctx.key, ctx.capability)
    /\ claims' = [claims EXCEPT ![c] =
          IF claims[c].phase = "reconciling"
            THEN [claims[c] EXCEPT !.phase = "cancelling", !.outputs = << >>]
            ELSE [claims[c] EXCEPT !.phase = "cancelled", !.outputs = << >>,
                                   !.lease = NoLease]]
    /\ UNCHANGED <<clock, grants, accepted, tries>>

(* requestResourceClaimDeletion: the evidence is bound in advance. *)
RequestResourceClaimDeletion(c, ctx, e) ==
    /\ Exists(c)
    /\ KeyUnused("claim.delete", c, ctx.key)
    /\ validateMutationContext(ctx, "claim.delete", claims[c].request)
    /\ claims[c].phase \in {"available", "cancelled"}
    /\ CommitMutation("claim.delete", c, ctx.key, ctx.capability)
    /\ claims' = [claims EXCEPT ![c] =
          [claims[c] EXCEPT !.phase = "deleting", !.outputs = << >>, !.deletion = e]]
    /\ tries' = [tries EXCEPT ![c] = 0]
    /\ UNCHANGED <<clock, grants, accepted>>

-----------------------------------------------------------------------------
(***************************************************************************)
(* Leases.                                                                 *)
(***************************************************************************)
NextAttempt(claim) ==
    (IF claim.lease # NoLease THEN claim.lease.attempt ELSE claim.failure.attempt) + 1

AttemptAllowed(claim) == NextAttempt(claim) <= claim.maxReconcileAttempts

(* Mutant: an expired lease is not taken over. *)
Leasable_NoTakeover(claim) ==
    \/ claim.phase \in {"pending", "drifted", "deleting"}
    \/ claim.phase = "failed" /\ claim.failure.retryable

Leasable(claim) ==
    \/ claim.phase \in {"pending", "drifted", "deleting"}
    \/ claim.phase = "failed" /\ claim.failure.retryable
    \/ claim.phase = "reconciling" /\ claim.lease # NoLease

(* Mutant: revision and time are left out. *)
FenceToken_NoRevision(c, generation, p, attempt, rev, now) ==
    <<c, generation, p, attempt, 0, 0>>

(* sha256 over the canonical JSON of these fields. *)
FenceToken(c, generation, p, attempt, rev, now) == <<c, generation, p, attempt, rev, now>>

(* leaseResourceClaim: an unleased claim, or one whose lease has expired.  *)
LeaseResourceClaim(c, p, now, duration) ==
    LET claim   == claims[c]
        attempt == NextAttempt(claim)
        token   == FenceToken(c, claim.generation, p, attempt, revision + 1, now)
    IN
    /\ Exists(c)
    /\ ~lacksCapability(Descriptors[p], claim.request)
    /\ claim.lease # NoLease => claim.lease.expires <= now
    /\ Leasable(claim)
    /\ AttemptAllowed(claim)
    /\ claims' = [claims EXCEPT ![c] =
          [claim EXCEPT !.phase = IF claim.phase = "deleting" THEN "deleting" ELSE "reconciling",
                        !.lease = [provider |-> p, generation |-> claim.generation,
                                   token |-> token, attempt |-> attempt,
                                   expires |-> now + duration],
                        !.failure = NoFailure]]
    /\ revision' = revision + 1
    /\ grants' = [grants EXCEPT ![c] = @ \cup
          {[id |-> revision + 1, generation |-> claim.generation, provider |-> p,
            token |-> token, request |-> claim.request]}]
    /\ tries' = [tries EXCEPT ![c] = @ + 1]
    /\ UNCHANGED <<idempotencyRecords, redeemedCapabilityIds, clock, accepted>>

(* providerClaim: the fence every report of a worker has to pass.          *)
ProviderClaim(c, g, phase, at) ==
    LET claim == claims[c] IN
    /\ claim.phase = phase
    /\ claim.lease # NoLease
    /\ claim.lease.provider = g.provider
    /\ claim.lease.generation = g.generation
    /\ claim.generation = g.generation
    /\ claim.lease.token = g.token
    /\ claim.lease.expires >= at

(* commitState with the claim a report leads to. *)
CommitReport(c, g, claim) ==
    /\ claims' = [claims EXCEPT ![c] = claim]
    /\ revision' = revision + 1
    /\ accepted' = [accepted EXCEPT ![c] = g]
    /\ UNCHANGED <<idempotencyRecords, redeemedCapabilityIds, clock, grants>>

(* What completeResourceClaim asks of the observation itself. *)
ObservationTaken(claim, a) ==
    /\ a.observedStateDigest = claim.request.desiredStateDigest
    /\ reference(a.providerResourceRef, {"provider"})
    /\ validateOutputs(a.outputs)
    /\ a.outputs # << >>

(* completeResourceClaim *)
CompleteResourceClaim(c, g, at, a) ==
    /\ ProviderClaim(c, g, "reconciling", at)
    /\ ObservationTaken(claims[c], a)
    /\ CommitReport(c, g,
          [claims[c] EXCEPT !.phase = "available", !.observedGeneration = claims[c].generation,
                            !.providerResourceRef = a.providerResourceRef, !.outputs = a.outputs,
                            !.lease = NoLease, !.failure = NoFailure])
    /\ tries' = [tries EXCEPT ![c] = 0]

(* failResourceClaim *)
FailResourceClaim(c, g, at, retryable) ==
    /\ ProviderClaim(c, g, "reconciling", at)
    /\ CommitReport(c, g,
          [claims[c] EXCEPT !.phase = "failed", !.lease = NoLease,
                            !.failure = [retryable |-> retryable,
                                         attempt |-> claims[c].lease.attempt]])
    /\ UNCHANGED tries

(* acknowledgeResourceClaimCancellation *)
AcknowledgeResourceClaimCancellation(c, g, at) ==
    /\ ProviderClaim(c, g, "cancelling", at)
    /\ CommitReport(c, g,
          [claims[c] EXCEPT !.phase = "cancelled", !.lease = NoLease, !.outputs = << >>])
    /\ UNCHANGED tries

(* completeResourceClaimDeletion *)
CompleteResourceClaimDeletion(c, g, at, e) ==
    /\ ProviderClaim(c, g, "deleting", at)
    /\ e = claims[c].deletion
    /\ CommitReport(c, g,
          [claims[c] EXCEPT !.phase = "deleted", !.observedGeneration = claims[c].generation,
                            !.providerResourceRef = NoReference, !.outputs = << >>,
                            !.lease = NoLease])
    /\ UNCHANGED tries

(* reportResourceClaimDrift: any verified provider may report it. *)
ReportResourceClaimDrift(c, a) ==
    /\ revision < MaxDriftRevision
    /\ claims[c].phase = "available"
    /\ a.observedStateDigest # claims[c].request.desiredStateDigest
    /\ claims' = [claims EXCEPT ![c] = [claims[c] EXCEPT !.phase = "drifted", !.outputs = << >>]]
    /\ revision' = revision + 1
    /\ UNCHANGED <<idempotencyRecords, redeemedCapabilityIds, clock, grants, accepted, tries>>

Tick ==
    /\ clock < MaxTime
    /\ clock' = clock + 1
    /\ UNCHANGED <<state, grants, accepted, tries>>

-----------------------------------------------------------------------------
Init ==
    /\ revision = 0
    /\ claims = [c \in Claims |-> AbsentClaim]
    /\ idempotencyRecords = {}
    /\ redeemedCapabilityIds = {}
    /\ clock = 0
    /\ grants = [c \in Claims |-> {}]
    /\ accepted = [c \in Claims |-> NoGrant]
    /\ tries = [c \in Claims |-> 0]

Mutation(c, ctx) ==
    \/ \E q \in ClaimRequests : ApplyResourceClaim(c, ctx, q)
    \/ CancelResourceClaim(c, ctx)
    \/ \E e \in Evidence : RequestResourceClaimDeletion(c, ctx, e)

Report(c, g, at) ==
    \/ \E a \in Answers : CompleteResourceClaim(c, g, at, a)
    \/ \E retryable \in BOOLEAN : FailResourceClaim(c, g, at, retryable)
    \/ AcknowledgeResourceClaimCancellation(c, g, at)
    \/ \E e \in Evidence : CompleteResourceClaimDeletion(c, g, at, e)

Next ==
    \/ \E c \in Claims, ctx \in Contexts : Mutation(c, ctx)
    \/ \E c \in Claims, p \in Providers, now \in Stamps, d \in LeaseDurations :
          LeaseResourceClaim(c, p, now, d)
    \/ \E c \in Claims, at \in Stamps : \E g \in grants[c] : Report(c, g, at)
    \/ \E c \in Claims, a \in Answers : ReportResourceClaimDrift(c, a)
    \/ Tick

Spec == Init /\ [][Next]_vars

(***************************************************************************)
(* Fairness for liveness: time passes, some capable provider asks for      *)
(* leases, and the holder of a lease that is still valid reports.          *)
(***************************************************************************)
Fairness ==
    /\ WF_vars(Tick)
    /\ \A c \in Claims :
          /\ WF_vars(\E p \in Providers, d \in LeaseDurations : LeaseResourceClaim(c, p, clock, d))
          /\ WF_vars(\E g \in grants[c] : Report(c, g, clock))

FairSpec == Spec /\ Fairness

-----------------------------------------------------------------------------
(***************************************************************************)
(* Properties.                                                             *)
(***************************************************************************)
LeaseType == [provider : Providers, generation : Nat, attempt : Nat, expires : Nat,
              token : Claims \X Nat \X Providers \X Nat \X Nat \X Nat]

ObservedReferences == {a.providerResourceRef : a \in Answers} \cup {NoReference}
ObservedOutputs == {a.outputs : a \in Answers} \cup {<< >>}

ClaimType ==
    [phase : Phases \cup {"absent"}, generation : Nat, observedGeneration : Nat,
     providerResourceRef : ObservedReferences, outputs : ObservedOutputs,
     lease : LeaseType \cup {NoLease},
     failure : [retryable : BOOLEAN, attempt : Nat], deletion : Evidence \cup {NoEvidence},
     maxReconcileAttempts : 1 .. mostReconcileAttempts, request : ClaimRequests \cup {NoRequest}]

GrantType == [id : Nat, generation : Nat, provider : Providers, request : ClaimRequests \cup {NoRequest},
              token : Claims \X Nat \X Providers \X Nat \X Nat \X Nat]

RecordType ==
    [operation : {"claim.apply", "claim.cancel", "claim.delete"}, claim : Claims,
     key : Keys, capability : CapabilityIds, revision : Nat \ {0}]

(* Type invariant of the broker state and of its environment. *)
TypeOK ==
    /\ revision \in Nat
    /\ claims \in [Claims -> ClaimType]
    /\ idempotencyRecords \subseteq RecordType
    /\ redeemedCapabilityIds \subseteq CapabilityIds
    /\ clock \in 0 .. MaxTime
    /\ grants \in [Claims -> SUBSET GrantType]
    /\ accepted \in [Claims -> GrantType \cup {NoGrant}]
    /\ tries \in [Claims -> Nat]

(* parseClaimState: the claim as it would be read back from the store. *)
parseClaimState(claim) ==
    /\ parseResourceClaimRequest(claim.request)
    /\ claim.phase \in Phases
    /\ claim.providerResourceRef = NoReference \/ reference(claim.providerResourceRef, {"provider"})
    /\ validateOutputs(claim.outputs)
    /\ claim.lease = NoLease \/ (claim.lease.generation > 0 /\ claim.lease.attempt > 0)
    /\ claim.failure = NoFailure \/ claim.failure.attempt > 0

(* Phase, lease and observed state of a claim agree. *)
ClaimConsistent(claim) ==
    /\ claim.observedGeneration <= claim.generation
    /\ claim.phase \in {"reconciling", "cancelling"} => claim.lease # NoLease
    /\ claim.lease # NoLease => claim.phase \in {"reconciling", "cancelling", "deleting"}
    /\ claim.phase = "available" =>
          /\ claim.observedGeneration = claim.generation
          /\ claim.providerResourceRef # NoReference
          /\ claim.outputs # << >>
    /\ claim.phase = "deleted" => claim.outputs = << >>

assertResourceBrokerState ==
    /\ \A c \in Claims : Exists(c) => parseClaimState(claims[c]) /\ ClaimConsistent(claims[c])
    /\ \A r, s \in idempotencyRecords :
          r.operation = s.operation /\ r.claim = s.claim /\ r.key = s.key => r = s
    /\ \A r \in idempotencyRecords : r.capability \in redeemedCapabilityIds

(* commitState and commitMutation run assertResourceBrokerState on what    *)
(* they return and checkedState on what they are given.  It is an          *)
(* invariant of the transitions themselves, so no accepted operation is    *)
(* ever turned into an exception by it, and a stored state is read back.   *)
BrokerStateValid == assertResourceBrokerState

(* The newest lease of a claim. *)
Latest(c, g) == g \in grants[c] /\ \A h \in grants[c] : h.id <= g.id

(* Late-worker denial: what a claim shows as available, failed or deleted  *)
(* was reported by the holder of its newest lease, for its current         *)
(* generation; no worker that lost its lease, to expiry, cancellation,     *)
(* drift or a new generation, gets a result in.                            *)
SettledByLatestLease ==
    \A c \in Claims : claims[c].phase \in {"available", "failed", "drifted", "deleted"} =>
        /\ Latest(c, accepted[c])
        /\ accepted[c].generation = claims[c].generation

(* Atomic one-use redemption: a capability pays for one mutation, whatever *)
(* claims and keys it is presented with.                                   *)
CapabilityPaysOnce ==
    \A r, s \in idempotencyRecords : r.capability = s.capability => r = s

(* Bounded attempts: between two points at which work on a claim begins    *)
(* afresh, no more leases are granted than the claim allows, although      *)
(* workers fail, crash or let their leases expire.                         *)
AttemptsBounded ==
    \A c \in Claims : Exists(c) => tries[c] <= claims[c].maxReconcileAttempts

(* Outputs can be consumed exactly while the claim is available: drift,    *)
(* cancellation, deletion and a new generation withdraw them.              *)
OutputsOnlyWhileAvailable ==
    \A c \in Claims : claims[c].outputs # << >> <=> claims[c].phase = "available"

(* What a worker asks of its adapter, and the adapter's answer, which may  *)
(* be to the request of another lease.                                     *)
WorkerRequest(g, op) == [claim |-> g.request, operation |-> op, fenceToken |-> g.token]
AdapterResult(c, h, a) ==
    [providerId |-> h.provider, claimId |-> c, generation |-> h.generation, fenceToken |-> h.token,
     operation |-> a.operation, observedStateDigest |-> a.observedStateDigest,
     providerResourceRef |-> a.providerResourceRef, outputs |-> a.outputs]

(* The two sides of the protocol agree: the result a worker gets through   *)
(* executeWithResourceProvider for the claim as it read it with its lease  *)
(* is not refused by completeResourceClaim while its fence holds, and it   *)
(* is the answer to this lease.                                            *)
CheckedWorkIsTaken ==
    \A c \in Claims, at \in Stamps : \A g \in grants[c] :
        ProviderClaim(c, g, "reconciling", at) =>
            \A h \in grants[c], a \in Answers :
                executeWithResourceProvider(Descriptors[g.provider], WorkerRequest(g, "reconcile"),
                                            AdapterResult(c, h, a))
                => ObservationTaken(claims[c], a) /\ h = g

(* What consumers see of a claim is the current work of its newest lease:  *)
(* no late result, no outputs that outlived their availability, no more    *)
(* tries than were granted, and no checked result that is then refused.    *)
ClaimsShowCurrentWork ==
    /\ SettledByLatestLease
    /\ AttemptsBounded
    /\ OutputsOnlyWhileAvailable
    /\ CheckedWorkIsTaken

(* Monotonically increasing generations: a generation advances by one and  *)
(* only while no worker is at the claim, and what was observed is never    *)
(* taken back.                                                             *)
GenerationsAdvance ==
    [][\A c \in Claims :
          /\ claims'[c].generation # claims[c].generation =>
                /\ claims'[c].generation = claims[c].generation + 1
                /\ claims[c].lease = NoLease
          /\ claims'[c].observedGeneration >= claims[c].observedGeneration]_vars

(* Cancellation retains the fence: a claim leaves "cancelling" only for    *)
(* "cancelled", by the report of the worker whose lease was cancelled.     *)
CancellationKeepsFence ==
    [][\A c \in Claims : claims[c].phase = "cancelling" =>
          \/ claims'[c] = claims[c]
          \/ /\ claims'[c].phase = "cancelled"
             /\ accepted'[c].token = claims[c].lease.token]_vars

(* A worker's fence holds against everybody else: against a new generation *)
(* while it works, and against any other worker while it cleans up.        *)
FencesHold == GenerationsAdvance /\ CancellationKeepsFence

(* Cleanup evidence ends a cancellation. *)
CancellationEnds ==
    \A c \in Claims : (claims[c].phase = "cancelling") ~> (claims[c].phase = "cancelled")

(* The last attempt of a claim has expired. *)
Lapsed(c) ==
    /\ claims[c].lease # NoLease
    /\ claims[c].lease.expires < clock
    /\ claims[c].lease.attempt = claims[c].maxReconcileAttempts

(* A pending claim does not stay pending. *)
PendingIsServed ==
    \A c \in Claims : (claims[c].phase = "pending") ~> (claims[c].phase # "pending")

(* Reconciliation ends in a result or a cancellation, or lapses. *)
ReconciliationEnds ==
    \A c \in Claims :
        (claims[c].phase = "reconciling") ~> (claims[c].phase # "reconciling" \/ Lapsed(c))

(* Work gets somewhere: a pending claim is leased or called off, and       *)
(* reconciliation ends or its last attempt has expired.                    *)
ClaimsProgress == PendingIsServed /\ ReconciliationEnds
=============================================================================

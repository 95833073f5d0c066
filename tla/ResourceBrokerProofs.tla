------------------------ MODULE ResourceBrokerProofs ------------------------
(***************************************************************************)
(* Safety of the resource broker for any number of claims, providers,      *)
(* capabilities and keys, any lease durations and any clock skew.          *)
(***************************************************************************)
EXTENDS ResourceBroker, TLAPS

(***************************************************************************)
(* Records the actions write.                                              *)
(***************************************************************************)
(* A lease is never the absent lease. *)
LEMMA LeaseIsNotNoLease ==
    ASSUME NEW l \in LeaseType
    PROVE  l # NoLease
  BY EvidenceAssumption DEF LeaseType, NoLease

(* What a claim can hold of an observation. *)
LEMMA ObservedTypes ==
    /\ << >> \in ObservedOutputs /\ NoReference \in ObservedReferences
    /\ \A a \in Answers : a.outputs \in ObservedOutputs /\ a.providerResourceRef \in ObservedReferences
  BY DEF ObservedOutputs, ObservedReferences

(* A claim nobody has applied is well typed. *)
LEMMA AbsentClaimType == AbsentClaim \in ClaimType
  BY ObservedTypes DEF AbsentClaim, ClaimType, NoFailure, Phases, mostReconcileAttempts

(* The fence token a provider worker is given is well typed. *)
LEMMA TokenType ==
    ASSUME NEW c \in Claims, NEW p \in Providers, NEW generation \in Nat,
           NEW attempt \in Nat, NEW rev \in Nat, NEW now \in Nat
    PROVE  FenceToken(c, generation, p, attempt, rev, now)
             \in Claims \X Nat \X Providers \X Nat \X Nat \X Nat
  BY DEF FenceToken

(* The stamps of operations are natural numbers. *)
LEMMA StampsAreTimes == \A s \in Stamps : s \in Nat
  BY BoundsAssumption DEF Stamps

(***************************************************************************)
(* Type correctness.                                                       *)
(***************************************************************************)

(* The empty state is well typed. *)
LEMMA TypeInit == Init => TypeOK
  BY AbsentClaimType, BoundsAssumption DEF Init, TypeOK

(* Contexts carry keys and capabilities. *)
LEMMA ContextTypes == \A ctx \in Contexts : ctx.key \in Keys /\ ctx.capability \in CapabilityIds
  BY DEF Keys, CapabilityIds

(* A request that parses has a generation and allows an attempt. *)
LEMMA ParsedRequest ==
    ASSUME NEW q, parseResourceClaimRequest(q)
    PROVE  q.generation \in Nat \ {0} /\ q.maxReconcileAttempts \in 1 .. mostReconcileAttempts
  BY DEF parseResourceClaimRequest

(* commitMutation writes well-typed records. *)
LEMMA CommitMutationType ==
    ASSUME TypeOK, NEW c \in Claims, NEW k \in Keys, NEW cap \in CapabilityIds,
           NEW op \in {"claim.apply", "claim.cancel", "claim.delete"},
           CommitMutation(op, c, k, cap)
    PROVE  /\ revision' \in Nat
           /\ idempotencyRecords' \subseteq RecordType
           /\ redeemedCapabilityIds' \subseteq CapabilityIds
  <1> revision + 1 \in Nat \ {0}
    BY DEF TypeOK
  <1> [operation |-> op, claim |-> c, key |-> k, capability |-> cap,
       revision |-> revision + 1] \in RecordType
    BY DEF RecordType
  <1> QED
    BY DEF CommitMutation, TypeOK

(* NextAttempt of a well-typed claim. *)
LEMMA NextAttemptType ==
    ASSUME NEW claim \in ClaimType
    PROVE  NextAttempt(claim) \in Nat
  BY DEF NextAttempt, ClaimType, LeaseType

(* Every operation keeps the types. *)
LEMMA TypeNext == TypeOK /\ [Next]_vars => TypeOK'
  <1> SUFFICES ASSUME TypeOK, [Next]_vars
               PROVE  TypeOK'
    OBVIOUS
  <1>1. ASSUME NEW c \in Claims, NEW ctx \in Contexts,
               NEW q \in ClaimRequests, ApplyResourceClaim(c, ctx, q)
        PROVE  TypeOK'
    <2> [AbsentClaim EXCEPT !.phase = "pending",
                            !.generation = q.generation,
                            !.observedGeneration = claims[c].observedGeneration,
                            !.providerResourceRef = claims[c].providerResourceRef,
                            !.maxReconcileAttempts = q.maxReconcileAttempts,
                            !.request = q] \in ClaimType
      <3> claims[c] \in ClaimType
        BY DEF TypeOK
      <3> q.generation \in Nat \ {0} /\ q.maxReconcileAttempts \in 1 .. mostReconcileAttempts
        BY <1>1, ParsedRequest DEF ApplyResourceClaim
      <3> "pending" \in Phases
        BY DEF Phases
      <3> QED
        BY AbsentClaimType DEF ClaimType
    <2> CommitMutation("claim.apply", c, ctx.key, ctx.capability)
      BY <1>1 DEF ApplyResourceClaim
    <2> QED
      BY <1>1, CommitMutationType, ContextTypes DEF ApplyResourceClaim, TypeOK
  <1>2. ASSUME NEW c \in Claims, NEW ctx \in Contexts,
               CancelResourceClaim(c, ctx)
        PROVE  TypeOK'
    <2> /\ [claims[c] EXCEPT !.phase = "cancelling", !.outputs = << >>] \in ClaimType
        /\ [claims[c] EXCEPT !.phase = "cancelled", !.outputs = << >>,
                             !.lease = NoLease] \in ClaimType
      <3> claims[c] \in ClaimType /\ << >> \in ObservedOutputs
        BY ObservedTypes DEF TypeOK
      <3> QED
        BY DEF ClaimType, Phases
    <2> CommitMutation("claim.cancel", c, ctx.key, ctx.capability)
      BY <1>2 DEF CancelResourceClaim
    <2> QED
      BY <1>2, CommitMutationType, ContextTypes DEF CancelResourceClaim, TypeOK
  <1>3. ASSUME NEW c \in Claims, NEW ctx \in Contexts,
               NEW e \in Evidence, RequestResourceClaimDeletion(c, ctx, e)
        PROVE  TypeOK'
    <2> [claims[c] EXCEPT !.phase = "deleting", !.outputs = << >>, !.deletion = e] \in ClaimType
      <3> claims[c] \in ClaimType /\ << >> \in ObservedOutputs
        BY ObservedTypes DEF TypeOK
      <3> QED
        BY DEF ClaimType, Phases
    <2> CommitMutation("claim.delete", c, ctx.key, ctx.capability)
      BY <1>3 DEF RequestResourceClaimDeletion
    <2> QED
      BY <1>3, CommitMutationType, ContextTypes DEF RequestResourceClaimDeletion, TypeOK
  <1>4. ASSUME NEW c \in Claims, NEW p \in Providers, NEW now \in Stamps,
               NEW d \in LeaseDurations, LeaseResourceClaim(c, p, now, d)
        PROVE  TypeOK'
    <2> DEFINE claim == claims[c]
               attempt == NextAttempt(claim)
               token == FenceToken(c, claim.generation, p, attempt, revision + 1, now)
               lease == [provider |-> p, generation |-> claim.generation, token |-> token,
                         attempt |-> attempt, expires |-> now + d]
               grant == [id |-> revision + 1, generation |-> claim.generation,
                         provider |-> p, token |-> token, request |-> claim.request]
               phase == IF claim.phase = "deleting" THEN "deleting" ELSE "reconciling"
    <2>1. /\ claim \in ClaimType
          /\ claim.generation \in Nat /\ claim.request \in ClaimRequests \cup {NoRequest}
          /\ attempt \in Nat
          /\ revision + 1 \in Nat
          /\ now \in Nat
          /\ now + d \in Nat
      BY NextAttemptType, StampsAreTimes, BoundsAssumption DEF TypeOK, ClaimType
    <2>2. lease \in LeaseType /\ grant \in GrantType
      <3>1. token \in Claims \X Nat \X Providers \X Nat \X Nat \X Nat
        BY <2>1, TokenType
      <3> HIDE DEF token, attempt
      <3> QED
        BY <2>1, <3>1 DEF LeaseType, GrantType
    <2>3. /\ claims' = [claims EXCEPT ![c] = [claim EXCEPT !.phase = phase, !.lease = lease,
                                                           !.failure = NoFailure]]
          /\ grants' = [grants EXCEPT ![c] = @ \cup {grant}]
          /\ revision' = revision + 1
          /\ tries' = [tries EXCEPT ![c] = @ + 1]
          /\ UNCHANGED <<idempotencyRecords, redeemedCapabilityIds, clock, accepted>>
      BY <1>4 DEF LeaseResourceClaim
    <2>4. phase \in Phases /\ NoFailure \in [retryable : BOOLEAN, attempt : Nat]
      BY DEF Phases, NoFailure
    <2> HIDE DEF lease, grant, phase, attempt, token
    <2>5. [claim EXCEPT !.phase = phase, !.lease = lease, !.failure = NoFailure] \in ClaimType
      BY <2>1, <2>2, <2>4 DEF ClaimType
    <2> QED
      BY <2>1, <2>2, <2>3, <2>5 DEF TypeOK
  <1>5. ASSUME NEW c \in Claims, NEW g \in grants[c],
               NEW claim \in ClaimType, CommitReport(c, g, claim),
               tries' \in [Claims -> Nat]
        PROVE  TypeOK'
    BY <1>5 DEF CommitReport, TypeOK
  <1>6. ASSUME NEW c \in Claims, NEW at \in Stamps, NEW g \in grants[c], Report(c, g, at)
        PROVE  TypeOK'
    <2> claims[c] \in ClaimType
      BY DEF TypeOK
    <2>1. ASSUME NEW a \in Answers, CompleteResourceClaim(c, g, at, a)
          PROVE  TypeOK'
      <3> DEFINE next == [claims[c] EXCEPT !.phase = "available", !.observedGeneration = claims[c].generation,
                              !.providerResourceRef = a.providerResourceRef, !.outputs = a.outputs,
                              !.lease = NoLease, !.failure = NoFailure]
      <3> next \in ClaimType
        BY ObservedTypes DEF ClaimType, Phases, NoFailure
      <3> tries' \in [Claims -> Nat]
        BY <2>1 DEF CompleteResourceClaim, TypeOK
      <3> CommitReport(c, g, next)
        BY <2>1 DEF CompleteResourceClaim
      <3> HIDE DEF next
      <3> QED
        BY <1>5
    <2>2. ASSUME NEW retryable \in BOOLEAN, FailResourceClaim(c, g, at, retryable)
          PROVE  TypeOK'
      <3> claims[c].lease \in LeaseType
        BY <2>2 DEF FailResourceClaim, ProviderClaim, TypeOK, ClaimType
      <3> DEFINE next == [claims[c] EXCEPT !.phase = "failed", !.lease = NoLease,
                              !.failure = [retryable |-> retryable,
                              attempt |-> claims[c].lease.attempt]]
      <3> next \in ClaimType
        BY DEF ClaimType, Phases, LeaseType
      <3> tries' \in [Claims -> Nat]
        BY <2>2 DEF FailResourceClaim, TypeOK
      <3> CommitReport(c, g, next)
        BY <2>2 DEF FailResourceClaim
      <3> HIDE DEF next
      <3> QED
        BY <1>5
    <2>3. CASE AcknowledgeResourceClaimCancellation(c, g, at)
      <3> DEFINE next == [claims[c] EXCEPT !.phase = "cancelled", !.lease = NoLease, !.outputs = << >>]
      <3> next \in ClaimType
        BY ObservedTypes DEF ClaimType, Phases
      <3> tries' \in [Claims -> Nat]
        BY <2>3 DEF AcknowledgeResourceClaimCancellation, TypeOK
      <3> CommitReport(c, g, next)
        BY <2>3 DEF AcknowledgeResourceClaimCancellation
      <3> HIDE DEF next
      <3> QED
        BY <1>5
    <2>4. ASSUME NEW e \in Evidence, CompleteResourceClaimDeletion(c, g, at, e)
          PROVE  TypeOK'
      <3> DEFINE next == [claims[c] EXCEPT !.phase = "deleted", !.observedGeneration = claims[c].generation,
                              !.providerResourceRef = NoReference, !.outputs = << >>,
                              !.lease = NoLease]
      <3> next \in ClaimType
        BY ObservedTypes DEF ClaimType, Phases
      <3> tries' \in [Claims -> Nat]
        BY <2>4 DEF CompleteResourceClaimDeletion, TypeOK
      <3> CommitReport(c, g, next)
        BY <2>4 DEF CompleteResourceClaimDeletion
      <3> HIDE DEF next
      <3> QED
        BY <1>5
    <2> QED
      BY <1>6, <2>1, <2>2, <2>3, <2>4 DEF Report
  <1>7. ASSUME NEW c \in Claims, NEW a \in Answers, ReportResourceClaimDrift(c, a)
        PROVE  TypeOK'
    <2> [claims[c] EXCEPT !.phase = "drifted", !.outputs = << >>] \in ClaimType
      <3> claims[c] \in ClaimType /\ << >> \in ObservedOutputs
        BY ObservedTypes DEF TypeOK
      <3> QED
        BY DEF ClaimType, Phases
    <2> QED
      BY <1>7 DEF ReportResourceClaimDrift, TypeOK
  <1>8. CASE Tick
    BY <1>8, BoundsAssumption DEF Tick, TypeOK, state
  <1>9. CASE UNCHANGED vars
    BY <1>9 DEF vars, state, TypeOK
  <1> QED
    BY <1>1, <1>2, <1>3, <1>4, <1>6, <1>7, <1>8, <1>9 DEF Next, Mutation

(* The broker's state and its environment keep their types. *)
THEOREM TypeCorrect == Spec => []TypeOK
  BY TypeInit, TypeNext, PTL DEF Spec

-----------------------------------------------------------------------------
(***************************************************************************)
(* The inductive invariant: one part about the records, five about each    *)
(* claim.                                                                  *)
(***************************************************************************)
RecordsInv ==
    /\ \A r, s \in idempotencyRecords :
          r.operation = s.operation /\ r.claim = s.claim /\ r.key = s.key => r = s
    /\ \A r \in idempotencyRecords : r.capability \in redeemedCapabilityIds
    /\ CapabilityPaysOnce

ClaimValid(c) ==
    LET claim == claims[c] IN
    /\ claim.observedGeneration <= claim.generation
    /\ claim.phase \in {"reconciling", "cancelling"} => claim.lease # NoLease
    /\ claim.lease # NoLease => claim.phase \in {"reconciling", "cancelling", "deleting"}
    /\ claim.phase = "available" =>
          claim.observedGeneration = claim.generation /\ claim.providerResourceRef # NoReference
    /\ claim.outputs # << >> <=> claim.phase = "available"

(* What the store holds of a claim can be read back. *)
ReadBack(c) ==
    IF Exists(c)
    THEN parseClaimState(claims[c]) /\ claims[c].generation = claims[c].request.generation
    ELSE claims[c].providerResourceRef = NoReference

(* A token names the revision that granted it, so the fence of a claim     *)
(* under lease opens for the newest grant alone, whose worker has read the *)
(* request that is still in force.                                         *)
LeaseCurrent(c) ==
    /\ \A g \in grants[c] : g.id <= revision /\ g.token[5] = g.id
    /\ \A g, h \in grants[c] : g.id = h.id => g = h
    /\ claims[c].lease # NoLease =>
          \E g \in grants[c] : /\ Latest(c, g) /\ g.token = claims[c].lease.token
                                /\ g.request = claims[c].request

Settled(c) ==
    claims[c].phase \in {"available", "failed", "drifted", "deleted"} =>
        /\ Latest(c, accepted[c])
        /\ accepted[c].generation = claims[c].generation

(* The attempt number the code derives from lease and failure has not      *)
(* fallen behind the leases really granted.                                *)
AttemptsCounted(c) ==
    /\ Exists(c) => tries[c] <= claims[c].maxReconcileAttempts
    /\ ~Exists(c) => tries[c] = 0
    /\ claims[c].phase \notin {"cancelled", "deleted"} => tries[c] < NextAttempt(claims[c])

ClaimInv(c) == ClaimValid(c) /\ ReadBack(c) /\ LeaseCurrent(c) /\ Settled(c) /\ AttemptsCounted(c)

IInv == TypeOK /\ RecordsInv /\ \A c \in Claims : ClaimInv(c)

(* The parts together give the properties the broker is checked for. *)
LEMMA IInvImplies ==
    IInv => /\ BrokerStateValid
            /\ CapabilityPaysOnce
            /\ OutputsOnlyWhileAvailable
            /\ SettledByLatestLease
            /\ AttemptsBounded
  <1> SUFFICES ASSUME IInv
               PROVE  /\ BrokerStateValid
                      /\ CapabilityPaysOnce
                      /\ OutputsOnlyWhileAvailable
                      /\ SettledByLatestLease
                      /\ AttemptsBounded
    OBVIOUS
  <1>1. BrokerStateValid /\ OutputsOnlyWhileAvailable
    BY DEF IInv, RecordsInv, ClaimInv, ClaimValid, ReadBack, ClaimConsistent, BrokerStateValid,
       assertResourceBrokerState, OutputsOnlyWhileAvailable
  <1>2. SettledByLatestLease /\ AttemptsBounded
    BY DEF IInv, ClaimInv, Settled, SettledByLatestLease, AttemptsCounted, AttemptsBounded
  <1> QED
    BY <1>1, <1>2 DEF IInv, RecordsInv

(* The empty broker satisfies it. *)
LEMMA InitIInv == Init => IInv
  <1> SUFFICES ASSUME Init
               PROVE  IInv
    OBVIOUS
  <1>1. RecordsInv
    BY DEF Init, RecordsInv, CapabilityPaysOnce
  <1>2. ASSUME NEW c \in Claims
        PROVE  ClaimInv(c)
    <2> claims[c] = AbsentClaim /\ grants[c] = {} /\ tries[c] = 0
      BY DEF Init
    <2> /\ AbsentClaim.phase = "absent" /\ AbsentClaim.lease = NoLease
        /\ AbsentClaim.generation = 0 /\ AbsentClaim.observedGeneration = 0
        /\ AbsentClaim.outputs = << >> /\ AbsentClaim.providerResourceRef = NoReference
        /\ AbsentClaim.failure.attempt = 0
      BY DEF AbsentClaim, NoFailure
    <2> QED
      BY DEF ClaimInv, ClaimValid, ReadBack, LeaseCurrent, Settled, AttemptsCounted, Exists, NextAttempt
  <1> QED
    BY <1>1, <1>2, TypeInit DEF IInv

(* commitMutation: the capability was not redeemed and the key not used.   *)
LEMMA CommitMutationRecords ==
    ASSUME TypeOK, RecordsInv, NEW c \in Claims, NEW k \in Keys, NEW cap \in CapabilityIds,
           NEW op \in {"claim.apply", "claim.cancel", "claim.delete"},
           KeyUnused(op, c, k), CommitMutation(op, c, k, cap)
    PROVE  RecordsInv'
  <1> DEFINE new == [operation |-> op, claim |-> c, key |-> k, capability |-> cap,
                     revision |-> revision + 1]
  <1>1. /\ idempotencyRecords' = idempotencyRecords \cup {new}
        /\ redeemedCapabilityIds' = redeemedCapabilityIds \cup {cap}
        /\ cap \notin redeemedCapabilityIds
    BY DEF CommitMutation
  <1>2. new.operation = op /\ new.claim = c /\ new.key = k /\ new.capability = cap
    OBVIOUS
  <1>3. \A r \in idempotencyRecords :
            /\ r.capability # cap
            /\ ~(r.operation = op /\ r.claim = c /\ r.key = k)
    BY <1>1 DEF RecordsInv, KeyUnused
  <1> HIDE DEF new
  <1> QED
    BY <1>1, <1>2, <1>3 DEF RecordsInv, CapabilityPaysOnce

(* A step on one claim does not disturb the others. *)
LEMMA OtherClaims ==
    ASSUME TypeOK, NEW d \in Claims, ClaimInv(d),
           claims'[d] = claims[d], grants'[d] = grants[d], accepted'[d] = accepted[d],
           tries'[d] = tries[d], revision' \in {revision, revision + 1}
    PROVE  ClaimInv(d)'
  <1> \A g \in grants[d] : g.id \in Nat
    BY DEF TypeOK, GrantType
  <1> revision \in Nat
    BY DEF TypeOK
  <1>1. LeaseCurrent(d)'
    BY DEF ClaimInv, LeaseCurrent, Latest
  <1> QED
    BY <1>1 DEF ClaimInv, ClaimValid, ReadBack, Settled, Latest, AttemptsCounted, Exists, NextAttempt

(* The report that passes the fence comes from the newest grant. *)
LEMMA FenceAdmitsLatest ==
    ASSUME TypeOK, NEW c \in Claims, ClaimInv(c), NEW g \in grants[c], NEW phase, NEW at,
           ProviderClaim(c, g, phase, at)
    PROVE  /\ Latest(c, g)
           /\ g.generation = claims[c].generation
           /\ g.request = claims[c].request
           /\ claims[c].phase = phase
           /\ claims[c].lease \in LeaseType
  <1>1. claims[c].lease # NoLease /\ g.token = claims[c].lease.token
    BY DEF ProviderClaim
  <1>2. PICK h \in grants[c] : /\ Latest(c, h) /\ h.token = claims[c].lease.token
                               /\ h.request = claims[c].request
    BY <1>1 DEF ClaimInv, LeaseCurrent
  <1>3. g = h
    BY <1>1, <1>2 DEF ClaimInv, LeaseCurrent
  <1> QED
    BY <1>1, <1>2, <1>3 DEF Latest, ProviderClaim, TypeOK, ClaimType

(* Nothing can be wrong with no outputs. *)
LEMMA NoOutputsAllowed == validateOutputs(<< >>)
  BY DEF validateOutputs

(* A reference to a provider is a reference. *)
LEMMA ReferenceIsSome ==
    ASSUME NEW v, reference(v, {"provider"})
    PROVE  v # NoReference
  BY DEF reference, NoReference, NoScheme, Text

(* A claim stays readable when a step ends its lease or withdraws its      *)
(* outputs, its reference or its failure.                                  *)
LEMMA StaysReadable ==
    ASSUME NEW claim, parseClaimState(claim), NEW next,
           next.request = claim.request, next.phase \in Phases,
           next.providerResourceRef \in {claim.providerResourceRef, NoReference},
           next.outputs \in {claim.outputs, << >>},
           next.lease \in {claim.lease, NoLease},
           next.failure \in {claim.failure, NoFailure}
    PROVE  parseClaimState(next)
  BY NoOutputsAllowed DEF parseClaimState

(* It is enough to look at the claim a step is about. *)
LEMMA OneClaim ==
    ASSUME IInv, TypeOK', RecordsInv', NEW c \in Claims, ClaimInv(c)',
           revision' = revision + 1,
           NEW claim, claims' = [claims EXCEPT ![c] = claim],
           \A d \in Claims \ {c} : /\ grants'[d] = grants[d]
                                    /\ accepted'[d] = accepted[d]
                                    /\ tries'[d] = tries[d]
    PROVE  IInv'
  <1> ASSUME NEW d \in Claims \ {c}
      PROVE  ClaimInv(d)'
    <2> claims'[d] = claims[d]
      BY DEF IInv, TypeOK
    <2> QED
      BY OtherClaims DEF IInv
  <1> QED
    BY DEF IInv

(* Applying a generation: nobody works on the claim, the count restarts.   *)
LEMMA ApplyIInv ==
    ASSUME IInv, TypeOK', NEW c \in Claims, NEW ctx \in Contexts,
           NEW q \in ClaimRequests, ApplyResourceClaim(c, ctx, q)
    PROVE  IInv'
  <1> DEFINE next == [AbsentClaim EXCEPT !.phase = "pending",
                          !.generation = q.generation,
                          !.observedGeneration = claims[c].observedGeneration,
                          !.providerResourceRef = claims[c].providerResourceRef,
                          !.maxReconcileAttempts = q.maxReconcileAttempts,
                          !.request = q]
  <1>1. /\ claims' = [claims EXCEPT ![c] = next]
        /\ tries' = [tries EXCEPT ![c] = 0]
        /\ UNCHANGED <<clock, grants, accepted>>
        /\ revision' = revision + 1
        /\ parseResourceClaimRequest(q) /\ q.generation = claims[c].generation + 1
    BY DEF ApplyResourceClaim, CommitMutation, Continues
  <1>2. /\ next.phase = "pending" /\ next.lease = NoLease /\ next.outputs = << >>
        /\ next.generation = q.generation /\ next.request = q
        /\ next.observedGeneration = claims[c].observedGeneration
        /\ next.providerResourceRef = claims[c].providerResourceRef
        /\ next.maxReconcileAttempts = q.maxReconcileAttempts
        /\ next.failure = NoFailure /\ next.failure.attempt = 0
    BY DEF AbsentClaim, NoFailure
  <1> HIDE DEF next
  <1>3. claims'[c] = next /\ tries'[c] = 0 /\ grants'[c] = grants[c]
    BY <1>1 DEF IInv, TypeOK
  <1>4. RecordsInv'
    BY CommitMutationRecords, ContextTypes DEF IInv, ApplyResourceClaim
  <1>5. /\ claims[c].generation \in Nat /\ claims[c].observedGeneration \in Nat
        /\ revision \in Nat /\ \A g \in grants[c] : g.id \in Nat
    BY DEF IInv, TypeOK, ClaimType, GrantType
  <1>6. ClaimInv(c)'
    <2>1. ClaimValid(c)'
      BY <1>1, <1>2, <1>3, <1>5 DEF IInv, ClaimInv, ClaimValid
    <2>2. LeaseCurrent(c)'
      BY <1>1, <1>2, <1>3, <1>5 DEF IInv, ClaimInv, LeaseCurrent
    <2>3. Settled(c)' /\ AttemptsCounted(c)'
      BY <1>1, <1>2, <1>3, ParsedRequest DEF Settled, AttemptsCounted, Exists, NextAttempt
    <2>4. claims[c].providerResourceRef = NoReference \/ reference(claims[c].providerResourceRef, {"provider"})
      BY DEF IInv, ClaimInv, ReadBack, parseClaimState
    <2>5. ReadBack(c)'
      BY <1>1, <1>2, <1>3, <2>4, NoOutputsAllowed DEF ReadBack, Exists, parseClaimState, Phases
    <2> QED
      BY <2>1, <2>2, <2>3, <2>5 DEF ClaimInv
  <1> QED
    BY <1>1, <1>4, <1>6, OneClaim DEF IInv, TypeOK

(* Cancelling: the lease stays exactly while a worker holds it. *)
LEMMA CancelIInv ==
    ASSUME IInv, TypeOK', NEW c \in Claims, NEW ctx \in Contexts,
           CancelResourceClaim(c, ctx)
    PROVE  IInv'
  <1> DEFINE working == claims[c].phase = "reconciling"
             next == IF working
                       THEN [claims[c] EXCEPT !.phase = "cancelling", !.outputs = << >>]
                       ELSE [claims[c] EXCEPT !.phase = "cancelled", !.outputs = << >>,
                                              !.lease = NoLease]
  <1>1. /\ claims' = [claims EXCEPT ![c] = next]
        /\ UNCHANGED <<clock, grants, accepted, tries>>
        /\ revision' = revision + 1
        /\ claims[c].phase \in {"pending", "reconciling", "failed", "drifted"} /\ Exists(c)
    BY DEF CancelResourceClaim, CommitMutation
  <1>2. /\ next.phase = IF working THEN "cancelling" ELSE "cancelled"
        /\ next.lease = IF working THEN claims[c].lease ELSE NoLease
        /\ next.outputs = << >>
        /\ next.generation = claims[c].generation
        /\ next.observedGeneration = claims[c].observedGeneration
        /\ next.maxReconcileAttempts = claims[c].maxReconcileAttempts
        /\ next.failure = claims[c].failure
        /\ next.request = claims[c].request
        /\ next.providerResourceRef = claims[c].providerResourceRef
    BY DEF IInv, TypeOK, ClaimType
  <1> HIDE DEF next
  <1>3. claims'[c] = next
    BY <1>1 DEF IInv, TypeOK
  <1>4. RecordsInv'
    BY CommitMutationRecords, ContextTypes DEF IInv, CancelResourceClaim
  <1>5. revision \in Nat /\ \A g \in grants[c] : g.id \in Nat
    BY DEF IInv, TypeOK, GrantType
  <1>6. ClaimInv(c)'
    <2>1. ClaimValid(c)'
      BY <1>2, <1>3 DEF IInv, ClaimInv, ClaimValid
    <2>2. LeaseCurrent(c)'
      BY <1>1, <1>2, <1>3, <1>5 DEF IInv, ClaimInv, LeaseCurrent, Latest
    <2>3. Settled(c)'
      BY <1>2, <1>3 DEF Settled
    <2>4. AttemptsCounted(c)'
      BY <1>1, <1>2, <1>3 DEF IInv, ClaimInv, AttemptsCounted, Exists, NextAttempt
    <2>5. ReadBack(c)'
      <3>1. parseClaimState(claims[c]) /\ claims[c].generation = claims[c].request.generation
        BY <1>1 DEF IInv, ClaimInv, ReadBack
      <3>2. parseClaimState(next)
        BY <1>2, <3>1, StaysReadable DEF Phases
      <3> QED
        BY <1>2, <1>3, <3>1, <3>2 DEF ReadBack, Exists
    <2> QED
      BY <2>1, <2>2, <2>3, <2>4, <2>5 DEF ClaimInv
  <1> QED
    BY <1>1, <1>4, <1>6, OneClaim DEF IInv

(* Deletion is requested where nobody works; the count restarts. *)
LEMMA RequestDeletionIInv ==
    ASSUME IInv, TypeOK', NEW c \in Claims, NEW ctx \in Contexts,
           NEW e \in Evidence, RequestResourceClaimDeletion(c, ctx, e)
    PROVE  IInv'
  <1> DEFINE next == [claims[c] EXCEPT !.phase = "deleting", !.outputs = << >>, !.deletion = e]
  <1>1. /\ claims' = [claims EXCEPT ![c] = next]
        /\ tries' = [tries EXCEPT ![c] = 0]
        /\ UNCHANGED <<clock, grants, accepted>>
        /\ revision' = revision + 1
        /\ claims[c].phase \in {"available", "cancelled"} /\ Exists(c)
    BY DEF RequestResourceClaimDeletion, CommitMutation
  <1>2. /\ next.phase = "deleting"
        /\ next.lease = claims[c].lease
        /\ next.outputs = << >>
        /\ next.generation = claims[c].generation
        /\ next.observedGeneration = claims[c].observedGeneration
        /\ next.maxReconcileAttempts = claims[c].maxReconcileAttempts
        /\ next.failure = claims[c].failure
        /\ next.request = claims[c].request
        /\ next.providerResourceRef = claims[c].providerResourceRef
    BY DEF IInv, TypeOK, ClaimType
  <1> HIDE DEF next
  <1>3. claims'[c] = next /\ tries'[c] = 0
    BY <1>1 DEF IInv, TypeOK
  <1>4. RecordsInv'
    BY CommitMutationRecords, ContextTypes DEF IInv, RequestResourceClaimDeletion
  <1>5. revision \in Nat /\ \A g \in grants[c] : g.id \in Nat
    BY DEF IInv, TypeOK, GrantType
  <1>6. ClaimInv(c)'
    <2>1. ClaimValid(c)'
      BY <1>1, <1>2, <1>3 DEF IInv, ClaimInv, ClaimValid
    <2>2. LeaseCurrent(c)'
      BY <1>1, <1>2, <1>3, <1>5 DEF IInv, ClaimInv, LeaseCurrent, Latest
    <2>3. Settled(c)'
      BY <1>2, <1>3 DEF Settled
    <2>4. AttemptsCounted(c)'
      <3> /\ claims[c] \in ClaimType
          /\ claims[c].failure.attempt \in Nat
          /\ claims[c].maxReconcileAttempts \in Nat
          /\ claims[c].lease = NoLease
        <4>1. claims[c] \in ClaimType /\ claims[c].lease = NoLease
          BY <1>1 DEF IInv, TypeOK, ClaimInv, ClaimValid
        <4> QED
          BY <4>1 DEF ClaimType, mostReconcileAttempts
      <3> QED
        BY <1>2, <1>3 DEF AttemptsCounted, Exists, NextAttempt
    <2>5. ReadBack(c)'
      <3>1. parseClaimState(claims[c]) /\ claims[c].generation = claims[c].request.generation
        BY <1>1 DEF IInv, ClaimInv, ReadBack
      <3>2. parseClaimState(next)
        BY <1>2, <3>1, StaysReadable DEF Phases
      <3> QED
        BY <1>2, <1>3, <3>1, <3>2 DEF ReadBack, Exists
    <2> QED
      BY <2>1, <2>2, <2>3, <2>4, <2>5 DEF ClaimInv
  <1> QED
    BY <1>1, <1>4, <1>6, OneClaim DEF IInv, TypeOK

(* A lease is granted under a revision no earlier grant carries. *)
LEMMA LeaseIInv ==
    ASSUME IInv, TypeOK', NEW c \in Claims, NEW p \in Providers, NEW now \in Stamps,
           NEW duration \in LeaseDurations, LeaseResourceClaim(c, p, now, duration)
    PROVE  IInv'
  <1> DEFINE claim == claims[c]
             attempt == NextAttempt(claim)
             token == FenceToken(c, claim.generation, p, attempt, revision + 1, now)
             lease == [provider |-> p, generation |-> claim.generation, token |-> token,
                       attempt |-> attempt, expires |-> now + duration]
             grant == [id |-> revision + 1, generation |-> claim.generation,
                       provider |-> p, token |-> token, request |-> claim.request]
             phase == IF claim.phase = "deleting" THEN "deleting" ELSE "reconciling"
             next == [claim EXCEPT !.phase = phase, !.lease = lease, !.failure = NoFailure]
  <1>1. /\ claims' = [claims EXCEPT ![c] = next]
        /\ grants' = [grants EXCEPT ![c] = @ \cup {grant}]
        /\ revision' = revision + 1
        /\ tries' = [tries EXCEPT ![c] = @ + 1]
        /\ UNCHANGED <<idempotencyRecords, redeemedCapabilityIds, clock, accepted>>
        /\ Exists(c)
        /\ Leasable(claim)
        /\ attempt <= claim.maxReconcileAttempts
    BY DEF LeaseResourceClaim, AttemptAllowed
  <1>2. /\ claim.request \in ClaimRequests \cup {NoRequest}
        /\ claim \in ClaimType /\ attempt \in Nat /\ revision \in Nat /\ tries[c] \in Nat
        /\ claim.maxReconcileAttempts \in Nat
        /\ now \in Nat /\ now + duration \in Nat /\ claim.generation \in Nat
        /\ \A g \in grants[c] : g.id \in Nat
    BY NextAttemptType, StampsAreTimes, BoundsAssumption
       DEF IInv, TypeOK, ClaimType, GrantType
  <1>3. lease \in LeaseType /\ grant \in GrantType
    <2>1. revision + 1 \in Nat
      BY <1>2
    <2>2. token \in Claims \X Nat \X Providers \X Nat \X Nat \X Nat
      BY <1>2, <2>1, TokenType
    <2> HIDE DEF token, attempt
    <2> QED
      BY <1>2, <2>1, <2>2 DEF LeaseType, GrantType
  <1>4. /\ next.phase = phase /\ next.lease = lease /\ next.outputs = claim.outputs
        /\ next.generation = claim.generation
        /\ next.observedGeneration = claim.observedGeneration
        /\ next.providerResourceRef = claim.providerResourceRef
        /\ next.maxReconcileAttempts = claim.maxReconcileAttempts
        /\ next.request = claim.request /\ next.failure = NoFailure
    BY <1>2 DEF ClaimType
  <1>5. /\ grant.id = revision + 1 /\ grant.token = token /\ lease.token = token
        /\ grant.request = claim.request
        /\ lease.attempt = attempt /\ lease.generation = claim.generation /\ token[5] = revision + 1
    BY DEF FenceToken
  <1>6. phase \in {"deleting", "reconciling"}
    OBVIOUS
  <1>7. claim.outputs = << >> /\ claim.phase \notin {"cancelled", "deleted"}
    BY <1>1, <1>2 DEF IInv, ClaimInv, ClaimValid, Leasable, ClaimType
  <1>8. lease # NoLease
    BY <1>3, LeaseIsNotNoLease
  <1>12. attempt > 0
    <2>1. claim.lease # NoLease => claim.lease.attempt \in Nat
      BY <1>2 DEF ClaimType, LeaseType
    <2>2. claim.failure.attempt \in Nat
      BY <1>2 DEF ClaimType
    <2> QED
      BY <2>1, <2>2 DEF NextAttempt
  <1> HIDE DEF next, grant, lease, token, attempt, phase
  <1>9. /\ claims'[c] = next
        /\ grants'[c] = grants[c] \cup {grant}
        /\ tries'[c] = tries[c] + 1
    BY <1>1 DEF IInv, TypeOK
  <1>10. ClaimInv(c)'
    <2>1. ClaimValid(c)'
      BY <1>4, <1>6, <1>7, <1>8, <1>9 DEF IInv, ClaimInv, ClaimValid
    <2>2. LeaseCurrent(c)'
      <3>1. \A g \in grants'[c] : g.id <= revision' /\ g.token[5] = g.id
        BY <1>1, <1>2, <1>5, <1>9 DEF IInv, ClaimInv, LeaseCurrent
      <3>2. /\ grant \in grants'[c] /\ grant.token = claims'[c].lease.token
            /\ grant.request = claims'[c].request
        BY <1>4, <1>5, <1>9
      <3>3. \A h \in grants'[c] : h.id <= grant.id
        BY <3>1, <1>1, <1>5
      <3>4. \A g, h \in grants'[c] : g.id = h.id => g = h
        BY <1>2, <1>5, <1>9 DEF IInv, ClaimInv, LeaseCurrent
      <3> QED
        BY <3>1, <3>2, <3>3, <3>4 DEF LeaseCurrent, Latest
    <2>3. Settled(c)'
      BY <1>4, <1>6, <1>9 DEF Settled
    <2>4. AttemptsCounted(c)'
      <3>1. tries[c] < attempt
        BY <1>7 DEF IInv, ClaimInv, AttemptsCounted, attempt
      <3>2. NextAttempt(next) = attempt + 1
        BY <1>4, <1>5, <1>8 DEF NextAttempt
      <3> QED
        BY <3>1, <3>2, <1>1, <1>2, <1>4, <1>6, <1>9 DEF AttemptsCounted, Exists
    <2>5. ReadBack(c)'
      <3>1. parseClaimState(claim) /\ claim.generation = claim.request.generation
        BY <1>1 DEF IInv, ClaimInv, ReadBack
      <3>2. claim.generation > 0
        BY <3>1, ParsedRequest DEF parseClaimState
      <3>3. parseClaimState(next)
        BY <1>4, <1>5, <1>6, <1>12, <3>1, <3>2 DEF parseClaimState, Phases
      <3> QED
        BY <1>4, <1>6, <1>9, <3>1, <3>3 DEF ReadBack, Exists
    <2> QED
      BY <2>1, <2>2, <2>3, <2>4, <2>5 DEF ClaimInv
  <1>11. RecordsInv'
    BY <1>1 DEF IInv, RecordsInv, CapabilityPaysOnce
  <1> QED
    BY <1>1, <1>10, <1>11, OneClaim DEF IInv, TypeOK

(* A report that passed the fence settles the claim, whatever it says: the *)
(* lease ends and the generation stays.                                    *)
LEMMA ReportIInv ==
    ASSUME IInv, TypeOK', NEW c \in Claims, NEW g \in grants[c], NEW next \in ClaimType,
           CommitReport(c, g, next),
           Latest(c, g), g.generation = next.generation,
           next.phase # "absent", next.lease = NoLease,
           next.observedGeneration <= next.generation,
           next.phase \notin {"reconciling", "cancelling"},
           next.phase = "available" =>
               next.observedGeneration = next.generation /\ next.providerResourceRef # NoReference,
           next.outputs # << >> <=> next.phase = "available",
           parseClaimState(next), next.generation = next.request.generation,
           \A d \in Claims \ {c} : tries'[d] = tries[d],
           tries'[c] <= next.maxReconcileAttempts,
           next.phase \notin {"cancelled", "deleted"} => tries'[c] < NextAttempt(next)
    PROVE  IInv'
  <1>1. /\ claims' = [claims EXCEPT ![c] = next]
        /\ accepted' = [accepted EXCEPT ![c] = g]
        /\ revision' = revision + 1
        /\ UNCHANGED <<idempotencyRecords, redeemedCapabilityIds, clock, grants>>
    BY DEF CommitReport
  <1>2. claims'[c] = next /\ accepted'[c] = g
    BY <1>1 DEF IInv, TypeOK
  <1>3. revision \in Nat /\ \A h \in grants[c] : h.id \in Nat
    BY DEF IInv, TypeOK, GrantType
  <1>4. RecordsInv'
    BY <1>1 DEF IInv, RecordsInv, CapabilityPaysOnce
  <1>5. ClaimInv(c)'
    <2>1. ClaimValid(c)'
      BY <1>2 DEF ClaimValid
    <2>2. LeaseCurrent(c)'
      BY <1>1, <1>2, <1>3 DEF IInv, ClaimInv, LeaseCurrent
    <2>3. Settled(c)'
      BY <1>1, <1>2 DEF Settled, Latest
    <2>4. AttemptsCounted(c)'
      BY <1>2 DEF AttemptsCounted, Exists
    <2>5. ReadBack(c)'
      BY <1>2 DEF ReadBack, Exists
    <2> QED
      BY <2>1, <2>2, <2>3, <2>4, <2>5 DEF ClaimInv
  <1> QED
    BY <1>1, <1>4, <1>5, OneClaim DEF IInv, TypeOK

(* Completion, failure, cancellation and deletion reports. *)
LEMMA ReportsIInv ==
    ASSUME IInv, TypeOK', NEW c \in Claims, NEW g \in grants[c], NEW at \in Stamps,
           Report(c, g, at)
    PROVE  IInv'
  <1>0. /\ claims[c] \in ClaimType
        /\ claims[c].generation \in Nat
        /\ claims[c].maxReconcileAttempts \in Nat \ {0}
        /\ claims[c].failure.attempt \in Nat
        /\ tries[c] \in Nat
    <2> claims[c] \in ClaimType /\ tries[c] \in Nat
      BY DEF IInv, TypeOK
    <2> QED
      BY DEF ClaimType, mostReconcileAttempts
  <1>9. ASSUME claims[c].phase # "absent"
        PROVE  parseClaimState(claims[c]) /\ claims[c].generation = claims[c].request.generation
    BY <1>9 DEF IInv, ClaimInv, ReadBack, Exists
  <1>1. ASSUME NEW a \in Answers, CompleteResourceClaim(c, g, at, a)
        PROVE  IInv'
    <2> DEFINE next == [claims[c] EXCEPT !.phase = "available",
                            !.observedGeneration = claims[c].generation,
                            !.providerResourceRef = a.providerResourceRef, !.outputs = a.outputs,
                            !.lease = NoLease, !.failure = NoFailure]
    <2>1. /\ ProviderClaim(c, g, "reconciling", at)
          /\ CommitReport(c, g, next)
          /\ tries' = [tries EXCEPT ![c] = 0]
          /\ ObservationTaken(claims[c], a)
      BY <1>1 DEF CompleteResourceClaim
    <2>2. next \in ClaimType
      BY <1>0, ObservedTypes DEF ClaimType, Phases, NoFailure
    <2>3. /\ next.phase = "available" /\ next.lease = NoLease /\ next.outputs = a.outputs
          /\ next.generation = claims[c].generation
          /\ next.observedGeneration = claims[c].generation
          /\ next.providerResourceRef = a.providerResourceRef
          /\ next.maxReconcileAttempts = claims[c].maxReconcileAttempts
          /\ next.failure = NoFailure /\ next.failure.attempt = 0
          /\ next.request = claims[c].request
      BY <1>0 DEF ClaimType, NoFailure
    <2> HIDE DEF next
    <2>4. NextAttempt(next) = 1
      BY <2>3 DEF NextAttempt
    <2>5. tries'[c] = 0 /\ \A d \in Claims \ {c} : tries'[d] = tries[d]
      BY <2>1 DEF IInv, TypeOK
    <2>6. /\ Latest(c, g) /\ g.generation = claims[c].generation
          /\ claims[c].phase = "reconciling"
      BY <2>1, FenceAdmitsLatest DEF IInv
    <2>7. /\ a.providerResourceRef # NoReference /\ a.outputs # << >>
          /\ reference(a.providerResourceRef, {"provider"}) /\ validateOutputs(a.outputs)
      BY <2>1, ReferenceIsSome DEF ObservationTaken
    <2>8. parseClaimState(next) /\ next.generation = next.request.generation
      BY <1>9, <2>3, <2>6, <2>7 DEF parseClaimState, Phases
    <2> QED
      BY <1>0, <2>1, <2>2, <2>3, <2>4, <2>5, <2>6, <2>7, <2>8, ReportIInv
  <1>2. ASSUME NEW retryable \in BOOLEAN, FailResourceClaim(c, g, at, retryable)
        PROVE  IInv'
    <2> DEFINE attempt == claims[c].lease.attempt
               next == [claims[c] EXCEPT !.phase = "failed", !.lease = NoLease,
                            !.failure = [retryable |-> retryable, attempt |-> attempt]]
    <2>1. /\ ProviderClaim(c, g, "reconciling", at)
          /\ CommitReport(c, g, next)
          /\ UNCHANGED tries
      BY <1>2 DEF FailResourceClaim
    <2>2. /\ Latest(c, g) /\ g.generation = claims[c].generation
          /\ claims[c].phase = "reconciling"
          /\ claims[c].lease \in LeaseType
      BY <2>1, FenceAdmitsLatest DEF IInv
    <2>3. claims[c].lease # NoLease /\ attempt \in Nat
      BY <2>2, LeaseIsNotNoLease DEF LeaseType
    <2>4. next \in ClaimType
      BY <1>0, <2>3 DEF ClaimType, Phases
    <2>5. /\ next.phase = "failed" /\ next.lease = NoLease
          /\ next.outputs = claims[c].outputs
          /\ next.generation = claims[c].generation
          /\ next.observedGeneration = claims[c].observedGeneration
          /\ next.maxReconcileAttempts = claims[c].maxReconcileAttempts
          /\ next.failure.attempt = attempt
          /\ next.request = claims[c].request
          /\ next.providerResourceRef = claims[c].providerResourceRef
      BY <1>0 DEF ClaimType
    <2> HIDE DEF next
    <2>6. NextAttempt(next) = NextAttempt(claims[c])
      BY <2>3, <2>5 DEF NextAttempt
    <2>7. /\ tries[c] < NextAttempt(claims[c])
          /\ tries[c] <= claims[c].maxReconcileAttempts
      BY <2>2 DEF IInv, ClaimInv, AttemptsCounted, Exists
    <2>8. /\ claims[c].outputs = << >>
          /\ claims[c].observedGeneration <= claims[c].generation
      BY <1>0, <2>2 DEF IInv, ClaimInv, ClaimValid, ClaimType
    <2>9. parseClaimState(next) /\ next.generation = next.request.generation
      <3>1. attempt > 0
        BY <1>9, <2>2, <2>3 DEF parseClaimState
      <3> QED
        BY <1>9, <2>2, <2>5, <3>1 DEF parseClaimState, Phases
    <2> QED
      BY <2>1, <2>2, <2>4, <2>5, <2>6, <2>7, <2>8, <2>9, ReportIInv
  <1>3. CASE AcknowledgeResourceClaimCancellation(c, g, at)
    <2> DEFINE next == [claims[c] EXCEPT !.phase = "cancelled", !.lease = NoLease,
                                         !.outputs = << >>]
    <2>1. /\ ProviderClaim(c, g, "cancelling", at)
          /\ CommitReport(c, g, next)
          /\ UNCHANGED tries
      BY <1>3 DEF AcknowledgeResourceClaimCancellation
    <2>2. /\ Latest(c, g) /\ g.generation = claims[c].generation
          /\ claims[c].phase = "cancelling"
      BY <2>1, FenceAdmitsLatest DEF IInv
    <2>3. next \in ClaimType
      BY <1>0, ObservedTypes DEF ClaimType, Phases
    <2>4. /\ next.phase = "cancelled" /\ next.lease = NoLease /\ next.outputs = << >>
          /\ next.generation = claims[c].generation
          /\ next.observedGeneration = claims[c].observedGeneration
          /\ next.maxReconcileAttempts = claims[c].maxReconcileAttempts
          /\ next.request = claims[c].request /\ next.failure = claims[c].failure
          /\ next.providerResourceRef = claims[c].providerResourceRef
      BY <1>0 DEF ClaimType
    <2> HIDE DEF next
    <2>5. /\ claims[c].observedGeneration <= claims[c].generation
          /\ tries[c] <= claims[c].maxReconcileAttempts
      BY <2>2 DEF IInv, ClaimInv, ClaimValid, AttemptsCounted, Exists
    <2>6. parseClaimState(next) /\ next.generation = next.request.generation
      BY <1>9, <2>2, <2>4, StaysReadable DEF Phases
    <2> QED
      BY <2>1, <2>2, <2>3, <2>4, <2>5, <2>6, ReportIInv
  <1>4. ASSUME NEW e \in Evidence, CompleteResourceClaimDeletion(c, g, at, e)
        PROVE  IInv'
    <2> DEFINE next == [claims[c] EXCEPT !.phase = "deleted",
                            !.observedGeneration = claims[c].generation,
                            !.providerResourceRef = NoReference, !.outputs = << >>,
                            !.lease = NoLease]
    <2>1. /\ ProviderClaim(c, g, "deleting", at)
          /\ CommitReport(c, g, next)
          /\ UNCHANGED tries
      BY <1>4 DEF CompleteResourceClaimDeletion
    <2>2. /\ Latest(c, g) /\ g.generation = claims[c].generation
          /\ claims[c].phase = "deleting"
      BY <2>1, FenceAdmitsLatest DEF IInv
    <2>3. next \in ClaimType
      BY <1>0, ObservedTypes DEF ClaimType, Phases
    <2>4. /\ next.phase = "deleted" /\ next.lease = NoLease /\ next.outputs = << >>
          /\ next.generation = claims[c].generation
          /\ next.observedGeneration = claims[c].generation
          /\ next.maxReconcileAttempts = claims[c].maxReconcileAttempts
          /\ next.request = claims[c].request /\ next.failure = claims[c].failure
          /\ next.providerResourceRef = NoReference
      BY <1>0 DEF ClaimType
    <2> HIDE DEF next
    <2>5. tries[c] <= claims[c].maxReconcileAttempts
      BY <2>2 DEF IInv, ClaimInv, AttemptsCounted, Exists
    <2>6. parseClaimState(next) /\ next.generation = next.request.generation
      BY <1>9, <2>2, <2>4, StaysReadable DEF Phases
    <2> QED
      BY <1>0, <2>1, <2>2, <2>3, <2>4, <2>5, <2>6, ReportIInv
  <1> QED
    BY <1>1, <1>2, <1>3, <1>4 DEF Report

(* Drift withdraws the outputs and leaves everything else. *)
LEMMA DriftIInv ==
    ASSUME IInv, TypeOK', NEW c \in Claims, NEW a \in Answers, ReportResourceClaimDrift(c, a)
    PROVE  IInv'
  <1> DEFINE next == [claims[c] EXCEPT !.phase = "drifted", !.outputs = << >>]
  <1>1. /\ claims' = [claims EXCEPT ![c] = next]
        /\ revision' = revision + 1
        /\ claims[c].phase = "available"
        /\ UNCHANGED <<idempotencyRecords, redeemedCapabilityIds, clock, grants,
                       accepted, tries>>
    BY DEF ReportResourceClaimDrift
  <1>2. /\ next.phase = "drifted" /\ next.lease = claims[c].lease /\ next.outputs = << >>
        /\ next.generation = claims[c].generation
        /\ next.observedGeneration = claims[c].observedGeneration
        /\ next.maxReconcileAttempts = claims[c].maxReconcileAttempts
        /\ next.failure = claims[c].failure
        /\ next.request = claims[c].request
        /\ next.providerResourceRef = claims[c].providerResourceRef
    BY DEF IInv, TypeOK, ClaimType
  <1> HIDE DEF next
  <1>3. claims'[c] = next
    BY <1>1 DEF IInv, TypeOK
  <1>4. RecordsInv'
    BY <1>1 DEF IInv, RecordsInv, CapabilityPaysOnce
  <1>5. revision \in Nat /\ \A g \in grants[c] : g.id \in Nat
    BY DEF IInv, TypeOK, GrantType
  <1>6. ClaimInv(c)'
    <2>1. ClaimValid(c)'
      BY <1>1, <1>2, <1>3 DEF IInv, ClaimInv, ClaimValid
    <2>2. LeaseCurrent(c)'
      BY <1>1, <1>2, <1>3, <1>5 DEF IInv, ClaimInv, LeaseCurrent, Latest
    <2>3. Settled(c)'
      BY <1>1, <1>2, <1>3 DEF IInv, ClaimInv, Settled, Latest
    <2>4. AttemptsCounted(c)'
      BY <1>1, <1>2, <1>3 DEF IInv, ClaimInv, AttemptsCounted, Exists, NextAttempt
    <2>5. ReadBack(c)'
      <3>1. parseClaimState(claims[c]) /\ claims[c].generation = claims[c].request.generation
        BY <1>1 DEF IInv, ClaimInv, ReadBack, Exists
      <3>2. parseClaimState(next)
        BY <1>2, <3>1, StaysReadable DEF Phases
      <3> QED
        BY <1>2, <1>3, <3>1, <3>2 DEF ReadBack, Exists
    <2> QED
      BY <2>1, <2>2, <2>3, <2>4, <2>5 DEF ClaimInv
  <1> QED
    BY <1>1, <1>4, <1>6, OneClaim DEF IInv

(* Every step preserves the invariant. *)
LEMMA NextIInv == IInv /\ [Next]_vars => IInv'
  <1> SUFFICES ASSUME IInv, [Next]_vars
               PROVE  IInv'
    OBVIOUS
  <1> TypeOK'
    BY TypeNext DEF IInv
  <1>1. CASE Tick \/ UNCHANGED vars
    <2>1. UNCHANGED <<state, grants, accepted, tries>>
      BY <1>1 DEF Tick, vars
    <2>2. RecordsInv'
      BY <2>1 DEF state, IInv, RecordsInv, CapabilityPaysOnce
    <2>3. \A c \in Claims : ClaimInv(c)'
      BY <2>1, OtherClaims DEF state, IInv
    <2> QED
      BY <2>2, <2>3 DEF IInv
  <1>2. CASE \E c \in Claims, ctx \in Contexts : Mutation(c, ctx)
    BY <1>2, ApplyIInv, CancelIInv, RequestDeletionIInv DEF Mutation
  <1>3. CASE \E c \in Claims, p \in Providers, now \in Stamps, d \in LeaseDurations :
                 LeaseResourceClaim(c, p, now, d)
    BY <1>3, LeaseIInv
  <1>4. CASE \E c \in Claims, at \in Stamps : \E g \in grants[c] : Report(c, g, at)
    BY <1>4, ReportsIInv
  <1>5. CASE \E c \in Claims, a \in Answers : ReportResourceClaimDrift(c, a)
    BY <1>5, DriftIInv
  <1> QED
    BY <1>1, <1>2, <1>3, <1>4, <1>5 DEF Next

-----------------------------------------------------------------------------
(* The invariant holds in every reachable state. *)
THEOREM Invariance == Spec => []IInv
  BY InitIInv, NextIInv, PTL DEF Spec

(* What assertResourceBrokerState demands is true of every state the       *)
(* operations produce, so no commit is ever turned into an exception.      *)
THEOREM StateStaysValid == Spec => []BrokerStateValid
  BY Invariance, IInvImplies, PTL

(* Late-worker denial: results come from the newest lease of the current   *)
(* generation (leaseResourceClaim's fence tokens and providerClaim).       *)
THEOREM LateWorkersAreDenied == Spec => []SettledByLatestLease
  BY Invariance, IInvImplies, PTL

(* One-use redemption (commitMutation) across all claims and keys. *)
THEOREM CapabilitiesPayOnce == Spec => []CapabilityPaysOnce
  BY Invariance, IInvImplies, PTL

(* Leases per piece of work never exceed maxReconcileAttempts. *)
THEOREM AttemptsAreBounded == Spec => []AttemptsBounded
  BY Invariance, IInvImplies, PTL

(* Outputs are readable exactly while the claim is available. *)
THEOREM OutputsFollowAvailability == Spec => []OutputsOnlyWhileAvailable
  BY Invariance, IInvImplies, PTL

(* Which claim a step changes, and how the change can look. *)
LEMMA StepOnClaim ==
    ASSUME IInv, Next, NEW c \in Claims, claims'[c] # claims[c]
    PROVE  /\ claims'[c].observedGeneration >= claims[c].observedGeneration
           /\ claims'[c].generation # claims[c].generation =>
                 /\ claims'[c].generation = claims[c].generation + 1
                 /\ claims[c].lease = NoLease
           /\ claims[c].phase = "cancelling" =>
                 /\ claims'[c].phase = "cancelled"
                 /\ accepted'[c].token = claims[c].lease.token
  <1>0. /\ claims[c] \in ClaimType /\ claims \in [Claims -> ClaimType]
        /\ accepted \in [Claims -> GrantType \cup {NoGrant}]
        /\ claims[c].generation \in Nat /\ claims[c].observedGeneration \in Nat
        /\ claims[c].observedGeneration <= claims[c].generation
    BY DEF IInv, TypeOK, ClaimType, ClaimInv, ClaimValid
  <1>1. ASSUME NEW d \in Claims, NEW ctx \in Contexts,
               NEW q \in ClaimRequests, ApplyResourceClaim(d, ctx, q)
        PROVE  /\ claims'[c].observedGeneration = claims[c].observedGeneration
               /\ claims'[c].generation = claims[c].generation + 1
               /\ claims[c].phase # "cancelling" /\ claims[c].lease = NoLease
    <2>1. c = d
      BY <1>0, <1>1 DEF ApplyResourceClaim
    <2>2. ~WorkActive(claims[c])
      BY <1>1, <2>1 DEF ApplyResourceClaim
    <2>3. claims[c].phase # "cancelling" /\ claims[c].lease = NoLease
      BY <2>2 DEF WorkActive, IInv, ClaimInv, ClaimValid
    <2> QED
      BY <1>0, <1>1, <2>1, <2>3 DEF ApplyResourceClaim, Continues, AbsentClaim
  <1>2. ASSUME NEW d \in Claims, NEW ctx \in Contexts,
               \/ CancelResourceClaim(d, ctx)
               \/ \E e \in Evidence : RequestResourceClaimDeletion(d, ctx, e)
        PROVE  /\ claims'[c].observedGeneration = claims[c].observedGeneration
               /\ claims'[c].generation = claims[c].generation
               /\ claims[c].phase # "cancelling"
    <2>1. CASE CancelResourceClaim(d, ctx)
      <3>1. c = d
        BY <1>0, <2>1 DEF CancelResourceClaim
      <3> QED
        BY <1>0, <2>1, <3>1 DEF CancelResourceClaim, ClaimType
    <2>2. ASSUME NEW e \in Evidence, RequestResourceClaimDeletion(d, ctx, e)
          PROVE  /\ claims'[c].observedGeneration = claims[c].observedGeneration
                 /\ claims'[c].generation = claims[c].generation
                 /\ claims[c].phase # "cancelling"
      <3>1. c = d
        BY <1>0, <2>2 DEF RequestResourceClaimDeletion
      <3> QED
        BY <1>0, <2>2, <3>1 DEF RequestResourceClaimDeletion, ClaimType
    <2> QED
      BY <1>2, <2>1, <2>2
  <1>3. ASSUME NEW d \in Claims, NEW p \in Providers, NEW now \in Stamps,
               NEW duration \in LeaseDurations, LeaseResourceClaim(d, p, now, duration)
        PROVE  /\ claims'[c].observedGeneration = claims[c].observedGeneration
               /\ claims'[c].generation = claims[c].generation
               /\ claims[c].phase # "cancelling"
    <2>1. c = d
      BY <1>0, <1>3 DEF LeaseResourceClaim
    <2>2. Leasable(claims[c])
      BY <1>3, <2>1 DEF LeaseResourceClaim
    <2> QED
      BY <1>0, <1>3, <2>1, <2>2 DEF LeaseResourceClaim, Leasable, ClaimType
  <1>4. ASSUME NEW d \in Claims, NEW at \in Stamps, NEW g \in grants[d], Report(d, g, at)
        PROVE  /\ claims'[c].observedGeneration >= claims[c].observedGeneration
               /\ claims'[c].generation = claims[c].generation
               /\ claims[c].phase = "cancelling" =>
                     /\ claims'[c].phase = "cancelled"
                     /\ accepted'[c].token = claims[c].lease.token
    <2>1. c = d
      BY <1>0, <1>4 DEF Report, CompleteResourceClaim, FailResourceClaim,
         AcknowledgeResourceClaimCancellation, CompleteResourceClaimDeletion, CommitReport
    <2>2. CASE \E a \in Answers : CompleteResourceClaim(c, g, at, a)
      BY <1>0, <2>2 DEF CompleteResourceClaim, CommitReport, ProviderClaim, ClaimType
    <2>3. CASE \E retryable \in BOOLEAN : FailResourceClaim(c, g, at, retryable)
      BY <1>0, <2>3 DEF FailResourceClaim, CommitReport, ProviderClaim, ClaimType
    <2>4. CASE AcknowledgeResourceClaimCancellation(c, g, at)
      BY <1>0, <2>4 DEF AcknowledgeResourceClaimCancellation, CommitReport, ProviderClaim,
         ClaimType
    <2>5. CASE \E e \in Evidence : CompleteResourceClaimDeletion(c, g, at, e)
      BY <1>0, <2>5 DEF CompleteResourceClaimDeletion, CommitReport, ProviderClaim, ClaimType
    <2> QED
      BY <1>4, <2>1, <2>2, <2>3, <2>4, <2>5 DEF Report
  <1>5. ASSUME NEW d \in Claims, NEW a \in Answers, ReportResourceClaimDrift(d, a)
        PROVE  /\ claims'[c].observedGeneration = claims[c].observedGeneration
               /\ claims'[c].generation = claims[c].generation
               /\ claims[c].phase # "cancelling"
    <2>1. c = d
      BY <1>0, <1>5 DEF ReportResourceClaimDrift
    <2> QED
      BY <1>0, <1>5, <2>1 DEF ReportResourceClaimDrift, ClaimType
  <1>6. CASE Tick
    BY <1>6 DEF Tick, state
  <1> QED
    BY <1>0, <1>1, <1>2, <1>3, <1>4, <1>5, <1>6 DEF Next, Mutation

(* Desired-state generations advance one at a time and never under a       *)
(* worker (applyResourceClaim), and what was observed is not taken back.   *)
THEOREM GenerationsOnlyAdvance == Spec => GenerationsAdvance
  <1>1. ASSUME IInv, [Next]_vars
        PROVE  [\A c \in Claims :
                   /\ claims'[c].generation # claims[c].generation =>
                         /\ claims'[c].generation = claims[c].generation + 1
                         /\ claims[c].lease = NoLease
                   /\ claims'[c].observedGeneration >= claims[c].observedGeneration]_vars
    <2> \A c \in Claims : claims[c].observedGeneration \in Nat
      BY <1>1 DEF IInv, TypeOK, ClaimType
    <2> QED
      BY <1>1, StepOnClaim
  <1> QED
    BY <1>1, Invariance, PTL DEF Spec, GenerationsAdvance

(* Cancellation retains the provider's fence: only the worker whose lease  *)
(* was cancelled ends it (cancelResourceClaim, leaseResourceClaim,         *)
(* acknowledgeResourceClaimCancellation).                                  *)
THEOREM CancellationRetainsFence == Spec => CancellationKeepsFence
  <1>1. ASSUME IInv, [Next]_vars
        PROVE  [\A c \in Claims : claims[c].phase = "cancelling" =>
                   \/ claims'[c] = claims[c]
                   \/ /\ claims'[c].phase = "cancelled"
                      /\ accepted'[c].token = claims[c].lease.token]_vars
    BY <1>1, StepOnClaim
  <1> QED
    BY <1>1, Invariance, PTL DEF Spec, CancellationKeepsFence

(* What executeWithResourceProvider lets through is the answer to this     *)
(* lease, and completeResourceClaim does not refuse it.                    *)
THEOREM CheckedWorkIsNotLost == Spec => []CheckedWorkIsTaken
  <1>1. ASSUME IInv, NEW c \in Claims, NEW at, NEW g \in grants[c], NEW h \in grants[c], NEW a \in Answers,
               ProviderClaim(c, g, "reconciling", at),
               executeWithResourceProvider(Descriptors[g.provider], WorkerRequest(g, "reconcile"),
                                           AdapterResult(c, h, a))
        PROVE  ObservationTaken(claims[c], a) /\ h = g
    <2>1. g.request = claims[c].request
      BY <1>1, FenceAdmitsLatest DEF IInv
    <2>2. PICK result : result = AdapterResult(c, h, a)
      OBVIOUS
    <2>3. PICK request : request = WorkerRequest(g, "reconcile")
      OBVIOUS
    <2>4. /\ result.fenceToken = h.token /\ result.observedStateDigest = a.observedStateDigest
          /\ result.providerResourceRef = a.providerResourceRef /\ result.outputs = a.outputs
      BY <2>2 DEF AdapterResult
    <2>5. request.fenceToken = g.token /\ request.claim = g.request /\ request.operation = "reconcile"
      BY <2>3 DEF WorkerRequest
    <2>6. /\ result.fenceToken = request.fenceToken
          /\ result.observedStateDigest = request.claim.desiredStateDigest
          /\ validateOutputs(result.outputs)
          /\ CompleteObservation(request, result)
      BY <1>1, <2>2, <2>3 DEF executeWithResourceProvider
    <2>7. ObservationTaken(claims[c], a)
      BY <2>1, <2>4, <2>5, <2>6 DEF ObservationTaken, CompleteObservation
    <2>8. h = g
      <3>1. LeaseCurrent(c)
        BY <1>1 DEF IInv, ClaimInv
      <3>2. h.token = g.token
        BY <2>4, <2>5, <2>6
      <3> QED
        BY <3>1, <3>2 DEF LeaseCurrent
    <2> QED
      BY <2>7, <2>8
  <1>2. IInv => CheckedWorkIsTaken
    BY <1>1 DEF CheckedWorkIsTaken
  <1> QED
    BY <1>2, Invariance, PTL

(* The adapter the tests use conforms for every claim it declares to       *)
(* support (createFakeResourceProvider,                                    *)
(* evaluateResourceProviderConformance), however often it is called.       *)
THEOREM FakeProviderConforms ==
    ASSUME NEW d, NEW claim,
           validateProviderDescriptor(d), parseResourceClaimRequest(claim),
           claim.resourceKind \in d.resourceKinds, ~lacksCapability(d, claim)
    PROVE  LET request == conformanceRequest(claim, "reconcile")
               plans   == [n \in 1 .. 2 |-> FakePlan(d, request)]
               results == [n \in 1 .. 3 |-> IF n < 3 THEN FakeResult(d, request)
                                            ELSE FakeResult(d, conformanceRequest(claim, "destroy"))]
           IN  evaluateResourceProviderConformance(d, claim, plans, results)
  <1>1. ASSUME NEW request, request.claim = claim, request.operation \in {"reconcile", "destroy"}
        PROVE  /\ planWithResourceProvider(d, request, FakePlan(d, request))
               /\ executeWithResourceProvider(d, request, FakeResult(d, request))
    <2>1. validateProviderRequest(d, request)
      BY <1>1 DEF validateProviderRequest
    <2>2. planWithResourceProvider(d, request, FakePlan(d, request))
      BY <1>1, <2>1 DEF planWithResourceProvider, FakePlan, AnswersRequest, planDigest
    <2>3. PICK result : result = FakeResult(d, request)
      OBVIOUS
    <2>4. /\ AnswersRequest(d, request, result) /\ result.fenceToken = request.fenceToken
          /\ result.observedStateDigest = claim.desiredStateDigest
      BY <1>1, <2>3 DEF FakeResult, AnswersRequest
    <2>5. /\ request.operation = "destroy" => result.providerResourceRef = NoReference /\ result.outputs = <<>>
          /\ request.operation = "reconcile" =>
                /\ result.providerResourceRef = Text("provider")
                /\ result.outputs = <<[name |-> "resource", kind |-> "reference", value |-> Text("broker")]>>
      BY <2>3 DEF FakeResult
    <2>6. /\ reference(Text("provider"), {"provider"})
          /\ reference(Text("broker"), {"broker", "provider", "identity", "evidence"})
      BY DEF reference, Text
    <2>7. validateOutputs(<<[name |-> "resource", kind |-> "reference", value |-> Text("broker")]>>)
      BY <2>6 DEF validateOutputs, OutputValueAllowed, forbiddenOutputs
    <2>8. validateOutputs(result.outputs) /\ CompleteObservation(request, result)
      BY <1>1, <2>5, <2>6, <2>7, NoOutputsAllowed DEF CompleteObservation
    <2> QED
      BY <1>1, <2>1, <2>2, <2>3, <2>4, <2>8 DEF executeWithResourceProvider
  <1> QED
    BY <1>1 DEF evaluateResourceProviderConformance, conformanceRequest

(* What a claim shows is the current work of its newest lease              *)
(* (providerClaim, leaseResourceClaim, reportResourceClaimDrift).          *)
THEOREM ShownWorkIsCurrent == Spec => []ClaimsShowCurrentWork
  <1> ClaimsShowCurrentWork <=> /\ SettledByLatestLease /\ AttemptsBounded
                                /\ OutputsOnlyWhileAvailable /\ CheckedWorkIsTaken
    BY DEF ClaimsShowCurrentWork
  <1> QED
    BY LateWorkersAreDenied, AttemptsAreBounded, OutputsFollowAvailability, CheckedWorkIsNotLost, PTL

(* The fence of a working or cancelling lease holds                        *)
(* (applyResourceClaim, acknowledgeResourceClaimCancellation).             *)
THEOREM FencesAreKept == Spec => FencesHold
  BY GenerationsOnlyAdvance, CancellationRetainsFence DEF FencesHold

=============================================================================

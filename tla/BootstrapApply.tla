-------------------------- MODULE BootstrapApply --------------------------
(***************************************************************************)
(* What a sealed root does with credentials: preview, apply and read-only  *)
(* organization recovery (scripts/bootstrap-main.mjs), with the review of  *)
(* plans that the launcher freezes between them and the session that it    *)
(* hands out over its loopback broker (plan_review_linux.go,               *)
(* runtime_service_linux.go and credential_broker.go of                    *)
(* cmd/deus-aws-bootstrap).  Credentialed modes admit only the seed phase  *)
(* and its one stack, management.  A plan is the number of the preview     *)
(* that saved it; a digest stands for what it digests.                     *)
(***************************************************************************)
EXTENDS Naturals, FiniteSets

CONSTANTS
    MaxPreviews,    \* bound on previews
    MaxFailures,    \* bound on calls and processes that fail
    Attempts,       \* the 12 attempts of retryExactAttestation
    Budget,         \* the 256 answers of the credential broker, in attestations
    Lifetime,       \* what is left of the candidate's 24 hours, in ticks
    ReviewFields    \* the fields of a manifest that the launcher can decode

ASSUME ApplyBoundsAssumption ==
    /\ {MaxPreviews, MaxFailures, Budget, Lifetime} \subseteq Nat
    /\ Attempts \in Nat \ {0}

\* What writePlanManifest makes a manifest of: the envelope, the plans with
\* their hashes, and the two attestations of a management preview.
ManifestFields == {"envelope", "plans", "managementSeedCapacity", "managementSeedOrganizationState"}

ASSUME ReviewFieldsAssumption ==
    {"envelope", "plans"} \subseteq ReviewFields /\ ReviewFields \subseteq ManifestFields

NoPlanFile == 0
NoManifest == [plan |-> NoPlanFile, state |-> "none"]
OrganizationStates == {"standalone", "organization-baseline"}
Manifests == [plan : 1..MaxPreviews, state : OrganizationStates]

\* The STS session an operator passes in, and whether Pulumi's token is
\* beside it.
Sessions == [role : {"preview", "apply"}, pulumi : BOOLEAN]
NoSession == [role |-> "none", pulumi |-> FALSE]

VARIABLES
    wave,           \* seedWave of the qualified management configuration
    planFile,       \* artifacts/pulumi-plans/management.plan.json
    manifest,       \* artifacts/pulumi-plans/manifest.json
    frozen,         \* the published reviews: a manifest and the plan beside it
    confirmed,      \* the manifests whose frozen copy a human confirmed
    service,        \* the one runtime service: mode, step and what it holds
    organization,   \* the AWS organization, one of OrganizationStates
    visible,        \* what the Organizations API answers: that, or "partial"
    room,           \* quota for nine accounts, and nobody else is using it up
    updates,        \* the plans handed to pulumi up, and by whom
    outcome,        \* the organization was attested after an apply
    receipts,       \* recovery receipts
    previews, failures, clock

account == <<organization, visible, room>>
plans == <<planFile, manifest, frozen, confirmed>>
results == <<updates, outcome, receipts>>
counters == <<previews, failures, clock>>
applyVars == <<wave, plans, service, account, results, counters>>

Stopped == [mode |-> "none", at |-> "idle", session |-> NoSession, manifest |-> NoManifest,
            plan |-> NoPlanFile, tries |-> 0, budget |-> 0]

\* The full wave is qualified once the organization is there.
InitApply ==
    /\ wave \in {"organization-only", "full"}
    /\ organization = IF wave = "full" THEN "organization-baseline" ELSE "standalone"
    /\ visible = organization /\ room = TRUE
    /\ planFile = NoPlanFile /\ manifest = NoManifest
    /\ frozen = {} /\ confirmed = {}
    /\ service = Stopped
    /\ updates = {} /\ outcome = FALSE /\ receipts = {}
    /\ previews = 0 /\ failures = 0 /\ clock = 0

-----------------------------------------------------------------------------
\* The credential broker

\* The first argument of the launcher, under which the session comes in:
\* runtime-service bootstrap refuses to recover.
Entrypoint(mode) == IF mode = "recovery" THEN "organization-recovery" ELSE "bootstrap"

\* validateCredentialEnvelope: a temporary key, and Pulumi's token exactly
\* for the bootstrap entrypoint.
validateCredentialEnvelope(session, entrypoint) == session.pulumi <=> (entrypoint = "bootstrap")

\* startCredentialBroker: each aws child asks for the session again, and the
\* broker answers a bounded number of times.
BrokerAnswers == service.budget > 0

\* The recovery asks for no Pulumi credentials.
readBrokeredPulumiEnvironment(mode, session) == mode = "recovery" \/ session.pulumi

-----------------------------------------------------------------------------
\* Who is calling, and where

\* stage 1 and verifyBootstrapCandidate: the root is sealed, so only the age
\* of the candidate can change.
CandidateFresh == clock <= Lifetime

\* Recovery reads with the role of the preview.
ApprovedRole(mode) == IF mode = "apply" THEN "apply" ELSE "preview"

assertManagementCaller == BrokerAnswers /\ service.session.role = ApprovedRole(service.mode)

\* The exact backend and organization, between two looks at candidate and
\* caller.
assertPulumiBackendIdentity ==
    /\ CandidateFresh /\ assertManagementCaller
    /\ service.session.pulumi

assertPulumiInvocationBoundary ==
    CandidateFresh /\ assertPulumiBackendIdentity /\ assertManagementCaller

assertPulumiCompletionBoundary ==
    assertManagementCaller /\ assertPulumiBackendIdentity /\ CandidateFresh

\* The full wave can be previewed and not applied; a recovery counts as a
\* preview, and there is none of the full wave.
assertManagementSeedWaveOperation(mode) ==
    wave = "full" => mode = "preview"

-----------------------------------------------------------------------------
\* What AWS is asked before and after Pulumi

expectedOrganizationStateForLifecycle(mode, stage) ==
    IF wave = "full" \/ (mode = "apply" /\ stage = "after")
    THEN "organization-baseline" ELSE "standalone"

\* The whole inventory of the organization is as expected: while the API
\* converges it is neither state.
attestManagementSeedOrganizationState(expected) == BrokerAnswers /\ visible = expected

\* The organization-only wave needs no observation; the full wave needs
\* quota for its accounts and no creation or invitation under way.
attestManagementSeedAccountCapacity == wave = "organization-only" \/ room

\* The closure "attest" of the lifecycle, for one observation.
Attested(mode, stage) ==
    /\ attestManagementSeedOrganizationState(expectedOrganizationStateForLifecycle(mode, stage))
    /\ attestManagementSeedAccountCapacity

-----------------------------------------------------------------------------
\* Plans and their reviews

\* Variant: the plan's path is passed to Pulumi and its hash is not read.
openVerifiedPlan_Unread(m) == TRUE

\* verifyReviewedPlan and openVerifiedPlan: the file still has the bytes
\* whose hash the manifest records; they are copied to an unlinked snapshot.
openVerifiedPlan(m) == planFile = m.plan

\* parsePlanReviewManifest decodes into planReviewManifest and refuses a field
\* that this struct does not have.
parsePlanReviewManifest(m) == m # NoManifest /\ ManifestFields \subseteq ReviewFields

\* exportPlanReview: the manifest has the digest asked for, it decodes, and
\* the plan file has the hash the manifest records.
ExportAllowed(m) == m = manifest /\ parsePlanReviewManifest(m) /\ openVerifiedPlan(m)

\* Variant: a frozen review serves one update.
requireFrozenPlanReview_Once(m) ==
    /\ parsePlanReviewManifest(m)
    /\ \E f \in frozen : f.manifest = m /\ f.plan = m.plan
    /\ ~\E u \in updates : u.manifest = m

\* requireFrozenPlanReview: the content-addressed export of that digest
\* exists, it decodes, and its own plan still has the recorded hash.
requireFrozenPlanReview(m) ==
    parsePlanReviewManifest(m) /\ \E f \in frozen : f.manifest = m /\ f.plan = m.plan

\* loadReviewedPlanManifest: the file is the one whose digest was confirmed,
\* and its attestations bind this candidate and account.
loadReviewedPlanManifest(m) == manifest = m /\ m # NoManifest

\* What a recovery asks of the manifest: one plan of a standalone account.
Recoverable(m) == m.state = "standalone" /\ wave = "organization-only"

\* Variant: recovery asks for the state the plan was made in.
RecoveryState_Standalone == "standalone"

\* recoverManagementSeedOrganizationState observes the converged baseline.
RecoveryState == "organization-baseline"

-----------------------------------------------------------------------------
\* The runtime service: one systemd unit at a time.

\* The runbook: once an update was handed to Pulumi nothing but recovery is
\* run, of the same reviewed plan.
RunbookAllows(mode, m) ==
    updates = {} \/ (mode = "recovery" /\ \E u \in updates : u.manifest = m)

\* runRuntimeService, run and stage 1: a fresh candidate, an envelope for
\* this entrypoint, and for apply and recovery the frozen review of the
\* digest on the command line.
StartService(mode, m, session) ==
    /\ service.mode = "none" /\ RunbookAllows(mode, m)
    /\ CandidateFresh
    /\ validateCredentialEnvelope(session, Entrypoint(mode))
    /\ IF mode = "preview"
       THEN m = NoManifest /\ previews < MaxPreviews
       ELSE m \in confirmed /\ requireFrozenPlanReview(m)
    /\ service' = [Stopped EXCEPT !.mode = mode, !.at = "admit", !.manifest = m,
                                  !.session = session, !.budget = Budget]
    /\ UNCHANGED <<wave, plans, account, results, counters>>

\* Every throw ends the process; what it wrote stays.
Stop == service' = Stopped

\* The process goes on with what AWS was asked taken from the budget.
ServiceContinues(next) == service' = [next EXCEPT !.budget = IF BrokerAnswers THEN @ - 1 ELSE 0]

\* Admission: credentials, candidate, wave, caller, backend, then the
\* reviewed manifest and a snapshot of the plan.
Admit ==
    /\ service.at = "admit"
    /\ IF /\ readBrokeredPulumiEnvironment(service.mode, service.session)
          /\ CandidateFresh
          /\ assertManagementSeedWaveOperation(service.mode)
          /\ assertManagementCaller
          /\ service.mode = "recovery" \/ assertPulumiBackendIdentity
          /\ service.mode = "preview" \/
               (loadReviewedPlanManifest(service.manifest) /\ openVerifiedPlan(manifest))
          /\ service.mode = "recovery" => Recoverable(manifest)
       THEN ServiceContinues([service EXCEPT !.at = IF service.mode = "recovery" THEN "observe" ELSE "before",
                                     !.manifest = manifest, !.plan = planFile])
       ELSE Stop
    /\ UNCHANGED <<wave, plans, account, results, counters>>

\* runAttestedPulumiLifecycle: the attestation before the invocation, equal
\* to the one in the reviewed manifest.
AttestBefore ==
    /\ service.at = "before"
    /\ IF /\ Attested(service.mode, "before")
          /\ service.mode = "apply" => service.manifest.state = visible
       THEN ServiceContinues([service EXCEPT !.at = "invoke"])
       ELSE Stop
    /\ UNCHANGED <<wave, plans, account, results, counters>>

\* pulumi preview saves a new plan over the old one.
InvokePreview ==
    /\ service.at = "invoke" /\ service.mode = "preview"
    /\ IF assertPulumiInvocationBoundary
       THEN /\ previews' = previews + 1
            /\ planFile' = previews + 1
            /\ ServiceContinues([service EXCEPT !.at = "after", !.plan = previews + 1])
       ELSE Stop /\ UNCHANGED <<previews, planFile>>
    /\ UNCHANGED <<wave, manifest, frozen, confirmed, account, results, failures, clock>>

\* pulumi up executes the snapshot.  It creates the organization or fails
\* before it does; a failure is reported after the attestation.
InvokeApply(works) ==
    /\ service.at = "invoke" /\ service.mode = "apply"
    /\ assertPulumiInvocationBoundary
    /\ works \/ failures < MaxFailures
    /\ updates' = updates \cup {[plan |-> service.plan, manifest |-> service.manifest,
                                 role |-> service.session.role]}
    /\ organization' = IF works THEN "organization-baseline" ELSE organization
    /\ failures' = IF works THEN failures ELSE failures + 1
    /\ ServiceContinues([service EXCEPT !.at = IF works /\ assertPulumiCompletionBoundary THEN "after" ELSE "failed"])
    /\ UNCHANGED <<wave, plans, visible, room, outcome, receipts, previews, clock>>

\* A boundary that does not hold stops an apply before Pulumi is invoked.
RefuseApply ==
    /\ service.at = "invoke" /\ service.mode = "apply"
    /\ ~assertPulumiInvocationBoundary
    /\ Stop
    /\ UNCHANGED <<wave, plans, account, results, counters>>

\* The attestation after a preview is made once.
AttestAfterPreview ==
    /\ service.at = "after" /\ service.mode = "preview"
    /\ IF assertPulumiCompletionBoundary /\ Attested("preview", "after")
       THEN ServiceContinues([service EXCEPT !.at = "manifest"])
       ELSE Stop
    /\ UNCHANGED <<wave, plans, account, results, counters>>

\* writePlanManifest hashes the saved plan.
WritePlanManifest ==
    /\ service.at = "manifest"
    /\ manifest' = [plan |-> planFile, state |-> expectedOrganizationStateForLifecycle("preview", "after")]
    /\ Stop
    /\ UNCHANGED <<wave, planFile, frozen, confirmed, account, results, counters>>

\* retryExactAttestation: again after a delay, a bounded number of times.
Again ==
    IF service.tries + 1 < Attempts
    THEN ServiceContinues([service EXCEPT !.tries = @ + 1])
    ELSE Stop

\* The baseline after an apply.  A failed pulumi up ends the process
\* whatever is observed.
AttestAfterApply ==
    /\ service.at \in {"after", "failed"} /\ service.mode = "apply"
    /\ IF Attested("apply", "after")
       THEN outcome' = (outcome \/ service.at = "after") /\ Stop
       ELSE Again /\ UNCHANGED outcome
    /\ UNCHANGED <<wave, plans, account, updates, receipts, counters>>

\* recoverManagementSeedOrganizationState: nothing is invoked; the baseline
\* is observed, a bounded number of times, and a receipt is written.
Recover ==
    /\ service.at = "observe"
    /\ IF attestManagementSeedOrganizationState(RecoveryState)
       THEN /\ receipts' = receipts \cup {[manifest |-> service.manifest, plan |-> service.plan]}
            /\ Stop
       ELSE Again /\ UNCHANGED receipts
    /\ UNCHANGED <<wave, plans, account, updates, outcome, counters>>

-----------------------------------------------------------------------------
requireNoProcessesForUID == service.mode = "none"

\* publishPlanReview renames the staged review to a name that is not taken.
publishPlanReview(m) == ~\E f \in frozen : f.manifest = m

\* exportPlanReview needs a host without runtime processes and never
\* replaces an export.
ExportPlanReview(m) ==
    /\ requireNoProcessesForUID
    /\ ExportAllowed(m) /\ publishPlanReview(m)
    /\ frozen' = frozen \cup {[manifest |-> m, plan |-> planFile]}
    /\ UNCHANGED <<wave, planFile, manifest, confirmed, service, account, results, counters>>

\* A human reads the frozen copy and confirms its digest.
Confirm(m) ==
    /\ \E f \in frozen : f.manifest = m
    /\ m \notin confirmed
    /\ confirmed' = confirmed \cup {m}
    /\ UNCHANGED <<wave, planFile, manifest, frozen, service, account, results, counters>>

\* The Organizations API (external) converges to what was created, by way of answers
\* that are neither.
OrganizationConverges ==
    /\ visible # organization
    /\ visible' = IF visible = "standalone" THEN "partial" ELSE organization
    /\ UNCHANGED <<wave, plans, service, organization, room, results, counters>>

\* Someone else creates or invites an account.
TakeRoom ==
    /\ wave = "full" /\ room
    /\ room' = FALSE
    /\ UNCHANGED <<wave, plans, service, organization, visible, results, counters>>

\* A denied call, an expired session or a killed process.
ServiceCrash ==
    /\ service.mode # "none" /\ failures < MaxFailures
    /\ Stop
    /\ failures' = failures + 1
    /\ UNCHANGED <<wave, plans, account, results, previews, clock>>

Expire ==
    /\ clock <= Lifetime
    /\ clock' = clock + 1
    /\ UNCHANGED <<wave, plans, service, account, results, previews, failures>>

ServiceStep ==
    \/ Admit \/ AttestBefore \/ InvokePreview \/ AttestAfterPreview \/ WritePlanManifest
    \/ AttestAfterApply \/ Recover

NextApply ==
    \/ \E session \in Sessions :
          \/ StartService("preview", NoManifest, session)
          \/ \E m \in Manifests, mode \in {"apply", "recovery"} : StartService(mode, m, session)
    \/ ServiceStep \/ RefuseApply
    \/ \E works \in BOOLEAN : InvokeApply(works)
    \/ \E m \in Manifests : ExportPlanReview(m) \/ Confirm(m)
    \/ OrganizationConverges \/ TakeRoom \/ ServiceCrash \/ Expire

SpecApply == InitApply /\ [][NextApply]_applyVars

\* The service runs its steps, AWS converges, and the operator follows the
\* runbook: recovery is run again until it has an outcome, if not always
\* then again and again in a session of the role it needs, without the token
\* that its entrypoint refuses.
ApplyFairness ==
    /\ WF_applyVars(ServiceStep)
    /\ WF_applyVars(OrganizationConverges)
    /\ SF_applyVars(\E m \in {u.manifest : u \in updates} :
                        receipts = {} /\ StartService("recovery", m, [role |-> "preview", pulumi |-> FALSE]))

-----------------------------------------------------------------------------
\* The plan that a preview has just saved can be exported for review: no
\* process of the runtime is left and the plan file is still the one that the
\* manifest names (docs/management-seed-runbook.md, on export-plan-review).
PreviewsCanBeReviewed ==
    service.mode = "none" /\ manifest # NoManifest /\ openVerifiedPlan(manifest)
        => ExportAllowed(manifest)

\* Every plan that pulumi up executed is the plan of a manifest whose frozen
\* copy was confirmed, and that copy holds the very plan; it was made by a
\* preview of a standalone account in the wave that may be applied, and it
\* ran with the role that may apply it (loadReviewedPlanManifest,
\* openVerifiedPlan and requireFrozenPlanReview together, whatever previews
\* ran or died in between).
AppliedIsReviewed ==
    \A u \in updates :
        /\ u.manifest \in confirmed
        /\ \E f \in frozen : f.manifest = u.manifest /\ f.plan = u.plan
        /\ u.manifest.state = "standalone" /\ wave = "organization-only"
        /\ u.role = "apply"

\* A recovery receipt says that a reviewed standalone plan led to the
\* baseline: the organization then exists, and the receipt names a frozen
\* plan (createManagementSeedOrganizationRecoveryReceipt).
ReceiptsAreTrue ==
    \A r \in receipts :
        /\ organization = "organization-baseline" /\ r.manifest.state = "standalone"
        /\ \E f \in frozen : f.manifest = r.manifest /\ f.plan = r.plan

\* Once pulumi up created the organization, an apply attests it or a recovery
\* receipt is written, although the API is slow to show it and each process
\* has a bounded number of attempts and of answers from its broker; unless
\* the candidate runs out first: after its 24 hours neither mode starts, and
\* no later candidate can redo a standalone preview.
OrganizationIsAccountedFor ==
    (organization = "organization-baseline" /\ updates # {})
        ~> (outcome \/ receipts # {} \/ ~CandidateFresh)
=============================================================================

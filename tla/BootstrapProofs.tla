--------------------------- MODULE BootstrapProofs ---------------------------
(***************************************************************************)
(* Safety of the bootstrap: what a sealed root does with credentials, for  *)
(* any number of previews, failures, attempts and broker answers, and what *)
(* can become a sealed root and run, for any versions, defects and         *)
(* checkouts, any number of edits, crashes and days.                       *)
(***************************************************************************)
EXTENDS BootstrapCandidate, BootstrapApply, TLAPS

ManifestType == [plan : Nat, state : {"none"} \cup OrganizationStates]

ServiceType ==
    [mode : {"none", "preview", "apply", "recovery"},
     at : {"idle", "admit", "before", "invoke", "after", "failed", "manifest", "observe"},
     session : Sessions \cup {NoSession}, manifest : ManifestType,
     plan : Nat, tries : Nat, budget : Nat]

(* What the process, the reviews and the account look like. *)
ApplyType ==
    /\ wave \in {"organization-only", "full"}
    /\ organization \in OrganizationStates
    /\ planFile \in Nat /\ previews \in Nat
    /\ manifest \in ManifestType
    /\ service \in ServiceType

(* The steps after Admit that hold a reviewed plan. *)
Holding == {"before", "invoke", "after", "failed", "observe"}

(* A process that applies or recovers does so under a confirmed manifest   *)
(* with a frozen copy, and after admission it holds that manifest's plan.  *)
ServiceHoldsReview ==
    /\ service.mode \in {"apply", "recovery"} =>
          service.manifest \in confirmed /\ requireFrozenPlanReview(service.manifest)
    /\ service.mode \in {"apply", "recovery"} /\ service.at \in Holding =>
          service.plan = service.manifest.plan

(* An apply is of the organization-only wave, and has seen the account to  *)
(* be as its manifest says when Pulumi is invoked; a recovery observes for *)
(* a manifest of a standalone account.                                     *)
ServiceIsAdmitted ==
    /\ service.mode = "apply" /\ service.at \in Holding => wave = "organization-only"
    /\ service.mode = "apply" /\ service.at = "invoke" => service.manifest.state = "standalone"
    /\ service.at = "observe" => service.mode = "recovery" /\ service.manifest.state = "standalone"

(* The API never shows a baseline that does not exist. *)
VisibleIsReal == visible = "organization-baseline" => organization = "organization-baseline"

ApplyInv ==
    /\ ApplyType /\ ServiceHoldsReview /\ ServiceIsAdmitted /\ VisibleIsReal
    /\ AppliedIsReviewed /\ ReceiptsAreTrue

(* Nothing has happened yet. *)
LEMMA ApplyInvInit == InitApply => ApplyInv
  BY DEF InitApply, ApplyInv, ApplyType, ServiceHoldsReview, ServiceIsAdmitted, VisibleIsReal,
         AppliedIsReviewed, ReceiptsAreTrue, Stopped, ServiceType, ManifestType, NoManifest, NoPlanFile,
         NoSession, OrganizationStates, Holding

(* Whatever a process read, stopping leaves nothing to hold. *)
LEMMA StoppedService ==
    ASSUME ApplyInv, Stop
    PROVE  service' \in ServiceType /\ ServiceHoldsReview' /\ ServiceIsAdmitted'
  <1>1. service' = Stopped
    BY DEF Stop
  <1>2. Stopped \in ServiceType
    BY DEF Stopped, ServiceType, ManifestType, NoManifest, NoPlanFile, NoSession, OrganizationStates
  <1>3. Stopped.mode = "none" /\ Stopped.at = "idle"
    BY DEF Stopped
  <1> QED
    BY <1>1, <1>2, <1>3 DEF ServiceHoldsReview, ServiceIsAdmitted, Holding

(* Going on with another step changes the step and the budget. *)
LEMMA ContinuedService ==
    ASSUME ApplyInv, NEW next \in ServiceType, next.budget = service.budget, ServiceContinues(next)
    PROVE  /\ service' \in ServiceType
           /\ service'.mode = next.mode /\ service'.at = next.at
           /\ service'.manifest = next.manifest /\ service'.plan = next.plan
           /\ service'.session = next.session
  <1> DEFINE left == IF BrokerAnswers THEN next.budget - 1 ELSE 0
  <1>1. service' = [next EXCEPT !.budget = left]
    BY DEF ServiceContinues
  <1>2. next.budget \in Nat
    BY DEF ServiceType
  <1>3. left \in Nat
    BY <1>2 DEF BrokerAnswers
  <1> QED
    BY <1>1, <1>3 DEF ServiceType

(* A step of the process alone keeps the invariant when what it holds next *)
(* is reviewed and admitted.                                               *)
LEMMA ProcessStep ==
    ASSUME ApplyInv, UNCHANGED <<wave, plans, account, results, previews>>,
           service' \in ServiceType, ServiceHoldsReview', ServiceIsAdmitted'
    PROVE  ApplyInv'
  BY DEF ApplyInv, ApplyType, VisibleIsReal, AppliedIsReviewed, ReceiptsAreTrue, plans, account, results

(* A process starts in its mode with what it was given. *)
LEMMA StartStep ==
    ASSUME ApplyInv, NEW mode \in {"preview", "apply", "recovery"},
           NEW m \in ManifestType, NEW session \in Sessions, StartService(mode, m, session)
    PROVE  ApplyInv'
  <1>1. service' = [Stopped EXCEPT !.mode = mode, !.at = "admit", !.manifest = m,
                                   !.session = session, !.budget = Budget]
    BY DEF StartService
  <1>2. Stopped \in ServiceType
    BY DEF Stopped, ServiceType, ManifestType, NoManifest, NoPlanFile, NoSession, OrganizationStates
  <1>3. Budget \in Nat
    BY ApplyBoundsAssumption
  <1>4. service' \in ServiceType
    BY <1>1, <1>2, <1>3 DEF ServiceType
  <1>5. service'.mode = mode /\ service'.at = "admit" /\ service'.manifest = m
    BY <1>1, <1>2 DEF ServiceType
  <1>6. mode \in {"apply", "recovery"} => m \in confirmed /\ requireFrozenPlanReview(m)
    BY DEF StartService
  <1>7. UNCHANGED <<wave, plans, account, results, previews>>
    BY DEF StartService, counters
  <1>8. ServiceHoldsReview' /\ ServiceIsAdmitted'
    BY <1>5, <1>6, <1>7 DEF ServiceHoldsReview, ServiceIsAdmitted, requireFrozenPlanReview, Holding, plans
  <1> QED
    BY <1>4, <1>7, <1>8, ProcessStep

(* Admission checks the manifest and the plan it will hold. *)
LEMMA AdmitStep ==
    ASSUME ApplyInv, Admit
    PROVE  ApplyInv'
  <1>1. UNCHANGED <<wave, plans, account, results, previews>>
    BY DEF Admit, counters
  <1>2. CASE Stop
    BY <1>1, <1>2, StoppedService, ProcessStep
  <1>3. CASE ~Stop
    <2> DEFINE next == [service EXCEPT !.at = IF service.mode = "recovery" THEN "observe" ELSE "before",
                                       !.manifest = manifest, !.plan = planFile]
    <2>1. /\ ServiceContinues(next)
          /\ assertManagementSeedWaveOperation(service.mode)
          /\ service.mode = "preview" \/
               (loadReviewedPlanManifest(service.manifest) /\ openVerifiedPlan(manifest))
          /\ service.mode = "recovery" => Recoverable(manifest)
      BY <1>3 DEF Admit
    <2>2. service \in ServiceType /\ manifest \in ManifestType /\ planFile \in Nat
      BY DEF ApplyInv, ApplyType
    <2>3. next \in ServiceType /\ next.budget = service.budget
      BY <2>2 DEF ServiceType
    <2>4. /\ next.mode = service.mode /\ next.manifest = manifest /\ next.plan = planFile
          /\ next.at = IF service.mode = "recovery" THEN "observe" ELSE "before"
      BY <2>2 DEF ServiceType
    <2> HIDE DEF next
    <2>5. /\ service' \in ServiceType /\ service'.mode = service.mode
          /\ service'.manifest = manifest /\ service'.plan = planFile
          /\ service'.at = IF service.mode = "recovery" THEN "observe" ELSE "before"
      BY <2>1, <2>3, <2>4, ContinuedService
    <2>6. service.mode \in {"apply", "recovery"} =>
             manifest = service.manifest /\ planFile = manifest.plan
      BY <2>1 DEF loadReviewedPlanManifest, openVerifiedPlan
    <2>7. ServiceHoldsReview'
      BY <2>5, <2>6, <1>1 DEF ApplyInv, ServiceHoldsReview, requireFrozenPlanReview, plans
    <2>8. service.mode = "apply" => wave = "organization-only"
      BY <2>1 DEF ApplyInv, ApplyType, assertManagementSeedWaveOperation
    <2>9. ServiceIsAdmitted'
      BY <2>1, <2>5, <2>8, <1>1 DEF ServiceIsAdmitted, Recoverable
    <2> QED
      BY <1>1, <2>5, <2>7, <2>9, ProcessStep
  <1> QED
    BY <1>2, <1>3

(* A step to a later one with the same manifest and plan: only the facts   *)
(* about the step itself have to be established.                           *)
LEMMA SameHolding ==
    ASSUME ApplyInv, UNCHANGED <<frozen, confirmed>>,
           NEW step \in {"before", "invoke", "after", "failed", "manifest", "observe"},
           service.mode \in {"apply", "recovery"} => service.at \in Holding,
           ServiceContinues([service EXCEPT !.at = step])
    PROVE  /\ service' \in ServiceType /\ ServiceHoldsReview'
           /\ service'.mode = service.mode /\ service'.at = step
           /\ service'.manifest = service.manifest /\ service'.plan = service.plan
  <1> DEFINE next == [service EXCEPT !.at = step]
  <1>1. service \in ServiceType
    BY DEF ApplyInv, ApplyType
  <1>2. next \in ServiceType /\ next.budget = service.budget
    BY <1>1 DEF ServiceType
  <1>3. /\ next.mode = service.mode /\ next.manifest = service.manifest
        /\ next.plan = service.plan /\ next.at = step
    BY <1>1 DEF ServiceType
  <1>4. ServiceContinues(next)
    OBVIOUS
  <1> HIDE DEF next
  <1>5. /\ service' \in ServiceType /\ service'.mode = service.mode /\ service'.at = step
        /\ service'.manifest = service.manifest /\ service'.plan = service.plan
    BY <1>2, <1>3, <1>4, ContinuedService
  <1> QED
    BY <1>5 DEF ApplyInv, ServiceHoldsReview, requireFrozenPlanReview

(* The account is seen to be as the manifest says. *)
LEMMA AttestBeforeStep ==
    ASSUME ApplyInv, AttestBefore
    PROVE  ApplyInv'
  <1>1. UNCHANGED <<wave, plans, account, results, previews>> /\ service.at = "before"
    BY DEF AttestBefore, counters
  <1>2. CASE Stop
    BY <1>1, <1>2, StoppedService, ProcessStep
  <1>3. CASE ~Stop
    <2>1. /\ ServiceContinues([service EXCEPT !.at = "invoke"])
          /\ Attested(service.mode, "before")
          /\ service.mode = "apply" => service.manifest.state = visible
      BY <1>3 DEF AttestBefore
    <2>2. /\ service' \in ServiceType /\ ServiceHoldsReview'
          /\ service'.mode = service.mode /\ service'.at = "invoke"
          /\ service'.manifest = service.manifest
      BY <1>1, <2>1, SameHolding DEF Holding, plans
    <2>3. service.mode = "apply" => wave = "organization-only"
      BY <1>1 DEF ApplyInv, ServiceIsAdmitted, Holding
    <2>4. service.mode = "apply" => visible = "standalone"
      BY <2>1, <2>3 DEF Attested, attestManagementSeedOrganizationState, expectedOrganizationStateForLifecycle
    <2>5. ServiceIsAdmitted'
      BY <1>1, <2>1, <2>2, <2>3, <2>4 DEF ServiceIsAdmitted
    <2> QED
      BY <1>1, <2>2, <2>5, ProcessStep
  <1> QED
    BY <1>2, <1>3

(* A preview writes a plan file; it holds nothing that was reviewed. *)
LEMMA InvokePreviewStep ==
    ASSUME ApplyInv, InvokePreview
    PROVE  ApplyInv'
  <1>1. /\ UNCHANGED <<wave, manifest, frozen, confirmed, account, results>>
        /\ service.at = "invoke" /\ service.mode = "preview"
    BY DEF InvokePreview
  <1>2. service' \in ServiceType /\ ServiceHoldsReview' /\ ServiceIsAdmitted'
    <2>1. CASE Stop
      BY <2>1, StoppedService
    <2>2. CASE ~Stop
      <3>0. PICK n \in Nat : n = previews + 1
        BY DEF ApplyInv, ApplyType
      <3> DEFINE next == [service EXCEPT !.at = "after", !.plan = n]
      <3>1. ServiceContinues(next)
        BY <2>2, <3>0 DEF InvokePreview
      <3>2. service \in ServiceType /\ previews \in Nat
        BY DEF ApplyInv, ApplyType
      <3>3. next \in ServiceType /\ next.budget = service.budget
        BY <3>2 DEF ServiceType
      <3>4. next.mode = "preview" /\ next.at = "after"
        BY <3>2, <1>1 DEF ServiceType
      <3> HIDE DEF next
      <3>5. service' \in ServiceType /\ service'.mode = "preview" /\ service'.at = "after"
        BY <3>1, <3>3, <3>4, ContinuedService
      <3> QED
        BY <3>5 DEF ServiceHoldsReview, ServiceIsAdmitted
    <2> QED
      BY <2>1, <2>2
  <1>3. planFile' \in Nat /\ previews' \in Nat
    BY DEF InvokePreview, ApplyInv, ApplyType
  <1> QED
    BY <1>1, <1>2, <1>3
       DEF ApplyInv, ApplyType, VisibleIsReal, AppliedIsReviewed, ReceiptsAreTrue, account, results

(* Pulumi executes the plan of the reviewed manifest, with the role that   *)
(* may apply it.                                                           *)
LEMMA InvokeApplyStep ==
    ASSUME ApplyInv, NEW works \in BOOLEAN, InvokeApply(works)
    PROVE  ApplyInv'
  <1> DEFINE u == [plan |-> service.plan, manifest |-> service.manifest, role |-> service.session.role]
             step == IF works /\ assertPulumiCompletionBoundary THEN "after" ELSE "failed"
  <1>1. /\ service.at = "invoke" /\ service.mode = "apply"
        /\ assertPulumiInvocationBoundary
        /\ updates' = updates \cup {u}
        /\ organization' = IF works THEN "organization-baseline" ELSE organization
        /\ UNCHANGED <<wave, plans, visible, room, outcome, receipts, previews>>
    BY DEF InvokeApply
  <1>2. ServiceContinues([service EXCEPT !.at = step])
    BY DEF InvokeApply
  <1>3. step \in {"before", "invoke", "after", "failed", "manifest", "observe"} /\ step # "invoke"
        /\ step # "observe" /\ step \in Holding
    BY DEF Holding
  <1> HIDE DEF step
  <1>4. /\ service' \in ServiceType /\ ServiceHoldsReview'
        /\ service'.mode = "apply" /\ service'.at = step
    BY <1>1, <1>2, <1>3, SameHolding DEF Holding, plans
  <1>5. wave = "organization-only" /\ service.manifest.state = "standalone"
    BY <1>1 DEF ApplyInv, ServiceIsAdmitted, Holding
  <1>6. ServiceIsAdmitted'
    BY <1>1, <1>3, <1>4, <1>5 DEF ServiceIsAdmitted
  <1>7. service.session.role = "apply"
    BY <1>1 DEF assertPulumiInvocationBoundary, assertManagementCaller, ApprovedRole
  <1>8. PICK f \in frozen : f.manifest = service.manifest /\ f.plan = service.manifest.plan
    BY <1>1 DEF ApplyInv, ServiceHoldsReview, requireFrozenPlanReview
  <1>9. service.manifest \in confirmed /\ service.plan = service.manifest.plan
    BY <1>1 DEF ApplyInv, ServiceHoldsReview, Holding
  <1>10. /\ u.manifest \in confirmed /\ f.manifest = u.manifest /\ f.plan = u.plan
         /\ u.manifest.state = "standalone" /\ u.role = "apply"
    BY <1>5, <1>7, <1>8, <1>9
  <1> HIDE DEF u
  <1>11. AppliedIsReviewed'
    BY <1>1, <1>5, <1>8, <1>10 DEF ApplyInv, AppliedIsReviewed, plans
  <1>12. ReceiptsAreTrue' /\ VisibleIsReal'
    BY <1>1 DEF ApplyInv, ReceiptsAreTrue, VisibleIsReal, plans
  <1>13. ApplyType'
    BY <1>1, <1>4 DEF ApplyInv, ApplyType, plans, OrganizationStates
  <1> QED
    BY <1>4, <1>6, <1>11, <1>12, <1>13 DEF ApplyInv

(* A preview ends with a manifest of the plan that is there. *)
LEMMA PreviewEndsStep ==
    ASSUME ApplyInv, AttestAfterPreview \/ WritePlanManifest
    PROVE  ApplyInv'
  <1>1. CASE AttestAfterPreview
    <2>1. /\ UNCHANGED <<wave, plans, account, results, previews>>
          /\ service.at = "after" /\ service.mode = "preview"
      BY <1>1 DEF AttestAfterPreview, counters
    <2>2. CASE Stop
      BY <2>1, <2>2, StoppedService, ProcessStep
    <2>3. CASE ServiceContinues([service EXCEPT !.at = "manifest"])
      <3>1. /\ service' \in ServiceType /\ ServiceHoldsReview'
            /\ service'.mode = "preview" /\ service'.at = "manifest"
        BY <2>1, <2>3, SameHolding DEF plans
      <3>2. ServiceIsAdmitted'
        BY <3>1 DEF ServiceIsAdmitted
      <3> QED
        BY <2>1, <3>1, <3>2, ProcessStep
    <2> QED
      BY <1>1, <2>2, <2>3 DEF AttestAfterPreview
  <1>2. CASE WritePlanManifest
    <2>1. service' \in ServiceType /\ ServiceHoldsReview' /\ ServiceIsAdmitted'
      BY <1>2, StoppedService DEF WritePlanManifest
    <2>2. planFile \in Nat
      BY DEF ApplyInv, ApplyType
    <2>3. manifest' \in ManifestType
      BY <1>2, <2>2 DEF WritePlanManifest, ManifestType, OrganizationStates, expectedOrganizationStateForLifecycle
    <2> QED
      BY <1>2, <2>1, <2>3 DEF WritePlanManifest, ApplyInv, ApplyType, VisibleIsReal, AppliedIsReviewed,
                              ReceiptsAreTrue, account, results, counters
  <1> QED
    BY <1>1, <1>2

(* Another attempt holds what the last one held. *)
LEMMA AgainStep ==
    ASSUME ApplyInv, Again, UNCHANGED <<wave, frozen, confirmed>>
    PROVE  service' \in ServiceType /\ ServiceHoldsReview' /\ ServiceIsAdmitted'
  <1>1. CASE Stop
    BY <1>1, StoppedService
  <1>2. CASE ~Stop
    <2>1. service \in ServiceType
      BY DEF ApplyInv, ApplyType
    <2>2. PICK n \in Nat : n = service.tries + 1
      BY <2>1 DEF ServiceType
    <2> DEFINE next == [service EXCEPT !.tries = n]
    <2>3. ServiceContinues(next)
      BY <1>2, <2>2 DEF Again
    <2>4. next \in ServiceType /\ next.budget = service.budget
      BY <2>1 DEF ServiceType
    <2>5. /\ next.mode = service.mode /\ next.at = service.at
          /\ next.manifest = service.manifest /\ next.plan = service.plan
      BY <2>1 DEF ServiceType
    <2> HIDE DEF next
    <2>6. /\ service' \in ServiceType
          /\ service'.mode = service.mode /\ service'.at = service.at
          /\ service'.manifest = service.manifest /\ service'.plan = service.plan
      BY <2>3, <2>4, <2>5, ContinuedService
    <2> QED
      BY <2>6 DEF ApplyInv, ServiceHoldsReview, ServiceIsAdmitted, requireFrozenPlanReview
  <1> QED
    BY <1>1, <1>2

(* The attestation after an apply changes no review and no account. *)
LEMMA AttestAfterApplyStep ==
    ASSUME ApplyInv, AttestAfterApply
    PROVE  ApplyInv'
  <1>1. UNCHANGED <<wave, plans, account, updates, receipts, counters>>
    BY DEF AttestAfterApply
  <1>2. Stop \/ Again
    BY DEF AttestAfterApply
  <1>3. service' \in ServiceType /\ ServiceHoldsReview' /\ ServiceIsAdmitted'
    BY <1>1, <1>2, StoppedService, AgainStep DEF plans
  <1> QED
    BY <1>1, <1>3 DEF ApplyInv, ApplyType, VisibleIsReal, AppliedIsReviewed, ReceiptsAreTrue,
                      plans, account, counters

(* A recovery writes a receipt when it observes the baseline, and the API  *)
(* shows it only when it exists.                                           *)
LEMMA RecoverStep ==
    ASSUME ApplyInv, Recover
    PROVE  ApplyInv'
  <1> DEFINE r == [manifest |-> service.manifest, plan |-> service.plan]
  <1>1. UNCHANGED <<wave, plans, account, updates, counters>> /\ service.at = "observe"
    BY DEF Recover
  <1>2. Stop \/ Again
    BY DEF Recover
  <1>3. service' \in ServiceType /\ ServiceHoldsReview' /\ ServiceIsAdmitted'
    BY <1>1, <1>2, StoppedService, AgainStep DEF plans
  <1>4. ReceiptsAreTrue'
    <2>1. CASE UNCHANGED receipts
      BY <1>1, <2>1 DEF ApplyInv, ReceiptsAreTrue, plans, account
    <2>2. CASE ~UNCHANGED receipts
      <3>1. receipts' = receipts \cup {r} /\ visible = "organization-baseline"
        BY <2>2 DEF Recover, attestManagementSeedOrganizationState, RecoveryState
      <3>2. organization = "organization-baseline"
        BY <3>1 DEF ApplyInv, VisibleIsReal
      <3>3. service.mode = "recovery" /\ service.manifest.state = "standalone"
        BY <1>1 DEF ApplyInv, ServiceIsAdmitted
      <3>4. PICK f \in frozen : f.manifest = service.manifest /\ f.plan = service.manifest.plan
        BY <3>3 DEF ApplyInv, ServiceHoldsReview, requireFrozenPlanReview
      <3>5. service.plan = service.manifest.plan
        BY <1>1, <3>3 DEF ApplyInv, ServiceHoldsReview, Holding
      <3>6. r.manifest.state = "standalone" /\ f.manifest = r.manifest /\ f.plan = r.plan
        BY <3>3, <3>4, <3>5
      <3> HIDE DEF r
      <3> QED
        BY <1>1, <3>1, <3>2, <3>4, <3>6 DEF ApplyInv, ReceiptsAreTrue, plans, account
    <2> QED
      BY <2>1, <2>2
  <1> QED
    BY <1>1, <1>3, <1>4 DEF ApplyInv, ApplyType, VisibleIsReal, AppliedIsReviewed, plans, account, counters

(* Reviews are added and never replaced; the API and the clock move on. *)
LEMMA SurroundingsStep ==
    ASSUME ApplyInv,
           \/ \E m \in Manifests : ExportPlanReview(m) \/ Confirm(m)
           \/ OrganizationConverges \/ TakeRoom \/ Expire
    PROVE  ApplyInv'
  <1>1. UNCHANGED <<wave, service, updates, receipts, organization, planFile, manifest, previews>>
    BY DEF ExportPlanReview, Confirm, OrganizationConverges, TakeRoom, Expire, plans, account, results, counters
  <1>2. frozen \subseteq frozen' /\ confirmed \subseteq confirmed'
    BY DEF ExportPlanReview, Confirm, OrganizationConverges, TakeRoom, Expire, plans
  <1>3. VisibleIsReal'
    BY DEF ExportPlanReview, Confirm, OrganizationConverges, TakeRoom, Expire, account, ApplyInv, VisibleIsReal
  <1>4. ServiceHoldsReview'
    BY <1>1, <1>2 DEF ApplyInv, ServiceHoldsReview, requireFrozenPlanReview
  <1>5. AppliedIsReviewed' /\ ReceiptsAreTrue'
    BY <1>1, <1>2 DEF ApplyInv, AppliedIsReviewed, ReceiptsAreTrue
  <1> QED
    BY <1>1, <1>3, <1>4, <1>5 DEF ApplyInv, ApplyType, ServiceIsAdmitted

(* Every step of a credentialed process or around it keeps the invariant. *)
LEMMA ApplyInvStep == ApplyInv /\ [NextApply]_applyVars => ApplyInv'
  <1> SUFFICES ASSUME ApplyInv, [NextApply]_applyVars
               PROVE  ApplyInv'
    OBVIOUS
  <1>1. ASSUME NEW session \in Sessions, StartService("preview", NoManifest, session)
        PROVE  ApplyInv'
    <2>1. NoManifest \in ManifestType
      BY DEF NoManifest, NoPlanFile, ManifestType
    <2> QED
      BY <1>1, <2>1, StartStep
  <1>2. ASSUME NEW session \in Sessions, NEW m \in Manifests, NEW mode \in {"apply", "recovery"},
               StartService(mode, m, session)
        PROVE  ApplyInv'
    <2>1. m \in ManifestType
      BY ApplyBoundsAssumption DEF Manifests, ManifestType
    <2> QED
      BY <1>2, <2>1, StartStep
  <1>3. CASE ServiceStep
    BY <1>3, AdmitStep, AttestBeforeStep, InvokePreviewStep, PreviewEndsStep, AttestAfterApplyStep,
       RecoverStep DEF ServiceStep
  <1>4. CASE RefuseApply \/ ServiceCrash
    <2>1. Stop /\ UNCHANGED <<wave, plans, account, results, previews>>
      BY <1>4 DEF RefuseApply, ServiceCrash, counters
    <2> QED
      BY <2>1, StoppedService, ProcessStep
  <1>5. ASSUME NEW works \in BOOLEAN, InvokeApply(works)
        PROVE  ApplyInv'
    BY <1>5, InvokeApplyStep
  <1>6. CASE (\E m \in Manifests : ExportPlanReview(m) \/ Confirm(m)) \/ OrganizationConverges \/ TakeRoom \/ Expire
    BY <1>6, SurroundingsStep
  <1>7. CASE UNCHANGED applyVars
    BY <1>7 DEF applyVars, plans, account, results, counters, ApplyInv, ApplyType, ServiceHoldsReview,
                ServiceIsAdmitted, VisibleIsReal, AppliedIsReviewed, ReceiptsAreTrue, requireFrozenPlanReview
  <1> QED
    BY <1>1, <1>2, <1>3, <1>4, <1>5, <1>6, <1>7 DEF NextApply

(* The invariant of the credentialed processes. *)
LEMMA ApplyInvariance == SpecApply => []ApplyInv
  BY ApplyInvInit, ApplyInvStep, PTL DEF SpecApply

(***************************************************************************)
(* Pulumi only ever executes the very plan of a confirmed and frozen       *)
(* review of a standalone account, in the wave that may be applied and     *)
(* with the role that may apply it, however many previews overwrite the    *)
(* plan file and however often processes die and start again               *)
(* (bootstrap-main.mjs with the launcher's plan reviews).                  *)
(***************************************************************************)
THEOREM AppliedStaysReviewed == SpecApply => []AppliedIsReviewed
  <1>1. ApplyInv => AppliedIsReviewed
    BY DEF ApplyInv
  <1> QED
    BY <1>1, ApplyInvariance, PTL

(***************************************************************************)
(* A recovery receipt is only written when the organization exists, and    *)
(* names the reviewed plan that was to create it, although the API is slow *)
(* to show it (recoverManagementSeedOrganizationState).                    *)
(***************************************************************************)
THEOREM ReceiptsStayTrue == SpecApply => []ReceiptsAreTrue
  <1>1. ApplyInv => ReceiptsAreTrue
    BY DEF ApplyInv
  <1> QED
    BY <1>1, ApplyInvariance, PTL

-----------------------------------------------------------------------------
(***************************************************************************)
(* From a checkout to a credentialed execution.                            *)
(***************************************************************************)

(* What an independent review has established of a request it signed. *)
Reviewed(r) ==
    /\ \A p \in Bound \ {"configuration", "runtime"} : r.bound[p] = HostKit
    /\ "contract" \notin Defects[r.bound["configuration"]]
    /\ r.runtime = [tools |-> "pinned", closure |-> HostKit]
    /\ \A p \in Generated \ {"configuration", "access"} : r.inventory[p] = HostKit
    /\ r.inventory["configuration"] = r.bound["configuration"]
    /\ r.inventory["access"] = r.bound["configuration"]

SignedIsReviewed == \A r \in signed : Reviewed(r)

(* What the signer builds from is the host kit's source; what it reviews   *)
(* with was rebuilt from it.                                               *)
SignerRebuilds ==
    /\ signer = [at |-> signer.at, checkout |-> signer.checkout, bundle |-> signer.bundle]
    /\ signer.at = "prepared" => DOMAIN signer.checkout = Parts
    /\ signer.at = "review" =>
          \A p \in {"source", "build", "launcher", "runtime"} : signer.checkout[p] = HostKit

(* A tree with the inventory of some signed request. *)
SealedTree(t) == \E c \in signed : validateExecutionSealInventory(t, c)

(* A root that was sealed has such a tree, and so has the copy that will   *)
(* take its place.                                                         *)
SealIsReviewed ==
    /\ sealer = [at |-> sealer.at, copy |-> sealer.copy]
    /\ sealer.at = "copy" => sealer.copy \in signed
    /\ sealer.at \in {"quarantine", "publish"} => SealedTree(sealer.copy.tree)
    /\ owner = "root" => SealedTree(tree)

(* Where there is no root, or a sealed one, no document of the             *)
(* qualification is left, and the tooling is only gone when a seal ended.  *)
SealIsFinished ==
    /\ owner \in {"nobody", "root"} => bundle = None /\ request = None /\ ~git
    /\ sealer.at = "retire" => owner = "root"
    /\ ~tooling => owner = "root" /\ sealer.at = "idle"
    /\ runner # None => ~tooling /\ ~runner.sealing

CandidateInv ==
    /\ SignedIsReviewed /\ SignerRebuilds /\ SealIsReviewed /\ SealIsFinished
    /\ SealedRunsAreReviewed

(* Nothing is signed, sealed or executed yet. *)
LEMMA CandidateInvInit == InitCandidate => CandidateInv
  BY DEF InitCandidate, CandidateInv, SignedIsReviewed, SignerRebuilds, SealIsReviewed, SealIsFinished,
         SealedRunsAreReviewed, ExecutedIsReviewed, OnlyFinishedSealsRun, SignerIdle, SealerIdle

(* The review of a bundle against a checkout rebuilt from the host kit     *)
(* establishes all of it.                                                  *)
LEMMA ReviewEstablishes ==
    ASSUME NEW b, NEW mine,
           \A p \in {"source", "build", "launcher", "runtime"} : mine[p] = HostKit,
           extractSigningInputs(b), ReviewAccepts(b, mine, "pinned")
    PROVE  Reviewed(b.request)
  <1> DEFINE r == b.request
  <1>1. /\ r.bound["source"] = HostKit /\ r.bound["build"] = HostKit /\ r.bound["launcher"] = HostKit
        /\ r.bound["configuration"] = b.files["configuration"]
        /\ r.bound["gates"] = b.files["gates"] /\ r.bound["release"] = b.files["release"]
        /\ b.files["launcher"] = r.bound["launcher"]
    BY DEF ReviewAccepts, bindFile
  <1>2. b.files["gates"] = HostKit /\ b.files["contracts"] = HostKit /\ b.files["sbom"] = HostKit
    BY DEF ReviewAccepts, EmbeddedEvidenceHolds
  <1>3. b.files["release"] = HostKit
    BY <1>2 DEF ReviewAccepts, EmbeddedEvidenceHolds, verifyBindings
  <1>4. r.runtime = [tools |-> "pinned", closure |-> HostKit]
    BY DEF ReviewAccepts, collectBootstrapRuntime
  <1>5. "contract" \notin Defects[r.bound["configuration"]]
    BY <1>1 DEF ReviewAccepts, assertManagementSeedConfigurationDocument, Sound
  <1>6. r.inventory = [p \in Generated |-> IF p \in GeneratedRoots THEN mine[p] ELSE b.files[p]]
    BY DEF ReviewAccepts, assertEmbeddedBootstrapSealInventory
  <1>7. b.files["access"] = b.files["configuration"]
    BY DEF ReviewAccepts, createManagementSeedAccessBundle
  <1>8. \A p \in Generated \ {"configuration", "access"} : r.inventory[p] = HostKit
    BY <1>1, <1>2, <1>3, <1>6 DEF Generated, GeneratedRoots, GeneratedFiles
  <1>9. r.inventory["configuration"] = b.files["configuration"] /\ r.inventory["access"] = b.files["access"]
    BY <1>6 DEF Generated, GeneratedRoots, GeneratedFiles
  <1>10. \A p \in Bound \ {"configuration", "runtime"} : r.bound[p] = HostKit
    BY <1>1, <1>2, <1>3 DEF Bound
  <1> QED
    BY <1>1, <1>4, <1>5, <1>7, <1>8, <1>9, <1>10 DEF Reviewed

(* A sealed tree is the host kit's, with a configuration that obeys its    *)
(* contract and the access bundle of that configuration.                   *)
LEMMA SealedTreeIsReviewed ==
    ASSUME SignedIsReviewed, NEW t, SealedTree(t)
    PROVE  /\ \A p \in Parts \ {"configuration", "access"} : t[p] = HostKit
           /\ "contract" \notin Defects[t["configuration"]]
           /\ t["access"] = t["configuration"]
  <1>1. PICK c \in signed : validateExecutionSealInventory(t, c)
    BY DEF SealedTree
  <1>2. Reviewed(c)
    BY <1>1 DEF SignedIsReviewed
  <1>3. t["configuration"] = c.bound["configuration"] /\ t["access"] = c.bound["configuration"]
    BY <1>1, <1>2 DEF validateExecutionSealInventory, Reviewed, Generated, GeneratedFiles
  <1>4. \A p \in Parts \ {"configuration", "access"} : t[p] = HostKit
    BY <1>1, <1>2 DEF validateExecutionSealInventory, Reviewed, Parts
  <1> QED
    BY <1>2, <1>3, <1>4 DEF Reviewed

(* What the operator does to a root of its own, or without touching one,   *)
(* reaches nothing that is signed or sealed.                               *)
LEMMA OperatorStep ==
    ASSUME CandidateInv, UNCHANGED <<tooling, signer, sealer, runner, signed, execution>>,
           \/ owner \in {"nobody", "operator"} /\ owner' = "operator"
           \/ UNCHANGED <<tree, owner, git, request, bundle>>
    PROVE  CandidateInv'
  <1>1. SignedIsReviewed' /\ SignerRebuilds' /\ ExecutedIsReviewed'
    BY DEF CandidateInv, SignedIsReviewed, SignerRebuilds, SealedRunsAreReviewed, ExecutedIsReviewed
  <1>2. SealIsReviewed'
    BY DEF CandidateInv, SealIsReviewed, SealedTree
  <1>3. SealIsFinished' /\ OnlyFinishedSealsRun'
    BY DEF CandidateInv, SealIsFinished, SealedRunsAreReviewed, OnlyFinishedSealsRun
  <1> QED
    BY <1>1, <1>2, <1>3 DEF CandidateInv, SealedRunsAreReviewed

(* The signer accepts the host kit's source only, and rebuilds from it. *)
LEMMA SignerStep ==
    ASSUME CandidateInv,
           \/ \E v, x \in Versions : SigningPrepare(v, x)
           \/ FreezeCheckout
           \/ \E env \in SUBSET Ambient : SigningReview(env)
           \/ SignerCrash
    PROVE  CandidateInv'
  <1>1. UNCHANGED <<tree, owner, git, request, bundle, candidate, tooling, sealer, runner, execution>>
    BY DEF SigningPrepare, FreezeCheckout, SigningReview, SignerCrash, rootVars, docs, bounds
  <1>2. SignerRebuilds'
    <2>1. ASSUME NEW v \in Versions, NEW x \in Versions, SigningPrepare(v, x)
          PROVE  SignerRebuilds'
      <3> DEFINE mine == [[Absent EXCEPT !["source"] = v] EXCEPT !["build"] = x, !["launcher"] = x,
                                                                 !["runtime"] = x]
      <3>1. signer' = [at |-> "prepared", bundle |-> bundle, checkout |-> mine]
        BY <2>1 DEF SigningPrepare
      <3>2. DOMAIN mine = Parts
        BY DEF Absent
      <3> HIDE DEF mine
      <3>3. signer'.at = "prepared" /\ signer'.checkout = mine
        BY <3>1
      <3>4. signer' = [at |-> signer'.at, checkout |-> signer'.checkout, bundle |-> signer'.bundle]
        BY <3>1
      <3> QED
        BY <3>2, <3>3, <3>4 DEF SignerRebuilds
    <2>2. CASE FreezeCheckout
      <3> DEFINE mine == signer.checkout
      <3>1. /\ signer.at = "prepared" /\ mine["source"] = HostKit
            /\ signer' = [signer EXCEPT !.at = "review", !.checkout = SigningRebuild(mine)]
        BY <2>2 DEF FreezeCheckout, assertCheckout
      <3>2. /\ DOMAIN mine = Parts
            /\ signer = [at |-> signer.at, checkout |-> signer.checkout, bundle |-> signer.bundle]
        BY <3>1 DEF CandidateInv, SignerRebuilds
      <3>3. \A p \in {"source", "build", "launcher", "runtime"} : SigningRebuild(mine)[p] = HostKit
        <4> HIDE DEF mine
        <4>1. DOMAIN Purged(mine) = Parts /\ Purged(mine)["source"] = HostKit
          BY <3>1, <3>2 DEF Purged, Parts, Generated, GeneratedRoots, GeneratedFiles
        <4> QED
          BY <4>1 DEF SigningRebuild, Rebuilt, Parts, Generated, GeneratedRoots, GeneratedFiles
      <3>4. signer' = [at |-> "review", checkout |-> SigningRebuild(mine), bundle |-> signer.bundle]
        BY <3>1, <3>2
      <3> QED
        BY <3>3, <3>4 DEF SignerRebuilds
    <2>3. CASE signer' = SignerIdle
      BY <2>3 DEF SignerRebuilds, SignerIdle
    <2> QED
      BY <2>1, <2>2, <2>3 DEF SigningReview, SignerCrash
  <1>3. SignedIsReviewed'
    <2>1. CASE UNCHANGED signed
      BY <2>1 DEF CandidateInv, SignedIsReviewed
    <2>2. CASE ~UNCHANGED signed
      <3>1. /\ signer.at = "review"
            /\ signed' = signed \cup {signer.bundle.request}
            /\ extractSigningInputs(signer.bundle)
            /\ ReviewAccepts(signer.bundle, signer.checkout, "pinned")
        BY <2>2 DEF SigningPrepare, FreezeCheckout, SigningReview, SignerCrash
      <3>2. Reviewed(signer.bundle.request)
        BY <3>1, ReviewEstablishes DEF CandidateInv, SignerRebuilds
      <3> QED
        BY <3>1, <3>2 DEF CandidateInv, SignedIsReviewed
    <2> QED
      BY <2>1, <2>2
  <1>4. signed \subseteq signed'
    BY DEF SigningPrepare, FreezeCheckout, SigningReview, SignerCrash
  <1>5. SealIsReviewed' /\ SealIsFinished'
    BY <1>1, <1>4 DEF CandidateInv, SealIsReviewed, SealIsFinished, SealedTree
  <1>6. SealedRunsAreReviewed'
    BY <1>1, <1>4 DEF CandidateInv, SealedRunsAreReviewed, ExecutedIsReviewed, OnlyFinishedSealsRun
  <1> QED
    BY <1>2, <1>3, <1>5, <1>6 DEF CandidateInv

(* The copy that is sealed has the inventory of a signed request, and      *)
(* takes the place of the root only when that is gone.                     *)
LEMMA SealerStep ==
    ASSUME CandidateInv,
           \/ SealPrune \/ SealCopy \/ SealQuarantine \/ SealPublish
           \/ RetireQualificationTooling \/ SealerCrash
    PROVE  CandidateInv'
  <1>1. UNCHANGED <<signer, signed, execution, runner>>
    BY DEF SealPrune, SealCopy, SealQuarantine, SealPublish, RetireQualificationTooling, SealerCrash
  <1>2. SignedIsReviewed' /\ SignerRebuilds' /\ ExecutedIsReviewed' /\ (execution # None => ~execution.sealing)'
    BY <1>1 DEF CandidateInv, SignedIsReviewed, SignerRebuilds, SealedRunsAreReviewed, ExecutedIsReviewed,
                OnlyFinishedSealsRun
  <1>3. SealIsReviewed' /\ SealIsFinished'
    <2>1. CASE SealPrune
      <3>1. /\ owner = "operator" /\ owner' = owner /\ tooling' = tooling
            /\ candidate \in signed
            /\ sealer' = [at |-> "copy", copy |-> candidate] \/ (sealer' = sealer /\ sealer.at = "idle")
        BY <2>1 DEF SealPrune, verifyLauncherBinding
      <3>2. (sealer'.at = "copy" /\ sealer'.copy \in signed) \/ sealer'.at = "idle"
        BY <3>1
      <3> QED
        BY <1>1, <3>1, <3>2 DEF CandidateInv, SealIsReviewed, SealIsFinished
    <2>2. CASE SealCopy
      <3>1. /\ owner = "operator" /\ owner' = owner /\ tooling' = tooling /\ sealer.at = "copy"
            /\ \/ /\ sealer' = [at |-> "quarantine", copy |-> [tree |-> tree, candidate |-> candidate]]
                  /\ validateExecutionSealInventory(tree, sealer.copy)
               \/ sealer' = SealerIdle
        BY <2>2 DEF SealCopy, rootVars
      <3>2. \/ SealedTree(tree) /\ sealer'.at = "quarantine" /\ sealer'.copy.tree = tree
            \/ sealer'.at = "idle"
        BY <3>1 DEF CandidateInv, SealIsReviewed, SealedTree, SealerIdle
      <3>3. /\ SealedTree(sealer'.copy.tree) \/ sealer'.at = "idle"
            /\ sealer' = [at |-> sealer'.at, copy |-> sealer'.copy]
        BY <3>1, <3>2 DEF SealerIdle
      <3> QED
        BY <1>1, <3>1, <3>2, <3>3 DEF CandidateInv, SealIsReviewed, SealIsFinished, SealedTree
    <2>3. CASE SealQuarantine
      <3>1. /\ owner' = "nobody" /\ ~git' /\ request' = None /\ bundle' = None /\ tooling' = tooling
            /\ sealer.at = "quarantine" /\ sealer' = [sealer EXCEPT !.at = "publish"]
        BY <2>3 DEF SealQuarantine
      <3>2. sealer = [at |-> sealer.at, copy |-> sealer.copy]
        BY DEF CandidateInv, SealIsReviewed
      <3>3. sealer' = [at |-> "publish", copy |-> sealer.copy]
        BY <3>1, <3>2
      <3>4. SealedTree(sealer.copy.tree) /\ tooling /\ runner = None
        BY <3>1 DEF CandidateInv, SealIsReviewed, SealIsFinished
      <3> QED
        BY <1>1, <3>1, <3>3, <3>4 DEF SealIsReviewed, SealIsFinished, SealedTree
    <2>4. CASE SealPublish
      <3>1. /\ sealer.at = "publish" /\ tooling' = tooling /\ UNCHANGED <<git, request, bundle>>
            /\ \/ /\ owner = "nobody" /\ owner' = "root" /\ tree' = sealer.copy.tree
                  /\ sealer' = [at |-> "retire", copy |-> None]
               \/ sealer' = SealerIdle /\ UNCHANGED <<owner, tree>>
        BY <2>4 DEF SealPublish
      <3>2. sealer'.at \in {"retire", "idle"} /\ (sealer'.at = "retire" => owner' = "root")
            /\ sealer' = [at |-> sealer'.at, copy |-> sealer'.copy]
        BY <3>1 DEF SealerIdle
      <3>3. SealedTree(sealer.copy.tree) /\ tooling /\ runner = None
        BY <3>1 DEF CandidateInv, SealIsReviewed, SealIsFinished
      <3> QED
        BY <1>1, <3>1, <3>2, <3>3 DEF CandidateInv, SealIsReviewed, SealIsFinished, SealedTree
    <2>5. CASE RetireQualificationTooling \/ SealerCrash
      <3>1. /\ sealer' = SealerIdle /\ UNCHANGED <<tree, owner, git, request, bundle>>
            /\ tooling' = tooling \/ sealer.at = "retire"
        BY <2>5 DEF RetireQualificationTooling, SealerCrash, rootVars, docs
      <3>2. sealer'.at = "idle" /\ sealer' = [at |-> sealer'.at, copy |-> sealer'.copy]
        BY <3>1 DEF SealerIdle
      <3>3. tooling' = tooling \/ (tooling' = FALSE /\ owner = "root")
        BY <2>5, <3>1 DEF RetireQualificationTooling, SealerCrash, CandidateInv, SealIsFinished
      <3> QED
        BY <1>1, <3>1, <3>2, <3>3 DEF CandidateInv, SealIsReviewed, SealIsFinished, SealedTree
    <2> QED
      BY <2>1, <2>2, <2>3, <2>4, <2>5
  <1> QED
    BY <1>2, <1>3 DEF CandidateInv, SealedRunsAreReviewed, OnlyFinishedSealsRun, SealIsFinished

(* A process starts with credentials when the seal has ended. *)
LEMMA RunStep ==
    ASSUME CandidateInv, NEW env, Run(env)
    PROVE  CandidateInv'
  <1>1. /\ UNCHANGED <<tree, owner, git, request, bundle, tooling, signer, sealer, signed, execution>>
        /\ runner' = [capability |-> candidate, env |-> env, sealing |-> sealer.at # "idle"]
        /\ ~tooling
    BY DEF Run, RunAdmitted, rootVars, docs
  <1>2. ~runner'.sealing
    BY <1>1 DEF CandidateInv, SealIsFinished
  <1>3. SignedIsReviewed' /\ SignerRebuilds' /\ SealedRunsAreReviewed'
    BY <1>1 DEF CandidateInv, SignedIsReviewed, SignerRebuilds, SealedRunsAreReviewed, ExecutedIsReviewed,
                OnlyFinishedSealsRun
  <1>4. SealIsReviewed' /\ SealIsFinished'
    BY <1>1, <1>2 DEF CandidateInv, SealIsReviewed, SealIsFinished, SealedTree
  <1> QED
    BY <1>3, <1>4 DEF CandidateInv

(* What both entrypoints ask of the root that they run in. *)
LEMMA EntrypointChecks ==
    ASSUME NEW t, NEW c, NEW capability, NEW tools, NEW env, NEW signatures, NEW time,
           \/ BootstrapAdmits(t, c, capability, tools, env, signatures, time)
           \/ verifyBootstrapCandidateRuntime(t, c, capability, tools, signatures, time)
    PROVE  /\ c \in signatures /\ time - c.at <= MaxAge
           /\ c.bound["configuration"] = t["configuration"]
           /\ c.runtime = collectBootstrapRuntime(t, tools)
  BY DEF BootstrapAdmits, loadBootstrapCandidate, verifyBootstrapCandidateSignature, verifyBootstrapCandidate,
         verifyBootstrapCandidateRuntime, assertBootstrapRuntime

(* The entrypoint goes on in a sealed root, with a signed candidate that   *)
(* binds its configuration and the tools.                                  *)
LEMMA EnterStep ==
    ASSUME CandidateInv, NEW entrypoint \in {"bootstrap", "access-provisioner"}, Enter(entrypoint)
    PROVE  CandidateInv'
  <1> DEFINE e == [tree |-> tree, tools |-> toolchain, candidate |-> candidate, at |-> now,
                   sealing |-> runner.sealing]
  <1>1. /\ UNCHANGED <<tree, owner, git, request, bundle, tooling, signer, sealer, signed>>
        /\ runner # None /\ runner' = None
    BY DEF Enter, rootVars, docs
  <1>2. SignedIsReviewed' /\ SignerRebuilds'
    BY <1>1 DEF CandidateInv, SignedIsReviewed, SignerRebuilds
  <1>3. SealIsReviewed' /\ SealIsFinished'
    BY <1>1 DEF CandidateInv, SealIsReviewed, SealIsFinished, SealedTree
  <1>4. CASE UNCHANGED execution
    BY <1>1, <1>2, <1>3, <1>4 DEF CandidateInv, SealedRunsAreReviewed, ExecutedIsReviewed, OnlyFinishedSealsRun
  <1>5. CASE ~UNCHANGED execution
    <2>1. /\ execution' = e
          /\ \/ BootstrapAdmits(tree, candidate, runner.capability, toolchain, runner.env, signed, now)
             \/ verifyBootstrapCandidateRuntime(tree, candidate, runner.capability, toolchain, signed, now)
      BY <1>5 DEF Enter
    <2>2. /\ candidate \in signed /\ now - candidate.at <= MaxAge
          /\ candidate.bound["configuration"] = tree["configuration"]
          /\ candidate.runtime = collectBootstrapRuntime(tree, toolchain)
      BY <2>1, EntrypointChecks
    <2>3. toolchain = "pinned"
      <3>1. candidate.runtime = [tools |-> "pinned", closure |-> HostKit]
        BY <2>2 DEF CandidateInv, SignedIsReviewed, Reviewed
      <3>2. [tools |-> toolchain, closure |-> tree["runtime"]] = [tools |-> "pinned", closure |-> HostKit]
        BY <2>2, <3>1 DEF collectBootstrapRuntime
      <3> QED
        BY <3>2
    <2>4. owner = "root" /\ ~runner.sealing
      BY <1>1 DEF CandidateInv, SealIsFinished
    <2>5. /\ \A p \in Parts \ {"configuration", "access"} : tree[p] = HostKit
          /\ "contract" \notin Defects[tree["configuration"]]
          /\ tree["access"] = tree["configuration"]
      BY <2>4, SealedTreeIsReviewed DEF CandidateInv, SealIsReviewed
    <2>6. /\ e.tree = tree /\ e.tools = toolchain /\ e.candidate = candidate /\ e.at = now
          /\ e.sealing = runner.sealing
      OBVIOUS
    <2> HIDE DEF e
    <2>7. ExecutedIsReviewed'
      BY <1>1, <2>1, <2>2, <2>3, <2>5, <2>6 DEF ExecutedIsReviewed
    <2>8. OnlyFinishedSealsRun'
      BY <1>1, <2>1, <2>4, <2>6 DEF CandidateInv, SealedRunsAreReviewed, OnlyFinishedSealsRun
    <2> QED
      BY <1>2, <1>3, <2>7, <2>8 DEF CandidateInv, SealedRunsAreReviewed
  <1> QED
    BY <1>4, <1>5

(* Starting over leaves nothing behind but what was signed and executed. *)
LEMMA ReinstallStep ==
    ASSUME CandidateInv, Reinstall
    PROVE  CandidateInv'
  <1>1. /\ owner' = "nobody" /\ git' = FALSE /\ request' = None /\ bundle' = None /\ tooling' = TRUE
        /\ UNCHANGED <<signer, sealer, runner, signed, execution>>
        /\ sealer.at = "idle" /\ runner = None
    BY DEF Reinstall, actors
  <1>2. SignedIsReviewed' /\ SignerRebuilds' /\ SealedRunsAreReviewed'
    BY <1>1 DEF CandidateInv, SignedIsReviewed, SignerRebuilds, SealedRunsAreReviewed, ExecutedIsReviewed,
                OnlyFinishedSealsRun
  <1>3. SealIsReviewed' /\ SealIsFinished'
    BY <1>1 DEF CandidateInv, SealIsReviewed, SealIsFinished
  <1> QED
    BY <1>2, <1>3 DEF CandidateInv

(* Every step of the operator, the signer, the sealer, the runner and of   *)
(* the world around them keeps the invariant.                              *)
LEMMA CandidateInvStep == CandidateInv /\ [NextCandidate]_candidateVars => CandidateInv'
  <1> SUFFICES ASSUME CandidateInv, [NextCandidate]_candidateVars
               PROVE  CandidateInv'
    OBVIOUS
  <1>1. ASSUME NEW checkout \in Checkouts, PrepareExecution(checkout)
        PROVE  CandidateInv'
    BY <1>1, OperatorStep DEF PrepareExecution, actors
  <1>2. ASSUME NEW p \in Parts, NEW v \in Versions, Edit(p, v)
        PROVE  CandidateInv'
    BY <1>2, OperatorStep DEF Edit, actors
  <1>3. ASSUME NEW x \in Toolchains, ReplaceTools(x)
        PROVE  CandidateInv'
    BY <1>3, OperatorStep DEF ReplaceTools, actors, docs
  <1>4. ASSUME NEW env \in SUBSET Ambient, QualifyStart(env) \/ QualifyReady(env) \/ FinalizeStart(env)
        PROVE  CandidateInv'
    BY <1>4, OperatorStep DEF QualifyStart, QualifyReady, FinalizeStart, rootVars
  <1>5. CASE RunGates \/ GatesReport \/ QualifyCollect \/ QualifyPublish \/ writeSigningReviewBundle
               \/ FinalizeWrite
    BY <1>5, OperatorStep DEF RunGates, GatesReport, QualifyCollect, QualifyPublish,
                              writeSigningReviewBundle, FinalizeWrite, rootVars
  <1>6. CASE OperatorCrash \/ Tick
    BY <1>6, OperatorStep DEF OperatorCrash, Tick, rootVars, docs, actors
  <1>7. ASSUME NEW env \in SUBSET Ambient, SigningReview(env)
        PROVE  CandidateInv'
    BY <1>7, SignerStep
  <1>8. CASE (\E v, x \in Versions : SigningPrepare(v, x)) \/ FreezeCheckout \/ SignerCrash
    BY <1>8, SignerStep
  <1>9. CASE SealPrune \/ SealCopy \/ SealQuarantine \/ SealPublish \/ RetireQualificationTooling
               \/ SealerCrash
    BY <1>9, SealerStep
  <1>10. ASSUME NEW env \in SUBSET Ambient, Run(env)
         PROVE  CandidateInv'
    BY <1>10, RunStep
  <1>11. ASSUME NEW entrypoint \in {"bootstrap", "access-provisioner"}, Enter(entrypoint)
         PROVE  CandidateInv'
    BY <1>11, EnterStep
  <1>12. CASE Reinstall
    BY <1>12, ReinstallStep
  <1>13. CASE UNCHANGED candidateVars
    BY <1>13, OperatorStep DEF candidateVars, rootVars, docs, actors
  <1> QED
    BY <1>1, <1>2, <1>3, <1>4, <1>5, <1>6, <1>7, <1>8, <1>9, <1>10, <1>11, <1>12, <1>13 DEF NextCandidate

(***************************************************************************)
(* Credentials reach only what the independent signer reproduced from the  *)
(* host kit, part by part, in a seal that was finished, whatever the       *)
(* operator edits between two checks, whoever replaces the tools and       *)
(* wherever qualification, review or sealing dies (the chain from          *)
(* qualify-bootstrap-candidate to the entrypoints behind stage 1).         *)
(***************************************************************************)
THEOREM SealedRunsStayReviewed == SpecCandidate => []SealedRunsAreReviewed
  <1>1. CandidateInv => SealedRunsAreReviewed
    BY DEF CandidateInv
  <1> QED
    BY <1>1, CandidateInvInit, CandidateInvStep, PTL DEF SpecCandidate

=============================================================================

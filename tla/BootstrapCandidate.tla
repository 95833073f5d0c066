------------------------ MODULE BootstrapCandidate ------------------------
(***************************************************************************)
(* How a bootstrap candidate is qualified, reviewed on another host,       *)
(* finalized, sealed and executed: scripts/qualify-bootstrap-candidate,    *)
(* run-local-gates, bootstrap-signing-stage0, finalize-bootstrap-candidate,*)
(* credentialed-bootstrap-stage1 and the native launcher of                *)
(* cmd/deus-aws-bootstrap.  The checks they make are in BootstrapChecks;   *)
(* here is when they are made, and what can change in between.             *)
(***************************************************************************)
EXTENDS BootstrapChecks

CONSTANTS
    Checkouts,  \* the sources and configurations an operator starts from
    MaxFaults   \* bound on changes to the root and the tools, crashes and days

ASSUME CheckoutsAssumption == Checkouts \subseteq Versions \X Versions
ASSUME BoundsAssumption == MaxFaults \in Nat

None == [kind |-> "none"]
Absent == [p \in Parts |-> "absent"]

VARIABLES
    tree,       \* what the execution root holds
    owner,      \* who owns it: "nobody" (no root), "operator" or "root"
    git,        \* the root still has its Git metadata
    toolchain,  \* what is installed outside the root
    request,    \* artifacts/bootstrap-candidate.unsigned.json
    bundle,     \* artifacts/bootstrap-signing-review-bundle.json
    candidate,  \* artifacts/bootstrap-candidate.json
    tooling,    \* the qualification-only tooling is installed
    operator,   \* the operator's process: its program counter and what it read
    signer,     \* the signer host: phase, checkout and the bundle it consumed
    signed,     \* the requests whose digest the signer signed
    sealer,     \* the administrator's seal-execution and its staging copy
    runner,     \* the credentialed process: stage 1's capability, or none
    execution,  \* the last credentialed execution
    now,
    faults,     \* changes, crashes and days so far
    crashed     \* a process died

docs == <<request, bundle, candidate>>
rootVars == <<tree, owner, git, toolchain>>
bounds == <<now, faults, crashed>>
actors == <<operator, signer, sealer, runner>>
candidateVars == <<rootVars, docs, tooling, actors, signed, execution, bounds>>

OperatorIdle == [at |-> "idle", source |-> None, seen |-> None]
SignerIdle == [at |-> "idle", checkout |-> Absent, bundle |-> None]
SealerIdle == [at |-> "idle", copy |-> None]

InitCandidate ==
    /\ tree = Absent /\ owner = "nobody" /\ git = FALSE
    /\ toolchain = "pinned"
    /\ request = None /\ bundle = None /\ candidate = None
    /\ tooling = TRUE
    /\ operator = OperatorIdle /\ signer = SignerIdle /\ sealer = SealerIdle
    /\ runner = None
    /\ signed = {}
    /\ execution = None
    /\ now = 0 /\ faults = 0 /\ crashed = FALSE

-----------------------------------------------------------------------------
\* The operator's host

\* prepare-execution into an empty directory, then
\* prepare-qualified-execution-root: a clean checkout with the operator's
\* configuration, its dependencies and plugins, and the access bundle
\* rendered from that configuration.
PrepareExecution(checkout) ==
    /\ owner = "nobody" /\ tooling /\ operator = OperatorIdle
    /\ owner' = "operator" /\ git' = TRUE
    /\ tree' = [Absent EXCEPT !["source"] = checkout[1], !["runtime"] = checkout[1],
                              !["configuration"] = checkout[2],
                              !["access"] = createManagementSeedAccessBundle(checkout[2])]
    /\ UNCHANGED <<toolchain, docs, tooling, actors, signed, execution, bounds>>

\* Anyone who runs as the operator may change a part of the root that is
\* there; what is not will be written over when it is generated.
Edit(p, v) ==
    /\ owner = "operator" /\ faults < MaxFaults
    /\ tree[p] \notin {"absent", v}
    /\ tree' = [tree EXCEPT ![p] = v]
    /\ faults' = faults + 1
    /\ UNCHANGED <<owner, git, toolchain, docs, tooling, actors, signed, execution, now, crashed>>

\* An administrator may replace the tools on the host, at any time.
ReplaceTools(x) ==
    /\ faults < MaxFaults /\ toolchain # x
    /\ toolchain' = x
    /\ faults' = faults + 1
    /\ UNCHANGED <<tree, owner, git, docs, tooling, actors, signed, execution, now, crashed>>

\* The first look: no credentials, pinned tools, a clean committed source.
QualifyStart(env) ==
    /\ owner = "operator" /\ tooling /\ operator.at = "idle"
    /\ assertCredentialFreeEnvironment(env) /\ assertSafeBootstrapEnvironment(env)
    /\ assertPinnedTools(toolchain)
    /\ managementSeedSourceState(tree, git)
    /\ operator' = [OperatorIdle EXCEPT !.at = "gates", !.source = tree["source"]]
    /\ UNCHANGED <<rootVars, docs, tooling, signer, sealer, runner, signed, execution, bounds>>

\* run-local-gates: npm ci, static contracts, unit tests, audit and SBOM
\* leave a build, a launcher, a runtime closure and two evidence documents
\* of the source as it is while they run, if its review is in order ...
RunGates ==
    /\ operator.at = "gates" /\ owner = "operator"
    /\ IF validateAdversarialReviewDisposition(tree["source"])
       THEN /\ tree' = [p \in Parts |->
                          IF p \in {"build", "launcher", "runtime", "contracts", "sbom"}
                          THEN tree["source"] ELSE tree[p]]
            /\ operator' = [operator EXCEPT !.at = "report"]
       ELSE /\ operator' = OperatorIdle
            /\ UNCHANGED tree
    /\ UNCHANGED <<owner, git, toolchain, docs, tooling, signer, sealer, runner, signed, execution, bounds>>

\* ... and report on the source they started from, if that is what is there.
GatesReport ==
    /\ operator.at = "report" /\ owner = "operator"
    /\ IF managementSeedSourceState(tree, git) /\ tree["source"] = operator.source
       THEN /\ tree' = [tree EXCEPT !["gates"] = operator.source]
            /\ operator' = [operator EXCEPT !.at = "ready"]
       ELSE /\ operator' = OperatorIdle
            /\ UNCHANGED tree
    /\ UNCHANGED <<owner, git, toolchain, docs, tooling, signer, sealer, runner, signed, execution, bounds>>

\* The trust root, the offline doctor and the configuration's contract; the
\* gate report binds the source of the first look; generate-release-evidence
\* writes the release evidence.
QualifyReady(env) ==
    /\ operator.at = "ready" /\ owner = "operator"
    /\ assertCredentialFreeEnvironment(env)
    /\ IF /\ loadQualificationTrust(tree["source"])
          /\ verifyOfflineBootstrapReadiness(tree, env)
          /\ assertManagementSeedConfigurationDocument(tree["configuration"])
          /\ managementSeedSourceState(tree, git) /\ tree["source"] = operator.source
          /\ tree["gates"] = operator.source
          /\ GeneratorAccepts(tree)
       THEN /\ tree' = [tree EXCEPT !["release"] = tree["source"]]
            /\ operator' = [operator EXCEPT !.at = "collect"]
       ELSE /\ operator' = OperatorIdle
            /\ UNCHANGED tree
    /\ UNCHANGED <<owner, git, toolchain, docs, tooling, signer, sealer, runner, signed, execution, bounds>>

\* Everything is hashed into the candidate subject.
QualifyCollect ==
    /\ operator.at = "collect" /\ owner = "operator"
    /\ IF assertPinnedTools(toolchain) /\ bootstrapRuntimeProvenanceBinding(toolchain)
       THEN operator' = [operator EXCEPT !.at = "publish", !.seen = CandidateSubject(tree, toolchain, now)]
       ELSE operator' = OperatorIdle
    /\ UNCHANGED <<rootVars, docs, tooling, signer, sealer, runner, signed, execution, bounds>>

\* Everything is read once more before the request is written.
QualifyPublish ==
    /\ operator.at = "publish" /\ owner = "operator"
    /\ IF /\ FinalStateHolds(tree, git, toolchain, operator.seen)
          /\ operator.seen.bound["source"] = operator.source
       THEN /\ request' = operator.seen
            /\ operator' = [operator EXCEPT !.at = "bundle"]
       ELSE /\ operator' = OperatorIdle
            /\ UNCHANGED request
    /\ UNCHANGED <<rootVars, bundle, candidate, tooling, signer, sealer, runner, signed, execution, bounds>>

\* The files are read again for the bundle, as they are now.
writeSigningReviewBundle ==
    /\ operator.at = "bundle" /\ owner = "operator"
    /\ bundle' = [request |-> operator.seen, files |-> [p \in GeneratedFiles |-> tree[p]]]
    /\ operator' = OperatorIdle
    /\ UNCHANGED <<rootVars, request, candidate, tooling, signer, sealer, runner, signed, execution, bounds>>

\* finalize-bootstrap-candidate checks, removes the confidential bundle ...
FinalizeStart(env) ==
    /\ owner = "operator" /\ operator.at = "idle"
    /\ assertSafeBootstrapEnvironment(env)
    /\ request # None /\ bundle # None
    /\ request \in signed
    /\ FinalizeAccepts(tree, git, toolchain, request)
    /\ bundle' = None
    /\ operator' = [OperatorIdle EXCEPT !.at = "finalize", !.seen = request]
    /\ UNCHANGED <<rootVars, request, candidate, tooling, signer, sealer, runner, signed, execution, bounds>>

\* ... and writes the signed candidate.
FinalizeWrite ==
    /\ operator.at = "finalize" /\ owner = "operator"
    /\ candidate' = operator.seen
    /\ operator' = OperatorIdle
    /\ UNCHANGED <<rootVars, request, bundle, tooling, signer, sealer, runner, signed, execution, bounds>>

-----------------------------------------------------------------------------
\* The signer's host, with a toolchain of its own

\* runSigningReviewService: the bundle has been brought over, into a place
\* that only root can write.  The checkout is accepted when it is the host
\* kit's; the gates then run as the signer and may leave anything (a version
\* x) in what they build.
SigningPrepare(v, x) ==
    /\ signer.at = "idle" /\ bundle # None
    /\ assertManifestEnvelope(HostKit)
    /\ LET mine == [Absent EXCEPT !["source"] = v] IN
       /\ assertPristineCheckout(mine) /\ assertCheckout(mine)
       /\ signer' = [at |-> "prepared", bundle |-> bundle,
                     checkout |-> [mine EXCEPT !["build"] = x, !["launcher"] = x, !["runtime"] = x]]
    /\ UNCHANGED <<rootVars, docs, tooling, operator, sealer, runner, signed, execution, bounds>>

\* Everything that is not source is purged, the checkout is verified again,
\* and build, launcher and runtime are made anew.
SigningRebuild(mine) == Rebuilt(Purged(mine))

\* The root parent freezes that tree before the bundle is read at all.
FreezeCheckout ==
    /\ signer.at = "prepared"
    /\ assertCheckout(signer.checkout)
    /\ signer' = [signer EXCEPT !.at = "review", !.checkout = SigningRebuild(signer.checkout)]
    /\ UNCHANGED <<rootVars, docs, tooling, operator, sealer, runner, signed, execution, bounds>>

\* Stage 0 and the review, and the signature of the digest they report.
SigningReview(env) ==
    /\ signer.at = "review"
    /\ assertCredentialFree(env)
    /\ signed' = IF /\ assertCheckout(signer.checkout)
                    /\ extractSigningInputs(signer.bundle)
                    /\ ReviewAccepts(signer.bundle, signer.checkout, "pinned")
                 THEN signed \cup {signer.bundle.request} ELSE signed
    /\ signer' = SignerIdle
    /\ UNCHANGED <<rootVars, docs, tooling, operator, sealer, runner, execution, bounds>>

-----------------------------------------------------------------------------
\* Sealing, one step per change that a crash can leave behind

\* Git metadata, the unsigned request and what only qualification needs are
\* removed, whatever the inventory check says afterwards.
pruneQualificationOnly == git' = FALSE /\ request' = None

\* The confidential review bundle is never copied.
copySealedTree == bundle = None

\* verifyLauncherBinding and prepareExecutionTreeForSeal: no process of the
\* operator, the qualification-only files pruned, the bundle gone, the
\* inventory exact.
SealPrune ==
    /\ sealer.at = "idle" /\ owner = "operator" /\ operator.at = "idle"
    /\ candidate # None /\ verifyLauncherBinding(tree, candidate, toolchain, signed, now)
    /\ pruneQualificationOnly
    /\ IF copySealedTree /\ validateExecutionSealInventory(tree, candidate)
       THEN sealer' = [at |-> "copy", copy |-> candidate]
       ELSE UNCHANGED sealer
    /\ UNCHANGED <<tree, owner, toolchain, bundle, candidate, tooling, operator, signer, runner, signed,
                   execution, bounds>>

\* copySealedTree refuses the bundle; the copy is validated against the
\* inventory captured before, not against the one it holds.
SealCopy ==
    /\ sealer.at = "copy" /\ owner = "operator"
    /\ IF /\ copySealedTree
          /\ validateExecutionSealInventory(tree, sealer.copy)
          /\ candidate # None /\ verifyLauncherBinding(tree, candidate, toolchain, signed, now)
       THEN sealer' = [at |-> "quarantine", copy |-> [tree |-> tree, candidate |-> candidate]]
       ELSE sealer' = SealerIdle
    /\ UNCHANGED <<rootVars, docs, tooling, operator, signer, runner, signed, execution, bounds>>

\* The mutable root is renamed away ...
SealQuarantine ==
    /\ sealer.at = "quarantine"
    /\ owner' = "nobody" /\ tree' = Absent /\ git' = FALSE
    /\ request' = None /\ bundle' = None /\ candidate' = None
    /\ operator' = OperatorIdle
    /\ sealer' = [sealer EXCEPT !.at = "publish"]
    /\ UNCHANGED <<toolchain, tooling, signer, runner, signed, execution, bounds>>

\* ... the copy takes its place, its outputs go to the runtime identity ...
SealPublish ==
    /\ sealer.at = "publish"
    /\ IF owner = "nobody"
       THEN /\ owner' = "root" /\ tree' = sealer.copy.tree /\ candidate' = sealer.copy.candidate
            /\ sealer' = [at |-> "retire", copy |-> None]
       ELSE /\ sealer' = SealerIdle
            /\ UNCHANGED <<owner, tree, candidate>>
    /\ UNCHANGED <<git, toolchain, request, bundle, tooling, operator, signer, runner, signed, execution, bounds>>

\* ... and the qualification-only tooling is removed.
RetireQualificationTooling ==
    /\ sealer.at = "retire"
    /\ tooling' = FALSE
    /\ sealer' = SealerIdle
    /\ UNCHANGED <<rootVars, docs, operator, signer, runner, signed, execution, bounds>>

-----------------------------------------------------------------------------
\* run: a root-owned root, no qualification tooling left, one service.
RunAdmitted == owner = "root" /\ ~tooling

\* The launcher confines itself to the bound system runtime, once nothing in
\* the root asks for more than that, and starts stage 1, which verifies the
\* root and leaves a capability for its entrypoint.
Run(env) ==
    /\ RunAdmitted /\ runner = None /\ candidate # None
    /\ loadBoundSystemRuntimeClosure(toolchain) /\ validateExecutionELFClosure(tree)
    /\ StageOneAccepts(tree, candidate, toolchain, env, signed, now)
    /\ runner' = [capability |-> candidate, env |-> env, sealing |-> sealer.at # "idle"]
    /\ UNCHANGED <<rootVars, docs, tooling, operator, signer, sealer, signed, execution, bounds>>

\* The entrypoint that stage 1 imported verifies again and, if it may, goes
\* on with the credentials at hand.
Enter(entrypoint) ==
    /\ runner # None
    /\ runner' = None
    /\ execution' =
           IF /\ candidate # None
              /\ \/ /\ entrypoint = "bootstrap"
                    /\ BootstrapAdmits(tree, candidate, runner.capability, toolchain, runner.env, signed, now)
                 \/ /\ entrypoint = "access-provisioner"
                    /\ verifyBootstrapCandidateRuntime(tree, candidate, runner.capability, toolchain, signed, now)
           THEN [tree |-> tree, tools |-> toolchain, candidate |-> candidate, at |-> now,
                 sealing |-> runner.sealing]
           ELSE execution
    /\ UNCHANGED <<rootVars, docs, tooling, operator, signer, sealer, signed, bounds>>

-----------------------------------------------------------------------------
\* Faults and the passing of time

OperatorCrash ==
    /\ operator.at # "idle" /\ faults < MaxFaults
    /\ operator' = OperatorIdle /\ faults' = faults + 1 /\ crashed' = TRUE
    /\ UNCHANGED <<rootVars, docs, tooling, signer, sealer, runner, signed, execution, now>>

\* The service dies after it consumed the bundle: nothing is signed.
SignerCrash ==
    /\ signer.at # "idle" /\ faults < MaxFaults
    /\ signer' = SignerIdle /\ faults' = faults + 1 /\ crashed' = TRUE
    /\ UNCHANGED <<rootVars, docs, tooling, operator, sealer, runner, signed, execution, now>>

\* What is on disk stays; the staging copy is never published.
SealerCrash ==
    /\ sealer.at # "idle" /\ faults < MaxFaults
    /\ sealer' = SealerIdle /\ faults' = faults + 1 /\ crashed' = TRUE
    /\ UNCHANGED <<rootVars, docs, tooling, operator, signer, runner, signed, execution, now>>

\* The administrator starts over: the root is emptied, the kit reinstalled.
Reinstall ==
    /\ owner \in {"operator", "root"} /\ sealer.at = "idle" /\ operator.at = "idle" /\ runner = None
    /\ crashed /\ faults < MaxFaults
    /\ owner' = "nobody" /\ tree' = Absent /\ git' = FALSE /\ toolchain' = "pinned"
    /\ request' = None /\ bundle' = None /\ candidate' = None
    /\ tooling' = TRUE /\ faults' = faults + 1
    /\ UNCHANGED <<actors, signed, execution, now, crashed>>

Tick ==
    /\ faults < MaxFaults
    /\ now' = now + 1 /\ faults' = faults + 1
    /\ UNCHANGED <<rootVars, docs, tooling, actors, signed, execution, crashed>>

NextCandidate ==
    \/ \E checkout \in Checkouts : PrepareExecution(checkout)
    \/ \E p \in Parts, v \in Versions : Edit(p, v)
    \/ \E x \in Toolchains : ReplaceTools(x)
    \/ \E env \in SUBSET Ambient :
          QualifyStart(env) \/ QualifyReady(env) \/ FinalizeStart(env) \/ SigningReview(env) \/ Run(env)
    \/ RunGates \/ GatesReport \/ QualifyCollect \/ QualifyPublish \/ writeSigningReviewBundle
    \/ FinalizeWrite
    \/ \E v, x \in Versions : SigningPrepare(v, x)
    \/ FreezeCheckout
    \/ SealPrune \/ SealCopy \/ SealQuarantine \/ SealPublish \/ RetireQualificationTooling
    \/ \E entrypoint \in {"bootstrap", "access-provisioner"} : Enter(entrypoint)
    \/ OperatorCrash \/ SignerCrash \/ SealerCrash \/ Reinstall
    \/ Tick

SpecCandidate == InitCandidate /\ [][NextCandidate]_candidateVars

-----------------------------------------------------------------------------
\* Whatever ran with credentials is, part by part, what the independent
\* signer reproduced from the host kit: the source, the build, the launcher,
\* the runtime and the pinned tools, evidence for that source, a
\* configuration that obeys its contract, and the access bundle of that very
\* configuration; and it ran within the candidate's day (the chain from
\* qualify-bootstrap-candidate to the entrypoints behind stage 1).
ExecutedIsReviewed ==
    execution # None =>
        LET e == execution IN
        /\ \A p \in Parts \ {"configuration", "access"} : e.tree[p] = HostKit
        /\ e.tools = "pinned"
        /\ "contract" \notin Defects[e.tree["configuration"]]
        /\ e.tree["access"] = e.tree["configuration"]
        /\ e.candidate \in signed
        /\ e.candidate.bound["configuration"] = e.tree["configuration"]
        /\ e.at - e.candidate.at <= MaxAge

\* Nothing runs while sealExecution is still at work, a sealed root keeps no
\* confidential review bundle, Git metadata or unsigned request, and only a
\* root with nothing left to retire runs.
OnlyFinishedSealsRun ==
    /\ execution # None => ~execution.sealing
    /\ owner = "root" => bundle = None /\ request = None /\ ~git

\* Credentials reach reviewed code only, in a finished seal only.
SealedRunsAreReviewed == ExecutedIsReviewed /\ OnlyFinishedSealsRun
=============================================================================

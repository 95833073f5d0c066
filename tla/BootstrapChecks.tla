-------------------------- MODULE BootstrapChecks --------------------------
(***************************************************************************)
(* What the programs of the management-seed bootstrap ask of an execution  *)
(* root, of the host and of each other's documents before they go on: one  *)
(* operator for each check of the scripts and of cmd/deus-aws-bootstrap.   *)
(* A root is a function from its parts to versions: a build, a launcher or *)
(* a dependency tree has the version of the source it was made from, an    *)
(* evidence document that of the source it reports on, the access bundle   *)
(* that of the configuration it was rendered from.  A digest stands for    *)
(* what it digests, and a check of paths, owners and modes for the fact    *)
(* that nobody else can write there.                                       *)
(***************************************************************************)
EXTENDS Naturals, FiniteSets

CONSTANTS
    Versions,   \* versions of the source and of the configuration
    Defects,    \* what is wrong with each version, per kind of check
    HostKit,    \* the version of the authenticated host kit on both hosts
    MaxAge      \* the 24 hours a candidate may be executed, in ticks

DefectKinds == {"onboarding", "stack", "contract", "access", "trust", "review", "closure"}

ASSUME VersionsAssumption == HostKit \in Versions
ASSUME DefectsAssumption == Defects \in [Versions -> SUBSET DefectKinds]
ASSUME AgeAssumption == MaxAge \in Nat

\* generatedRoots and generatedFiles, which the seal inventory lists, and
\* the parts that the candidate binds by a digest of its own.
GeneratedRoots == {"build", "runtime"}
GeneratedFiles == {"configuration", "contracts", "launcher", "gates", "access", "sbom", "release"}
Generated == GeneratedRoots \cup GeneratedFiles
Bound == {"source", "configuration", "build", "runtime", "launcher", "gates", "release"}
Parts == {"source"} \cup Generated

\* An installed toolchain is the authenticated one, one that says it is, or
\* one of another version.
Toolchains == {"pinned", "patched", "other"}
normalizedToolVersion(tools) == IF tools = "other" THEN "other" ELSE "pinned"

\* What an environment can carry: raw secrets, the loopback broker, a
\* variable that redirects a program or its provider, a proxy or a CA.
Ambient == {"raw", "broker", "override", "proxy"}

Sound(v, kind) == kind \notin Defects[v]

-----------------------------------------------------------------------------
\* Environments (qualify-bootstrap-candidate, run-local-gates,
\* verify-bootstrap-signing-review, bootstrap-runtime-integrity, stage 1)

assertCredentialFreeEnvironment(env) == env \cap {"raw", "broker"} = {}
GatesCredentialFree(env) == env \cap {"raw", "broker"} = {}
assertCredentialFree(env) == env \cap {"raw", "broker"} = {}
assertSafeBootstrapEnvironment(env) == "override" \notin env
assertSafeCredentialTransportEnvironment(env) == "proxy" \notin env
assertExportedAwsSession(env) == "raw" \notin env /\ "broker" \in env

\* Stage 1 has its own list of names, so that it imports nothing.
assertCredentialEnvironment(env) == env = {"broker"}

-----------------------------------------------------------------------------
\* The toolchain and the runtime closure

\* Exact versions, as the tools report them.
assertPinnedTools(tools) == normalizedToolVersion(tools) = "pinned"

\* The root-owned record of the installation has the hashes of the archives
\* it came from, of what is installed and of the system's own libraries.
bootstrapRuntimeProvenanceBinding(tools) == tools = "pinned"

\* Executables and installation directories, dependencies, policy pack and
\* plugin, each with its hash.
collectBootstrapRuntime(t, tools) == [tools |-> tools, closure |-> t["runtime"]]

\* Every byte is compared before a version probe starts.
assertBootstrapRuntime(t, tools, r) ==
    /\ collectBootstrapRuntime(t, tools) = r.runtime
    /\ assertPinnedTools(tools)

\* The versions a candidate states are those of the executables it binds.
assertCredentialedRuntimeToolBindings(r) == r.tools = normalizedToolVersion(r.runtime.tools)

-----------------------------------------------------------------------------
\* The seal inventory

collectBootstrapSealInventory(t) == [p \in Generated |-> t[p]]

assertBootstrapSealInventory(t, r) == collectBootstrapSealInventory(t) = r.inventory

\* The reviewer has no root of the operator: what is built comes from its
\* own checkout, what is generated from the bundle.
assertEmbeddedBootstrapSealInventory(mine, files, r) ==
    r.inventory = [p \in Generated |-> IF p \in GeneratedRoots THEN mine[p] ELSE files[p]]

-----------------------------------------------------------------------------
\* The source, its review and its configuration

\* A clean committed worktree within the qualification scope.
managementSeedSourceState(t, git) == git /\ t["source"] # "absent"

\* What a configuration lacks for the accounts, roles and policies that give
\* access to the management account.
managementSeedAccessConfigurationFailures(c) == IF Sound(c, "access") THEN {} ELSE {"access"}
assertManagementSeedAccessConfiguration(c) == managementSeedAccessConfigurationFailures(c) = {}

loadQualificationTrust(v) == Sound(v, "trust")
validateAdversarialReviewDisposition(v) == Sound(v, "review")
assertManagementSeedConfigurationDocument(c) == Sound(c, "contract")
checkOnboarding(c) ==
    Sound(c, "onboarding") /\ managementSeedAccessConfigurationFailures(c) = {}
checkManagementStack(c) == Sound(c, "stack")
checkCredentialEnvironment(env) == env \cap {"raw", "broker"} = {}
checkQualificationTrust(v) == Sound(v, "trust")
checkReviewDisposition(v) == Sound(v, "review")

\* bootstrap-doctor without credentials, as qualification runs it.
verifyOfflineBootstrapReadiness(t, env) ==
    /\ checkOnboarding(t["configuration"])
    /\ checkManagementStack(t["configuration"])
    /\ checkCredentialEnvironment(env)
    /\ checkQualificationTrust(t["source"])
    /\ checkReviewDisposition(t["source"])

\* The access bundle of a configuration names all of them; there is none of
\* a configuration that lacks one.
createManagementSeedAccessBundle(c) ==
    IF assertManagementSeedAccessConfiguration(c) THEN c ELSE "absent"

-----------------------------------------------------------------------------
\* Evidence

\* Each document is checked against a source: its digest, its inventory of
\* gates, schemas and packages, and every file it hashed.
verifyLocalGates(d, v) == d["gates"] = v /\ validateAdversarialReviewDisposition(v)
verifyContractValidation(d, v) == d["contracts"] = v
verifySbom(d, v) == d["sbom"] = v

\* The hashes that the release evidence keeps of the other three documents.
verifyBindings(d) == {d["gates"], d["contracts"], d["sbom"]} = {d["release"]}

\* generate-release-evidence writes only about documents that hold for the
\* source as it finds it.
GeneratorAccepts(t) ==
    /\ t["gates"] = t["source"] /\ validateAdversarialReviewDisposition(t["source"])
    /\ t["contracts"] = t["source"]
    /\ t["sbom"] = t["source"]

verifyManagementSeedReleaseEvidence(d, v) ==
    /\ d["release"] = v
    /\ verifyLocalGates(d, v)
    /\ verifyContractValidation(d, v)
    /\ verifySbom(d, v)
    /\ verifyBindings(d)

-----------------------------------------------------------------------------
\* The candidate subject, and a root against it

\* Everything that qualification hashes, and when it did.
CandidateSubject(t, tools, at) ==
    [bound |-> [p \in Bound |-> t[p]], runtime |-> collectBootstrapRuntime(t, tools),
     tools |-> normalizedToolVersion(tools), provenance |-> "pinned",
     inventory |-> collectBootstrapSealInventory(t), at |-> at]

\* The last look of qualification before it publishes.
FinalStateHolds(t, git, tools, r) ==
    /\ managementSeedSourceState(t, git)
    /\ \A p \in Bound \ {"runtime"} : t[p] = r.bound[p]
    /\ bootstrapRuntimeProvenanceBinding(tools)
    /\ assertBootstrapSealInventory(t, r)
    /\ assertBootstrapRuntime(t, tools, r)

\* finalize-bootstrap-candidate: onboarding and stack configuration as they
\* are now, under exactly two names.
currentConfiguration(t, r) == t["configuration"] = r.bound["configuration"]

\* finalize-bootstrap-candidate on a signed request.  It does not ask how
\* old the request is.
FinalizeAccepts(t, git, tools, r) ==
    /\ assertBootstrapRuntime(t, tools, r)
    /\ bootstrapRuntimeProvenanceBinding(tools)
    /\ managementSeedSourceState(t, git) /\ t["source"] = r.bound["source"]
    /\ t["build"] = r.bound["build"]
    /\ currentConfiguration(t, r)
    /\ \A p \in {"gates", "release", "launcher"} : t[p] = r.bound[p]
    /\ assertBootstrapSealInventory(t, r)

-----------------------------------------------------------------------------
\* The signer's host

\* bootstrap-signing-stage0: the checkout is the one of the host kit's
\* manifest, with a canonical history and nothing beside it.
assertManifestEnvelope(v) == v = HostKit
assertCheckout(mine) == mine["source"] = HostKit
assertPristineCheckout(mine) == \A p \in GeneratedRoots \cup {"launcher"} : mine[p] = "absent"

\* What clean, npm ci, the build scripts and the exact provider leave.
Rebuilt(mine) ==
    [mine EXCEPT !["build"] = mine["source"], !["launcher"] = mine["source"],
                 !["runtime"] = mine["source"]]

Purged(mine) == [mine EXCEPT !["build"] = "absent", !["launcher"] = "absent", !["runtime"] = "absent"]

\* The configuration embedded in the bundle is the one that the request
\* binds, and the request is for the host kit's revision.
extractSigningInputs(b) ==
    /\ b.request.bound["configuration"] = b.files["configuration"]
    /\ b.request.bound["source"] = HostKit

\* verify-bootstrap-signing-review: one digest per file, under its role.
bindFile(r, b, p) == r.bound[p] = b.files[p]

\* The embedded provenance describes the runtime that the request binds.
verifyRuntimeProvenance(r) == r.provenance = r.runtime.tools

\* The evidence embedded in the bundle, against the reviewer's checkout.
EmbeddedEvidenceHolds(files, mine) ==
    /\ files["gates"] = mine["source"] /\ validateAdversarialReviewDisposition(mine["source"])
    /\ files["contracts"] = mine["source"]
    /\ files["sbom"] = mine["source"]
    /\ verifyBindings(files)

\* The review: source, build, launcher, runtime, tools and inventory are
\* reproduced from the reviewer's own checkout, the configuration obeys its
\* contract, the evidence binds the source, and the access bundle is the one
\* that the configuration renders to.
ReviewAccepts(b, mine, tools) ==
    LET r == b.request IN
    /\ mine["source"] = r.bound["source"]
    /\ mine["build"] = r.bound["build"]
    /\ bindFile(r, b, "configuration")
    /\ assertManagementSeedConfigurationDocument(b.files["configuration"])
    /\ \A p \in {"gates", "release", "launcher"} : bindFile(r, b, p)
    /\ verifyRuntimeProvenance(r)
    /\ mine["launcher"] = r.bound["launcher"]
    /\ collectBootstrapRuntime(mine, tools) = r.runtime
    /\ assertEmbeddedBootstrapSealInventory(mine, b.files, r)
    /\ normalizedToolVersion(tools) = r.tools
    /\ bootstrapRuntimeProvenanceBinding(tools)
    /\ EmbeddedEvidenceHolds(b.files, mine)
    /\ assertManagementSeedAccessConfiguration(b.files["configuration"])
    /\ b.files["access"] = createManagementSeedAccessBundle(b.files["configuration"])

-----------------------------------------------------------------------------
\* The launcher, with the authority of root

\* A candidate of its own day, signed with the installed key, that binds the
\* launcher which is running and the Node that is installed.
verifyLauncherBinding(t, c, tools, signatures, now) ==
    /\ c \in signatures
    /\ now - c.at <= MaxAge
    /\ {c.bound["launcher"], t["launcher"]} = {HostKit}
    /\ c.runtime.tools = tools

\* Variant: the root's own files are trusted once it is sealed.
validateExecutionSealInventory_SourceOnly(t, c) == t["source"] = HostKit

\* Exactly the host kit's source and the files of the signed inventory.
validateExecutionSealInventory(t, c) ==
    /\ t["source"] = HostKit
    /\ \A p \in Generated : t[p] = c.inventory[p]

\* The system's loaders and libraries are those of the record of the
\* installation: programs that were patched in place leave them alone, an
\* installation of another version comes with its own.
loadBoundSystemRuntimeClosure(tools) == tools # "other"

\* Whatever candidate there is: the provider is the one dynamic executable of
\* the root, and it needs no loader or library beyond the bound ones.
validateExecutionELFClosure(t) == Sound(t["runtime"], "closure")

-----------------------------------------------------------------------------
\* credentialed-bootstrap-stage1

verifyCandidateSignature(c, signatures) == c \in signatures
assertCandidateFreshness(c, now) == now - c.at <= MaxAge
assertRunningNode(c, tools) == c.runtime.tools = tools
assertSourceTree(t, c) == t["source"] = c.bound["source"]
assertConfiguration(t, c) == t["configuration"] = c.bound["configuration"]
assertBuildBinding(t, c) == t["build"] = c.bound["build"]
assertRuntimeBytes(t, c, tools) == c.runtime = [tools |-> tools, closure |-> t["runtime"]]
assertRuntimeProvenance(c, tools) == c.provenance = tools

StageOneAccepts(t, c, tools, env, signatures, now) ==
    /\ assertCredentialEnvironment(env)
    /\ verifyCandidateSignature(c, signatures)
    /\ assertCandidateFreshness(c, now)
    /\ assertRunningNode(c, tools)
    /\ assertSourceTree(t, c)
    /\ assertConfiguration(t, c)
    /\ assertBuildBinding(t, c)
    /\ \A p \in {"gates", "release"} : t[p] = c.bound[p]
    /\ assertRuntimeBytes(t, c, tools)
    /\ assertRuntimeProvenance(c, tools)
    /\ {c.bound["launcher"], t["launcher"]} = {HostKit}

-----------------------------------------------------------------------------
\* The entrypoints check again what stage 1 handed to them.

\* bootstrap-main: the capability of stage 1 names this very candidate.
verifyBootstrapCandidateSignature(c, signatures) == c \in signatures
loadBootstrapCandidate(c, capability, signatures, now) ==
    /\ verifyBootstrapCandidateSignature(c, signatures)
    /\ now - c.at <= MaxAge
    /\ capability = c

verifyQualifiedEvidence(t, c) ==
    /\ {t["gates"], t["release"]} = {c.bound["source"]}
    /\ validateAdversarialReviewDisposition(c.bound["source"])

verifyBootstrapCandidate(t, c, tools, now) ==
    /\ now - c.at <= MaxAge
    /\ \A p \in {"source", "build", "configuration", "gates", "release"} : t[p] = c.bound[p]
    /\ verifyQualifiedEvidence(t, c)
    /\ assertBootstrapRuntime(t, tools, c)
    /\ c.tools = normalizedToolVersion(c.runtime.tools)

\* The roles it will assume are part of the access that a configuration gives.
assertManagementRoleArn(t) == managementSeedAccessConfigurationFailures(t["configuration"]) = {}

BootstrapAdmits(t, c, capability, tools, env, signatures, now) ==
    /\ assertSafeCredentialTransportEnvironment(env)
    /\ assertExportedAwsSession(env)
    /\ loadBootstrapCandidate(c, capability, signatures, now)
    /\ assertManagementRoleArn(t)
    /\ verifyBootstrapCandidate(t, c, tools, now)
    /\ assertManagementSeedConfigurationDocument(t["configuration"])
    /\ assertSafeBootstrapEnvironment(env)

\* bootstrap-candidate-runtime, for the access provisioner.
credentialedCapability(capability, c) == capability = c
verifyBootstrapCandidateRuntime(t, c, capability, tools, signatures, now) ==
    /\ credentialedCapability(capability, c)
    /\ c \in signatures
    /\ assertBootstrapSealInventory(t, c)
    /\ now - c.at <= MaxAge
    /\ assertBootstrapRuntime(t, tools, c)
    /\ \A p \in {"source", "configuration", "build", "gates", "release"} : t[p] = c.bound[p]
    /\ validateAdversarialReviewDisposition(c.bound["source"])
    /\ verifyManagementSeedReleaseEvidence(t, c.bound["source"])
    /\ assertCredentialedRuntimeToolBindings(c)
=============================================================================

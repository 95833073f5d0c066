# Verification of the control planes of secure-saas-infra

TLA+ modules, TLC configurations and TLAPS proofs about what has state in this
repository: the two durable reducers, the PaaS control state
(`src/core/paasControlState.ts`) and the resource broker
(`src/core/resourceBroker.ts`), and the hosts that keep their state; the
infrastructure controller and its protocol; the admission of deployments on signed
evidence; the PaaS gateway; blueprints under review and the plans made from them;
the bootstrap of the management account, from a working tree to an applied plan; and
the script that provisions the management-seed access and retires its provisioner.

    tlc -config PaasLifecycle.cfg MCPaasControlState     one run
    tlapm PaasControlStateProofs.tla                     the proofs of a module

## 1. The system

The repository compiles a security intent to cloud infrastructure and specifies
the control planes that operate it. Many of its lines are declarative: Pulumi
stacks, adapters, schemas. What has state and transitions, or decides about what
has, is this:

| Part | State | Operations | Hard about it |
|---|---|---|---|
| PaaS control state | jobs, tenant queues, idempotency records, redeemed capabilities, resource locks, deployments, one revision | enqueue, schedule, complete, cancel, acknowledge, sweep | callers, scheduler, workers and sweeper interleave; deadlines and clocks; late and repeated reports; fairness between tenants |
| PaaS authorization and intent | none of its own: reads redeemed capabilities, grants and the intent in force | authorizePaasRequest, evaluation of an intent | a decision is used later than it was made; the intent changes; requests are retried |
| Resource broker | claims with generation, lease, failure, outputs; idempotency records; redeemed capabilities; one revision | apply, cancel, delete; lease; complete, fail, drift, acknowledge, complete deletion | expiring leases, workers that report late, attempts across leases and failures, cancellation |
| Hosts of both | the stored snapshot | load, reduce, conditional write | racing writers, crashes, lost answers |
| Infrastructure controller and its protocol | capabilities, approvals; versions, operations, event chains, watch cursors | authorize, negotiate, request, watch, page | stale capability sets, approvals of plans that change, negotiation at a sunset, order across pages, cursors that expire |
| Cloud contexts, PostgreSQL access, admission | catalog, registry and hand-off in force; the store of redeemed evidence; decisions in a replica's memory | observe, sign, verify, redeem, admit | replicas race for one evidence, restart between redemption and decision, documents change underneath |
| Blueprints and managed databases | documents that are edited and migrated | load, evaluate, compile, render | properties of a whole graph that no single entry shows |
| Bootstrap scripts and launcher | the execution root, requests, bundles, candidates, signatures, seals; plans and reviews; the AWS organization | qualify, review, finalize, seal, run; preview, export, apply, recover | the root is writable until it is sealed; processes die between renames; a plan outlives what it was made for; attestations read an eventually consistent service |
| Management-seed access scripts | IAM roles and a change set in the cloud, receipt files | prepare, execute, retire, resume | a run may stop after any AWS call, runs overlap, IAM answers with old state |

The parts meet as follows. A caller's request goes to `authorizePaasRequest`,
which reads the redeemed capabilities and returns a decision; the decision is
passed to `enqueuePaasJob` or `cancelPaasJob`, which redeem the capability in the
same transition. The scheduler starts jobs, workers execute them and report
through `completePaasJob` or `acknowledgePaasJobCancellation`, the sweeper ends
what is overdue. Provider workers lease claims from the broker and report under
the fence token they were given. Both reducers are pure functions on a snapshot;
a host loads it, runs the reducer and writes the result on condition that the
revision is unchanged. What is deployed comes from a blueprint that passed the
policies; placements and databases are compiled from it into a catalog of cloud
contexts; observers sign evidence that a placement's dependencies are ready, and a
deployment is admitted on it. All of this runs in accounts that the bootstrap
creates: a candidate is qualified on one host, rebuilt and signed on another, sealed
under root, and only then given credentials, first to preview, and after a review
of the frozen plan to apply.

`PROJECT.json` lists every component, with the ones that are not modelled, and
every hazard with the property that covers it.

## 2. Modules

| Module | Models | Uses |
|---|---|---|
| `QueueOps` | `Array.filter` on queues and histories, without recursion | |
| `PaasControlState` | the PaaS reducer and its environment | `QueueOps` |
| `PaasScheduling` | the same with history variables for fairness and order | `PaasControlState` |
| `ResourceProvider` | requests, descriptors, plans and results of a provider, conformance, the fake provider | |
| `ResourceBroker` | the broker and its provider workers | `ResourceProvider` |
| `AtomicStore` | abstract: every command takes effect once, in one step | |
| `ConditionalStore` | hosts, clients and faults around compare-and-swap; refines `AtomicStore` | `AtomicStore` |
| `SeedLifecycle` | abstract: the stages of the account, one at a time and never back | |
| `SeedAccess` | runs of the access script, IAM, CloudFormation and receipts; refines `SeedLifecycle` | `SeedLifecycle` |
| `InfrastructureController` | parsing and authorization of infrastructure requests | |
| `InfrastructureProtocol` | negotiation, answers, event chain, pages, cursors | |
| `InfrastructureRequests` | clients, approvers, hosts and a store around the two | both |
| `OperationWatch` | racing event writers, a faulty network and a watcher | `InfrastructureProtocol` |
| `CloudContext`, `CloudContextVerification` | the catalog, its resolvers and evidence about it | |
| `PostgresAccess` | hand-off, access profile and evidence about a database | |
| `DeploymentAdmission` | observers and admission replicas | the three above |
| `PaasIntent`, `PaasAuthorization` | the intent's rules, the authorizer | `Violations` |
| `PaasGateway` | gateways between authorizer and reducer, retried requests | `PaasAuthorization` |
| `BlueprintSchema`, `BlueprintPolicies` | parsing, migration, graph, paths, entitlements, nine policies | `Violations` |
| `ReferenceBlueprints`, `ApplicationBlueprints` | the blueprints that are shipped | `BlueprintPolicies` |
| `BlueprintReview` | a document that is edited, loaded and compiled | `BlueprintPolicies` |
| `ManagedPostgres` | intents for databases and their migration | `BlueprintPolicies` |
| `CloudPlan` | catalogs compiled from blueprint and intent | `ManagedPostgres`, `CloudContext` |
| `BootstrapChecks` | every check of the bootstrap programs | |
| `BootstrapCandidate` | qualification, signing, sealing, execution | `BootstrapChecks` |
| `BootstrapApply` | preview, review, apply, recovery | |
| `MC...` | instances for TLC: capabilities, quotas, symmetry. `MCResourceBroker`, `MCInfrastructure` and `MCBootstrap` hold several specifications that share no variable; a behaviour explores one of them, its `part`, and a run names the parts it wants in `Explored` | |
| `PaasControlStateProofs` | theorems of `QueueOps`, `PaasControlState`, `PaasScheduling` | |
| `ResourceBrokerProofs` | theorems of `ResourceProvider`, `ResourceBroker` | |
| `AuthorizationProofs` | theorems of `InfrastructureRequests`, `DeploymentAdmission`, `PaasGateway` | |
| `BlueprintProofs` | theorems of `BlueprintReview`, `CloudPlan` | |
| `BootstrapProofs` | theorems of `BootstrapCandidate`, `BootstrapApply` | |
| other `...Proofs` | theorems of the module they are named after | |

A definition whose name ends in `_` and a word is a mutant: the definition that
follows it, changed the way a mistake in the code would change it. No
specification uses one; they show that each property can fail.

### PaasControlState

The eight snapshot variables are the fields of `PaasControlState`; absent
entries of its maps are `NoJob`, `NoRecord` or generation 0, and tenants are
numbered in the sorted order the scheduler uses. Commands are the actions of the
same name. `completePaasJob` is three actions, one for each of its outcomes
(`RetryPaasJob`, `FailPaasJob`, `SucceedPaasJob`), and `cancelPaasJob` two, for
queued and running jobs. `schedulePaasJobs` has a loop and is `ScheduleBegin`,
`ScheduleStart` for an iteration and `ScheduleEnd`; while it runs no other action
is enabled, as the reducer is one synchronous function. Rejections,
`DEDUPLICATED` and `NO_CHANGE` return the snapshot unchanged and are stuttering
steps. `stateInvariantError` is `StateInvariant`, which is both a guard of every
command, as in the code, and the invariant the runs check.

The environment is explicit: `Authorize` issues decisions from the snapshot it
reads, and they can be used at any later time, or twice; `ScheduleStart` makes a
worker begin the attempt; workers finish, crash, or are stopped by the cleanup
of a cancelled job, and their reports can be arbitrarily late. `MaxSkew` is how
far a stamp may lag behind true time, `Redelivery` whether a worker that got no
answer may submit a report again.

Data that is compared for equality only (payloads, keys, fingerprints) is model
values. Worker roles and actors are left out: a role is a function of the
operation, and a command with another one is refused without effect. Events are
a function of the transition and are left out.

### ResourceProvider and ResourceBroker

`ResourceProvider` is what a claim may ask for, what a provider declares, and what
`planWithResourceProvider` and `executeWithResourceProvider` take of an adapter's answers;
a string is what these checks see of it. `CheckedWorkIsTaken` compares the two sides: a
result that passed the worker's checks is one the broker takes. A worker of
`ResourceBroker` may report anything an adapter could answer, checked or not.

`claims` holds what transitions read of `ResourceClaimState`. `accepted` and
`tries` are history variables, `grants` is what workers remember of the leases
they were given: `Report` can be made with any of them at any time. A fence token
is the tuple of the fields whose SHA-256 the code takes. A replay of a mutation
returns the current claim and is a stuttering step.

### ConditionalStore and AtomicStore

A snapshot is the sequence of commands that led to it. `Reduce` and `RefuseStale`
are the checks both reducers make; `ReplayFirst` is their difference: the PaaS
reducer looks for the idempotency record before it compares the revision
(475-489), the broker after (1380-1391, then 1418). `Write` is the host's conditional
write, external to the repository and required by `docs/codefly-paas.md`
(194-198). The refinement mapping is `applied <- snapshot`.

### SeedAccess and SeedLifecycle

`runs` holds one execution of `provision-management-seed-access-main.mjs` per
terminal; `pc` is where it stands. One action is one AWS call, or a row of reads
whose order cannot matter (the module's header says why); the catch at the end of
the script is `End`, which leaves the cloud as it is. `iam` is the set of
restrictions and installations that were written, `vis` those every replica
shows: a read returns any set between the two, so answers may be old but never
invented. Receipts are the three files the script writes. The read-back after
an operation is a read of role and boundary (`ReadRole`), then of policies
(`ReadPolicies`), repeated from its first call up to `MaxAttempts` times.
`Stage` maps all this to the abstract lifecycle: foundation, prepared,
installing, deployed, attested, bounded, stripped, retired.

CloudFormation and IAM are external. CloudFormation installs the two policies in
any order and may fail half-way; a repeated create or execute with the same
client token is taken for a repetition or refused.

### InfrastructureController, InfrastructureProtocol, InfrastructureRequests

The evaluator of `authorizeInfrastructureControllerRequest` is a set of reasons,
empty when the request is allowed; `ApprovalsParse` and the other parser predicates
stand before it as in the code. `InfrastructureRequests` adds what surrounds it: a
plan is computed, and computed again (`StorePlan`), principals approve, a host
evaluates a request against the sets it read and commits it later. The store is not in
the repository; that redemption and operation are stored in one step is what
`docs/codefly-paas.md:163` asks of it. A client negotiates a version with servers
whose policies differ in order and sunsets. Two remarks: `rejectInfrastructureOperation`
(656-669) accepts any delay of at least one second while the parser of answers
(596-598) accepts at most 86,400, so a host has to stay below it (`RetryDelays`
does, which `DelaysAssumption` states); and negotiation refuses for the sunset of the version it prefers, although
another may be common (`SunsetFollowsPreference` says exactly when).

### OperationWatch

Writers append to one chain per operation by compare-and-swap
(`docs/infrastructure-controller-protocol.md`), with `createInfrastructureOperationEvent`
as the check. A watcher asks for pages with cursors; answers are kept in flight,
repeated, delivered late or lost; cursors expire, and the watcher starts over with
nothing. A digest is the chain it covers.

### CloudContext ... DeploymentAdmission

Catalogs, registries, hand-offs and profiles are documents proposed by name; the
ones in force change among those the parsers accept. An observer resolves references
(all are authorized, `DispatchAuthorized`, before the first resolver is called) and signs evidence. A
replica verifies it against the documents of that moment, redeems it in the shared
store and keeps the decision in memory; the two are separate steps and the replica
may restart in between, which burns the evidence. Time is in half seconds and a time stamp
keeps the form it is written in: the admission's `sort()[0]` compares texts, and is
the earliest time because its parser requires the long form. Evidence written with whole
seconds is redeemed but can never be admitted. By design a decision is not one-use
for admission, a revocation or a changed catalog takes effect when it expires,
and an observation says "ready" whatever the catalog's status phase says
(`docs/cloud-contexts.md:25-50`).

### PaasIntent, PaasAuthorization, PaasGateway

`authorizePaasRequest` is the set of its reason codes. `PaasGateway` follows a
request from the decision to the reducer: gateways crash in between, answers are
lost, requests come again with the same or a fresh capability, the intent changes.
Of the control state it keeps the idempotency records and redeemed capabilities.
`PaasIntents` holds intents that set different limits on the lifetime of a capability. Remarks: on an endpoint with access mode `rbac` the capability is not evaluated, yet a
one-use one is still handed to the reducer for redemption (384-386); a `DEDUPLICATED`
answer does not redeem the retry's fresh capability.

### Blueprints and plans

A list is a set of records, an optional value a set of at most one. The nine
policies are sets of violation codes; `findNetworkPaths`, `reachableIdentities` and
the entitlements are the code's algorithms, and `NetworkIsContained` and
`AccessIsIsolated` compare their verdicts with reference definitions (walks in the
flow relation, closure of assumption) on documents that are edited step by step.
`NetworkIsContained` speaks of walks of several hops, as `transitiveNetworkPolicy`
does: a single unbrokered hop from execution to data that is the inner hop of a
longer flow is reported by neither network policy (`policy.ts:70-77`), which
`docs/cloud-neutral-backlog.md:461` ("Detect bypass paths that are not obvious
from a single edge") leaves open. Exceptions are looked at when a blueprint is
compiled, not when they expire. `CloudPlan` compiles catalogs from the shipped application
blueprint and an intent for databases that authors amend and migrate; two bindings
may share a migration identity, which nothing forbids. The choice of "the first
untrusted plane" depends on the order of a list and is nondeterministic.

### BootstrapChecks, BootstrapCandidate, BootstrapApply

A root is a function from its parts (source, build, launcher, runtime, evidence,
configuration, access bundle, ...) to versions; each check of the scripts and of
the launcher is one operator on it. `BootstrapCandidate` says when they are made:
the qualification identity may change parts between any two steps until
`SealQuarantine` takes the root away; host tools may be replaced; every process may
die. Sealing compares a root with its candidate and the host's Node with the one the
candidate binds; what the executables of the root load is compared with the bound
system runtime only when a mode is run (`Run`).

`BootstrapApply` is a sealed root with credentials: preview, export of the
plan for review, the reviewer, apply, the attestations around it (bounded retries,
a bounded number of credentials) and the read-only recovery, which has an entrypoint of
its own: the launcher refuses a session with a Pulumi token there and one
without it for preview and apply. `ReviewFields` is the set of
fields the launcher's `planReviewManifest` can decode. The constant is there because the launcher as
it stands decodes fewer than every preview writes (`PlanReview`, below), so that **the program
as it stands freezes no plan, applies none and never recovers**. What the run
`Bootstrap` checks of apply and recovery is therefore checked with the fields of the published
schema, of a launcher that differs from this one in that struct only; the theorems hold for both sets,
with the launcher's own because nothing is ever applied.

What the model shows besides its properties: finalization removes the review
bundle before it writes the candidate (`finalize-bootstrap-candidate.mjs:161`), so a
crash there forces another qualification; a crash of the sealer after its second rename
and before tooling is retired leaves a root that neither `seal` nor `run` accepts,
and the root is set up again; after a candidate's 24 hours neither apply nor recovery starts,
and a new candidate cannot recover for the old one, the exception
`OrganizationIsAccountedFor` makes.

## 3. Runs

| Run | Expect | Checks |
|---|---|---|
| `PaasLifecycle` | pass, fair | two jobs (build and deploy) and a cancellation on one resource, two attempts, crashes, all outcomes: snapshot invariant, exact idempotency, one worker per lock, limits, finality; every job ends, every lock comes back |
| `PaasReleases` | pass | four deploys and rollbacks of three artifacts, history of one, deadlines two units away: snapshot invariant, generations, history, rollback targets |
| `PaasFairness` | pass | two tenants and one slot, three jobs with retries, cancellation and expiry: the limit, bounded bypass, order of arrival |
| `PaasClockSkew` | violation | `StateInvariant` with a scheduler whose clock is one unit behind |
| `PaasRedelivery` | violation | `WorkersHoldTheirLock` with a report submitted twice |
| `Broker` | pass, fair | two parts. Broker: one claim, two generations, three mutations, takeovers: `BrokerStateValid`, late-worker denial (`ClaimsShowCurrentWork`), one-use capabilities, fences; pending claims are served, reconciliation ends or lapses. Store: three hosts, two commands, two faults, the broker's order of checks: `RefinesAtomicStore`, `AnswersAreTrue`, every command is acknowledged (`StoreAcknowledges`) |
| `BrokerCancellation` | violation, fair | `CancellationEnds` |
| `Infrastructure` | pass, fair | six parts, each by itself. Requests: `CapabilityStartsOneOperation`, `PlansAreApproved`, `AnswersAreAgreed`. Events: `WatchIsSound`, `WatcherCatchesUp`. Admission: `EvidenceDecidesOnce`, `AdmissionOutlivesNothing`, `AcceptedCatalogsDerive`. Gateway: `ReplayedMeansDone`, `AllowedIsGoverned`. Blueprint: `NetworkIsContained`, `AccessIsIsolated`. Plan: `PlannedDatabasesAreOwned`, `MigrationKeepsThePlan` |
| `CapabilityLifetime` | violation | `CapabilitiesAreShortLived` with an accepted intent of 900 seconds |
| `Bootstrap` | pass, fair | two parts. Apply: `AppliedIsReviewed`, `ReceiptsAreTrue`, `OrganizationIsAccountedFor` with two previews, two failures and five credentials, and a launcher that decodes the schema's fields. Access: a run stopped anywhere and repeated read-backs: installation is receipted, provisioner is retired (`SeedCompletes`) |
| `BootstrapSafety` | pass | two parts. Candidate: `SealedRunsAreReviewed` under two faults. Access: two overlapping runs of any mode, stale reads, failing CloudFormation: order of restrictions, true receipts, accounted runs (`RetirementIsOrderly`), `RefinesLifecycle` |
| `PlanReview` | violation | `PreviewsCanBeReviewed` with the fields of the launcher's own struct |

Deadlock checking is off: clocks, decisions and capabilities are bounded, so
every instance runs out of things to do.

**Bounds.** Two jobs on one resource are enough for every race for a lock; two
attempts for a stale report and for the last attempt. `PaasLifecycle` has deadlines one
unit away, so that a job is before its deadline or at it, which is all the code
tells apart; `PaasReleases` has a second unit for time stamps that lie between.
There every limit is one. That a schedule command which starts several jobs counts each of them before
the next, globally and for each tenant, is not seen in these runs; it is proved for any limits
and any number of tenants (`AccountsStayRight`, `SnapshotStaysValid`). The history is one entry where releases are up to four, so that eviction
happens. Two tenants are the least for which one can be passed over, three jobs
for a queue with a middle; that the bypass is bounded is proved for every number of
tenants. Two hosts race for a write while the third holds an older one;
`ReplayFirst` is the broker's, under which a resubmitted command is refused until its
client has reread the revision, and the proofs of safety cover both. The broker's
claims do not interact except through capabilities and the revision, so the run has one claim
with three capabilities and two keys to reuse; that one capability cannot pay for mutations of different
claims is proved (`CapabilitiesPayOnce`); attempts, generations and
lease durations are the least that let a lease expire, be taken over and be late;
its safety is proved for any number of providers and any skew. Two runs of the access
script are enough for each to overtake the other. In `BootstrapSafety` runs are not
stopped and read-backs not repeated: a stopped run is one that takes no more
steps, and its terminal could only start over; both are in `Bootstrap`, with one
terminal. The code's twelve read-backs are two there.

In `Infrastructure` three intents race for two capabilities, with three approvers of whom
one is the requester; two writers, three events and pages of two make a page end
inside a chain and a cursor expire; two replicas and two evidences let one be
verified twice and one decision outlive another; four catalogs include one that
is refused; six requests are a deployment, its retry, a clash under one key,
one capability under two keys, a command outside the sandbox, and one inside it under a capability
that lives longer than the reference intent allows; three edits
complete a path of three flows or a chain of two assumptions. In `BootstrapSafety`, `MaxFaults`
is the budget of changes, replacements, deaths and days together: two of them make a change
between a check and its use and a death after it. In `Bootstrap` three attestation attempts and five
credentials let both run out.

The safety results that are proved hold for all bounds. `InOrder` prunes the
order in which callers draw job ids, which no transition depends on; payloads
and keys of the PaaS, and the runs of the access script, are symmetric where no
liveness is checked.

**Fairness.** `PaasControlState`: time passes, the sweeper runs again and again
(it is what the docs deploy it for), cleanups are carried out and their evidence
is delivered, a started schedule command returns. Nothing is assumed of callers,
of the scheduler, or of workers finishing. `ResourceBroker`: time passes, some
capable provider asks for leases, the holder of a valid lease reports before it
expires. `ConditionalStore` (`StoreFairness`): clients reread the revision and send again, hosts
carry out writes unless they crash, and crashes and losses are finitely many.
`SeedAccess`: the operator starts each mode again and again, as the runbook asks
after an interruption (strong fairness: a terminal is free only between runs), a
run goes on unless it is stopped, CloudFormation finishes, IAM converges.
`OperationWatch`: a watcher asks again and starts over when its cursor has expired,
the server answers, and of the answers that are sent again and again some arrives
(strong fairness, as a page in flight may be lost). `BootstrapApply`: a started program goes on or
dies, AWS Organizations converges, and the operator runs the recovery again and
again, as `docs/management-seed-runbook.md:943` asks ("do not rerun the update.
Freeze the same reviewed plan ..."). Faults are finitely many in both.

### Disagreements with the documentation

* **PaasClockSkew.** `schedulePaasJobs` stamps `startedAt` without comparing it
  with `createdAt`; completion and acknowledgement do compare. With skewed
  clocks it accepts a transition to a snapshot that every later command refuses
  with `STATE_INVARIANT_VIOLATION`. The docs say the invariant is checked before
  every transition; it is not checked on what a transition returns.
* **PaasRedelivery.** A completion names a job, not an attempt. Attempt 1 fails
  retryably, the answer to its report is lost, attempt 2 starts, the report is
  submitted again with the current revision: attempt 2's lock is released
  while it executes. The docs: "release the lock only between attempts".
* **BrokerCancellation.** A lease that expires during cancellation cannot be
  taken over, and the worker's cleanup evidence is refused because it has
  expired; the claim stays `cancelling`. The docs: "retains the provider fence
  until cleanup evidence".
* **PlanReview.** The launcher decodes a plan manifest strictly into a struct
  (`plan_review_linux.go:30-44`, `248-252`) that lacks `managementSeedCapacity` and
  `managementSeedOrganizationState`. `writePlanManifest` (`bootstrap-main.mjs:502-522`) always
  writes both and the schema requires them, so `export-plan-review` refuses every manifest a
  preview leaves, and apply and recovery, which ask for the export, cannot start. The runbook
  (905-906): "After preview, use the digest printed by the preview to create one
  root-frozen, content-addressed export". The launcher's tests use a manifest without the two fields.
* **CapabilityLifetime.** An intent may allow capabilities of up to 900 seconds
  (`paas.ts:667`) and the authorizer compares with the intent only. The docs: "has
  at most a five-minute lifetime" (`docs/codefly-paas.md:155`); that is the reference intent's value,
  not a bound on intents. `AllowedIsGoverned` states what holds: the age of a capability is below what the intent in
  force for the decision allows.

## 4. Proofs

Every invariant that a passing run checks, every action property and both refinements
have a theorem, for every value of the constants that the named `ASSUME`s allow. TLC
evaluates those on each run. They say that bounds are numbers, that requests, policies
and documents are what their parsers take them for, and that the shipped or supplied
documents are finite (`FiniteDocument`), as JSON documents are.

| Theorem | Property | Inductive invariant |
|---|---|---|
| `TypeCorrect`, `QueuesAndLocksConsistent`, `KeysAreExact`, `LimitsHold`, `DecidedForGood` | of `PaasLifecycle` | `IInv` |
| `WorkersKeepTheirLock` | `WorkersHoldTheirLock`, if `~Redelivery` | `LInv` |
| `AccountsStayRight`, `SnapshotStaysValid`, `ReleasesStayAccountedFor` | `StateInvariant`, `ReleasesAreAccountedFor`, if `MaxSkew = 0` | `AInv`, `StampsPast` |
| `RoundRobinIsFair`, `QueuesAreFifo` | `BoundedBypass`, `FifoPerTenant` | `Inv`, `FInv` |
| `StateStaysValid`, `ShownWorkIsCurrent`, `CapabilitiesPayOnce`, `FencesAreKept` | of `Broker` | `IInv` |
| `HostsImplementAtomicStore`, `NoLostUpdates` | `RefinesAtomicStore`, `AnswersAreTrue` | `IInv` |
| `OrderlyRetirement`, `Refinement` | `RetirementIsOrderly`, `RefinesLifecycle` | `IInv` |
| `EventsStayInOrder` | `WatchIsSound` | `IInv` |
| `MutationsStartOnce`, `PlansStayApproved`, `AnswersStayAgreed` | of the requests | `RequestInv`, `AnswersInv` |
| `EvidenceIsUsedOnce`, `AdmissionsEndInTime`, `CatalogsDerive` | of admission | `EvidenceInv`, `AdmissionInv`, `catalogNow \in AcceptedCatalogs` |
| `ReplayedCapabilityPaid`, `AllowedStaysGoverned` | of the gateway | `GatewayInv`, `GovernedInv` |
| `NetworksStayContained`, `AccessStaysIsolated` | of the review | `ReviewInv` |
| `DatabasesStayOwned`, `MigrationStaysFaithful` | of the plan | `CatalogsAreCompiled`, `MigrationInv` |
| `AppliedStaysReviewed`, `ReceiptsStayTrue` | of the apply half | `ApplyInv` |
| `SealedRunsStayReviewed` | of the candidate half | `CandidateInv` |

**PaasControlStateProofs.** The inductive invariant `IInv` is `TypeOK` with the payloads of
existing jobs known, the consistency of queues and of locks, `OneJobPerKey`, and `JobOK` for each job.
Queues and locks are needed together: that a job taken from a queue is queued
gives it no lock, and that an active job has its lock excludes it from a queue.
`JobOK` ties status, attempt, time stamps and reason of one job. The argument
has two halves. Each action is first shown to move each job along the life cycle
`JobStep` (enqueued, started, dequeued, reported, stopped, cleaned up, or left
alone), after which `JobOK`, finality and the deadlines follow from `JobStep` without
looking at actions. Queues and locks are then handled by one lemma for each way
they change (grow, shrink, released, taken). `WithoutIsFilter` shows that `Without` is the
order-preserving filter, which everything said of queues and histories rests on.

*Locks.* A report names a job, not an attempt, so that a worker holds its lock needs an
argument about reports: `ReportOK` says that a report about a running job is the only one,
is about its current attempt, and that nobody executes any more. This is where
`~Redelivery` is needed, and the only place; `PaasRedelivery` shows that it is needed.

*Accounts and releases.* `AInv` adds to `IInv` the deadlines, the records, the quotas (a
tenant's active jobs stay below its own and the platform's limit through every iteration of
the scheduling loop), and `ReleasesKept`: the generation of a resource counts its
successful releases, and its history is complete as long as it is not full. A history that
is filtered, extended and cut at `MaxHistory` holds, with the active artifact, all
released ones or `MaxHistory + 1` of them. All this holds for every skew. Only the order of time stamps does not:
`StampsPast` (every stamp lies in the past, and a schedule command uses the present)
is inductive when `MaxSkew = 0`, and `PaasClockSkew` shows that the condition is needed.

*Scheduling.* `BoundedBypass` is inductive: each start
either serves a tenant or brings the scan at least one step nearer to it.
For `FifoPerTenant` every step is shown to thin a queue out or to append one job that was not
in it (`QueueStep`); as the revision counts the accepted transitions, what joins a queue
arrives after all that is there.

**ResourceBrokerProofs** is about any number of providers and any skew. `IInv` adds
to the type that a claim's lease is the newest grant, carries a token no other
grant carries, that the attempts of lease and failure count `tries`, and that the worker of the newest grant
of a leased claim has read the request in force. Tokens are distinct because they contain the revision at
which they were made. `CheckedWorkIsNotLost` follows from what the worker's and the
broker's checks say of the same result; `FakeProviderConforms` is about the pure functions.

**ConditionalStoreProofs** proves `NoLostUpdates`, which contains `AnswersAreTrue`, and, from it, the refinement:
a conditional write that succeeds is `Apply`, the receipt of "applied" is
`Acknowledge`, everything else stutters.

**SeedAccessProofs** proves the safety properties of the access script and the
refinement, for any number of runs, read-backs and crashes. `IInv` is `TypeOK`,
the ordered restrictions, the true receipts, `CloudOK` (a complete stack has both
policies, the boundary is in use when it is set) and `RunOK` of every run: what it
saw as done was done, and what it performed followed by what its current state
still calls for is what its starting state called for. The argument is that
reads may be old but nothing is ever undone (`Grows`): what a run once saw stays
true, so other runs' steps keep `RunOK`, and an operation chosen from an old state
repeats what is there and never gets ahead.

**OperationWatchProofs** proves `WatchIsSound` for any number of operations, writers,
events and pages in flight. `IInv` ties everything that was read to the log: each
event continues the chain before it, a writer holds the place of an event that is
there, an event in a page in flight is the one in the log at its sequence number, and so
is what the watcher has. A page that continues the watcher's chain therefore comes from
directly behind it; the digests are not needed for that as long as the server only
sends its own events.

**AuthorizationProofs** is about what authorizes work. `CapabilityStartsOneOperation`
and `PlansAreApproved` follow from `RequestInv`: a decision that waits for its commit keeps
what the evaluator saw (its approvals are among those given, each by another principal
than the requester, after the plan and before the decision), and every started operation has
its capability in the redeemed set. The number of approvers is the number of approvals because a
request names each approver once, an injection of finite sets.
`AnswersAreAgreed` holds of the negotiation itself, for every offer and every policy with which the server
answers at all; `AnswersInv` only carries it through the session. `EvidenceDecidesOnce` follows because
what led to a decision is in the replay store before another replica can redeem it.
For `AdmissionOutlivesNothing`, `AdmissionInv` keeps that identifiers of evidence are
unique and that whatever a replica checks, has decided or has admitted rests on evidence in circulation
that lives as long; that the first text is the earliest time is `EarliestIsFirst`,
and holds because the parser requires the long form. `AcceptedCatalogsDerive` is about the catalog's parser: the work is
in the lemmas about it. `ReplayedMeansDone` follows from `GatewayInv`: every
redeemed capability has a started job, jobs are never replaced, and a decision on its
way redeems the capability of its own request or none. `AllowedIsGoverned` follows from the
rules an accepted intent obeys and the reasons an allowed request does not have, and holds for
every intent: `PaasIntents` may be any documents.

**BlueprintProofs** compares the code's algorithms on documents with closures.
`findNetworkPaths` and `reachableIdentities` list paths that repeat no node, up to a
depth; the properties speak of walks of any length. `SimplePathsAreListed`
shows that every simple path is in some level of the search, `SimplePathLength` that
none is longer than the number of nodes, and `ReachedByPath` that what the closure
reaches, a simple path reaches, inside the nodes that are allowed. A violation of the property is thus a path that the
policy looks at. Both the search and the closure are defined by recursion on depth;
as the library's induction theorems cannot be instantiated (below), `PathLevelsAre` and
`ReachIs` unfold them by the least depth at which the unfolding fails.
`ReviewInv` says that a document was loaded and accepted, as it stands, at every time it was compiled.
For the plan, every catalog is what the compiler makes of the intent as it stands
(`CatalogsAreCompiled`: amending and migrating drop what was compiled before), and an intent that was migrated and not amended since is
`WithTenancy` of its source (`MigrationInv`); the rest is about the compiler.

**BootstrapProofs** is about any number of edits, deaths, days, previews and attempts.
`CandidateInv` follows the chain of custody: a signed candidate is one the review established part by part
(`Reviewed`), what the signer compares with was rebuilt from the host kit, a sealed root has the
inventory of a signed candidate, and a seal that ended left nothing of the qualification; that the
tools are the pinned ones follows from what stage 1 compares when the root is run. `ApplyInv` says that a process that applies or recovers
holds a manifest whose frozen copy was confirmed and, after admission, that very plan,
and has seen the account to be standalone before it invokes Pulumi. Neither theorem assumes which fields the launcher decodes. The proof attempt found a fault of an earlier
model: the access bundle of a configuration that gives no access was a bundle, and the checks that
refuse it at review, onboarding and entry were missing (`assertManagementSeedAccessConfiguration`,
`assertManagementRoleArn`); they are part of `BootstrapChecks` now.

**Only model-checked.** The liveness properties `WorkSettles`, `ClaimsProgress`, `StoreAcknowledges`,
`SeedCompletes`, `WatcherCatchesUp` and `OrganizationIsAccountedFor`: fairness and `ENABLED` are out of the prover's reach.
That the recursively defined functions compute what they
should for every input is proved only where the unfolding suffices, because theorems that take an
operator as a parameter, induction among them, cannot be instantiated by the
provers that are installed. The type invariants of the modules of documents are implied by their parsers and
are part of the inductive invariants only as far as these need them.

## 5. Not modelled

* Pulumi stacks, the other adapters and the policy pack declare resources or validate
  single resources; the Pulumi engine and AWS give them their behaviour.
* JSON shape checks (`exactObject`, `identifier`, `literal`, ...) are represented by
  the types of the fields, cryptographic digests and signatures by the values they
  stand for.
* The scanner for tokens and the workload identity bindings: text and single documents.
* `codeflyBootstrap.ts` and the Codefly renderers turn one document into others.
* The stack-ownership contract and the reference documents of the infrastructure
  controller, and the parser of its published contract: data.
* The launcher's sandboxing (namespaces, seccomp, descriptors): it has no state the
  protocol reads.
* Member stacks after the management stack: credentialed modes admit the management
  stack only.
* Platform hand-off, onboarding and state backup: one-shot scripts.

## 6. Plan

1. Proofs: the abstract steps behind the end-to-end properties as refinements (the requests of
   `InfrastructureRequests` and the gateways of `PaasGateway` implement a one-use
   authorization), and action properties of the bootstrap (a sealed root never changes, an
   organization never goes back).
2. Workload identity bindings as a further source of admission.
3. The stack-ownership contract of the infrastructure controller.

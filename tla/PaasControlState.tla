-------------------------- MODULE PaasControlState --------------------------
(***************************************************************************)
(* The durable control state of the PaaS (src/core/paasControlState.ts):   *)
(* a pure reducer over one snapshot of jobs, per-tenant FIFO queues,       *)
(* resource locks, idempotency records, redeemed capabilities and          *)
(* deployments, together with the parts of its environment the reducer     *)
(* relies on: the authorizer that issues decisions, the workers that       *)
(* execute attempts and report on them, and the clocks that stamp commands.*)
(*                                                                         *)
(* Every command is a transition on the current snapshot.  A rejection,    *)
(* DEDUPLICATED and NO_CHANGE return the snapshot they were given, so they *)
(* are stuttering steps; a command whose expectedRevision is not the       *)
(* current revision is such a rejection (ConditionalStore models the       *)
(* hosts that race on the revision).  schedulePaasJobs is the one command  *)
(* with a loop; it is three actions, and `sched' keeps every other action  *)
(* out until the loop has ended.                                           *)
(***************************************************************************)
EXTENDS Integers, Sequences, FiniteSets, QueueOps

CONSTANTS
    NumTenants,                \* tenants of the intent, numbered in sorted order of their ids
    Jobs,                      \* job ids the callers choose from
    Resources,                 \* resource names
    Payloads,                  \* source revisions of builds, artifact digests of the others
    Keys,                      \* idempotency keys
    Capabilities,              \* [id, tenant, operations, resource, oneUse] records
    MaxGlobalConcurrency,      \* intent.scheduling.maxGlobalConcurrency
    MaxConcurrentBuilds,       \* per-tenant quota
    MaxConcurrentDeployments,  \* per-tenant quota
    MaxExecution,              \* maxExecutionMinutes * 60, per tenant, in clock units
    MaxAttempts,               \* the largest maxAttempts a command may ask for (5 in the code)
    MaxHistory,                \* length of a deployment's history (20 in the code)
    MaxTime,                   \* bound on the clock
    MaxSkew,                   \* how far a command's time stamp may lag behind the clock
    MaxDecisions,              \* bound on the decisions issued
    Outcomes,                  \* how attempts may end: "succeeded", "failed", "retryable", "crash"
    Redelivery                 \* TRUE when a worker may resubmit a report that was accepted

Tenants == 1 .. NumTenants

NoJob == "no-job"
NoPayload == "no-payload"
NoCapability == "no-capability"
None == -1                     \* an absent time stamp

ASSUME TenantsAssumption == NumTenants \in Nat \ {0}
ASSUME JobsAssumption == NoJob \notin Jobs
ASSUME PayloadsAssumption == NoPayload \notin Payloads
ASSUME CapabilitiesAssumption ==
    /\ \A c \in Capabilities :
          /\ c.tenant \in Tenants
          /\ c.resource \in Resources
          /\ c.operations \subseteq {"build", "deploy", "rollback", "cancel"}
          /\ c.oneUse \in BOOLEAN
          /\ c.id # NoCapability
    /\ \A c, d \in Capabilities : c.id = d.id => c = d
ASSUME QuotasAssumption ==
    /\ MaxGlobalConcurrency \in Nat \ {0}
    /\ MaxConcurrentBuilds \in [Tenants -> Nat]
    /\ MaxConcurrentDeployments \in [Tenants -> Nat]
    /\ MaxExecution \in [Tenants -> Nat \ {0}]
    /\ MaxAttempts \in Nat \ {0}
    /\ MaxHistory \in Nat \ {0}
ASSUME EnvironmentAssumption ==
    /\ MaxTime \in Nat
    /\ MaxSkew \in Nat
    /\ MaxDecisions \in Nat
    /\ Outcomes \subseteq {"succeeded", "failed", "retryable", "crash"}
    /\ Redelivery \in BOOLEAN

VARIABLES
    revision,              \* number of accepted transitions
    lastScheduledTenant,   \* 0 for null
    jobs,                  \* job id -> PaasControlJob, status "absent" before enqueue
    tenantQueues,          \* tenant -> sequence of job ids
    idempotency,           \* <<tenant, key>> -> [action, jobId]
    redeemedCapabilities,  \* capability id -> job id
    resourceLocks,         \* <<tenant, resource>> -> job id
    deployments,           \* <<tenant, resource>> -> PaasDeploymentRecord, generation 0 before the first
    sched,                 \* local state of a running schedulePaasJobs
    clock,                 \* environment: true time
    decisions,             \* environment: allowed decisions the authorizer has issued
    workers,               \* environment: attempts that are executing
    reports                \* environment: worker reports that may be (re)delivered

snapshot == <<revision, lastScheduledTenant, jobs, tenantQueues, idempotency,
              redeemedCapabilities, resourceLocks, deployments>>
vars == <<snapshot, sched, clock, decisions, workers, reports>>

Operations == {"build", "deploy", "rollback"}
Active == {"running", "cancelling"}
Terminal == {"succeeded", "failed", "cancelled", "timed-out"}
ResourceKeys == Tenants \X Resources
CapabilityIds == {c.id : c \in Capabilities}
Times == 0 .. MaxTime

(* A job id that no command has used yet. *)
AbsentJob ==
    [tenant |-> 1, operation |-> "build", resource |-> NoJob, payload |-> NoPayload,
     status |-> "absent", key |-> NoJob, created |-> 0, updated |-> 0,
     deadline |-> 0, started |-> None, completed |-> None,
     attempt |-> 0, maxAttempts |-> 1, reason |-> "none"]

NoDeployment ==
    [active |-> NoPayload, previous |-> << >>, generation |-> 0, sourceJob |-> NoJob]

NoRecord == [action |-> "none", jobId |-> NoJob]

Idle == [on |-> FALSE, now |-> 0, left |-> 0]

-----------------------------------------------------------------------------
(***************************************************************************)
(* Reading the snapshot.                                                   *)
(***************************************************************************)
ResourceKey(job) == <<job.tenant, job.resource>>

activeJobs == {j \in Jobs : jobs[j].status \in Active}

ActiveOf(t, builds) ==
    {j \in activeJobs : jobs[j].tenant = t /\ (jobs[j].operation = "build") = builds}

InQueue(t, j) == j \in ElementsOf(tenantQueues[t])

(* Mutant: the resource lock is not looked at. *)
Eligible_IgnoresLock(t) ==
    /\ tenantQueues[t] # << >>
    /\ IF jobs[Head(tenantQueues[t])].operation = "build"
         THEN Cardinality(ActiveOf(t, TRUE)) < MaxConcurrentBuilds[t]
         ELSE Cardinality(ActiveOf(t, FALSE)) < MaxConcurrentDeployments[t]

(* The head of a tenant's queue can start: below its quota, resource free. *)
Eligible(t) ==
    /\ tenantQueues[t] # << >>
    /\ LET job == jobs[Head(tenantQueues[t])] IN
        /\ IF job.operation = "build"
             THEN Cardinality(ActiveOf(t, TRUE)) < MaxConcurrentBuilds[t]
             ELSE Cardinality(ActiveOf(t, FALSE)) < MaxConcurrentDeployments[t]
        /\ resourceLocks[ResourceKey(job)] = NoJob

(* Mutant: every scan begins with the first tenant. *)
TenantAt_FromFirst(offset) == offset + 1

(* Round robin: offset 0 is the tenant after the last one scheduled. *)
TenantAt(offset) == ((lastScheduledTenant + offset) % NumTenants) + 1

EligibleOffsets == {o \in 0 .. NumTenants - 1 : Eligible(TenantAt(o))}

nextEligibleTenant ==
    TenantAt(CHOOSE o \in EligibleOffsets : \A p \in EligibleOffsets : o <= p)

(* Queued jobs whose deadline has passed. *)
ExpiredQueued(now) ==
    {j \in Jobs : /\ \E t \in Tenants : InQueue(t, j)
                  /\ jobs[j].deadline <= now}

(* Mutant: a retried attempt is not held to the deadline. *)
ExpiredRunning_FirstAttempt(now) ==
    {j \in Jobs : /\ jobs[j].status = "running" /\ jobs[j].deadline <= now
                  /\ jobs[j].attempt = 1}

ExpiredRunning(now) ==
    {j \in Jobs : jobs[j].status = "running" /\ jobs[j].deadline <= now}

knownRollbackTarget(t, r, p) ==
    p \in ElementsOf(deployments[<<t, r>>].previous)

-----------------------------------------------------------------------------
(***************************************************************************)
(* stateInvariantError: the semantic check every command makes on the      *)
(* snapshot before it does anything else, one conjunct per error message.  *)
(***************************************************************************)
QueuesConsistent ==
    /\ \A t \in Tenants : \A i \in 1 .. Len(tenantQueues[t]) :
          LET j == tenantQueues[t][i] IN
            /\ jobs[j].status = "queued"
            /\ jobs[j].tenant = t
            /\ \A k \in 1 .. Len(tenantQueues[t]) : tenantQueues[t][k] = j => k = i
    /\ \A j \in Jobs : jobs[j].status = "queued" => InQueue(jobs[j].tenant, j)

DurableFieldsValid ==
    \A j \in Jobs : jobs[j].status # "absent" =>
        /\ jobs[j].deadline > jobs[j].created
        /\ jobs[j].deadline - jobs[j].created <= MaxExecution[jobs[j].tenant]
        /\ jobs[j].updated >= jobs[j].created

LifecycleTimestampsComplete ==
    \A j \in Jobs :
        /\ jobs[j].status \in Active => jobs[j].started # None
        /\ jobs[j].status \in Terminal => jobs[j].completed # None
        /\ jobs[j].started # None => jobs[j].started >= jobs[j].created
        /\ jobs[j].completed # None => jobs[j].completed >= jobs[j].created

LocksConsistent ==
    /\ \A j \in Jobs : jobs[j].status \in Active => resourceLocks[ResourceKey(jobs[j])] = j
    /\ \A k \in ResourceKeys : resourceLocks[k] # NoJob =>
          /\ jobs[resourceLocks[k]].status \in Active
          /\ ResourceKey(jobs[resourceLocks[k]]) = k

QuotasRespected ==
    /\ Cardinality(activeJobs) <= MaxGlobalConcurrency
    /\ \A t \in Tenants :
          /\ Cardinality(ActiveOf(t, TRUE)) <= MaxConcurrentBuilds[t]
          /\ Cardinality(ActiveOf(t, FALSE)) <= MaxConcurrentDeployments[t]

\* A redemption repeats the tenant of the request whose job it names (a job's
\* tenant never changes), so the job stands for both.
RecordsReferenceJobs ==
    /\ \A t \in Tenants, k \in Keys : idempotency[<<t, k>>] # NoRecord =>
          /\ jobs[idempotency[<<t, k>>].jobId].status # "absent"
          /\ jobs[idempotency[<<t, k>>].jobId].tenant = t
    /\ \A c \in CapabilityIds : redeemedCapabilities[c] # NoJob =>
          jobs[redeemedCapabilities[c]].status # "absent"

DeploymentsValid ==
    \A k \in ResourceKeys : deployments[k].generation > 0 =>
        LET d == deployments[k] IN
          /\ Len(d.previous) <= MaxHistory
          /\ \A i \in 1 .. Len(d.previous) :
                /\ d.previous[i] # d.active
                /\ \A h \in 1 .. Len(d.previous) : d.previous[h] = d.previous[i] => h = i
          /\ d.sourceJob # NoJob
          /\ jobs[d.sourceJob].status = "succeeded"
          /\ ResourceKey(jobs[d.sourceJob]) = k
          /\ jobs[d.sourceJob].payload = d.active

StateInvariant ==
    /\ QueuesConsistent
    /\ DurableFieldsValid
    /\ LifecycleTimestampsComplete
    /\ LocksConsistent
    /\ QuotasRespected
    /\ RecordsReferenceJobs
    /\ DeploymentsValid

-----------------------------------------------------------------------------
(***************************************************************************)
(* Environment: clock, authorizer, workers.                                *)
(***************************************************************************)

(* The stamps a command issued now can carry: clocks of hosts and workers  *)
(* lag behind true time by at most MaxSkew.                                *)
Stamps == {s \in Times : s <= clock /\ clock - s <= MaxSkew}

Tick ==
    /\ clock < MaxTime
    /\ clock' = clock + 1
    /\ UNCHANGED <<snapshot, sched, decisions, workers, reports>>

(* authorizePaasRequest answers allow for a request a verified capability  *)
(* covers and that is not redeemed in the snapshot it reads.  The decision *)
(* binds operation, payload, key and evaluation time; it can be used, or   *)
(* submitted again, at any later time.                                     *)
Authorize(c, op, p, k) ==
    /\ Cardinality(decisions) < MaxDecisions
    /\ op = "cancel" \/ clock + MaxExecution[c.tenant] <= MaxTime
    /\ op \in c.operations
    /\ redeemedCapabilities[c.id] = NoJob
    /\ \E at \in Stamps :
          decisions' = decisions \cup
              {[capability |-> c, operation |-> op, key |-> k, at |-> at,
                payload |-> IF op = "cancel" THEN NoPayload ELSE p]}
    /\ UNCHANGED <<snapshot, sched, clock, workers, reports>>

capabilityToRedeem(d) == IF d.capability.oneUse THEN d.capability.id ELSE NoCapability

(* An executing attempt ends and its worker sends a report. *)
WorkerFinishes(w, outcome) ==
    /\ workers' = workers \ {w}
    /\ \E at \in Stamps :
          reports' = reports \cup {[job |-> w.job, attempt |-> w.attempt,
                                    outcome |-> outcome, at |-> at]}
    /\ UNCHANGED <<snapshot, sched, clock, decisions>>

(* A worker dies without a report. *)
WorkerCrashes(w) ==
    /\ "crash" \in Outcomes
    /\ workers' = workers \ {w}
    /\ UNCHANGED <<snapshot, sched, clock, decisions, reports>>

(* The sandbox of a job under cancellation is torn down: whatever attempt  *)
(* still executes is stopped, and the evidence is sent.                    *)
SandboxCleaned(j) ==
    /\ jobs[j].status = "cancelling"
    /\ workers' = {w \in workers : w.job # j}
    /\ \E at \in Stamps :
          reports' = reports \cup {[job |-> j, attempt |-> jobs[j].attempt,
                                    outcome |-> "cleanup", at |-> at]}
    /\ UNCHANGED <<snapshot, sched, clock, decisions>>

(* A report that was accepted is gone, unless its worker never saw the     *)
(* answer and submits it again.                                            *)
Delivered(r) == reports' = IF Redelivery THEN reports ELSE reports \ {r}

-----------------------------------------------------------------------------
(***************************************************************************)
(* Commands.                                                               *)
(***************************************************************************)

(* The guards every command shares (see Next): no other command is running *)
(* and the snapshot passes stateInvariantError.                            *)
CommandRuns == ~sched.on /\ StateInvariant

(* Mutant: the idempotency record is not consulted. *)
KeyUnused_NotChecked(t, k) == TRUE

(* Enqueue and cancel share one namespace of keys per tenant.  A used key  *)
(* answers DEDUPLICATED or IDEMPOTENCY_CONFLICT: the fingerprint decides   *)
(* which, and it is a function of fields of the recorded job that never    *)
(* change.                                                                 *)
KeyUnused(t, k) == idempotency[<<t, k>>] = NoRecord

(* Mutant: the replay check was left to the authorizer. *)
Redeem_NoReplayCheck(d, j) ==
    redeemedCapabilities' =
        IF capabilityToRedeem(d) = NoCapability THEN redeemedCapabilities
        ELSE [redeemedCapabilities EXCEPT ![capabilityToRedeem(d)] = j]

(* Atomic redemption: the capability of the decision, when it is one-use,  *)
(* must not have been redeemed and is redeemed for this job.               *)
Redeem(d, j) ==
    LET c == capabilityToRedeem(d) IN
    IF c = NoCapability
      THEN UNCHANGED redeemedCapabilities
      ELSE /\ redeemedCapabilities[c] = NoJob
           /\ redeemedCapabilities' = [redeemedCapabilities EXCEPT ![c] = j]

(* Mutant: pushed at the head. *)
Pushed_AtHead(queue, j) == <<j>> \o queue

(* New jobs and retries go to the tail of their tenant's queue. *)
Pushed(queue, j) == Append(queue, j)

(* enqueuePaasJob.  authorizationBinds admits exactly one command for a    *)
(* decision: the one with its tenant, operation, resource, payload, key    *)
(* and time; the caller is free in the job id and in maxAttempts.          *)
EnqueuePaasJob(d, j, m) ==
    LET t == d.capability.tenant
        r == d.capability.resource
    IN
    /\ d.operation \in Operations
    /\ KeyUnused(t, d.key)
    /\ jobs[j].status = "absent"
    /\ d.operation = "rollback" => knownRollbackTarget(t, r, d.payload)
    /\ Redeem(d, j)
    /\ jobs' = [jobs EXCEPT ![j] =
          [tenant |-> t, operation |-> d.operation, resource |-> r, payload |-> d.payload,
           status |-> "queued", key |-> d.key, created |-> d.at, updated |-> d.at,
           deadline |-> d.at + MaxExecution[t], started |-> None, completed |-> None,
           attempt |-> 0, maxAttempts |-> m, reason |-> "none"]]
    /\ tenantQueues' = [tenantQueues EXCEPT ![t] = Pushed(@, j)]
    /\ idempotency' = [idempotency EXCEPT ![<<t, d.key>>] =
          [action |-> "enqueue", jobId |-> j]]
    /\ revision' = revision + 1
    /\ UNCHANGED <<lastScheduledTenant, resourceLocks, deployments,
                   sched, clock, decisions, workers, reports>>

(* expireQueuedJobs: the part schedule and sweep share. *)
TimedOut(job, now) ==
    [job EXCEPT !.status = "timed-out", !.reason = "deadline",
                !.updated = now, !.completed = now]

RetainedQueues(expired) ==
    [t \in Tenants |-> Without(tenantQueues[t], expired)]

(* Mutant: only the tenants' quotas bound the loop. *)
MayStart_NoGlobalLimit == EligibleOffsets # {}

(* The global limit is not reached and some tenant's head job is eligible. *)
MayStart ==
    /\ Cardinality(activeJobs) < MaxGlobalConcurrency
    /\ EligibleOffsets # {}

(* schedulePaasJobs up to its loop (a command that would find nothing to   *)
(* expire or start answers NO_CHANGE).                                     *)
ScheduleBegin(now, maxStarts) ==
    LET expired == ExpiredQueued(now) IN
    /\ expired # {} \/ MayStart
    /\ jobs' = [j \in Jobs |-> IF j \in expired THEN TimedOut(jobs[j], now) ELSE jobs[j]]
    /\ tenantQueues' = RetainedQueues(expired)
    /\ sched' = [on |-> TRUE, now |-> now, left |-> maxStarts]
    /\ UNCHANGED <<revision, lastScheduledTenant, idempotency, redeemedCapabilities,
                   resourceLocks, deployments, clock, decisions, workers, reports>>

LoopContinues == sched.left > 0 /\ MayStart

(* One iteration of the loop: the head job of the next eligible tenant     *)
(* starts, takes its lock, and a worker begins to execute the attempt.     *)
ScheduleStart ==
    LET t == nextEligibleTenant
        j == Head(tenantQueues[t])
        job == jobs[j]
    IN
    /\ LoopContinues
    /\ tenantQueues' = [tenantQueues EXCEPT ![t] = Tail(@)]
    /\ jobs' = [jobs EXCEPT ![j] =
          [job EXCEPT !.status = "running", !.started = sched.now,
                      !.updated = sched.now, !.attempt = job.attempt + 1]]
    /\ resourceLocks' = [resourceLocks EXCEPT ![ResourceKey(job)] = j]
    /\ lastScheduledTenant' = t
    /\ sched' = [sched EXCEPT !.left = sched.left - 1]
    /\ workers' = workers \cup {[job |-> j, attempt |-> job.attempt + 1]}
    /\ UNCHANGED <<revision, idempotency, redeemedCapabilities, deployments,
                   clock, decisions, reports>>

(* The loop has ended; the transition is accepted.                         *)
ScheduleEnd ==
    /\ ~LoopContinues
    /\ revision' = revision + 1
    /\ sched' = Idle
    /\ UNCHANGED <<lastScheduledTenant, jobs, tenantQueues, idempotency,
                   redeemedCapabilities, resourceLocks, deployments,
                   clock, decisions, workers, reports>>

(* Mutant: a result is accepted at its deadline. *)
ReportAdmitted_AtDeadline(r) ==
    /\ jobs[r.job].status = "running"
    /\ r.at <= jobs[r.job].deadline
    /\ r.at >= jobs[r.job].started

(* The guards of completePaasJob on a report: they look at the job, never  *)
(* at the attempt the report is about.                                     *)
ReportAdmitted(r) ==
    /\ jobs[r.job].status = "running"
    /\ r.at < jobs[r.job].deadline
    /\ r.at >= jobs[r.job].started

AttemptLeft(job) == job.attempt < job.maxAttempts

(* Mutant: the lock stays behind. *)
Release_Forgotten(job) == UNCHANGED resourceLocks

Release(job) == resourceLocks' = [resourceLocks EXCEPT ![ResourceKey(job)] = NoJob]

(* completePaasJob, outcome failed, with an attempt and the report's       *)
(* consent left: back to the tail of the queue.                            *)
RetryPaasJob(r) ==
    LET job == jobs[r.job] IN
    /\ r.outcome = "retryable"
    /\ ReportAdmitted(r)
    /\ AttemptLeft(job)
    /\ Release(job)
    /\ jobs' = [jobs EXCEPT ![r.job] =
          [job EXCEPT !.status = "queued", !.updated = r.at, !.started = None]]
    /\ tenantQueues' = [tenantQueues EXCEPT ![job.tenant] = Pushed(@, r.job)]
    /\ revision' = revision + 1
    /\ Delivered(r)
    /\ UNCHANGED <<lastScheduledTenant, idempotency, redeemedCapabilities, deployments,
                   sched, clock, decisions, workers>>

(* completePaasJob, outcome failed, final. *)
FailPaasJob(r) ==
    LET job == jobs[r.job] IN
    /\ \/ r.outcome = "failed"
       \/ r.outcome = "retryable" /\ ~AttemptLeft(job)
    /\ ReportAdmitted(r)
    /\ Release(job)
    /\ jobs' = [jobs EXCEPT ![r.job] =
          [job EXCEPT !.status = "failed", !.updated = r.at, !.started = None,
                      !.completed = r.at]]
    /\ revision' = revision + 1
    /\ Delivered(r)
    /\ UNCHANGED <<lastScheduledTenant, tenantQueues, idempotency, redeemedCapabilities,
                   deployments, sched, clock, decisions, workers>>

(* Mutant of promoteDeployment: the history is cut one short. *)
Promoted_CutShort(d, artifact, j) ==
    [active |-> artifact, generation |-> d.generation + 1, sourceJob |-> j,
     previous |-> IF d.generation = 0 \/ d.active = artifact THEN d.previous
                  ELSE SubSeq(<<d.active>> \o d.previous, 1, MaxHistory - 1)]

(* promoteDeployment: the history keeps the artifacts that were active     *)
(* before, most recent first, without the one that becomes active.         *)
Promoted(d, artifact, j) ==
    LET history == IF d.active = artifact THEN d.previous
                   ELSE <<d.active>> \o Without(d.previous, {artifact})
    IN [active     |-> artifact,
        previous   |-> IF d.generation = 0 THEN << >>
                       ELSE SubSeq(history, 1, IF Len(history) < MaxHistory
                                                 THEN Len(history) ELSE MaxHistory),
        generation |-> d.generation + 1,
        sourceJob  |-> j]

(* completePaasJob, outcome succeeded. *)
SucceedPaasJob(r) ==
    LET job == jobs[r.job] IN
    /\ r.outcome = "succeeded"
    /\ ReportAdmitted(r)
    /\ Release(job)
    /\ jobs' = [jobs EXCEPT ![r.job] =
          [job EXCEPT !.status = "succeeded", !.updated = r.at, !.started = None,
                      !.completed = r.at]]
    /\ deployments' =
          IF job.operation = "build" THEN deployments
          ELSE [deployments EXCEPT ![ResourceKey(job)] = Promoted(@, job.payload, r.job)]
    /\ revision' = revision + 1
    /\ Delivered(r)
    /\ UNCHANGED <<lastScheduledTenant, tenantQueues, idempotency, redeemedCapabilities,
                   sched, clock, decisions, workers>>

(* The guards of cancelPaasJob. *)
CancelAdmitted(d, j) ==
    LET job == jobs[j] IN
    /\ d.operation = "cancel"
    /\ job.tenant = d.capability.tenant
    /\ job.resource = d.capability.resource
    /\ d.at >= job.created
    /\ KeyUnused(job.tenant, d.key)

(* cancelPaasJob of a queued job: final at once. *)
CancelQueuedPaasJob(d, j) ==
    LET job == jobs[j] IN
    /\ job.status = "queued"
    /\ CancelAdmitted(d, j)
    /\ Redeem(d, j)
    /\ jobs' = [jobs EXCEPT ![j] =
          [job EXCEPT !.status = "cancelled", !.reason = "user", !.updated = d.at,
                      !.completed = d.at]]
    /\ tenantQueues' = [tenantQueues EXCEPT ![job.tenant] =
          Without(@, {j})]
    /\ idempotency' = [idempotency EXCEPT ![<<job.tenant, d.key>>] =
          [action |-> "cancel", jobId |-> j]]
    /\ revision' = revision + 1
    /\ UNCHANGED <<lastScheduledTenant, resourceLocks, deployments,
                   sched, clock, decisions, workers, reports>>

(* cancelPaasJob of a running job: the lock stays until the cleanup. *)
CancelRunningPaasJob(d, j) ==
    LET job == jobs[j] IN
    /\ job.status = "running"
    /\ CancelAdmitted(d, j)
    /\ Redeem(d, j)
    /\ jobs' = [jobs EXCEPT ![j] =
          [job EXCEPT !.status = "cancelling", !.reason = "user", !.updated = d.at]]
    /\ idempotency' = [idempotency EXCEPT ![<<job.tenant, d.key>>] =
          [action |-> "cancel", jobId |-> j]]
    /\ revision' = revision + 1
    /\ UNCHANGED <<lastScheduledTenant, tenantQueues, resourceLocks, deployments,
                   sched, clock, decisions, workers, reports>>

(* acknowledgePaasJobCancellation: the evidence arrives. *)
AcknowledgePaasJobCancellation(r) ==
    LET job == jobs[r.job] IN
    /\ r.outcome = "cleanup"
    /\ job.status = "cancelling"
    /\ r.at >= job.updated
    /\ Release(job)
    /\ jobs' = [jobs EXCEPT ![r.job] =
          [job EXCEPT !.status = IF job.reason = "deadline" THEN "timed-out" ELSE "cancelled",
                      !.updated = r.at, !.completed = r.at, !.started = None]]
    /\ revision' = revision + 1
    /\ Delivered(r)
    /\ UNCHANGED <<lastScheduledTenant, tenantQueues, idempotency, redeemedCapabilities,
                   deployments, sched, clock, decisions, workers>>

(* sweepExpiredPaasJobs: queued jobs past their deadline time out, running *)
(* ones are told to stop.                                                  *)
SweepExpiredPaasJobs(now) ==
    LET expired  == ExpiredQueued(now)
        overtime == ExpiredRunning(now)
    IN
    /\ expired \cup overtime # {}
    /\ jobs' = [j \in Jobs |->
          IF j \in expired THEN TimedOut(jobs[j], now)
          ELSE IF j \in overtime
            THEN [jobs[j] EXCEPT !.status = "cancelling", !.reason = "deadline",
                                 !.updated = now]
          ELSE jobs[j]]
    /\ tenantQueues' = RetainedQueues(expired)
    /\ revision' = revision + 1
    /\ UNCHANGED <<lastScheduledTenant, idempotency, redeemedCapabilities, resourceLocks,
                   deployments, sched, clock, decisions, workers, reports>>

-----------------------------------------------------------------------------
Init ==
    /\ revision = 0
    /\ lastScheduledTenant = 0
    /\ jobs = [j \in Jobs |-> AbsentJob]
    /\ tenantQueues = [t \in Tenants |-> << >>]
    /\ idempotency = [k \in Tenants \X Keys |-> NoRecord]
    /\ redeemedCapabilities = [c \in CapabilityIds |-> NoJob]
    /\ resourceLocks = [k \in ResourceKeys |-> NoJob]
    /\ deployments = [k \in ResourceKeys |-> NoDeployment]
    /\ sched = Idle
    /\ clock = 0
    /\ decisions = {}
    /\ workers = {}
    /\ reports = {}

(* What the world around the reducer does. *)
Environment ==
    \/ Tick
    \/ \E c \in Capabilities, p \in Payloads, k \in Keys :
          \E op \in c.operations : Authorize(c, op, p, k)
    \/ \E w \in workers, outcome \in Outcomes \ {"crash"} : WorkerFinishes(w, outcome)
    \/ \E w \in workers : WorkerCrashes(w)
    \/ \E j \in Jobs : SandboxCleaned(j)

(* A command of a caller, the scheduler, a worker or the sweeper. *)
Command ==
    \/ \E d \in decisions, j \in Jobs, m \in 1 .. MaxAttempts : EnqueuePaasJob(d, j, m)
    \/ \E now \in Stamps, n \in 1 .. MaxGlobalConcurrency : ScheduleBegin(now, n)
    \/ \E r \in reports :
          \/ RetryPaasJob(r)
          \/ FailPaasJob(r)
          \/ SucceedPaasJob(r)
          \/ AcknowledgePaasJobCancellation(r)
    \/ \E d \in decisions, j \in Jobs :
          \/ CancelQueuedPaasJob(d, j)
          \/ CancelRunningPaasJob(d, j)
    \/ \E now \in Stamps : SweepExpiredPaasJobs(now)

Next ==
    \/ ~sched.on /\ Environment
    \/ CommandRuns /\ Command
    \/ sched.on /\ ScheduleStart
    \/ sched.on /\ ScheduleEnd

Spec == Init /\ [][Next]_vars

(***************************************************************************)
(* Fairness for liveness: time passes, the sweeper keeps running, cleanups *)
(* are carried out, and their evidence is delivered; a schedule command    *)
(* that has begun ends.  Nothing is assumed of callers, of the scheduler   *)
(* or of workers finishing their attempts.                                 *)
(***************************************************************************)
Fairness ==
    /\ WF_vars(~sched.on /\ Tick)
    /\ WF_vars(sched.on /\ (ScheduleStart \/ ScheduleEnd))
    /\ WF_vars(CommandRuns /\ SweepExpiredPaasJobs(clock))
    /\ \A j \in Jobs :
          /\ WF_vars(~sched.on /\ SandboxCleaned(j))
          /\ WF_vars(CommandRuns /\ \E r \in reports :
                        r.job = j /\ AcknowledgePaasJobCancellation(r))

FairSpec == Spec /\ Fairness

-----------------------------------------------------------------------------
(***************************************************************************)
(* Properties.                                                             *)
(***************************************************************************)
JobType ==
    [tenant : Tenants, operation : Operations, resource : Resources \cup {NoJob},
     payload : Payloads \cup {NoPayload},
     status : {"absent", "queued"} \cup Active \cup Terminal,
     key : Keys \cup {NoJob}, created : Nat, updated : Nat, deadline : Nat,
     started : Nat \cup {None}, completed : Nat \cup {None},
     attempt : Nat, maxAttempts : 1 .. MaxAttempts,
     reason : {"none", "user", "deadline"}]

DecisionType ==
    [capability : Capabilities, operation : Operations \cup {"cancel"}, key : Keys,
     at : Nat, payload : Payloads \cup {NoPayload}]

ReportType ==
    [job : Jobs, attempt : Nat, at : Nat,
     outcome : {"succeeded", "failed", "retryable", "cleanup"}]

(* Type invariant of the snapshot, the running command and the environment. *)
TypeOK ==
    /\ revision \in Nat
    /\ lastScheduledTenant \in 0 .. NumTenants
    /\ jobs \in [Jobs -> JobType]
    /\ tenantQueues \in [Tenants -> Seq(Jobs)]
    /\ idempotency \in [Tenants \X Keys ->
          [action : {"none", "enqueue", "cancel"}, jobId : Jobs \cup {NoJob}]]
    /\ redeemedCapabilities \in [CapabilityIds -> Jobs \cup {NoJob}]
    /\ resourceLocks \in [ResourceKeys -> Jobs \cup {NoJob}]
    /\ deployments \in [ResourceKeys ->
          [active : Payloads \cup {NoPayload}, previous : Seq(Payloads),
           generation : Nat, sourceJob : Jobs \cup {NoJob}]]
    /\ sched \in [on : BOOLEAN, now : Nat, left : Nat]
    /\ clock \in Times
    /\ decisions \subseteq DecisionType
    /\ workers \subseteq [job : Jobs, attempt : Nat]
    /\ reports \subseteq ReportType

(* Exact-payload idempotency: however often a client retries an enqueue    *)
(* (with a fresh decision, capability and job id), a tenant's key stands   *)
(* for one job, and the record finds it.                                   *)
OneJobPerKey ==
    \A j \in Jobs : jobs[j].status # "absent" =>
        idempotency[<<jobs[j].tenant, jobs[j].key>>] = [action |-> "enqueue", jobId |-> j]

(* The lock protects what it is there for: an attempt that still executes  *)
(* is the current attempt of an active job that owns its resource, so two  *)
(* workers never execute on one tenant's resource at the same time.  This  *)
(* is what "release the lock only between attempts" and "retains the       *)
(* resource lock until ... cleanup evidence" promise.                      *)
WorkersHoldTheirLock ==
    \A w \in workers :
        /\ jobs[w.job].status \in Active
        /\ jobs[w.job].attempt = w.attempt
        /\ resourceLocks[ResourceKey(jobs[w.job])] = w.job

(* Bounded retries: no job is attempted more often than its command asked. *)
AttemptsBounded == \A j \in Jobs : jobs[j].attempt <= jobs[j].maxAttempts

(* Retries, cancellation and the sweeper agree on the original deadline: a *)
(* result is only accepted before it, a job only times out after it, and a *)
(* user's cancellation is never reported as a time-out.                    *)
OutcomesRespectDeadline ==
    \A j \in Jobs :
        /\ jobs[j].status \in {"succeeded", "failed"} => jobs[j].completed < jobs[j].deadline
        /\ jobs[j].status = "timed-out" =>
              jobs[j].completed >= jobs[j].deadline /\ jobs[j].reason = "deadline"
        /\ jobs[j].status = "cancelled" => jobs[j].reason = "user"

(* Whatever order failures, reports, cancellations and sweeps come in, a    *)
(* job stays within what its command allowed: attempts and deadline.       *)
LimitsAreRespected == AttemptsBounded /\ OutcomesRespectDeadline

(* The releases of a resource: jobs that promoted an artifact. *)
Releases(k) ==
    {j \in Jobs : /\ jobs[j].status = "succeeded"
                  /\ jobs[j].operation # "build"
                  /\ ResourceKey(jobs[j]) = k}

Released(k) == {jobs[j].payload : j \in Releases(k)}

(* The generation of a deployment counts its promotions: none is lost and  *)
(* none is applied twice.                                                  *)
GenerationCountsReleases ==
    \A k \in ResourceKeys : deployments[k].generation = Cardinality(Releases(k))

(* Bounded release history: it holds artifacts that were released, and     *)
(* forgets one only when there are more than MaxHistory besides the active *)
(* one.                                                                    *)
HistoryKeepsReleases ==
    \A k \in ResourceKeys : deployments[k].generation > 0 =>
        LET d     == deployments[k]
            known == ElementsOf(d.previous) \cup {d.active}
            total == Cardinality(Released(k))
        IN /\ known \subseteq Released(k)
           /\ Cardinality(known) = IF total <= MaxHistory THEN total ELSE MaxHistory + 1

(* Rollback only to a previously deployed digest: whatever happens between *)
(* the enqueue of a rollback and its promotion, its artifact was released  *)
(* on that resource by a deploy.                                           *)
RollbackOnlyToReleased ==
    \A j \in Jobs :
        jobs[j].status # "absent" /\ jobs[j].operation = "rollback" =>
            \E i \in Releases(ResourceKey(jobs[j])) :
                jobs[i].operation = "deploy" /\ jobs[i].payload = jobs[j].payload

(* Racing deploys and rollbacks leave a valid snapshot in which generation, *)
(* history and rollback targets agree with what was released.              *)
ReleasesAreAccountedFor ==
    /\ StateInvariant
    /\ GenerationCountsReleases
    /\ HistoryKeepsReleases
    /\ RollbackOnlyToReleased

(* A capability is redeemed once: the job it was redeemed for never        *)
(* changes, although decisions evaluated before the redemption can still   *)
(* be submitted.                                                           *)
RedemptionIsFinal ==
    [][\A c \in CapabilityIds :
          redeemedCapabilities[c] # NoJob =>
              redeemedCapabilities'[c] = redeemedCapabilities[c]]_vars

(* A finished job is never touched again by late reports, cancellations or *)
(* sweeps.                                                                 *)
TerminalIsFinal ==
    [][\A j \in Jobs : jobs[j].status \in Terminal => jobs'[j] = jobs[j]]_vars

(* What was decided for good stays decided: redemptions and finished jobs, *)
(* although old decisions, late reports and sweeps still arrive.           *)
NothingFinalChanges == RedemptionIsFinal /\ TerminalIsFinal

(* Every job that was accepted ends: it never stays in a queue, on a       *)
(* worker that died, or in cancellation.                                   *)
JobsSettle ==
    \A j \in Jobs : (jobs[j].status # "absent") ~> (jobs[j].status \in Terminal)

(* Every lock is given back. *)
LocksAreReleased ==
    \A k \in ResourceKeys : (resourceLocks[k] # NoJob) ~> (resourceLocks[k] = NoJob)

(* Work comes to an end although workers die: jobs settle and locks come   *)
(* back.                                                                   *)
WorkSettles == JobsSettle /\ LocksAreReleased
=============================================================================

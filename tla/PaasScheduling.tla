--------------------------- MODULE PaasScheduling ---------------------------
(***************************************************************************)
(* Fairness of schedulePaasJobs: PaasControlState with two history         *)
(* variables that no action reads.                                         *)
(***************************************************************************)
EXTENDS PaasControlState

VARIABLES
    bypassed,   \* tenant -> starts given to others in a row while its head job was eligible
    arrival     \* job -> revision that put it into its queue the last time

historyVars == <<bypassed, arrival>>

(* A start passes over every other tenant whose head job could start too.  *)
RecordStart ==
    IF sched.on /\ LoopContinues
      THEN bypassed' = [t \in Tenants |->
              IF t # nextEligibleTenant /\ Eligible(t) THEN bypassed[t] + 1 ELSE 0]
      ELSE UNCHANGED bypassed

RecordArrival ==
    arrival' = [j \in Jobs |->
        IF jobs[j].status # "queued" /\ jobs'[j].status = "queued"
          THEN revision' ELSE arrival[j]]

HInit == Init /\ bypassed = [t \in Tenants |-> 0] /\ arrival = [j \in Jobs |-> 0]

HNext == Next /\ RecordStart /\ RecordArrival

HSpec == HInit /\ [][HNext]_<<vars, historyVars>>

-----------------------------------------------------------------------------
(* How many tenants round robin looks at before it comes to t. *)
Distance(t) ==
    IF t > lastScheduledTenant THEN t - lastScheduledTenant - 1
                               ELSE t + NumTenants - lastScheduledTenant - 1

(* Deterministic round-robin fairness: a tenant whose head job can start   *)
(* is passed over at most NumTenants - 1 times in a row, and the closer    *)
(* the scan is to it, the fewer starts it still has to wait for.           *)
BoundedBypass ==
    \A t \in Tenants : bypassed[t] + Distance(t) <= NumTenants - 1

(* FIFO queues per tenant: retries, expiry and cancellation leave every    *)
(* queue in the order in which its jobs entered it.                        *)
FifoPerTenant ==
    \A t \in Tenants : \A i, k \in 1 .. Len(tenantQueues[t]) :
        i < k => arrival[tenantQueues[t][i]] < arrival[tenantQueues[t][k]]
=============================================================================

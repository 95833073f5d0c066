----------------------- MODULE PaasControlStateProofs -----------------------
(***************************************************************************)
(* Safety of the PaaS control state for any number of tenants, jobs,       *)
(* resources, keys and capabilities, any quotas and any clock skew, with   *)
(* or without redelivered reports; what needs clocks that do not lag, or   *)
(* reports that are not delivered again, says so.                          *)
(***************************************************************************)
EXTENDS PaasScheduling, FiniteSetTheorems, SequenceTheorems, TLAPS

(***************************************************************************)
(* What Without computes, for sequences of any length: the elements that   *)
(* are not dropped, all of them, in their order.                           *)
(***************************************************************************)

(* The kept positions are a finite set of positions. *)
LEMMA KeptFinite ==
    ASSUME NEW S, NEW q \in Seq(S), NEW dropped
    PROVE  /\ Kept(q, dropped) \in SUBSET (1 .. Len(q))
           /\ IsFiniteSet(Kept(q, dropped))
           /\ Cardinality(Kept(q, dropped)) \in Nat
  <1>1. Kept(q, dropped) \in SUBSET (1 .. Len(q))
    BY DEF Kept
  <1>2. Len(q) \in Nat /\ IsFiniteSet(1 .. Len(q))
    BY FS_Interval
  <1>3. IsFiniteSet(Kept(q, dropped))
    BY <1>1, <1>2, FS_Subset
  <1> QED
    BY <1>1, <1>3, FS_CardinalityType

(* The rank of a position of K lies in 1 .. Cardinality(K). *)
LEMMA RankRange ==
    ASSUME NEW K \in SUBSET Int, IsFiniteSet(K), NEW i \in K
    PROVE  Rank(K, i) \in 1 .. Cardinality(K)
  <1> DEFINE below == {k \in K : k <= i}
  <1>1. below \in SUBSET K /\ i \in below
    OBVIOUS
  <1>2. /\ IsFiniteSet(below)
        /\ Cardinality(below) <= Cardinality(K)
        /\ Cardinality(below) \in Nat
        /\ Cardinality(K) \in Nat
    BY <1>1, FS_Subset, FS_CardinalityType
  <1>3. Cardinality(below) # 0
    BY <1>1, <1>2, FS_EmptySet
  <1> QED
    BY <1>2, <1>3 DEF Rank

(* Ranks grow with positions. *)
LEMMA RankMonotonic ==
    ASSUME NEW K \in SUBSET Int, IsFiniteSet(K), NEW i \in K, NEW j \in K, i < j
    PROVE  Rank(K, i) < Rank(K, j)
  <1> DEFINE low == {k \in K : k <= i}
             high == {k \in K : k <= j}
  <1>0. i \in Int /\ j \in Int /\ \A k \in K : k \in Int
    OBVIOUS
  <1>1. low \in SUBSET high /\ j \in high /\ j \notin low /\ high \in SUBSET K
    <2>1. \A k \in K : k <= i => k <= j
      BY <1>0
    <2>2. j <= j /\ ~(j <= i)
      BY <1>0
    <2> QED
      BY <2>1, <2>2
  <1>2. IsFiniteSet(high)
    BY <1>1, FS_Subset
  <1>3. /\ Cardinality(low) <= Cardinality(high)
        /\ Cardinality(low) # Cardinality(high)
    BY <1>1, <1>2, FS_Subset
  <1>4. Cardinality(low) \in Nat /\ Cardinality(high) \in Nat
    BY <1>1, <1>2, FS_Subset, FS_CardinalityType
  <1> QED
    BY <1>3, <1>4 DEF Rank

(* Every rank is taken: ranking is an injection between sets of one size.  *)
LEMMA RankSurjective ==
    ASSUME NEW K \in SUBSET Int, IsFiniteSet(K), NEW n \in 1 .. Cardinality(K)
    PROVE  \E i \in K : Rank(K, i) = n
  <1> DEFINE T == 1 .. Cardinality(K)
             f == [i \in K |-> Rank(K, i)]
  <1>1. f \in [K -> T]
    BY RankRange
  <1>2. \A i, j \in K : f[i] = f[j] => i = j
    <2> SUFFICES ASSUME NEW i \in K, NEW j \in K, i # j
                 PROVE  Rank(K, i) # Rank(K, j)
      OBVIOUS
    <2>1. Rank(K, i) \in Int /\ Rank(K, j) \in Int
      BY RankRange
    <2>2. CASE i < j
      BY <2>1, <2>2, RankMonotonic
    <2>3. CASE j < i
      BY <2>1, <2>3, RankMonotonic
    <2> QED
      BY <2>2, <2>3
  <1>3. f \in Injection(K, T)
    BY <1>1, <1>2 DEF Injection, IsInjective
  <1>4. IsFiniteSet(T) /\ Cardinality(T) = Cardinality(K)
    BY FS_CardinalityType, FS_Interval
  <1>5. f \in Surjection(K, T)
    BY <1>3, <1>4, FS_Injection
  <1> QED
    BY <1>5 DEF Surjection

(* The position the n-th element of Without comes from. *)
Position(q, dropped, n) ==
    CHOOSE i \in Kept(q, dropped) : Rank(Kept(q, dropped), i) = n

(* That position is kept and has rank n. *)
LEMMA PositionProperties ==
    ASSUME NEW S, NEW q \in Seq(S), NEW dropped,
           NEW n \in 1 .. Cardinality(Kept(q, dropped))
    PROVE  /\ Position(q, dropped, n) \in 1 .. Len(q)
           /\ q[Position(q, dropped, n)] \notin dropped
           /\ Position(q, dropped, n) \in Kept(q, dropped)
           /\ Rank(Kept(q, dropped), Position(q, dropped, n)) = n
  <1>1. Kept(q, dropped) \in SUBSET Int /\ IsFiniteSet(Kept(q, dropped))
    BY KeptFinite
  <1>2. \E i \in Kept(q, dropped) : Rank(Kept(q, dropped), i) = n
    BY <1>1, RankSurjective
  <1>3. /\ Position(q, dropped, n) \in Kept(q, dropped)
        /\ Rank(Kept(q, dropped), Position(q, dropped, n)) = n
    BY <1>2 DEF Position
  <1> QED
    BY <1>3 DEF Kept

(* Every kept position is the position of some rank. *)
LEMMA EveryKeptPosition ==
    ASSUME NEW S, NEW q \in Seq(S), NEW dropped, NEW i \in 1 .. Len(q), q[i] \notin dropped
    PROVE  \E n \in 1 .. Cardinality(Kept(q, dropped)) : Position(q, dropped, n) = i
  <1> DEFINE K == Kept(q, dropped)
             N == Cardinality(K)
             n == Rank(K, i)
             b == Position(q, dropped, n)
  <1>1. K \in SUBSET Int /\ IsFiniteSet(K) /\ N \in Nat
    BY KeptFinite
  <1>2. i \in K
    BY DEF Kept
  <1>3. n \in 1 .. N
    BY <1>1, <1>2, RankRange
  <1>4. b \in K /\ Rank(K, b) = n
    BY <1>3, PositionProperties
  <1>5. b \in Int /\ i \in Int /\ n \in Int
    BY <1>1, <1>2, <1>3, <1>4
  <1>6. b = i
    <2> HIDE DEF K, b
    <2>1. CASE b < i
      BY <2>1, <1>1, <1>2, <1>4, <1>5, RankMonotonic
    <2>2. CASE i < b
      BY <2>2, <1>1, <1>2, <1>4, <1>5, RankMonotonic
    <2> QED
      BY <2>1, <2>2, <1>5
  <1> QED
    BY <1>3, <1>6

(* Array.filter: the result is a sequence of elements of q that are not    *)
(* dropped; positions keep their order; nothing that is kept is lost.      *)
THEOREM WithoutIsFilter ==
    ASSUME NEW S, NEW q \in Seq(S), NEW dropped
    PROVE  LET w == Without(q, dropped) IN
           /\ w \in Seq(S)
           /\ Len(w) = Cardinality(Kept(q, dropped))
           /\ \A n \in 1 .. Len(w) :
                 /\ Position(q, dropped, n) \in 1 .. Len(q)
                 /\ w[n] = q[Position(q, dropped, n)]
                 /\ w[n] \notin dropped
           /\ \A m, n \in 1 .. Len(w) :
                 m < n => Position(q, dropped, m) < Position(q, dropped, n)
           /\ \A i \in 1 .. Len(q) : q[i] \notin dropped =>
                 \E n \in 1 .. Len(w) : Position(q, dropped, n) = i
  <1> DEFINE K == Kept(q, dropped)
             N == Cardinality(K)
             w == Without(q, dropped)
  <1>1. K \in SUBSET (1 .. Len(q)) /\ IsFiniteSet(K) /\ N \in Nat /\ K \in SUBSET Int
    BY KeptFinite
  <1>2. w = [n \in 1 .. N |-> q[Position(q, dropped, n)]]
    BY DEF Without, Position
  <1>3. \A n \in 1 .. N : /\ Position(q, dropped, n) \in 1 .. Len(q)
                          /\ q[Position(q, dropped, n)] \notin dropped
                          /\ Position(q, dropped, n) \in K
                          /\ Rank(K, Position(q, dropped, n)) = n
    BY PositionProperties
  <1>4. \A n \in 1 .. N : w[n] = q[Position(q, dropped, n)] /\ w[n] \in S
    BY <1>2, <1>3
  <1>5. w \in Seq(S) /\ Len(w) = N
    BY <1>1, <1>2, <1>4
  <1>6. ASSUME NEW m \in 1 .. N, NEW n \in 1 .. N, m < n
        PROVE  Position(q, dropped, m) < Position(q, dropped, n)
    <2> DEFINE a == Position(q, dropped, m)
               b == Position(q, dropped, n)
    <2>1. /\ a \in K /\ b \in K /\ a \in Int /\ b \in Int
          /\ Rank(K, a) = m /\ Rank(K, b) = n
      BY <1>3, <1>1
    <2>2. a # b
      BY <2>1, <1>6, <1>1
    <2>3. ~(b < a)
      <3> HIDE DEF K, a, b
      <3> SUFFICES ASSUME b < a
                   PROVE  FALSE
        OBVIOUS
      <3> Rank(K, b) < Rank(K, a)
        BY <2>1, <1>1, RankMonotonic
      <3> QED
        BY <2>1, <1>6, <1>1
    <2> QED
      BY <2>1, <2>2, <2>3
  <1>7. \A i \in 1 .. Len(q) : q[i] \notin dropped =>
            \E n \in 1 .. N : Position(q, dropped, n) = i
    BY EveryKeptPosition
  <1> QED
    BY <1>3, <1>4, <1>5, <1>6, <1>7

(* A finite non-empty set of integers has a least element: the one of rank *)
(* 1.                                                                      *)
LEMMA LeastElement ==
    ASSUME NEW K \in SUBSET Int, IsFiniteSet(K), K # {}
    PROVE  \E i \in K : \A j \in K : i <= j
  <1>1. Cardinality(K) \in Nat /\ Cardinality(K) # 0
    BY FS_CardinalityType, FS_EmptySet
  <1>2. 1 \in 1 .. Cardinality(K)
    BY <1>1
  <1>3. PICK i \in K : Rank(K, i) = 1
    BY <1>2, RankSurjective
  <1>4. ASSUME NEW j \in K
        PROVE  i <= j
    <2>1. Rank(K, j) \in Int /\ Rank(K, j) >= 1
      BY RankRange
    <2>2. CASE j < i
      BY <1>3, <2>1, <2>2, RankMonotonic
    <2> QED
      BY <2>2
  <1> QED
    BY <1>4

(* Filtering keeps exactly the elements that are not dropped. *)
LEMMA WithoutElements ==
    ASSUME NEW S, NEW q \in Seq(S), NEW dropped
    PROVE  /\ Without(q, dropped) \in Seq(S)
           /\ ElementsOf(Without(q, dropped)) = ElementsOf(q) \ dropped
  <1> DEFINE w == Without(q, dropped)
             pos(n) == Position(q, dropped, n)
  <1>1. w \in Seq(S)
    BY WithoutIsFilter
  <1>2. \A n \in 1 .. Len(w) : pos(n) \in 1 .. Len(q) /\ w[n] = q[pos(n)] /\ w[n] \notin dropped
    BY WithoutIsFilter
  <1>3. Len(w) = Cardinality(Kept(q, dropped))
    BY WithoutIsFilter
  <1> HIDE DEF w, pos
  <1>4. ElementsOf(w) \subseteq ElementsOf(q) \ dropped
    BY <1>2 DEF ElementsOf
  <1>5. ElementsOf(q) \ dropped \subseteq ElementsOf(w)
    <2> SUFFICES ASSUME NEW i \in 1 .. Len(q), q[i] \notin dropped
                 PROVE  q[i] \in ElementsOf(w)
      BY DEF ElementsOf
    <2> PICK n \in 1 .. Len(w) : pos(n) = i
      BY <1>3, EveryKeptPosition DEF pos
    <2> w[n] = q[i]
      BY <1>2
    <2> QED
      BY DEF ElementsOf
  <1> QED
    BY <1>1, <1>4, <1>5 DEF w

(* Filtering a sequence without repetitions leaves none. *)
LEMMA WithoutDistinct ==
    ASSUME NEW S, NEW q \in Seq(S), NEW dropped,
           \A i, k \in 1 .. Len(q) : q[i] = q[k] => i = k
    PROVE  \A m, n \in 1 .. Len(Without(q, dropped)) :
               Without(q, dropped)[m] = Without(q, dropped)[n] => m = n
  <1> DEFINE w == Without(q, dropped)
             pos(n) == Position(q, dropped, n)
  <1>1. /\ \A n \in 1 .. Len(w) : pos(n) \in 1 .. Len(q) /\ w[n] = q[pos(n)]
        /\ \A m, n \in 1 .. Len(w) : m < n => pos(m) < pos(n)
        /\ w \in Seq(S)
    BY WithoutIsFilter
  <1> HIDE DEF w, pos
  <1> SUFFICES ASSUME NEW m \in 1 .. Len(w), NEW n \in 1 .. Len(w), w[m] = w[n]
               PROVE  m = n
    BY DEF w
  <1>2. pos(m) = pos(n)
    <2> /\ pos(m) \in 1 .. Len(q) /\ w[m] = q[pos(m)]
        /\ pos(n) \in 1 .. Len(q) /\ w[n] = q[pos(n)]
      BY <1>1
    <2> QED
      OBVIOUS
  <1>0. ~(pos(m) < pos(n)) /\ ~(pos(n) < pos(m))
    <2> pos(m) \in Int
      BY <1>1
    <2> QED
      BY <1>2
  <1>3. CASE m < n
    BY <1>0, <1>1, <1>3
  <1>4. CASE n < m
    BY <1>0, <1>1, <1>4
  <1>5. m \in Int /\ n \in Int
    OBVIOUS
  <1> QED
    BY <1>3, <1>4, <1>5

-----------------------------------------------------------------------------
(***************************************************************************)
(* Type correctness needs to know that a job and a deployment that exist   *)
(* have a payload: promoteDeployment moves the active artifact into the    *)
(* history.                                                                *)
(***************************************************************************)
PayloadsKnown ==
    /\ \A d \in decisions : d.operation # "cancel" => d.payload \in Payloads
    /\ \A j \in Jobs : jobs[j].status # "absent" =>
          jobs[j].payload \in Payloads /\ jobs[j].resource \in Resources
    /\ \A k \in ResourceKeys : deployments[k].generation > 0 =>
          deployments[k].active \in Payloads

TInv == TypeOK /\ PayloadsKnown

RecordType == [action : {"none", "enqueue", "cancel"}, jobId : Jobs \cup {NoJob}]

DeploymentType ==
    [active : Payloads \cup {NoPayload}, previous : Seq(Payloads),
     generation : Nat, sourceJob : Jobs \cup {NoJob}]

(* Stamps are natural numbers. *)
LEMMA StampsAreTimes == \A s \in Stamps : s \in Nat
  BY EnvironmentAssumption DEF Stamps, Times

(* What a decision carries. *)
LEMMA DecisionFacts ==
    ASSUME TInv, NEW d \in decisions
    PROVE  /\ d \in DecisionType
           /\ d.capability \in Capabilities
           /\ d.capability.tenant \in Tenants
           /\ d.capability.resource \in Resources
           /\ d.capability.id \in CapabilityIds
           /\ d.key \in Keys
           /\ d.at \in Nat
           /\ d.operation # "cancel" => d.payload \in Payloads
  <1>1. d \in DecisionType
    BY DEF TInv, TypeOK
  <1>2. d.capability \in Capabilities /\ d.key \in Keys /\ d.at \in Nat
    BY <1>1 DEF DecisionType
  <1> QED
    BY <1>1, <1>2, CapabilitiesAssumption DEF TInv, PayloadsKnown, CapabilityIds

(* Redemption keeps the map of redeemed capabilities well typed. *)
LEMMA RedeemType ==
    ASSUME TInv, NEW d \in decisions, NEW j \in Jobs, Redeem(d, j)
    PROVE  redeemedCapabilities' \in [CapabilityIds -> Jobs \cup {NoJob}]
  BY DecisionFacts DEF Redeem, capabilityToRedeem, TInv, TypeOK

(* A job of the snapshot. *)
LEMMA JobFacts ==
    ASSUME TypeOK, NEW j \in Jobs
    PROVE  /\ jobs[j] \in JobType
           /\ jobs[j].tenant \in Tenants
           /\ jobs[j].created \in Nat /\ jobs[j].updated \in Nat /\ jobs[j].deadline \in Nat
           /\ jobs[j].attempt \in Nat /\ jobs[j].maxAttempts \in Nat
  <1> jobs[j] \in JobType
    BY DEF TypeOK
  <1> QED
    BY QuotasAssumption DEF JobType

(* A record of the reports under way. *)
LEMMA ReportFacts ==
    ASSUME TypeOK, NEW r \in reports
    PROVE  r.job \in Jobs /\ r.at \in Nat
  BY DEF TypeOK, ReportType

(* Expiry keeps jobs and queues well typed. *)
LEMMA ExpiryType ==
    ASSUME TypeOK, NEW expired, NEW now \in Nat
    PROVE  /\ \A j \in Jobs : TimedOut(jobs[j], now) \in JobType
           /\ RetainedQueues(expired) \in [Tenants -> Seq(Jobs)]
  <1>1. ASSUME NEW j \in Jobs
        PROVE  TimedOut(jobs[j], now) \in JobType
    BY JobFacts DEF TimedOut, JobType, Terminal
  <1>2. ASSUME NEW t \in Tenants
        PROVE  Without(tenantQueues[t], expired) \in Seq(Jobs)
    BY WithoutElements DEF TypeOK
  <1> QED
    BY <1>1, <1>2 DEF RetainedQueues

(* nextEligibleTenant is a tenant whose head job is eligible. *)
LEMMA NextEligible ==
    ASSUME TypeOK, EligibleOffsets # {}
    PROVE  nextEligibleTenant \in Tenants /\ Eligible(nextEligibleTenant)
  <1>1. EligibleOffsets \in SUBSET (0 .. NumTenants - 1)
    BY DEF EligibleOffsets
  <1>2. IsFiniteSet(0 .. NumTenants - 1)
    BY FS_Interval, TenantsAssumption
  <1>3. IsFiniteSet(EligibleOffsets)
    BY <1>1, <1>2, FS_Subset
  <1>4. EligibleOffsets \in SUBSET Int
    BY <1>1
  <1>5. \E o \in EligibleOffsets : \A p \in EligibleOffsets : o <= p
    <2> DEFINE K == EligibleOffsets
    <2> K \in SUBSET Int /\ IsFiniteSet(K) /\ K # {}
      BY <1>3, <1>4
    <2> HIDE DEF K
    <2> \E o \in K : \A p \in K : o <= p
      BY LeastElement
    <2> QED
      BY DEF K
  <1>6. PICK o \in EligibleOffsets : nextEligibleTenant = TenantAt(o)
    BY <1>5 DEF nextEligibleTenant
  <1>7. lastScheduledTenant + o \in Nat
    BY <1>6, TenantsAssumption DEF EligibleOffsets, TypeOK
  <1>8. (lastScheduledTenant + o) % NumTenants \in 0 .. NumTenants - 1
    BY <1>7, TenantsAssumption
  <1>9. TenantAt(o) \in Tenants
    BY <1>8, TenantsAssumption DEF TenantAt, Tenants
  <1> QED
    BY <1>6, <1>9 DEF EligibleOffsets

(* The deployment a promotion leaves behind. *)
LEMMA PromotedType ==
    ASSUME NEW d \in DeploymentType, NEW artifact \in Payloads, NEW j \in Jobs,
           d.generation > 0 => d.active \in Payloads
    PROVE  Promoted(d, artifact, j) \in DeploymentType
  <1> DEFINE history == IF d.active = artifact THEN d.previous
                        ELSE <<d.active>> \o Without(d.previous, {artifact})
             n == IF Len(history) < MaxHistory THEN Len(history) ELSE MaxHistory
             previous == IF d.generation = 0 THEN << >> ELSE SubSeq(history, 1, n)
  <1>1. d.generation \in Nat /\ d.previous \in Seq(Payloads)
    BY DEF DeploymentType
  <1>2. previous \in Seq(Payloads)
    <2>1. CASE d.generation = 0
      BY <2>1
    <2>2. CASE d.generation # 0
      <3>1. history \in Seq(Payloads)
        <4>1. Without(d.previous, {artifact}) \in Seq(Payloads)
          BY <1>1, WithoutElements
        <4>2. <<d.active>> \in Seq(Payloads)
          BY <1>1, <2>2
        <4> QED
          BY <1>1, <4>1, <4>2, ConcatProperties
      <3> HIDE DEF history
      <3>2. n \in Nat /\ n <= Len(history)
        BY <3>1, QuotasAssumption
      <3>3. SubSeq(history, 1, n) \in Seq(Payloads)
        <4> \A i \in 1 .. n : history[i] \in Payloads
          BY <3>1, <3>2
        <4> QED
          BY <3>2, SubSeqProperties
      <3> QED
        BY <2>2, <3>3
    <2> QED
      BY <2>1, <2>2
  <1>3. Promoted(d, artifact, j) = [active |-> artifact, previous |-> previous,
                                    generation |-> d.generation + 1, sourceJob |-> j]
    BY DEF Promoted
  <1> HIDE DEF previous
  <1> QED
    BY <1>1, <1>2, <1>3 DEF DeploymentType

(* One job changes and has a payload if it exists. *)
LEMMA OneJob ==
    ASSUME TInv, NEW j \in Jobs, NEW job \in JobType, jobs' = [jobs EXCEPT ![j] = job],
           job.status # "absent" => job.payload \in Payloads /\ job.resource \in Resources
    PROVE  /\ jobs' \in [Jobs -> JobType]
           /\ \A i \in Jobs : jobs'[i].status # "absent" =>
                 jobs'[i].payload \in Payloads /\ jobs'[i].resource \in Resources
  BY DEF TInv, TypeOK, PayloadsKnown

(* The empty snapshot is well typed. *)
LEMMA TypeInit == Init => TInv
  <1> SUFFICES ASSUME Init
               PROVE  TInv
    OBVIOUS
  <1>1. AbsentJob \in JobType /\ AbsentJob.status = "absent"
    BY TenantsAssumption, QuotasAssumption
       DEF AbsentJob, JobType, Tenants, Operations, None
  <1>2. NoDeployment \in DeploymentType /\ NoDeployment.generation = 0
    BY DEF NoDeployment, DeploymentType
  <1>3. NoRecord \in RecordType
    BY DEF NoRecord, RecordType
  <1>4. Idle \in [on : BOOLEAN, now : Nat, left : Nat]
    BY DEF Idle
  <1>5. TypeOK
    BY <1>1, <1>2, <1>3, <1>4, TenantsAssumption, EnvironmentAssumption
       DEF Init, TypeOK, RecordType, DeploymentType, Times
  <1> QED
    BY <1>1, <1>2, <1>5 DEF TInv, PayloadsKnown, Init

(* The clock, the authorizer and the workers keep the types. *)
LEMMA EnvironmentType ==
    ASSUME TInv, Environment
    PROVE  TInv'
  <1>1. CASE Tick
    <2> clock' \in Times
      BY <1>1, EnvironmentAssumption DEF Tick, TInv, TypeOK, Times
    <2> QED
      BY <1>1 DEF Tick, snapshot, TInv, TypeOK, PayloadsKnown
  <1>2. ASSUME NEW c \in Capabilities, NEW p \in Payloads, NEW k \in Keys,
               NEW op \in c.operations, Authorize(c, op, p, k)
        PROVE  TInv'
    <2>1. PICK at \in Stamps : decisions' = decisions \cup
              {[capability |-> c, operation |-> op, key |-> k, at |-> at,
                payload |-> IF op = "cancel" THEN NoPayload ELSE p]}
      BY <1>2 DEF Authorize
    <2> DEFINE d == [capability |-> c, operation |-> op, key |-> k, at |-> at,
                     payload |-> IF op = "cancel" THEN NoPayload ELSE p]
    <2>2. op \in Operations \cup {"cancel"} /\ at \in Nat
      BY CapabilitiesAssumption, StampsAreTimes DEF Operations
    <2>3. d \in DecisionType
      BY <2>2 DEF DecisionType
    <2>4. d.operation # "cancel" => d.payload \in Payloads
      OBVIOUS
    <2> HIDE DEF d
    <2>5. /\ decisions' \subseteq DecisionType
          /\ \A e \in decisions' : e.operation # "cancel" => e.payload \in Payloads
      BY <2>1, <2>3, <2>4 DEF d, TInv, TypeOK, PayloadsKnown
    <2> QED
      BY <1>2, <2>5 DEF Authorize, snapshot, TInv, TypeOK, PayloadsKnown
  <1>3. ASSUME NEW w \in workers, NEW outcome \in Outcomes \ {"crash"},
               WorkerFinishes(w, outcome)
        PROVE  TInv'
    <2>1. PICK at \in Stamps : reports' = reports \cup
              {[job |-> w.job, attempt |-> w.attempt, outcome |-> outcome, at |-> at]}
      BY <1>3 DEF WorkerFinishes
    <2>2. /\ outcome \in {"succeeded", "failed", "retryable", "cleanup"}
          /\ w.job \in Jobs /\ w.attempt \in Nat /\ at \in Nat
      BY EnvironmentAssumption, StampsAreTimes DEF TInv, TypeOK
    <2>3. [job |-> w.job, attempt |-> w.attempt, outcome |-> outcome, at |-> at] \in ReportType
      BY <2>2 DEF ReportType
    <2>4. reports' \subseteq ReportType /\ workers' \subseteq workers
      BY <1>3, <2>1, <2>3 DEF WorkerFinishes, TInv, TypeOK
    <2> QED
      BY <1>3, <2>4 DEF WorkerFinishes, snapshot, TInv, TypeOK, PayloadsKnown
  <1>4. ASSUME NEW w \in workers, WorkerCrashes(w)
        PROVE  TInv'
    <2> workers' \subseteq workers
      BY <1>4 DEF WorkerCrashes
    <2> QED
      BY <1>4 DEF WorkerCrashes, snapshot, TInv, TypeOK, PayloadsKnown
  <1>5. ASSUME NEW j \in Jobs, SandboxCleaned(j)
        PROVE  TInv'
    <2>1. PICK at \in Stamps : reports' = reports \cup
              {[job |-> j, attempt |-> jobs[j].attempt, outcome |-> "cleanup", at |-> at]}
      BY <1>5 DEF SandboxCleaned
    <2>2. jobs[j].attempt \in Nat /\ at \in Nat
      BY JobFacts, StampsAreTimes DEF TInv
    <2>3. [job |-> j, attempt |-> jobs[j].attempt, outcome |-> "cleanup", at |-> at]
            \in ReportType
      BY <2>2 DEF ReportType
    <2>4. reports' \subseteq ReportType /\ workers' \subseteq workers
      BY <1>5, <2>1, <2>3 DEF SandboxCleaned, TInv, TypeOK
    <2> QED
      BY <1>5, <2>4 DEF SandboxCleaned, snapshot, TInv, TypeOK, PayloadsKnown
  <1> QED
    BY <1>1, <1>2, <1>3, <1>4, <1>5 DEF Environment

(* enqueuePaasJob keeps the types. *)
LEMMA EnqueueType ==
    ASSUME TInv, NEW d \in decisions, NEW j \in Jobs, NEW m \in 1 .. MaxAttempts,
           EnqueuePaasJob(d, j, m)
    PROVE  TInv'
  <1> DEFINE t == d.capability.tenant
             job == [tenant |-> t, operation |-> d.operation,
                     resource |-> d.capability.resource, payload |-> d.payload,
                     status |-> "queued", key |-> d.key, created |-> d.at, updated |-> d.at,
                     deadline |-> d.at + MaxExecution[t], started |-> None, completed |-> None,
                     attempt |-> 0, maxAttempts |-> m, reason |-> "none"]
  <1>1. /\ t \in Tenants /\ d.capability.resource \in Resources /\ d.key \in Keys
        /\ d.at \in Nat /\ d.operation \in Operations
        /\ d.payload \in Payloads
    BY DecisionFacts DEF EnqueuePaasJob, Operations
  <1>2. d.at + MaxExecution[t] \in Nat
    BY <1>1, QuotasAssumption
  <1>3. job \in JobType
    BY <1>1, <1>2 DEF JobType
  <1>4. job.payload \in Payloads /\ job.resource \in Resources
    BY <1>1
  <1>5. /\ jobs' = [jobs EXCEPT ![j] = job]
        /\ tenantQueues' = [tenantQueues EXCEPT ![t] = Append(@, j)]
        /\ idempotency' = [idempotency EXCEPT ![<<t, d.key>>] =
                               [action |-> "enqueue", jobId |-> j]]
        /\ revision' = revision + 1
        /\ UNCHANGED <<lastScheduledTenant, resourceLocks, deployments,
                       sched, clock, decisions, workers, reports>>
    BY DEF EnqueuePaasJob, Pushed
  <1> HIDE DEF job, t
  <1>6. /\ jobs' \in [Jobs -> JobType]
        /\ \A i \in Jobs : jobs'[i].status # "absent" =>
              jobs'[i].payload \in Payloads /\ jobs'[i].resource \in Resources
    BY <1>3, <1>4, <1>5, OneJob
  <1>7. tenantQueues' \in [Tenants -> Seq(Jobs)]
    BY <1>1, <1>5 DEF TInv, TypeOK
  <1>8. idempotency' \in [Tenants \X Keys -> RecordType]
    <2> [action |-> "enqueue", jobId |-> j] \in RecordType
      BY DEF RecordType
    <2> idempotency \in [Tenants \X Keys -> RecordType]
      BY DEF TInv, TypeOK, RecordType
    <2> QED
      BY <1>5
  <1>9. redeemedCapabilities' \in [CapabilityIds -> Jobs \cup {NoJob}]
    BY RedeemType DEF EnqueuePaasJob
  <1>10. revision' \in Nat
    BY <1>5 DEF TInv, TypeOK
  <1> QED
    BY <1>5, <1>6, <1>7, <1>8, <1>9, <1>10 DEF TInv, TypeOK, RecordType, PayloadsKnown

(* Jobs in a queue are queued. *)
LEMMA QueuedFacts ==
    ASSUME TypeOK, QueuesConsistent, NEW t \in Tenants, NEW j \in Jobs, InQueue(t, j)
    PROVE  jobs[j].status = "queued" /\ jobs[j].tenant = t
  <1> PICK i \in 1 .. Len(tenantQueues[t]) : tenantQueues[t][i] = j
    BY DEF InQueue, ElementsOf
  <1> QED
    BY DEF QueuesConsistent

(* Expired jobs are queued jobs, overtime jobs are running. *)
LEMMA ExpiredFacts ==
    ASSUME TypeOK, QueuesConsistent, NEW now
    PROVE  /\ \A j \in ExpiredQueued(now) : j \in Jobs /\ jobs[j].status = "queued"
           /\ \A j \in ExpiredRunning(now) : j \in Jobs /\ jobs[j].status = "running"
  BY QueuedFacts DEF ExpiredQueued, ExpiredRunning

(* The job a start takes from its queue. *)
LEMMA HeadFacts ==
    ASSUME TypeOK, QueuesConsistent, EligibleOffsets # {}
    PROVE  LET t == nextEligibleTenant
               j == Head(tenantQueues[t])
           IN /\ t \in Tenants
              /\ j \in Jobs
              /\ tenantQueues[t] \in Seq(Jobs) /\ tenantQueues[t] # << >>
              /\ jobs[j].status = "queued"
              /\ jobs[j].tenant = t
              /\ resourceLocks[ResourceKey(jobs[j])] = NoJob
  <1> DEFINE t == nextEligibleTenant
             j == Head(tenantQueues[t])
  <1>1. t \in Tenants /\ Eligible(t)
    BY NextEligible
  <1> HIDE DEF t
  <1>2. tenantQueues[t] \in Seq(Jobs) /\ tenantQueues[t] # << >>
    BY <1>1 DEF TypeOK, Eligible
  <1>3. /\ j \in Jobs /\ 1 \in 1 .. Len(tenantQueues[t]) /\ tenantQueues[t][1] = j
    BY <1>2
  <1>4. jobs[j].status = "queued" /\ jobs[j].tenant = t
    BY <1>1, <1>3 DEF QueuesConsistent
  <1>5. resourceLocks[ResourceKey(jobs[j])] = NoJob
    BY <1>1 DEF Eligible
  <1> QED
    BY <1>1, <1>2, <1>3, <1>4, <1>5 DEF t

(* The steps of schedulePaasJobs keep the types; first its expiry. *)
LEMMA ScheduleBeginType ==
    ASSUME TInv, QueuesConsistent, NEW now \in Stamps, NEW n \in 1 .. MaxGlobalConcurrency,
           ScheduleBegin(now, n)
    PROVE  TInv'
  <1> DEFINE expired == ExpiredQueued(now)
  <1>1. now \in Nat /\ n \in Nat
    BY StampsAreTimes, QuotasAssumption
  <1>2. /\ \A j \in Jobs : TimedOut(jobs[j], now) \in JobType
        /\ RetainedQueues(expired) \in [Tenants -> Seq(Jobs)]
    BY <1>1, ExpiryType DEF TInv
  <1>3. /\ jobs' = [j \in Jobs |-> IF j \in expired THEN TimedOut(jobs[j], now) ELSE jobs[j]]
        /\ tenantQueues' = RetainedQueues(expired)
        /\ sched' = [on |-> TRUE, now |-> now, left |-> n]
        /\ UNCHANGED <<revision, lastScheduledTenant, idempotency, redeemedCapabilities,
                       resourceLocks, deployments, clock, decisions, workers, reports>>
    BY DEF ScheduleBegin
  <1>4. \A j \in expired : jobs[j].status # "absent"
    BY ExpiredFacts DEF TInv
  <1>5. \A j \in Jobs : /\ TimedOut(jobs[j], now).payload = jobs[j].payload
                        /\ TimedOut(jobs[j], now).resource = jobs[j].resource
    BY JobFacts DEF TInv, TimedOut, JobType
  <1> HIDE DEF expired
  <1>6. jobs' \in [Jobs -> JobType]
    BY <1>2, <1>3 DEF TInv, TypeOK
  <1>7. \A j \in Jobs : jobs'[j].status # "absent" =>
            jobs'[j].payload \in Payloads /\ jobs'[j].resource \in Resources
    BY <1>3, <1>4, <1>5 DEF TInv, PayloadsKnown
  <1> QED
    BY <1>1, <1>2, <1>3, <1>6, <1>7 DEF TInv, TypeOK, PayloadsKnown

(* One iteration of the loop. *)
LEMMA ScheduleStartType ==
    ASSUME TInv, QueuesConsistent, ScheduleStart
    PROVE  TInv'
  <1> DEFINE t == nextEligibleTenant
             j == Head(tenantQueues[t])
             job == [jobs[j] EXCEPT !.status = "running", !.started = sched.now,
                                    !.updated = sched.now, !.attempt = jobs[j].attempt + 1]
  <1>1. /\ t \in Tenants /\ j \in Jobs
        /\ tenantQueues[t] \in Seq(Jobs) /\ tenantQueues[t] # << >>
        /\ jobs[j].status = "queued"
    BY HeadFacts DEF TInv, ScheduleStart, LoopContinues, MayStart
  <1>2. /\ tenantQueues' = [tenantQueues EXCEPT ![t] = Tail(@)]
        /\ jobs' = [jobs EXCEPT ![j] = job]
        /\ resourceLocks' = [resourceLocks EXCEPT ![ResourceKey(jobs[j])] = j]
        /\ lastScheduledTenant' = t
        /\ sched' = [sched EXCEPT !.left = sched.left - 1]
        /\ sched.left > 0
        /\ workers' = workers \cup {[job |-> j, attempt |-> jobs[j].attempt + 1]}
        /\ UNCHANGED <<revision, idempotency, redeemedCapabilities, deployments,
                       clock, decisions, reports>>
    BY DEF ScheduleStart, LoopContinues
  <1> HIDE DEF t, j
  <1>3. jobs[j] \in JobType /\ jobs[j].attempt \in Nat /\ sched.now \in Nat
    BY <1>1, JobFacts DEF TInv, TypeOK
  <1>4. job \in JobType
    <2> /\ "running" \in {"absent", "queued"} \cup Active \cup Terminal
        /\ jobs[j].attempt + 1 \in Nat
        /\ sched.now \in Nat \cup {None}
      BY <1>3 DEF Active
    <2> QED
      BY <1>3 DEF JobType
  <1>5. job.payload = jobs[j].payload /\ job.resource = jobs[j].resource
    BY <1>3 DEF JobType
  <1>6. jobs[j].payload \in Payloads /\ jobs[j].resource \in Resources
    BY <1>1 DEF TInv, PayloadsKnown
  <1> HIDE DEF job
  <1>7. /\ jobs' \in [Jobs -> JobType]
        /\ \A i \in Jobs : jobs'[i].status # "absent" =>
              jobs'[i].payload \in Payloads /\ jobs'[i].resource \in Resources
    BY <1>1, <1>2, <1>4, <1>5, <1>6, OneJob
  <1>8. tenantQueues' \in [Tenants -> Seq(Jobs)]
    BY <1>1, <1>2 DEF TInv, TypeOK
  <1>9. resourceLocks' \in [ResourceKeys -> Jobs \cup {NoJob}]
    BY <1>1, <1>2 DEF TInv, TypeOK
  <1>10. sched' \in [on : BOOLEAN, now : Nat, left : Nat]
    <2> sched \in [on : BOOLEAN, now : Nat, left : Nat]
      BY DEF TInv, TypeOK
    <2> sched.left - 1 \in Nat
      BY <1>2
    <2> QED
      BY <1>2
  <1>11. workers' \subseteq [job : Jobs, attempt : Nat]
    <2> [job |-> j, attempt |-> jobs[j].attempt + 1] \in [job : Jobs, attempt : Nat]
      BY <1>1, <1>3
    <2> QED
      BY <1>2 DEF TInv, TypeOK
  <1>12. lastScheduledTenant' \in 0 .. NumTenants
    BY <1>1, <1>2, TenantsAssumption DEF Tenants
  <1> QED
    BY <1>2, <1>7, <1>8, <1>9, <1>10, <1>11, <1>12 DEF TInv, TypeOK, PayloadsKnown

(* The end of the loop. *)
LEMMA ScheduleEndType ==
    ASSUME TInv, ScheduleEnd
    PROVE  TInv'
  <1> Idle \in [on : BOOLEAN, now : Nat, left : Nat]
    BY DEF Idle
  <1> revision' \in Nat
    BY DEF ScheduleEnd, TInv, TypeOK
  <1> sched' \in [on : BOOLEAN, now : Nat, left : Nat]
    BY DEF ScheduleEnd
  <1> QED
    BY DEF ScheduleEnd, TInv, TypeOK, PayloadsKnown

(* What completePaasJob and acknowledgePaasJobCancellation have in common: *)
(* one active job changes, its lock is released, the report is used up.    *)
LEMMA ReportStepType ==
    ASSUME TInv, NEW r \in reports, jobs[r.job].status \in Active,
           NEW job \in JobType,
           job.payload = jobs[r.job].payload, job.resource = jobs[r.job].resource,
           jobs' = [jobs EXCEPT ![r.job] = job],
           Release(jobs[r.job]), Delivered(r), revision' = revision + 1,
           tenantQueues' \in [Tenants -> Seq(Jobs)],
           deployments' \in [ResourceKeys -> DeploymentType],
           \A k \in ResourceKeys : deployments'[k].generation > 0 =>
               deployments'[k].active \in Payloads,
           UNCHANGED <<lastScheduledTenant, idempotency, redeemedCapabilities,
                       sched, clock, decisions, workers>>
    PROVE  TInv'
  <1>1. r.job \in Jobs
    BY ReportFacts DEF TInv
  <1>2. jobs[r.job].payload \in Payloads /\ jobs[r.job].resource \in Resources
    BY <1>1 DEF TInv, PayloadsKnown, Active
  <1>3. /\ jobs' \in [Jobs -> JobType]
        /\ \A i \in Jobs : jobs'[i].status # "absent" =>
              jobs'[i].payload \in Payloads /\ jobs'[i].resource \in Resources
    BY <1>1, <1>2, OneJob
  <1>4. resourceLocks' \in [ResourceKeys -> Jobs \cup {NoJob}]
    BY DEF Release, TInv, TypeOK
  <1>5. reports' \subseteq ReportType
    BY DEF Delivered, TInv, TypeOK
  <1>6. revision' \in Nat
    BY DEF TInv, TypeOK
  <1> QED
    BY <1>3, <1>4, <1>5, <1>6 DEF TInv, TypeOK, DeploymentType, PayloadsKnown

(* The job records completePaasJob and acknowledgePaasJobCancellation write. *)
LEMMA ReportedJobType ==
    ASSUME TInv, NEW r \in reports, NEW st \in {"queued"} \cup Terminal,
           NEW done \in Nat \cup {None}
    PROVE  LET job == [jobs[r.job] EXCEPT !.status = st, !.updated = r.at, !.started = None,
                                          !.completed = done]
           IN /\ job \in JobType
              /\ job.payload = jobs[r.job].payload /\ job.resource = jobs[r.job].resource
  <1>1. r.job \in Jobs /\ r.at \in Nat
    BY ReportFacts DEF TInv
  <1>2. jobs[r.job] \in JobType
    BY <1>1, JobFacts DEF TInv
  <1>3. None \in Nat \cup {None} /\ st \in {"absent", "queued"} \cup Active \cup Terminal
    OBVIOUS
  <1> QED
    BY <1>1, <1>2, <1>3 DEF JobType

(* completePaasJob keeps the types: a retry. *)
LEMMA RetryType ==
    ASSUME TInv, NEW r \in reports, RetryPaasJob(r)
    PROVE  TInv'
  <1> DEFINE old == jobs[r.job]
             job == [old EXCEPT !.status = "queued", !.updated = r.at, !.started = None]
  <1>1. /\ jobs' = [jobs EXCEPT ![r.job] = job]
        /\ old.status \in Active
        /\ tenantQueues' = [tenantQueues EXCEPT ![old.tenant] = Append(@, r.job)]
    BY DEF RetryPaasJob, ReportAdmitted, Active, Pushed
  <1>2. r.job \in Jobs /\ r.at \in Nat
    BY ReportFacts DEF TInv
  <1>3. old \in JobType /\ old.tenant \in Tenants
    BY <1>2, JobFacts DEF TInv
  <1>4. /\ job \in JobType
        /\ job.payload = old.payload /\ job.resource = old.resource
    BY <1>2, <1>3 DEF JobType
  <1>5. tenantQueues' \in [Tenants -> Seq(Jobs)]
    BY <1>1, <1>2, <1>3 DEF TInv, TypeOK
  <1>6. /\ deployments' \in [ResourceKeys -> DeploymentType]
        /\ \A k \in ResourceKeys : deployments'[k].generation > 0 =>
               deployments'[k].active \in Payloads
    BY DEF RetryPaasJob, TInv, TypeOK, DeploymentType, PayloadsKnown
  <1>7. /\ Release(jobs[r.job]) /\ Delivered(r) /\ revision' = revision + 1
        /\ UNCHANGED <<lastScheduledTenant, idempotency, redeemedCapabilities,
                       sched, clock, decisions, workers>>
    BY DEF RetryPaasJob
  <1> HIDE DEF job
  <1> QED
    BY <1>1, <1>4, <1>5, <1>6, <1>7, ReportStepType

(* completePaasJob keeps the types: a failure. *)
LEMMA FailType ==
    ASSUME TInv, NEW r \in reports, FailPaasJob(r)
    PROVE  TInv'
  <1> DEFINE old == jobs[r.job]
             job == [old EXCEPT !.status = "failed", !.updated = r.at, !.started = None,
                                !.completed = r.at]
  <1>1. /\ jobs' = [jobs EXCEPT ![r.job] = job]
        /\ old.status \in Active
    BY DEF FailPaasJob, ReportAdmitted, Active
  <1>2. r.at \in Nat \cup {None} /\ "failed" \in {"queued"} \cup Terminal
    BY ReportFacts DEF TInv, Terminal
  <1>4. /\ job \in JobType
        /\ job.payload = old.payload /\ job.resource = old.resource
    BY <1>2, ReportedJobType
  <1>5. tenantQueues' \in [Tenants -> Seq(Jobs)]
    BY DEF FailPaasJob, TInv, TypeOK
  <1>6. /\ deployments' \in [ResourceKeys -> DeploymentType]
        /\ \A k \in ResourceKeys : deployments'[k].generation > 0 =>
               deployments'[k].active \in Payloads
    BY DEF FailPaasJob, TInv, TypeOK, DeploymentType, PayloadsKnown
  <1>7. /\ Release(jobs[r.job]) /\ Delivered(r) /\ revision' = revision + 1
        /\ UNCHANGED <<lastScheduledTenant, idempotency, redeemedCapabilities,
                       sched, clock, decisions, workers>>
    BY DEF FailPaasJob
  <1> HIDE DEF job
  <1> QED
    BY <1>1, <1>4, <1>5, <1>6, <1>7, ReportStepType

(* completePaasJob keeps the types: a success and its promotion. *)
LEMMA SucceedType ==
    ASSUME TInv, NEW r \in reports, SucceedPaasJob(r)
    PROVE  TInv'
  <1> DEFINE old == jobs[r.job]
             job == [old EXCEPT !.status = "succeeded", !.updated = r.at, !.started = None,
                                !.completed = r.at]
  <1>1. /\ jobs' = [jobs EXCEPT ![r.job] = job]
        /\ old.status \in Active
    BY DEF SucceedPaasJob, ReportAdmitted, Active
  <1>2. r.at \in Nat \cup {None} /\ "succeeded" \in {"queued"} \cup Terminal /\ r.job \in Jobs
    BY ReportFacts DEF TInv, Terminal
  <1>3. /\ old.payload \in Payloads
        /\ ResourceKey(old) \in ResourceKeys
    BY <1>1, <1>2, JobFacts DEF TInv, PayloadsKnown, Active, ResourceKey, ResourceKeys
  <1>4. /\ job \in JobType
        /\ job.payload = old.payload /\ job.resource = old.resource
    BY <1>2, ReportedJobType
  <1>5. tenantQueues' \in [Tenants -> Seq(Jobs)]
    BY DEF SucceedPaasJob, TInv, TypeOK
  <1>6. /\ deployments' \in [ResourceKeys -> DeploymentType]
        /\ \A k \in ResourceKeys : deployments'[k].generation > 0 =>
               deployments'[k].active \in Payloads
    <2> DEFINE k == ResourceKey(old)
               new == Promoted(deployments[k], old.payload, r.job)
    <2>1. /\ deployments \in [ResourceKeys -> DeploymentType]
          /\ \A h \in ResourceKeys : deployments[h].generation > 0 =>
                 deployments[h].active \in Payloads
      BY DEF TInv, TypeOK, DeploymentType, PayloadsKnown
    <2>2. new \in DeploymentType
      BY <1>2, <1>3, <2>1, PromotedType
    <2>3. new.active \in Payloads
      BY <1>3 DEF Promoted
    <2>4. \/ deployments' = deployments
          \/ deployments' = [deployments EXCEPT ![k] = new]
      BY DEF SucceedPaasJob
    <2> HIDE DEF k, new
    <2> QED
      BY <2>1, <2>2, <2>3, <2>4
  <1>7. /\ Release(jobs[r.job]) /\ Delivered(r) /\ revision' = revision + 1
        /\ UNCHANGED <<lastScheduledTenant, idempotency, redeemedCapabilities,
                       sched, clock, decisions, workers>>
    BY DEF SucceedPaasJob
  <1> HIDE DEF job
  <1> QED
    BY <1>1, <1>4, <1>5, <1>6, <1>7, ReportStepType

(* acknowledgePaasJobCancellation keeps the types. *)
LEMMA AcknowledgeType ==
    ASSUME TInv, NEW r \in reports, AcknowledgePaasJobCancellation(r)
    PROVE  TInv'
  <1> DEFINE old == jobs[r.job]
             st == IF old.reason = "deadline" THEN "timed-out" ELSE "cancelled"
             job == [old EXCEPT !.status = st, !.updated = r.at, !.completed = r.at,
                                !.started = None]
  <1>1. /\ jobs' = [jobs EXCEPT ![r.job] = job]
        /\ old.status \in Active
    BY DEF AcknowledgePaasJobCancellation, Active
  <1>2. r.at \in Nat /\ r.job \in Jobs /\ st \in {"absent", "queued"} \cup Active \cup Terminal
    BY ReportFacts DEF TInv, Terminal
  <1>3. old \in JobType
    BY <1>2, JobFacts DEF TInv
  <1>4. /\ job \in JobType
        /\ job.payload = old.payload /\ job.resource = old.resource
    <2> HIDE DEF st, old
    <2> QED
      BY <1>2, <1>3 DEF JobType
  <1>5. tenantQueues' \in [Tenants -> Seq(Jobs)]
    BY DEF AcknowledgePaasJobCancellation, TInv, TypeOK
  <1>6. /\ deployments' \in [ResourceKeys -> DeploymentType]
        /\ \A k \in ResourceKeys : deployments'[k].generation > 0 =>
               deployments'[k].active \in Payloads
    BY DEF AcknowledgePaasJobCancellation, TInv, TypeOK, DeploymentType, PayloadsKnown
  <1>7. /\ Release(jobs[r.job]) /\ Delivered(r) /\ revision' = revision + 1
        /\ UNCHANGED <<lastScheduledTenant, idempotency, redeemedCapabilities,
                       sched, clock, decisions, workers>>
    BY DEF AcknowledgePaasJobCancellation
  <1> HIDE DEF job
  <1> QED
    BY <1>1, <1>4, <1>5, <1>6, <1>7, ReportStepType

(* cancelPaasJob keeps the types: what its two cases have in common. *)
LEMMA CancelStepType ==
    ASSUME TInv, NEW d \in decisions, NEW j \in Jobs, jobs[j].status # "absent",
           NEW job \in JobType,
           job.payload = jobs[j].payload, job.resource = jobs[j].resource,
           jobs' = [jobs EXCEPT ![j] = job],
           Redeem(d, j),
           tenantQueues' \in [Tenants -> Seq(Jobs)],
           idempotency' = [idempotency EXCEPT ![<<jobs[j].tenant, d.key>>] =
                               [action |-> "cancel", jobId |-> j]],
           revision' = revision + 1,
           UNCHANGED <<lastScheduledTenant, resourceLocks, deployments,
                       sched, clock, decisions, workers, reports>>
    PROVE  TInv'
  <1>1. jobs[j].payload \in Payloads /\ jobs[j].resource \in Resources
    BY DEF TInv, PayloadsKnown
  <1>2. /\ jobs' \in [Jobs -> JobType]
        /\ \A i \in Jobs : jobs'[i].status # "absent" =>
              jobs'[i].payload \in Payloads /\ jobs'[i].resource \in Resources
    BY <1>1, OneJob
  <1>3. idempotency' \in [Tenants \X Keys -> RecordType]
    <2> [action |-> "cancel", jobId |-> j] \in RecordType
      BY DEF RecordType
    <2> idempotency \in [Tenants \X Keys -> RecordType]
      BY DEF TInv, TypeOK, RecordType
    <2> QED
      OBVIOUS
  <1>4. redeemedCapabilities' \in [CapabilityIds -> Jobs \cup {NoJob}]
    BY RedeemType
  <1>5. revision' \in Nat
    BY DEF TInv, TypeOK
  <1> QED
    BY <1>2, <1>3, <1>4, <1>5 DEF TInv, TypeOK, RecordType, PayloadsKnown

(* cancelPaasJob of a queued job. *)
LEMMA CancelQueuedType ==
    ASSUME TInv, NEW d \in decisions, NEW j \in Jobs, CancelQueuedPaasJob(d, j)
    PROVE  TInv'
  <1> DEFINE old == jobs[j]
             job == [old EXCEPT !.status = "cancelled", !.reason = "user", !.updated = d.at,
                                !.completed = d.at]
  <1>1. old \in JobType /\ old.tenant \in Tenants /\ d.at \in Nat
    BY JobFacts, DecisionFacts DEF TInv
  <1>2. job \in JobType /\ job.payload = old.payload /\ job.resource = old.resource
    BY <1>1 DEF JobType, Terminal
  <1>3. /\ old.status # "absent"
        /\ jobs' = [jobs EXCEPT ![j] = job]
        /\ tenantQueues' = [tenantQueues EXCEPT ![old.tenant] = Without(@, {j})]
        /\ Redeem(d, j)
        /\ idempotency' = [idempotency EXCEPT ![<<jobs[j].tenant, d.key>>] =
                               [action |-> "cancel", jobId |-> j]]
        /\ revision' = revision + 1
        /\ UNCHANGED <<lastScheduledTenant, resourceLocks, deployments,
                       sched, clock, decisions, workers, reports>>
    BY DEF CancelQueuedPaasJob
  <1> HIDE DEF job
  <1>4. tenantQueues' \in [Tenants -> Seq(Jobs)]
    <2> Without(tenantQueues[old.tenant], {j}) \in Seq(Jobs)
      BY <1>1, WithoutElements DEF TInv, TypeOK
    <2> QED
      BY <1>1, <1>3 DEF TInv, TypeOK
  <1> QED
    BY <1>2, <1>3, <1>4, CancelStepType

(* cancelPaasJob of a running job. *)
LEMMA CancelRunningType ==
    ASSUME TInv, NEW d \in decisions, NEW j \in Jobs, CancelRunningPaasJob(d, j)
    PROVE  TInv'
  <1> DEFINE old == jobs[j]
             job == [old EXCEPT !.status = "cancelling", !.reason = "user", !.updated = d.at]
  <1>1. old \in JobType /\ d.at \in Nat
    BY JobFacts, DecisionFacts DEF TInv
  <1>2. job \in JobType /\ job.payload = old.payload /\ job.resource = old.resource
    BY <1>1 DEF JobType, Active
  <1>3. /\ old.status # "absent"
        /\ jobs' = [jobs EXCEPT ![j] = job]
        /\ tenantQueues' = tenantQueues
        /\ Redeem(d, j)
        /\ idempotency' = [idempotency EXCEPT ![<<jobs[j].tenant, d.key>>] =
                               [action |-> "cancel", jobId |-> j]]
        /\ revision' = revision + 1
        /\ UNCHANGED <<lastScheduledTenant, resourceLocks, deployments,
                       sched, clock, decisions, workers, reports>>
    BY DEF CancelRunningPaasJob
  <1> HIDE DEF job
  <1>4. tenantQueues' \in [Tenants -> Seq(Jobs)]
    BY <1>3 DEF TInv, TypeOK
  <1> QED
    BY <1>2, <1>3, <1>4, CancelStepType

(* sweepExpiredPaasJobs keeps the types. *)
LEMMA SweepType ==
    ASSUME TInv, QueuesConsistent, NEW now \in Stamps, SweepExpiredPaasJobs(now)
    PROVE  TInv'
  <1> DEFINE expired == ExpiredQueued(now)
             overtime == ExpiredRunning(now)
             Stopped(j) == [jobs[j] EXCEPT !.status = "cancelling", !.reason = "deadline",
                                           !.updated = now]
  <1>1. now \in Nat
    BY StampsAreTimes
  <1>2. /\ \A j \in Jobs : TimedOut(jobs[j], now) \in JobType
        /\ RetainedQueues(expired) \in [Tenants -> Seq(Jobs)]
    BY <1>1, ExpiryType DEF TInv
  <1>3. \A j \in Jobs : /\ Stopped(j) \in JobType
                        /\ Stopped(j).payload = jobs[j].payload
                        /\ Stopped(j).resource = jobs[j].resource
    <2> SUFFICES ASSUME NEW j \in Jobs
                 PROVE  /\ Stopped(j) \in JobType
                        /\ Stopped(j).payload = jobs[j].payload
                        /\ Stopped(j).resource = jobs[j].resource
      OBVIOUS
    <2>1. jobs[j] \in JobType
      BY JobFacts DEF TInv
    <2> QED
      BY <1>1, <2>1 DEF JobType, Active
  <1>4. /\ jobs' = [j \in Jobs |-> IF j \in expired THEN TimedOut(jobs[j], now)
                                   ELSE IF j \in overtime THEN Stopped(j) ELSE jobs[j]]
        /\ tenantQueues' = RetainedQueues(expired)
        /\ revision' = revision + 1
        /\ UNCHANGED <<lastScheduledTenant, idempotency, redeemedCapabilities, resourceLocks,
                       deployments, sched, clock, decisions, workers, reports>>
    BY DEF SweepExpiredPaasJobs
  <1>5. \A j \in expired \cup overtime : jobs[j].status # "absent"
    BY ExpiredFacts DEF TInv
  <1>6. \A j \in Jobs : /\ TimedOut(jobs[j], now).payload = jobs[j].payload
                        /\ TimedOut(jobs[j], now).resource = jobs[j].resource
    BY JobFacts DEF TInv, TimedOut, JobType
  <1> HIDE DEF expired, overtime, Stopped
  <1>7. jobs' \in [Jobs -> JobType]
    BY <1>2, <1>3, <1>4 DEF TInv, TypeOK
  <1>8. \A j \in Jobs : jobs'[j].status # "absent" =>
            jobs'[j].payload \in Payloads /\ jobs'[j].resource \in Resources
    BY <1>3, <1>4, <1>5, <1>6 DEF TInv, PayloadsKnown
  <1>9. revision' \in Nat
    BY <1>4 DEF TInv, TypeOK
  <1> QED
    BY <1>2, <1>4, <1>7, <1>8, <1>9 DEF TInv, TypeOK, PayloadsKnown

(* Every step keeps the types. *)
LEMMA TypeStep ==
    ASSUME TInv, QueuesConsistent, [Next]_vars
    PROVE  TInv'
  <1>1. CASE Environment
    BY <1>1, EnvironmentType
  <1>2. CASE Command
    <2>1. ASSUME NEW d \in decisions, NEW j \in Jobs, NEW m \in 1 .. MaxAttempts,
                 EnqueuePaasJob(d, j, m)
          PROVE  TInv'
      BY <2>1, EnqueueType
    <2>2. ASSUME NEW now \in Stamps, NEW n \in 1 .. MaxGlobalConcurrency,
                 ScheduleBegin(now, n)
          PROVE  TInv'
      BY <2>2, ScheduleBeginType
    <2>3. ASSUME NEW r \in reports,
                 \/ RetryPaasJob(r) \/ FailPaasJob(r) \/ SucceedPaasJob(r)
                 \/ AcknowledgePaasJobCancellation(r)
          PROVE  TInv'
      BY <2>3, RetryType, FailType, SucceedType, AcknowledgeType
    <2>4. ASSUME NEW d \in decisions, NEW j \in Jobs,
                 CancelQueuedPaasJob(d, j) \/ CancelRunningPaasJob(d, j)
          PROVE  TInv'
      BY <2>4, CancelQueuedType, CancelRunningType
    <2>5. ASSUME NEW now \in Stamps, SweepExpiredPaasJobs(now)
          PROVE  TInv'
      BY <2>5, SweepType
    <2> QED
      BY <1>2, <2>1, <2>2, <2>3, <2>4, <2>5 DEF Command
  <1>3. CASE ScheduleStart
    BY <1>3, ScheduleStartType
  <1>4. CASE ScheduleEnd
    BY <1>4, ScheduleEndType
  <1>5. CASE UNCHANGED vars
    BY <1>5 DEF vars, snapshot, TInv, TypeOK, PayloadsKnown
  <1> QED
    BY <1>1, <1>2, <1>3, <1>4, <1>5 DEF Next

-----------------------------------------------------------------------------
(***************************************************************************)
(* Queues.  QueuesConsistent speaks about positions; what the steps do is  *)
(* easier to say about the set of a queue's elements.                      *)
(***************************************************************************)
Distinct(q) == \A i, k \in 1 .. Len(q) : q[i] = q[k] => i = k

(* QueuesConsistent, by elements. *)
LEMMA QueuesByElements ==
    ASSUME QueuesConsistent
    PROVE  \A t \in Tenants : Distinct(tenantQueues[t])
  BY DEF QueuesConsistent, Distinct

(* A step after which the queues hold exactly the queued jobs, once each,  *)
(* keeps the queues consistent.                                            *)
LEMMA QueuesFromElements ==
    ASSUME \A t \in Tenants :
              /\ Distinct(tenantQueues'[t])
              /\ \A j \in ElementsOf(tenantQueues'[t]) :
                    jobs'[j].status = "queued" /\ jobs'[j].tenant = t,
           \A j \in Jobs : jobs'[j].status = "queued" =>
              j \in ElementsOf(tenantQueues'[jobs'[j].tenant])
    PROVE  QueuesConsistent'
  BY DEF QueuesConsistent, Distinct, ElementsOf, InQueue

(* Jobs leave their queues, and with them the status queued. *)
LEMMA QueuesShrink ==
    ASSUME TypeOK, QueuesConsistent, NEW gone \in SUBSET Jobs,
           \A t \in Tenants :
              /\ Distinct(tenantQueues'[t])
              /\ ElementsOf(tenantQueues'[t]) = ElementsOf(tenantQueues[t]) \ gone,
           \A j \in gone : jobs'[j].status # "queued",
           \A j \in Jobs \ gone :
              /\ jobs'[j].status = "queued" <=> jobs[j].status = "queued"
              /\ jobs[j].status = "queued" => jobs'[j].tenant = jobs[j].tenant
    PROVE  QueuesConsistent'
  <1>1. ASSUME NEW t \in Tenants, NEW j \in ElementsOf(tenantQueues'[t])
        PROVE  jobs'[j].status = "queued" /\ jobs'[j].tenant = t
    <2>1. j \in ElementsOf(tenantQueues[t]) /\ j \notin gone
      BY <1>1
    <2>2. j \in Jobs
      BY <2>1 DEF ElementsOf, TypeOK
    <2>3. jobs[j].status = "queued" /\ jobs[j].tenant = t
      BY <2>1, <2>2, QueuedFacts DEF InQueue
    <2> QED
      BY <2>1, <2>2, <2>3
  <1>2. ASSUME NEW j \in Jobs, jobs'[j].status = "queued"
        PROVE  j \in ElementsOf(tenantQueues'[jobs'[j].tenant])
    <2>1. j \notin gone /\ jobs[j].status = "queued" /\ jobs'[j].tenant = jobs[j].tenant
      BY <1>2
    <2>2. jobs[j].tenant \in Tenants
      BY JobFacts
    <2>3. j \in ElementsOf(tenantQueues[jobs[j].tenant])
      BY <2>1 DEF QueuesConsistent, InQueue
    <2> QED
      BY <2>1, <2>2, <2>3
  <1> QED
    BY <1>1, <1>2, QueuesFromElements

(* The queues do not change and neither do the jobs in them. *)
LEMMA QueuesKept ==
    ASSUME TypeOK, QueuesConsistent, tenantQueues' = tenantQueues,
           \A j \in Jobs :
              /\ jobs'[j].status = "queued" <=> jobs[j].status = "queued"
              /\ jobs[j].status = "queued" => jobs'[j].tenant = jobs[j].tenant
    PROVE  QueuesConsistent'
  <1> DEFINE gone == {}
  <1>1. \A t \in Tenants :
              /\ Distinct(tenantQueues'[t])
              /\ ElementsOf(tenantQueues'[t]) = ElementsOf(tenantQueues[t]) \ gone
    BY QueuesByElements
  <1>2. gone \in SUBSET Jobs /\ \A j \in gone : jobs'[j].status # "queued"
    OBVIOUS
  <1> HIDE DEF gone
  <1> QED
    BY <1>1, <1>2, QueuesShrink

(* A job joins the tail of its tenant's queue. *)
LEMMA QueuesGrow ==
    ASSUME TypeOK, QueuesConsistent, NEW j \in Jobs, NEW job, jobs[j].status # "queued",
           job.status = "queued", job.tenant \in Tenants,
           jobs' = [jobs EXCEPT ![j] = job],
           tenantQueues' = [tenantQueues EXCEPT ![job.tenant] = Append(@, j)]
    PROVE  QueuesConsistent'
  <1>1. ASSUME NEW t \in Tenants
        PROVE  /\ tenantQueues[t] \in Seq(Jobs)
               /\ j \notin ElementsOf(tenantQueues[t])
               /\ Distinct(tenantQueues[t])
               /\ \A i \in ElementsOf(tenantQueues[t]) :
                     i \in Jobs /\ jobs[i].status = "queued" /\ jobs[i].tenant = t
    <2>1. tenantQueues[t] \in Seq(Jobs)
      BY DEF TypeOK
    <2>2. \A i \in ElementsOf(tenantQueues[t]) :
             i \in Jobs /\ jobs[i].status = "queued" /\ jobs[i].tenant = t
      BY <2>1, QueuedFacts DEF ElementsOf, InQueue
    <2> QED
      BY <2>1, <2>2, QueuesByElements
  <1>2. ASSUME NEW t \in Tenants, t # job.tenant
        PROVE  tenantQueues'[t] = tenantQueues[t]
    BY <1>2 DEF TypeOK
  <1>3. tenantQueues'[job.tenant] = Append(tenantQueues[job.tenant], j)
    BY DEF TypeOK
  <1>4. /\ ElementsOf(tenantQueues'[job.tenant]) = ElementsOf(tenantQueues[job.tenant]) \cup {j}
        /\ Distinct(tenantQueues'[job.tenant])
    <2> DEFINE q == tenantQueues[job.tenant]
    <2>1. q \in Seq(Jobs) /\ j \notin ElementsOf(q) /\ Distinct(q)
      BY <1>1
    <2> HIDE DEF q
    <2>2. /\ Len(Append(q, j)) = Len(q) + 1
          /\ \A i \in 1 .. Len(q) : Append(q, j)[i] = q[i]
          /\ Append(q, j)[Len(q) + 1] = j
          /\ Len(q) \in Nat
      BY <2>1
    <2>3. ElementsOf(Append(q, j)) = ElementsOf(q) \cup {j}
      <3>1. \A i \in 1 .. Len(q) + 1 : i \in 1 .. Len(q) \/ i = Len(q) + 1
        BY <2>2
      <3>2. \A i \in 1 .. Len(q) : i \in 1 .. Len(q) + 1
        BY <2>2
      <3>3. Len(q) + 1 \in 1 .. Len(q) + 1
        BY <2>2
      <3>4. ElementsOf(Append(q, j)) \subseteq ElementsOf(q) \cup {j}
        BY <2>2, <3>1 DEF ElementsOf
      <3>5. ElementsOf(q) \subseteq ElementsOf(Append(q, j))
        BY <2>2, <3>2 DEF ElementsOf
      <3>6. j \in ElementsOf(Append(q, j))
        BY <2>2, <3>3 DEF ElementsOf
      <3> QED
        BY <3>4, <3>5, <3>6
    <2>4. Distinct(Append(q, j))
      BY <2>1, <2>2 DEF Distinct, ElementsOf
    <2> QED
      BY <1>3, <2>3, <2>4 DEF q
  <1>5. \A t \in Tenants :
              /\ Distinct(tenantQueues'[t])
              /\ \A i \in ElementsOf(tenantQueues'[t]) :
                    jobs'[i].status = "queued" /\ jobs'[i].tenant = t
    <2> SUFFICES ASSUME NEW t \in Tenants
                 PROVE  /\ Distinct(tenantQueues'[t])
                        /\ \A i \in ElementsOf(tenantQueues'[t]) :
                              jobs'[i].status = "queued" /\ jobs'[i].tenant = t
      OBVIOUS
    <2>1. jobs'[j] = job /\ \A i \in Jobs : i # j => jobs'[i] = jobs[i]
      BY DEF TypeOK
    <2>2. CASE t = job.tenant
      BY <1>1, <1>4, <2>1, <2>2
    <2>3. CASE t # job.tenant
      BY <1>1, <1>2, <2>1, <2>3
    <2> QED
      BY <2>2, <2>3
  <1>6. ASSUME NEW i \in Jobs, jobs'[i].status = "queued"
        PROVE  i \in ElementsOf(tenantQueues'[jobs'[i].tenant])
    <2>1. jobs'[j] = job /\ (i # j => jobs'[i] = jobs[i])
      BY DEF TypeOK
    <2>2. CASE i = j
      BY <1>4, <2>1, <2>2
    <2>3. CASE i # j
      <3>1. i \in ElementsOf(tenantQueues[jobs[i].tenant]) /\ jobs[i].tenant \in Tenants
        BY <1>6, <2>1, <2>3, JobFacts DEF QueuesConsistent, InQueue
      <3> QED
        BY <1>2, <1>4, <2>1, <2>3, <3>1
    <2> QED
      BY <2>2, <2>3
  <1> QED
    BY <1>5, <1>6, QueuesFromElements

-----------------------------------------------------------------------------
(***************************************************************************)
(* The life of a job: the moves a step may make with one job record.       *)
(***************************************************************************)
SameOrder(a, b) ==
    /\ b.tenant = a.tenant /\ b.operation = a.operation /\ b.resource = a.resource
    /\ b.payload = a.payload /\ b.key = a.key /\ b.created = a.created
    /\ b.deadline = a.deadline /\ b.maxAttempts = a.maxAttempts

Enqueued(a, b) ==
    /\ a.status = "absent" /\ b.status = "queued"
    /\ b.attempt = 0 /\ b.reason = "none" /\ b.key \in Keys
    /\ b.deadline = b.created + MaxExecution[b.tenant]

Started(a, b) ==
    /\ a.status = "queued" /\ b.status = "running"
    /\ b.attempt = a.attempt + 1 /\ b.reason = a.reason

Dequeued(a, b) ==
    /\ a.status = "queued" /\ b.attempt = a.attempt
    /\ \/ b.status = "timed-out" /\ b.reason = "deadline" /\ b.completed >= a.deadline
       \/ b.status = "cancelled" /\ b.reason = "user"

Reported(a, b) ==
    /\ a.status = "running" /\ b.attempt = a.attempt /\ b.reason = a.reason
    /\ \/ b.status = "queued" /\ a.attempt < a.maxAttempts
       \/ b.status \in {"succeeded", "failed"} /\ b.completed < a.deadline

Stopped(a, b) ==
    /\ a.status = "running" /\ b.status = "cancelling" /\ b.attempt = a.attempt
    /\ \/ b.reason = "user"
       \/ b.reason = "deadline" /\ b.updated >= a.deadline

CleanedUp(a, b) ==
    /\ a.status = "cancelling" /\ b.attempt = a.attempt /\ b.reason = a.reason
    /\ b.status = IF a.reason = "deadline" THEN "timed-out" ELSE "cancelled"
    /\ b.completed >= a.updated

Moved(a, b) ==
    /\ SameOrder(a, b)
    /\ \/ Started(a, b) \/ Dequeued(a, b) \/ Reported(a, b) \/ Stopped(a, b)
       \/ CleanedUp(a, b)

JobStep(a, b) == b = a \/ Enqueued(a, b) \/ Moved(a, b)

(* One job moves, the others stay. *)
LEMMA OneJobMoves ==
    ASSUME TypeOK, NEW j \in Jobs, NEW job, jobs' = [jobs EXCEPT ![j] = job],
           JobStep(jobs[j], job)
    PROVE  \A i \in Jobs : JobStep(jobs[i], jobs'[i])
  BY DEF TypeOK, JobStep

(* The moves of enqueuePaasJob, and the queues after it. *)
LEMMA EnqueueMoves ==
    ASSUME TInv, QueuesConsistent, NEW d \in decisions, NEW j \in Jobs,
           NEW m \in 1 .. MaxAttempts, EnqueuePaasJob(d, j, m)
    PROVE  /\ \A i \in Jobs : JobStep(jobs[i], jobs'[i])
           /\ QueuesConsistent'
  <1> DEFINE t == d.capability.tenant
             job == [tenant |-> t, operation |-> d.operation,
                     resource |-> d.capability.resource, payload |-> d.payload,
                     status |-> "queued", key |-> d.key, created |-> d.at, updated |-> d.at,
                     deadline |-> d.at + MaxExecution[t], started |-> None, completed |-> None,
                     attempt |-> 0, maxAttempts |-> m, reason |-> "none"]
  <1>1. /\ jobs' = [jobs EXCEPT ![j] = job]
        /\ tenantQueues' = [tenantQueues EXCEPT ![job.tenant] = Append(@, j)]
        /\ jobs[j].status = "absent"
    BY DEF EnqueuePaasJob, Pushed
  <1>2. job.status = "queued" /\ job.tenant \in Tenants /\ job.key \in Keys
    BY DecisionFacts
  <1>3. JobStep(jobs[j], job)
    BY <1>1, <1>2 DEF JobStep, Enqueued
  <1> HIDE DEF job
  <1>4. QueuesConsistent'
    BY <1>1, <1>2, QueuesGrow DEF TInv
  <1> QED
    BY <1>1, <1>3, <1>4, OneJobMoves DEF TInv

(* Jobs that expire in their queues. *)
LEMMA ExpiryMoves ==
    ASSUME TInv, QueuesConsistent, NEW now \in Nat, NEW j \in ExpiredQueued(now)
    PROVE  /\ JobStep(jobs[j], TimedOut(jobs[j], now))
           /\ TimedOut(jobs[j], now).status = "timed-out"
  <1>1. j \in Jobs /\ jobs[j].status = "queued" /\ jobs[j].deadline <= now
    BY ExpiredFacts DEF TInv, ExpiredQueued
  <1>2. jobs[j] \in JobType
    BY <1>1, JobFacts DEF TInv
  <1> QED
    BY <1>1, <1>2 DEF TimedOut, JobStep, Moved, SameOrder, Dequeued, JobType

(* The queues after an expiry. *)
LEMMA RetainedElements ==
    ASSUME TypeOK, QueuesConsistent, NEW expired, tenantQueues' = RetainedQueues(expired)
    PROVE  \A t \in Tenants :
              /\ Distinct(tenantQueues'[t])
              /\ ElementsOf(tenantQueues'[t]) = ElementsOf(tenantQueues[t]) \ expired
  <1> SUFFICES ASSUME NEW t \in Tenants
               PROVE  /\ Distinct(tenantQueues'[t])
                      /\ ElementsOf(tenantQueues'[t]) = ElementsOf(tenantQueues[t]) \ expired
    OBVIOUS
  <1> DEFINE q == tenantQueues[t]
  <1>1. q \in Seq(Jobs) /\ \A i, k \in 1 .. Len(q) : q[i] = q[k] => i = k
    BY QueuesByElements DEF TypeOK, Distinct
  <1>2. tenantQueues'[t] = Without(q, expired)
    BY DEF RetainedQueues
  <1> HIDE DEF q
  <1>3. ElementsOf(Without(q, expired)) = ElementsOf(q) \ expired
    BY <1>1, WithoutElements
  <1>4. Distinct(Without(q, expired))
    BY <1>1, WithoutDistinct DEF Distinct
  <1> QED
    BY <1>2, <1>3, <1>4 DEF q

(* The expiry of schedulePaasJobs. *)
LEMMA ScheduleBeginMoves ==
    ASSUME TInv, QueuesConsistent, NEW now \in Stamps, NEW n \in 1 .. MaxGlobalConcurrency,
           ScheduleBegin(now, n)
    PROVE  /\ \A i \in Jobs : JobStep(jobs[i], jobs'[i])
           /\ QueuesConsistent'
  <1> DEFINE expired == ExpiredQueued(now)
  <1>1. now \in Nat
    BY StampsAreTimes
  <1>2. /\ jobs' = [j \in Jobs |-> IF j \in expired THEN TimedOut(jobs[j], now) ELSE jobs[j]]
        /\ tenantQueues' = RetainedQueues(expired)
    BY DEF ScheduleBegin
  <1>3. expired \in SUBSET Jobs
    BY DEF ExpiredQueued
  <1>4. \A j \in expired : /\ JobStep(jobs[j], TimedOut(jobs[j], now))
                           /\ TimedOut(jobs[j], now).status = "timed-out"
    BY <1>1, ExpiryMoves
  <1> HIDE DEF expired
  <1>5. \A i \in Jobs : JobStep(jobs[i], jobs'[i])
    BY <1>2, <1>3, <1>4 DEF JobStep
  <1>6. \A t \in Tenants :
              /\ Distinct(tenantQueues'[t])
              /\ ElementsOf(tenantQueues'[t]) = ElementsOf(tenantQueues[t]) \ expired
    BY <1>2, RetainedElements DEF TInv
  <1>7. /\ \A j \in expired : jobs'[j].status # "queued"
        /\ \A j \in Jobs \ expired :
              /\ jobs'[j].status = "queued" <=> jobs[j].status = "queued"
              /\ jobs[j].status = "queued" => jobs'[j].tenant = jobs[j].tenant
    BY <1>2, <1>3, <1>4
  <1> QED
    BY <1>3, <1>5, <1>6, <1>7, QueuesShrink DEF TInv

(* The moves of sweepExpiredPaasJobs. *)
LEMMA SweepMoves ==
    ASSUME TInv, QueuesConsistent, NEW now \in Stamps, SweepExpiredPaasJobs(now)
    PROVE  /\ \A i \in Jobs : JobStep(jobs[i], jobs'[i])
           /\ QueuesConsistent'
  <1> DEFINE expired == ExpiredQueued(now)
             overtime == ExpiredRunning(now)
             Halted(j) == [jobs[j] EXCEPT !.status = "cancelling", !.reason = "deadline",
                                          !.updated = now]
  <1>1. now \in Nat
    BY StampsAreTimes
  <1>2. /\ jobs' = [j \in Jobs |-> IF j \in expired THEN TimedOut(jobs[j], now)
                                   ELSE IF j \in overtime THEN Halted(j) ELSE jobs[j]]
        /\ tenantQueues' = RetainedQueues(expired)
    BY DEF SweepExpiredPaasJobs
  <1>3. expired \in SUBSET Jobs
    BY DEF ExpiredQueued
  <1>4. \A j \in expired : /\ JobStep(jobs[j], TimedOut(jobs[j], now))
                           /\ TimedOut(jobs[j], now).status = "timed-out"
    BY <1>1, ExpiryMoves
  <1>5. ASSUME NEW j \in overtime
        PROVE  /\ JobStep(jobs[j], Halted(j)) /\ Halted(j).status = "cancelling"
               /\ jobs[j].status = "running"
    <2>1. j \in Jobs /\ jobs[j].status = "running" /\ jobs[j].deadline <= now
      BY DEF ExpiredRunning
    <2>2. jobs[j] \in JobType
      BY <2>1, JobFacts DEF TInv
    <2> QED
      BY <2>1, <2>2 DEF JobStep, Moved, SameOrder, Stopped, JobType
  <1> HIDE DEF expired, overtime, Halted
  <1>6. \A i \in Jobs : JobStep(jobs[i], jobs'[i])
    BY <1>2, <1>3, <1>4, <1>5 DEF JobStep
  <1>7. \A t \in Tenants :
              /\ Distinct(tenantQueues'[t])
              /\ ElementsOf(tenantQueues'[t]) = ElementsOf(tenantQueues[t]) \ expired
    BY <1>2, RetainedElements DEF TInv
  <1>8. /\ \A j \in expired : jobs'[j].status # "queued"
        /\ \A j \in Jobs \ expired :
              /\ jobs'[j].status = "queued" <=> jobs[j].status = "queued"
              /\ jobs[j].status = "queued" => jobs'[j].tenant = jobs[j].tenant
    BY <1>2, <1>3, <1>4, <1>5
  <1> QED
    BY <1>3, <1>6, <1>7, <1>8, QueuesShrink DEF TInv

(* The tail of a queue without repetitions. *)
LEMMA TailElements ==
    ASSUME NEW S, NEW q \in Seq(S), q # << >>, Distinct(q)
    PROVE  Distinct(Tail(q)) /\ ElementsOf(Tail(q)) = ElementsOf(q) \ {Head(q)}
  <1>1. /\ Len(q) \in Nat /\ Len(q) > 0 /\ Len(Tail(q)) = Len(q) - 1 /\ Head(q) = q[1]
        /\ \A i \in 1 .. Len(q) - 1 : Tail(q)[i] = q[i + 1]
    BY EmptySeq, HeadTailProperties
  <1>2. Distinct(Tail(q))
    <2> SUFFICES ASSUME NEW i \in 1 .. Len(q) - 1, NEW k \in 1 .. Len(q) - 1,
                        Tail(q)[i] = Tail(q)[k]
                 PROVE  i = k
      BY <1>1 DEF Distinct
    <2>1. q[i + 1] = q[k + 1]
      BY <1>1
    <2>2. i + 1 \in 1 .. Len(q) /\ k + 1 \in 1 .. Len(q) /\ i \in Int /\ k \in Int
      BY <1>1
    <2>3. i + 1 = k + 1
      BY <2>1, <2>2 DEF Distinct
    <2> QED
      BY <2>2, <2>3
  <1>3. ASSUME NEW x \in ElementsOf(Tail(q))
        PROVE  x \in ElementsOf(q) \ {Head(q)}
    <2>1. PICK i \in 1 .. Len(q) - 1 : x = Tail(q)[i]
      BY <1>1 DEF ElementsOf
    <2>2. i + 1 \in 1 .. Len(q) /\ i + 1 # 1 /\ 1 \in 1 .. Len(q)
      BY <1>1
    <2>3. x = q[i + 1]
      BY <1>1, <2>1
    <2> QED
      BY <1>1, <2>2, <2>3 DEF ElementsOf, Distinct
  <1>4. ASSUME NEW x \in ElementsOf(q) \ {Head(q)}
        PROVE  x \in ElementsOf(Tail(q))
    <2>1. PICK i \in 1 .. Len(q) : x = q[i]
      BY DEF ElementsOf
    <2>2. i # 1
      BY <1>1, <2>1
    <2>3. i - 1 \in 1 .. Len(q) - 1 /\ (i - 1) + 1 = i
      BY <1>1, <2>2
    <2>4. Tail(q)[i - 1] = x
      BY <1>1, <2>1, <2>3
    <2> QED
      BY <1>1, <2>3, <2>4 DEF ElementsOf
  <1> QED
    BY <1>2, <1>3, <1>4

(* A job leaves the queue of its tenant; the other queues stay. *)
LEMMA OneLeaves ==
    ASSUME TypeOK, QueuesConsistent, NEW j \in Jobs, NEW job, NEW q,
           jobs' = [jobs EXCEPT ![j] = job], job.status # "queued",
           tenantQueues' = [tenantQueues EXCEPT ![jobs[j].tenant] = q],
           Distinct(q), ElementsOf(q) = ElementsOf(tenantQueues[jobs[j].tenant]) \ {j}
    PROVE  QueuesConsistent'
  <1> DEFINE gone == {j}
  <1>1. jobs[j].tenant \in Tenants
    BY JobFacts
  <1>2. ASSUME NEW t \in Tenants
        PROVE  /\ Distinct(tenantQueues'[t])
               /\ ElementsOf(tenantQueues'[t]) = ElementsOf(tenantQueues[t]) \ gone
    <2>1. CASE t = jobs[j].tenant
      BY <1>1, <2>1 DEF TypeOK
    <2>2. CASE t # jobs[j].tenant
      <3>1. j \notin ElementsOf(tenantQueues[t])
        BY <2>2, QueuedFacts DEF InQueue
      <3>2. tenantQueues'[t] = tenantQueues[t]
        BY <2>2 DEF TypeOK
      <3>3. ElementsOf(tenantQueues[t]) = ElementsOf(tenantQueues[t]) \ gone
        BY <3>1
      <3> QED
        BY <3>2, <3>3, QueuesByElements
    <2> QED
      BY <2>1, <2>2
  <1>3. gone \in SUBSET Jobs
    OBVIOUS
  <1>4. \A i \in gone : jobs'[i].status # "queued"
    BY DEF TypeOK
  <1>5. \A i \in Jobs \ gone : jobs'[i] = jobs[i]
    BY DEF TypeOK
  <1> HIDE DEF gone
  <1> QED
    BY <1>2, <1>3, <1>4, <1>5, QueuesShrink

(* The moves of one iteration of schedulePaasJobs. *)
LEMMA ScheduleStartMoves ==
    ASSUME TInv, QueuesConsistent, ScheduleStart
    PROVE  /\ \A i \in Jobs : JobStep(jobs[i], jobs'[i])
           /\ QueuesConsistent'
  <1> DEFINE t == nextEligibleTenant
             j == Head(tenantQueues[t])
             job == [jobs[j] EXCEPT !.status = "running", !.started = sched.now,
                                    !.updated = sched.now, !.attempt = jobs[j].attempt + 1]
             q == Tail(tenantQueues[t])
  <1>1. /\ t \in Tenants /\ j \in Jobs
        /\ tenantQueues[t] \in Seq(Jobs) /\ tenantQueues[t] # << >>
        /\ jobs[j].status = "queued" /\ jobs[j].tenant = t
    BY HeadFacts DEF TInv, ScheduleStart, LoopContinues, MayStart
  <1>2. /\ tenantQueues' = [tenantQueues EXCEPT ![t] = q]
        /\ jobs' = [jobs EXCEPT ![j] = job]
    BY DEF ScheduleStart
  <1>3. Distinct(q) /\ ElementsOf(q) = ElementsOf(tenantQueues[t]) \ {j}
    BY <1>1, QueuesByElements, TailElements
  <1> HIDE DEF t, j, q
  <1>4. jobs[j] \in JobType
    BY <1>1, JobFacts DEF TInv
  <1>5. JobStep(jobs[j], job) /\ job.status = "running"
    BY <1>1, <1>4 DEF JobType, JobStep, Moved, SameOrder, Started
  <1> HIDE DEF job
  <1>6. job.status # "queued"
    BY <1>5
  <1>7. QueuesConsistent'
    BY <1>1, <1>2, <1>3, <1>6, OneLeaves DEF TInv
  <1> QED
    BY <1>1, <1>2, <1>5, <1>7, OneJobMoves DEF TInv

(* The moves of cancelPaasJob on a queued job. *)
LEMMA CancelQueuedMoves ==
    ASSUME TInv, QueuesConsistent, NEW d \in decisions, NEW j \in Jobs,
           CancelQueuedPaasJob(d, j)
    PROVE  /\ \A i \in Jobs : JobStep(jobs[i], jobs'[i])
           /\ QueuesConsistent'
  <1> DEFINE old == jobs[j]
             job == [old EXCEPT !.status = "cancelled", !.reason = "user", !.updated = d.at,
                                !.completed = d.at]
             p == tenantQueues[old.tenant]
             q == Without(p, {j})
  <1>1. old \in JobType /\ old.tenant \in Tenants /\ old.status = "queued"
    BY JobFacts DEF TInv, CancelQueuedPaasJob
  <1>2. /\ jobs' = [jobs EXCEPT ![j] = job]
        /\ tenantQueues' = [tenantQueues EXCEPT ![old.tenant] = q]
    BY DEF CancelQueuedPaasJob
  <1>3. JobStep(old, job) /\ job.status = "cancelled"
    BY <1>1 DEF JobType, JobStep, Moved, SameOrder, Dequeued
  <1>4. p \in Seq(Jobs) /\ \A i, k \in 1 .. Len(p) : p[i] = p[k] => i = k
    BY <1>1, QueuesByElements DEF TInv, TypeOK, Distinct
  <1>5. ElementsOf(q) = ElementsOf(p) \ {j} /\ Distinct(q)
    <2> HIDE DEF p
    <2>1. ElementsOf(q) = ElementsOf(p) \ {j}
      BY <1>4, WithoutElements
    <2>2. Distinct(q)
      BY <1>4, WithoutDistinct DEF Distinct
    <2> QED
      BY <2>1, <2>2
  <1> HIDE DEF job, q
  <1>6. job.status # "queued"
    BY <1>3
  <1>7. QueuesConsistent'
    BY <1>2, <1>5, <1>6, OneLeaves DEF TInv
  <1> QED
    BY <1>2, <1>3, <1>7, OneJobMoves DEF TInv

(* A job that moves from one status to another and is queued in neither. *)
LEMMA QuietMove ==
    ASSUME TInv, QueuesConsistent, NEW j \in Jobs, NEW job,
           jobs' = [jobs EXCEPT ![j] = job], tenantQueues' = tenantQueues,
           jobs[j].status # "queued", job.status # "queued", JobStep(jobs[j], job)
    PROVE  /\ \A i \in Jobs : JobStep(jobs[i], jobs'[i])
           /\ QueuesConsistent'
  <1>1. \A i \in Jobs :
              /\ jobs'[i].status = "queued" <=> jobs[i].status = "queued"
              /\ jobs[i].status = "queued" => jobs'[i].tenant = jobs[i].tenant
    BY DEF TInv, TypeOK
  <1> QED
    BY <1>1, QueuesKept, OneJobMoves DEF TInv

(* The moves of cancelPaasJob on a running job. *)
LEMMA CancelRunningMoves ==
    ASSUME TInv, QueuesConsistent, NEW d \in decisions, NEW j \in Jobs,
           CancelRunningPaasJob(d, j)
    PROVE  /\ \A i \in Jobs : JobStep(jobs[i], jobs'[i])
           /\ QueuesConsistent'
  <1> DEFINE old == jobs[j]
             job == [old EXCEPT !.status = "cancelling", !.reason = "user", !.updated = d.at]
  <1>1. old \in JobType /\ old.status = "running"
    BY JobFacts DEF TInv, CancelRunningPaasJob
  <1>2. jobs' = [jobs EXCEPT ![j] = job] /\ tenantQueues' = tenantQueues
    BY DEF CancelRunningPaasJob
  <1>3. JobStep(old, job) /\ job.status = "cancelling"
    <2>1. /\ job.status = "cancelling" /\ job.reason = "user"
          /\ job.attempt = old.attempt /\ SameOrder(old, job)
      BY <1>1 DEF JobType, SameOrder
    <2> HIDE DEF job
    <2> QED
      BY <1>1, <2>1 DEF JobStep, Moved, Stopped
  <1> HIDE DEF job
  <1>4. job.status # "queued" /\ old.status # "queued"
    BY <1>1, <1>3
  <1> QED
    BY <1>2, <1>3, <1>4, QuietMove

(* The moves of completePaasJob: a retry. *)
LEMMA RetryMoves ==
    ASSUME TInv, QueuesConsistent, NEW r \in reports, RetryPaasJob(r)
    PROVE  /\ \A i \in Jobs : JobStep(jobs[i], jobs'[i])
           /\ QueuesConsistent'
  <1> DEFINE j == r.job
             old == jobs[j]
             job == [old EXCEPT !.status = "queued", !.updated = r.at, !.started = None]
  <1>1. j \in Jobs
    BY ReportFacts DEF TInv
  <1> HIDE DEF j
  <1>2. old \in JobType /\ old.tenant \in Tenants
    BY <1>1, JobFacts DEF TInv
  <1>3. /\ jobs' = [jobs EXCEPT ![j] = job]
        /\ tenantQueues' = [tenantQueues EXCEPT ![old.tenant] = Append(@, j)]
        /\ old.status = "running" /\ old.attempt < old.maxAttempts
    BY DEF RetryPaasJob, ReportAdmitted, AttemptLeft, Pushed, j
  <1>4. JobStep(old, job) /\ job.status = "queued" /\ job.tenant = old.tenant
    BY <1>2, <1>3 DEF JobType, JobStep, Moved, SameOrder, Reported
  <1> HIDE DEF job
  <1>5. QueuesConsistent'
    <2>1. old.status # "queued" /\ job.tenant \in Tenants
      BY <1>2, <1>3, <1>4
    <2>2. tenantQueues' = [tenantQueues EXCEPT ![job.tenant] = Append(@, j)]
      BY <1>3, <1>4
    <2> QED
      BY <1>1, <1>3, <1>4, <2>1, <2>2, QueuesGrow DEF TInv
  <1> QED
    BY <1>1, <1>3, <1>4, <1>5, OneJobMoves DEF TInv

(* The moves of completePaasJob: a failure. *)
LEMMA FailMoves ==
    ASSUME TInv, QueuesConsistent, NEW r \in reports, FailPaasJob(r)
    PROVE  /\ \A i \in Jobs : JobStep(jobs[i], jobs'[i])
           /\ QueuesConsistent'
  <1> DEFINE j == r.job
             old == jobs[j]
             job == [old EXCEPT !.status = "failed", !.updated = r.at, !.started = None,
                                !.completed = r.at]
  <1>1. j \in Jobs
    BY ReportFacts DEF TInv
  <1>2. old.status = "running" /\ r.at < old.deadline
    BY DEF FailPaasJob, ReportAdmitted
  <1>3. jobs' = [jobs EXCEPT ![j] = job] /\ tenantQueues' = tenantQueues
    BY DEF FailPaasJob
  <1> HIDE DEF j
  <1>4. old \in JobType
    BY <1>1, JobFacts DEF TInv
  <1>5. JobStep(old, job) /\ job.status = "failed"
    BY <1>2, <1>4 DEF JobType, JobStep, Moved, SameOrder, Reported
  <1> HIDE DEF job
  <1>6. job.status # "queued" /\ old.status # "queued"
    BY <1>2, <1>5
  <1> QED
    BY <1>1, <1>3, <1>5, <1>6, QuietMove

(* The moves of completePaasJob: a success. *)
LEMMA SucceedMoves ==
    ASSUME TInv, QueuesConsistent, NEW r \in reports, SucceedPaasJob(r)
    PROVE  /\ \A i \in Jobs : JobStep(jobs[i], jobs'[i])
           /\ QueuesConsistent'
  <1> DEFINE j == r.job
             old == jobs[j]
             job == [old EXCEPT !.status = "succeeded", !.updated = r.at, !.started = None,
                                !.completed = r.at]
  <1>1. j \in Jobs
    BY ReportFacts DEF TInv
  <1>2. old.status = "running" /\ r.at < old.deadline
    BY DEF SucceedPaasJob, ReportAdmitted
  <1>3. jobs' = [jobs EXCEPT ![j] = job] /\ tenantQueues' = tenantQueues
    BY DEF SucceedPaasJob
  <1> HIDE DEF j
  <1>4. old \in JobType
    BY <1>1, JobFacts DEF TInv
  <1>5. JobStep(old, job) /\ job.status = "succeeded"
    BY <1>2, <1>4 DEF JobType, JobStep, Moved, SameOrder, Reported
  <1> HIDE DEF job
  <1>6. job.status # "queued" /\ old.status # "queued"
    BY <1>2, <1>5
  <1> QED
    BY <1>1, <1>3, <1>5, <1>6, QuietMove

(* The moves of acknowledgePaasJobCancellation. *)
LEMMA AcknowledgeMoves ==
    ASSUME TInv, QueuesConsistent, NEW r \in reports, AcknowledgePaasJobCancellation(r)
    PROVE  /\ \A i \in Jobs : JobStep(jobs[i], jobs'[i])
           /\ QueuesConsistent'
  <1> DEFINE j == r.job
             old == jobs[j]
             st == IF old.reason = "deadline" THEN "timed-out" ELSE "cancelled"
             job == [old EXCEPT !.status = st, !.updated = r.at, !.completed = r.at,
                                !.started = None]
  <1>1. j \in Jobs
    BY ReportFacts DEF TInv
  <1>2. old.status = "cancelling" /\ r.at >= old.updated
    BY DEF AcknowledgePaasJobCancellation
  <1>3. jobs' = [jobs EXCEPT ![j] = job] /\ tenantQueues' = tenantQueues
    BY DEF AcknowledgePaasJobCancellation
  <1> HIDE DEF j
  <1>4. old \in JobType
    BY <1>1, JobFacts DEF TInv
  <1>5. JobStep(old, job) /\ job.status # "queued"
    <2>1. /\ job.status = st /\ job.completed = r.at /\ job.reason = old.reason
          /\ job.attempt = old.attempt /\ SameOrder(old, job)
      <3> HIDE DEF st, old
      <3> QED
        BY <1>4 DEF JobType, SameOrder
    <2> HIDE DEF job
    <2> QED
      BY <1>2, <2>1 DEF JobStep, Moved, CleanedUp
  <1> HIDE DEF job
  <1>6. old.status # "queued"
    BY <1>2
  <1> QED
    BY <1>1, <1>3, <1>5, <1>6, QuietMove

(* Every step moves every job along its life and keeps the queues. *)
LEMMA StepMoves ==
    ASSUME TInv, QueuesConsistent, [Next]_vars
    PROVE  /\ \A i \in Jobs : JobStep(jobs[i], jobs'[i])
           /\ QueuesConsistent'
  <1>1. ASSUME UNCHANGED <<jobs, tenantQueues>>
        PROVE  /\ \A i \in Jobs : JobStep(jobs[i], jobs'[i])
               /\ QueuesConsistent'
    BY <1>1 DEF JobStep, QueuesConsistent, InQueue
  <1>2. CASE Environment
    <2> UNCHANGED snapshot
      BY <1>2 DEF Environment, Tick, Authorize, WorkerFinishes, WorkerCrashes, SandboxCleaned
    <2> QED
      BY <1>1 DEF snapshot
  <1>3. CASE Command
    <2>1. ASSUME NEW d \in decisions, NEW j \in Jobs, NEW m \in 1 .. MaxAttempts,
                 EnqueuePaasJob(d, j, m)
          PROVE  (\A i \in Jobs : JobStep(jobs[i], jobs'[i])) /\ QueuesConsistent'
      BY <2>1, EnqueueMoves
    <2>2. ASSUME NEW now \in Stamps, NEW n \in 1 .. MaxGlobalConcurrency,
                 ScheduleBegin(now, n)
          PROVE  (\A i \in Jobs : JobStep(jobs[i], jobs'[i])) /\ QueuesConsistent'
      BY <2>2, ScheduleBeginMoves
    <2>3. ASSUME NEW r \in reports,
                 \/ RetryPaasJob(r) \/ FailPaasJob(r) \/ SucceedPaasJob(r)
                 \/ AcknowledgePaasJobCancellation(r)
          PROVE  (\A i \in Jobs : JobStep(jobs[i], jobs'[i])) /\ QueuesConsistent'
      BY <2>3, RetryMoves, FailMoves, SucceedMoves, AcknowledgeMoves
    <2>4. ASSUME NEW d \in decisions, NEW j \in Jobs,
                 CancelQueuedPaasJob(d, j) \/ CancelRunningPaasJob(d, j)
          PROVE  (\A i \in Jobs : JobStep(jobs[i], jobs'[i])) /\ QueuesConsistent'
      BY <2>4, CancelQueuedMoves, CancelRunningMoves
    <2>5. ASSUME NEW now \in Stamps, SweepExpiredPaasJobs(now)
          PROVE  (\A i \in Jobs : JobStep(jobs[i], jobs'[i])) /\ QueuesConsistent'
      BY <2>5, SweepMoves
    <2> QED
      BY <1>3, <2>1, <2>2, <2>3, <2>4, <2>5 DEF Command
  <1>4. CASE ScheduleStart
    BY <1>4, ScheduleStartMoves
  <1>5. CASE ScheduleEnd
    BY <1>1, <1>5 DEF ScheduleEnd
  <1>6. CASE UNCHANGED vars
    BY <1>1, <1>6 DEF vars, snapshot
  <1> QED
    BY <1>2, <1>3, <1>4, <1>5, <1>6 DEF Next

-----------------------------------------------------------------------------
(***************************************************************************)
(* What the moves preserve about one job.  AttemptsBounded needs to know   *)
(* that a queued job has an attempt left; OutcomesRespectDeadline needs to *)
(* know why a job is being cancelled and when that was decided.            *)
(***************************************************************************)
JobOK(job) ==
    /\ job.status # "absent" => job.key \in Keys
    /\ job.attempt <= job.maxAttempts
    /\ job.status = "queued" => job.attempt < job.maxAttempts
    /\ job.status = "cancelling" =>
          /\ job.reason \in {"user", "deadline"}
          /\ job.reason = "deadline" => job.updated >= job.deadline
    /\ job.status \in {"succeeded", "failed"} => job.completed < job.deadline
    /\ job.status = "timed-out" =>
          job.completed >= job.deadline /\ job.reason = "deadline"
    /\ job.status = "cancelled" => job.reason = "user"

(* The moves preserve it. *)
LEMMA JobOKStep ==
    ASSUME NEW a \in JobType, NEW b \in JobType, JobStep(a, b), JobOK(a)
    PROVE  JobOK(b)
  <1>1. /\ a.attempt \in Int /\ b.attempt \in Int /\ a.maxAttempts \in Int
        /\ b.maxAttempts \in Int /\ b.maxAttempts >= 1
        /\ a.deadline \in Int /\ b.deadline \in Int
        /\ a.updated \in Int /\ b.updated \in Int
        /\ a.completed \in Int /\ b.completed \in Int
        /\ b.reason \in {"none", "user", "deadline"}
    BY QuotasAssumption DEF JobType, None
  <1>2. CASE b = a
    BY <1>2
  <1>3. CASE Enqueued(a, b)
    BY <1>1, <1>3 DEF Enqueued, JobOK
  <1>4. CASE Moved(a, b)
    <2> SameOrder(a, b)
      BY <1>4 DEF Moved
    <2>1. CASE Started(a, b)
      BY <1>1, <2>1 DEF Started, SameOrder, JobOK
    <2>2. CASE Dequeued(a, b)
      BY <1>1, <2>2 DEF Dequeued, SameOrder, JobOK
    <2>3. CASE Reported(a, b)
      BY <1>1, <2>3 DEF Reported, SameOrder, JobOK
    <2>4. CASE Stopped(a, b)
      BY <1>1, <2>4 DEF Stopped, SameOrder, JobOK
    <2>5. CASE CleanedUp(a, b)
      BY <1>1, <2>5 DEF CleanedUp, SameOrder, JobOK
    <2> QED
      BY <1>4, <2>1, <2>2, <2>3, <2>4, <2>5 DEF Moved
  <1> QED
    BY <1>2, <1>3, <1>4 DEF JobStep

(* The moves end in a terminal status. *)
LEMMA TerminalStays ==
    ASSUME NEW a, NEW b, JobStep(a, b), a.status \in Terminal
    PROVE  b = a
  BY DEF JobStep, Enqueued, Moved, Started, Dequeued, Reported, Stopped, CleanedUp, Terminal

-----------------------------------------------------------------------------
(***************************************************************************)
(* Locks.                                                                  *)
(***************************************************************************)

(* The lock of an active job exists. *)
LEMMA LockOfActive ==
    ASSUME TInv, NEW j \in Jobs, jobs[j].status # "absent"
    PROVE  ResourceKey(jobs[j]) \in ResourceKeys
  BY JobFacts DEF TInv, PayloadsKnown, ResourceKey, ResourceKeys

(* No lock changes and the active jobs stay the same. *)
LEMMA LocksKept ==
    ASSUME TInv, LocksConsistent, resourceLocks' = resourceLocks,
           \A j \in Jobs :
              /\ jobs'[j].status \in Active <=> jobs[j].status \in Active
              /\ jobs[j].status \in Active =>
                    jobs'[j].tenant = jobs[j].tenant /\ jobs'[j].resource = jobs[j].resource
    PROVE  LocksConsistent'
  <1>1. ASSUME NEW j \in Jobs, jobs'[j].status \in Active
        PROVE  resourceLocks'[ResourceKey(jobs'[j])] = j
    BY <1>1 DEF LocksConsistent, ResourceKey
  <1>2. ASSUME NEW k \in ResourceKeys, resourceLocks'[k] # NoJob
        PROVE  /\ jobs'[resourceLocks'[k]].status \in Active
               /\ ResourceKey(jobs'[resourceLocks'[k]]) = k
    <2>1. resourceLocks[k] \in Jobs
      BY <1>2 DEF TInv, TypeOK
    <2> QED
      BY <1>2, <2>1 DEF LocksConsistent, ResourceKey
  <1> QED
    BY <1>1, <1>2 DEF LocksConsistent, ResourceKey

(* One job changes but not whether it is active. *)
LEMMA LocksKeptByOne ==
    ASSUME TInv, LocksConsistent, resourceLocks' = resourceLocks, NEW j \in Jobs, NEW job,
           jobs' = [jobs EXCEPT ![j] = job],
           job.status \in Active <=> jobs[j].status \in Active,
           jobs[j].status \in Active =>
              job.tenant = jobs[j].tenant /\ job.resource = jobs[j].resource
    PROVE  LocksConsistent'
  <1> \A i \in Jobs :
              /\ jobs'[i].status \in Active <=> jobs[i].status \in Active
              /\ jobs[i].status \in Active =>
                    jobs'[i].tenant = jobs[i].tenant /\ jobs'[i].resource = jobs[i].resource
    BY DEF TInv, TypeOK
  <1> QED
    BY LocksKept

(* An active job ends its attempt and gives its lock back. *)
LEMMA LockReleased ==
    ASSUME TInv, LocksConsistent, NEW j \in Jobs, NEW job, jobs[j].status \in Active,
           jobs' = [jobs EXCEPT ![j] = job], job.status \notin Active,
           Release(jobs[j])
    PROVE  LocksConsistent'
  <1> DEFINE key == ResourceKey(jobs[j])
  <1>1. /\ jobs'[j] = job /\ \A i \in Jobs : i # j => jobs'[i] = jobs[i]
        /\ resourceLocks' = [resourceLocks EXCEPT ![key] = NoJob]
        /\ resourceLocks \in [ResourceKeys -> Jobs \cup {NoJob}]
    BY DEF TInv, TypeOK, Release
  <1>2. key \in ResourceKeys /\ resourceLocks[key] = j
    BY LockOfActive DEF LocksConsistent, Active
  <1>3. ASSUME NEW i \in Jobs, jobs'[i].status \in Active
        PROVE  resourceLocks'[ResourceKey(jobs'[i])] = i
    <2>1. i # j /\ jobs'[i] = jobs[i]
      BY <1>1, <1>3
    <2>2. resourceLocks[ResourceKey(jobs[i])] = i
      BY <1>3, <2>1 DEF LocksConsistent
    <2>3. ResourceKey(jobs[i]) # key /\ ResourceKey(jobs[i]) \in ResourceKeys
      BY <1>2, <1>3, <2>1, <2>2, LockOfActive DEF Active
    <2> HIDE DEF key
    <2> QED
      BY <1>1, <2>1, <2>2, <2>3
  <1>4. ASSUME NEW k \in ResourceKeys, resourceLocks'[k] # NoJob
        PROVE  /\ jobs'[resourceLocks'[k]].status \in Active
               /\ ResourceKey(jobs'[resourceLocks'[k]]) = k
    <2> HIDE DEF key
    <2>1. k # key /\ resourceLocks'[k] = resourceLocks[k]
      BY <1>1, <1>2, <1>4
    <2>2. /\ resourceLocks[k] \in Jobs
          /\ jobs[resourceLocks[k]].status \in Active
          /\ ResourceKey(jobs[resourceLocks[k]]) = k
      BY <1>1, <1>4, <2>1 DEF LocksConsistent
    <2>3. resourceLocks[k] # j
      BY <2>1, <2>2 DEF key
    <2> QED
      BY <1>1, <2>1, <2>2, <2>3
  <1> QED
    BY <1>3, <1>4 DEF LocksConsistent, ResourceKey

(* A job becomes active and takes a lock that is free. *)
LEMMA LockTaken ==
    ASSUME TInv, LocksConsistent, NEW j \in Jobs, NEW job, jobs[j].status = "queued",
           resourceLocks[ResourceKey(jobs[j])] = NoJob,
           jobs' = [jobs EXCEPT ![j] = job], job.status \in Active,
           job.tenant = jobs[j].tenant, job.resource = jobs[j].resource,
           resourceLocks' = [resourceLocks EXCEPT ![ResourceKey(jobs[j])] = j]
    PROVE  LocksConsistent'
  <1> DEFINE key == ResourceKey(jobs[j])
  <1>1. /\ jobs'[j] = job /\ \A i \in Jobs : i # j => jobs'[i] = jobs[i]
        /\ resourceLocks' = [resourceLocks EXCEPT ![key] = j]
        /\ resourceLocks \in [ResourceKeys -> Jobs \cup {NoJob}]
    BY DEF TInv, TypeOK
  <1>2. key \in ResourceKeys /\ ResourceKey(job) = key
    BY LockOfActive DEF ResourceKey
  <1>3. ASSUME NEW i \in Jobs, jobs'[i].status \in Active
        PROVE  resourceLocks'[ResourceKey(jobs'[i])] = i
    <2>1. CASE i = j
      BY <1>1, <1>2, <2>1
    <2>2. CASE i # j
      <3>1. jobs'[i] = jobs[i]
        BY <1>1, <2>2
      <3>2. resourceLocks[ResourceKey(jobs[i])] = i
        BY <1>3, <3>1 DEF LocksConsistent
      <3>3. ResourceKey(jobs[i]) # key /\ ResourceKey(jobs[i]) \in ResourceKeys
        BY <1>3, <3>1, <3>2, LockOfActive, JobsAssumption DEF Active
      <3> HIDE DEF key
      <3> QED
        BY <1>1, <3>1, <3>2, <3>3
    <2> QED
      BY <2>1, <2>2
  <1>4. ASSUME NEW k \in ResourceKeys, resourceLocks'[k] # NoJob
        PROVE  /\ jobs'[resourceLocks'[k]].status \in Active
               /\ ResourceKey(jobs'[resourceLocks'[k]]) = k
    <2>1. CASE k = key
      BY <1>1, <1>2, <2>1
    <2>2. CASE k # key
      <3> HIDE DEF key
      <3>1. resourceLocks'[k] = resourceLocks[k]
        BY <1>1, <2>2
      <3>2. /\ resourceLocks[k] \in Jobs
            /\ jobs[resourceLocks[k]].status \in Active
            /\ ResourceKey(jobs[resourceLocks[k]]) = k
        BY <1>1, <1>4, <3>1 DEF LocksConsistent
      <3>3. resourceLocks[k] # j
        BY <3>2 DEF Active
      <3> QED
        BY <1>1, <3>1, <3>2, <3>3
    <2> QED
      BY <2>1, <2>2
  <1> QED
    BY <1>3, <1>4 DEF LocksConsistent, ResourceKey

(* The locks after the commands that read worker reports. *)
LEMMA ReportLocks ==
    ASSUME TInv, LocksConsistent, NEW r \in reports,
           \/ RetryPaasJob(r) \/ FailPaasJob(r) \/ SucceedPaasJob(r)
           \/ AcknowledgePaasJobCancellation(r)
    PROVE  LocksConsistent'
  <1> DEFINE j == r.job
             old == jobs[j]
  <1>1. j \in Jobs
    BY ReportFacts DEF TInv
  <1>2. old \in JobType
    BY <1>1, JobFacts DEF TInv
  <1>3. Release(old) /\ old.status \in Active
    BY DEF RetryPaasJob, FailPaasJob, SucceedPaasJob, AcknowledgePaasJobCancellation,
           ReportAdmitted, Active
  <1>4. \E job : jobs' = [jobs EXCEPT ![j] = job] /\ job.status \notin Active
    <2>1. CASE RetryPaasJob(r)
      <3> DEFINE job == [old EXCEPT !.status = "queued", !.updated = r.at, !.started = None]
      <3>1. jobs' = [jobs EXCEPT ![j] = job]
        BY <2>1 DEF RetryPaasJob
      <3>2. job.status \notin Active
        BY <1>2 DEF JobType, Active
      <3> QED
        BY <3>1, <3>2
    <2>2. CASE FailPaasJob(r)
      <3> DEFINE job == [old EXCEPT !.status = "failed", !.updated = r.at, !.started = None,
                                    !.completed = r.at]
      <3>1. jobs' = [jobs EXCEPT ![j] = job]
        BY <2>2 DEF FailPaasJob
      <3>2. job.status \notin Active
        BY <1>2 DEF JobType, Active
      <3> QED
        BY <3>1, <3>2
    <2>3. CASE SucceedPaasJob(r)
      <3> DEFINE job == [old EXCEPT !.status = "succeeded", !.updated = r.at, !.started = None,
                                    !.completed = r.at]
      <3>1. jobs' = [jobs EXCEPT ![j] = job]
        BY <2>3 DEF SucceedPaasJob
      <3>2. job.status \notin Active
        BY <1>2 DEF JobType, Active
      <3> QED
        BY <3>1, <3>2
    <2>4. CASE AcknowledgePaasJobCancellation(r)
      <3> DEFINE st == IF old.reason = "deadline" THEN "timed-out" ELSE "cancelled"
                 job == [old EXCEPT !.status = st, !.updated = r.at, !.completed = r.at,
                                    !.started = None]
      <3>1. jobs' = [jobs EXCEPT ![j] = job]
        BY <2>4 DEF AcknowledgePaasJobCancellation
      <3>2. st \notin Active
        BY DEF Active
      <3>3. job.status = st
        <4> HIDE DEF st, old
        <4> QED
          BY <1>2 DEF JobType
      <3> HIDE DEF st, job
      <3> QED
        BY <3>1, <3>2, <3>3
    <2> QED
      BY <2>1, <2>2, <2>3, <2>4
  <1> HIDE DEF j
  <1> QED
    BY <1>1, <1>3, <1>4, LockReleased

(* Every step keeps the locks consistent. *)
LEMMA LocksStep ==
    ASSUME TInv, QueuesConsistent, LocksConsistent, [Next]_vars
    PROVE  LocksConsistent'
  <1>1. ASSUME UNCHANGED <<jobs, resourceLocks>>
        PROVE  LocksConsistent'
    BY <1>1 DEF LocksConsistent, ResourceKey
  <1>2. CASE Environment
    <2> UNCHANGED snapshot
      BY <1>2 DEF Environment, Tick, Authorize, WorkerFinishes, WorkerCrashes, SandboxCleaned
    <2> QED
      BY <1>1 DEF snapshot
  <1>3. CASE Command
    <2>1. ASSUME NEW d \in decisions, NEW j \in Jobs, NEW m \in 1 .. MaxAttempts,
                 EnqueuePaasJob(d, j, m)
          PROVE  LocksConsistent'
      <3> DEFINE t == d.capability.tenant
                 job == [tenant |-> t, operation |-> d.operation,
                         resource |-> d.capability.resource, payload |-> d.payload,
                         status |-> "queued", key |-> d.key, created |-> d.at,
                         updated |-> d.at, deadline |-> d.at + MaxExecution[t],
                         started |-> None, completed |-> None,
                         attempt |-> 0, maxAttempts |-> m, reason |-> "none"]
      <3>1. jobs' = [jobs EXCEPT ![j] = job] /\ job.status = "queued"
        BY <2>1 DEF EnqueuePaasJob
      <3> HIDE DEF job
      <3>2. jobs[j].status = "absent" /\ resourceLocks' = resourceLocks
        BY <2>1 DEF EnqueuePaasJob
      <3>3. job.status \in Active <=> jobs[j].status \in Active
        BY <3>1, <3>2 DEF Active
      <3>4. jobs[j].status \notin Active
        BY <3>2 DEF Active
      <3> QED
        BY <3>1, <3>2, <3>3, <3>4, LocksKeptByOne
    <2>2. ASSUME NEW now \in Stamps, NEW n \in 1 .. MaxGlobalConcurrency,
                 ScheduleBegin(now, n)
          PROVE  LocksConsistent'
      <3> DEFINE expired == ExpiredQueued(now)
      <3>1. now \in Nat
        BY StampsAreTimes
      <3>2. \A j \in expired : /\ jobs[j].status = "queued"
                               /\ TimedOut(jobs[j], now).status = "timed-out"
        BY <3>1, ExpiryMoves, ExpiredFacts DEF TInv
      <3>3. /\ jobs' = [j \in Jobs |-> IF j \in expired THEN TimedOut(jobs[j], now)
                                       ELSE jobs[j]]
            /\ resourceLocks' = resourceLocks
        BY <2>2 DEF ScheduleBegin
      <3> HIDE DEF expired
      <3>4. \A j \in Jobs : \/ jobs'[j] = jobs[j]
                            \/ jobs'[j].status \notin Active /\ jobs[j].status \notin Active
        BY <3>2, <3>3 DEF Active
      <3>5. \A j \in Jobs :
              /\ jobs'[j].status \in Active <=> jobs[j].status \in Active
              /\ jobs[j].status \in Active =>
                    jobs'[j].tenant = jobs[j].tenant /\ jobs'[j].resource = jobs[j].resource
        BY <3>4
      <3> QED
        BY <3>3, <3>5, LocksKept
    <2>3. ASSUME NEW r \in reports,
                 \/ RetryPaasJob(r) \/ FailPaasJob(r) \/ SucceedPaasJob(r)
                 \/ AcknowledgePaasJobCancellation(r)
          PROVE  LocksConsistent'
      BY <2>3, ReportLocks
    <2>4. ASSUME NEW d \in decisions, NEW j \in Jobs, CancelQueuedPaasJob(d, j)
          PROVE  LocksConsistent'
      <3> DEFINE job == [jobs[j] EXCEPT !.status = "cancelled", !.reason = "user",
                                        !.updated = d.at, !.completed = d.at]
      <3>1. jobs' = [jobs EXCEPT ![j] = job] /\ resourceLocks' = resourceLocks
        BY <2>4 DEF CancelQueuedPaasJob
      <3>2. jobs[j] \in JobType
        BY JobFacts DEF TInv
      <3>3. jobs[j].status \notin Active /\ job.status \notin Active
        BY <2>4, <3>2 DEF CancelQueuedPaasJob, Active, JobType
      <3> HIDE DEF job
      <3> QED
        BY <3>1, <3>3, LocksKeptByOne
    <2>5. ASSUME NEW d \in decisions, NEW j \in Jobs, CancelRunningPaasJob(d, j)
          PROVE  LocksConsistent'
      <3> DEFINE job == [jobs[j] EXCEPT !.status = "cancelling", !.reason = "user",
                                        !.updated = d.at]
      <3>1. jobs' = [jobs EXCEPT ![j] = job] /\ resourceLocks' = resourceLocks
        BY <2>5 DEF CancelRunningPaasJob
      <3>2. jobs[j] \in JobType
        BY JobFacts DEF TInv
      <3>3. /\ jobs[j].status \in Active /\ job.status \in Active
            /\ job.tenant = jobs[j].tenant /\ job.resource = jobs[j].resource
        BY <2>5, <3>2 DEF CancelRunningPaasJob, Active, JobType
      <3> HIDE DEF job
      <3> QED
        BY <3>1, <3>3, LocksKeptByOne
    <2>6. ASSUME NEW now \in Stamps, SweepExpiredPaasJobs(now)
          PROVE  LocksConsistent'
      <3> DEFINE expired == ExpiredQueued(now)
                 overtime == ExpiredRunning(now)
                 Halted(j) == [jobs[j] EXCEPT !.status = "cancelling", !.reason = "deadline",
                                              !.updated = now]
      <3>1. now \in Nat
        BY StampsAreTimes
      <3>2. /\ jobs' = [j \in Jobs |-> IF j \in expired THEN TimedOut(jobs[j], now)
                                       ELSE IF j \in overtime THEN Halted(j) ELSE jobs[j]]
            /\ resourceLocks' = resourceLocks
        BY <2>6 DEF SweepExpiredPaasJobs
      <3>3. \A j \in expired : /\ jobs[j].status = "queued"
                               /\ TimedOut(jobs[j], now).status = "timed-out"
        BY <3>1, ExpiryMoves, ExpiredFacts DEF TInv
      <3>4. ASSUME NEW j \in overtime
            PROVE  /\ Halted(j).status = "cancelling" /\ jobs[j].status = "running"
                   /\ Halted(j).tenant = jobs[j].tenant /\ Halted(j).resource = jobs[j].resource
        <4>1. j \in Jobs /\ jobs[j].status = "running"
          BY DEF ExpiredRunning
        <4>2. jobs[j] \in JobType
          BY <4>1, JobFacts DEF TInv
        <4> QED
          BY <4>1, <4>2 DEF JobType
      <3> HIDE DEF expired, overtime, Halted
      <3>5. \A j \in Jobs :
              \/ jobs'[j] = jobs[j]
              \/ jobs'[j].status \notin Active /\ jobs[j].status \notin Active
              \/ /\ jobs'[j].status \in Active /\ jobs[j].status \in Active
                 /\ jobs'[j].tenant = jobs[j].tenant /\ jobs'[j].resource = jobs[j].resource
        BY <3>2, <3>3, <3>4 DEF Active
      <3>6. \A j \in Jobs :
              /\ jobs'[j].status \in Active <=> jobs[j].status \in Active
              /\ jobs[j].status \in Active =>
                    jobs'[j].tenant = jobs[j].tenant /\ jobs'[j].resource = jobs[j].resource
        BY <3>5
      <3> QED
        BY <3>2, <3>6, LocksKept
    <2> QED
      BY <1>3, <2>1, <2>2, <2>3, <2>4, <2>5, <2>6 DEF Command
  <1>4. CASE ScheduleStart
    <2> DEFINE j == Head(tenantQueues[nextEligibleTenant])
               job == [jobs[j] EXCEPT !.status = "running", !.started = sched.now,
                                      !.updated = sched.now, !.attempt = jobs[j].attempt + 1]
    <2>1. /\ j \in Jobs /\ jobs[j].status = "queued"
          /\ resourceLocks[ResourceKey(jobs[j])] = NoJob
      BY <1>4, HeadFacts DEF TInv, ScheduleStart, LoopContinues, MayStart
    <2>2. /\ jobs' = [jobs EXCEPT ![j] = job]
          /\ resourceLocks' = [resourceLocks EXCEPT ![ResourceKey(jobs[j])] = j]
      BY <1>4 DEF ScheduleStart
    <2> HIDE DEF j
    <2>3. jobs[j] \in JobType
      BY <2>1, JobFacts DEF TInv
    <2>4. /\ job.status \in Active
          /\ job.tenant = jobs[j].tenant /\ job.resource = jobs[j].resource
      BY <2>3 DEF JobType, Active
    <2> HIDE DEF job
    <2> QED
      BY <2>1, <2>2, <2>4, LockTaken
  <1>5. CASE ScheduleEnd
    BY <1>1, <1>5 DEF ScheduleEnd
  <1>6. CASE UNCHANGED vars
    BY <1>1, <1>6 DEF vars, snapshot
  <1> QED
    BY <1>2, <1>3, <1>4, <1>5, <1>6 DEF Next

-----------------------------------------------------------------------------
(***************************************************************************)
(* The ledgers: redeemed capabilities and idempotency records.             *)
(***************************************************************************)
RedemptionKept ==
    \A c \in CapabilityIds :
        redeemedCapabilities[c] # NoJob => redeemedCapabilities'[c] = redeemedCapabilities[c]

RecordsKept ==
    \A k \in Tenants \X Keys : idempotency[k] # NoRecord => idempotency'[k] = idempotency[k]

NewJobsRecorded ==
    \A j \in Jobs : jobs[j].status = "absent" /\ jobs'[j].status # "absent" =>
        idempotency'[<<jobs'[j].tenant, jobs'[j].key>>] = [action |-> "enqueue", jobId |-> j]

(* Redemption never replaces an entry. *)
LEMMA RedeemKeeps ==
    ASSUME TInv, NEW d \in decisions, NEW j \in Jobs, Redeem(d, j)
    PROVE  RedemptionKept
  BY DecisionFacts DEF Redeem, capabilityToRedeem, RedemptionKept, TInv, TypeOK

(* A new record never replaces another. *)
LEMMA RecordAdded ==
    ASSUME TInv, NEW t \in Tenants, NEW k \in Keys, NEW rec, KeyUnused(t, k),
           idempotency' = [idempotency EXCEPT ![<<t, k>>] = rec]
    PROVE  RecordsKept /\ idempotency'[<<t, k>>] = rec
  BY DEF KeyUnused, RecordsKept, TInv, TypeOK

(* Every step keeps the ledgers; a new job comes with its record. *)
LEMMA LedgerStep ==
    ASSUME TInv, QueuesConsistent, [Next]_vars
    PROVE  RedemptionKept /\ RecordsKept /\ NewJobsRecorded
  <1>1. ASSUME UNCHANGED <<redeemedCapabilities, idempotency>>
        PROVE  RedemptionKept /\ RecordsKept
    BY <1>1 DEF RedemptionKept, RecordsKept
  <1>2. ASSUME NEW j \in Jobs, jobs[j].status # "absent", NEW job,
               jobs' = [jobs EXCEPT ![j] = job]
        PROVE  NewJobsRecorded
    BY <1>2 DEF NewJobsRecorded, TInv, TypeOK
  <1>3. CASE UNCHANGED <<redeemedCapabilities, idempotency, jobs>>
    BY <1>1, <1>3 DEF NewJobsRecorded
  <1>4. CASE Environment
    <2> UNCHANGED snapshot
      BY <1>4 DEF Environment, Tick, Authorize, WorkerFinishes, WorkerCrashes, SandboxCleaned
    <2> QED
      BY <1>3 DEF snapshot
  <1>5. CASE Command
    <2>1. ASSUME NEW d \in decisions, NEW j \in Jobs, NEW m \in 1 .. MaxAttempts,
                 EnqueuePaasJob(d, j, m)
          PROVE  RedemptionKept /\ RecordsKept /\ NewJobsRecorded
      <3> DEFINE t == d.capability.tenant
                 rec == [action |-> "enqueue", jobId |-> j]
      <3>1. t \in Tenants /\ d.key \in Keys
        BY DecisionFacts
      <3>2. /\ Redeem(d, j) /\ KeyUnused(t, d.key)
            /\ idempotency' = [idempotency EXCEPT ![<<t, d.key>>] = rec]
        BY <2>1 DEF EnqueuePaasJob
      <3>3. jobs'[j].tenant = t /\ jobs'[j].key = d.key /\ \A i \in Jobs : i # j => jobs'[i] = jobs[i]
        BY <2>1 DEF EnqueuePaasJob, TInv, TypeOK
      <3> HIDE DEF t
      <3>4. RecordsKept /\ idempotency'[<<t, d.key>>] = rec
        BY <3>1, <3>2, RecordAdded
      <3>5. NewJobsRecorded
        BY <3>3, <3>4 DEF NewJobsRecorded
      <3> QED
        BY <3>2, <3>4, <3>5, RedeemKeeps
    <2>2. ASSUME NEW now \in Stamps, NEW n \in 1 .. MaxGlobalConcurrency,
                 ScheduleBegin(now, n)
          PROVE  RedemptionKept /\ RecordsKept /\ NewJobsRecorded
      <3>1. \A j \in ExpiredQueued(now) : jobs[j].status = "queued"
        BY ExpiredFacts DEF TInv
      <3>2. \A j \in Jobs : jobs[j].status = "absent" => jobs'[j] = jobs[j]
        BY <2>2, <3>1 DEF ScheduleBegin
      <3>3. NewJobsRecorded
        BY <3>2 DEF NewJobsRecorded
      <3> QED
        BY <1>1, <2>2, <3>3 DEF ScheduleBegin
    <2>3. ASSUME NEW r \in reports,
                 \/ RetryPaasJob(r) \/ FailPaasJob(r) \/ SucceedPaasJob(r)
                 \/ AcknowledgePaasJobCancellation(r)
          PROVE  RedemptionKept /\ RecordsKept /\ NewJobsRecorded
      <3>1. r.job \in Jobs
        BY ReportFacts DEF TInv
      <3>2. jobs[r.job].status # "absent"
        BY <2>3 DEF RetryPaasJob, FailPaasJob, SucceedPaasJob,
                    AcknowledgePaasJobCancellation, ReportAdmitted
      <3>3. UNCHANGED <<redeemedCapabilities, idempotency>>
        BY <2>3 DEF RetryPaasJob, FailPaasJob, SucceedPaasJob, AcknowledgePaasJobCancellation
      <3>4. \A i \in Jobs : i # r.job => jobs'[i] = jobs[i]
        BY <2>3 DEF RetryPaasJob, FailPaasJob, SucceedPaasJob,
                    AcknowledgePaasJobCancellation, TInv, TypeOK
      <3>5. NewJobsRecorded
        BY <3>1, <3>2, <3>4 DEF NewJobsRecorded
      <3> QED
        BY <1>1, <3>3, <3>5
    <2>4. ASSUME NEW d \in decisions, NEW j \in Jobs,
                 CancelQueuedPaasJob(d, j) \/ CancelRunningPaasJob(d, j)
          PROVE  RedemptionKept /\ RecordsKept /\ NewJobsRecorded
      <3> DEFINE t == jobs[j].tenant
                 rec == [action |-> "cancel", jobId |-> j]
      <3>1. t \in Tenants /\ d.key \in Keys
        BY DecisionFacts, JobFacts DEF TInv
      <3>2. /\ Redeem(d, j) /\ KeyUnused(t, d.key)
            /\ idempotency' = [idempotency EXCEPT ![<<t, d.key>>] = rec]
            /\ jobs[j].status # "absent"
        BY <2>4 DEF CancelQueuedPaasJob, CancelRunningPaasJob, CancelAdmitted
      <3>3. \A i \in Jobs : i # j => jobs'[i] = jobs[i]
        BY <2>4 DEF CancelQueuedPaasJob, CancelRunningPaasJob, TInv, TypeOK
      <3> HIDE DEF t
      <3>4. RecordsKept
        BY <3>1, <3>2, RecordAdded
      <3>5. NewJobsRecorded
        BY <3>2, <3>3 DEF NewJobsRecorded
      <3> QED
        BY <3>2, <3>4, <3>5, RedeemKeeps
    <2>5. ASSUME NEW now \in Stamps, SweepExpiredPaasJobs(now)
          PROVE  RedemptionKept /\ RecordsKept /\ NewJobsRecorded
      <3>1. /\ \A j \in ExpiredQueued(now) : jobs[j].status = "queued"
            /\ \A j \in ExpiredRunning(now) : jobs[j].status = "running"
        BY ExpiredFacts DEF TInv
      <3>2. \A j \in Jobs : jobs[j].status = "absent" => jobs'[j] = jobs[j]
        BY <2>5, <3>1 DEF SweepExpiredPaasJobs
      <3>3. NewJobsRecorded
        BY <3>2 DEF NewJobsRecorded
      <3> QED
        BY <1>1, <2>5, <3>3 DEF SweepExpiredPaasJobs
    <2> QED
      BY <1>5, <2>1, <2>2, <2>3, <2>4, <2>5 DEF Command
  <1>6. CASE ScheduleStart
    <2> DEFINE j == Head(tenantQueues[nextEligibleTenant])
    <2>1. j \in Jobs /\ jobs[j].status = "queued"
      BY <1>6, HeadFacts DEF TInv, ScheduleStart, LoopContinues, MayStart
    <2>2. \A i \in Jobs : i # j => jobs'[i] = jobs[i]
      BY <1>6 DEF ScheduleStart, TInv, TypeOK
    <2> HIDE DEF j
    <2>3. NewJobsRecorded
      BY <2>1, <2>2 DEF NewJobsRecorded
    <2> QED
      BY <1>1, <1>6, <2>3 DEF ScheduleStart
  <1>7. CASE ScheduleEnd
    BY <1>3, <1>7 DEF ScheduleEnd
  <1>8. CASE UNCHANGED vars
    BY <1>3, <1>8 DEF vars, snapshot
  <1> QED
    BY <1>4, <1>5, <1>6, <1>7, <1>8 DEF Next

(* A tenant's key keeps standing for its job. *)
LEMMA KeysStep ==
    ASSUME TInv, QueuesConsistent, OneJobPerKey, \A j \in Jobs : JobOK(jobs[j]), [Next]_vars
    PROVE  OneJobPerKey'
  <1> SUFFICES ASSUME NEW j \in Jobs, jobs'[j].status # "absent"
               PROVE  idempotency'[<<jobs'[j].tenant, jobs'[j].key>>] =
                          [action |-> "enqueue", jobId |-> j]
    BY DEF OneJobPerKey
  <1>1. RecordsKept /\ NewJobsRecorded
    BY LedgerStep
  <1>2. CASE jobs[j].status = "absent"
    BY <1>1, <1>2 DEF NewJobsRecorded
  <1>3. CASE jobs[j].status # "absent"
    <2> DEFINE k == <<jobs[j].tenant, jobs[j].key>>
    <2>1. JobStep(jobs[j], jobs'[j])
      BY StepMoves
    <2>2. jobs'[j].tenant = jobs[j].tenant /\ jobs'[j].key = jobs[j].key
      BY <1>3, <2>1 DEF JobStep, Enqueued, Moved, SameOrder
    <2>3. k \in Tenants \X Keys
      BY <1>3, JobFacts DEF TInv, JobOK
    <2>4. idempotency[k] = [action |-> "enqueue", jobId |-> j]
      BY <1>3 DEF OneJobPerKey
    <2>5. idempotency[k] # NoRecord
      BY <2>4 DEF NoRecord
    <2> QED
      BY <1>1, <2>2, <2>3, <2>4, <2>5 DEF RecordsKept
  <1> QED
    BY <1>2, <1>3

-----------------------------------------------------------------------------
(***************************************************************************)
(* The inductive invariant and the theorems.                               *)
(***************************************************************************)
IInv ==
    /\ TInv
    /\ QueuesConsistent
    /\ LocksConsistent
    /\ OneJobPerKey
    /\ \A j \in Jobs : JobOK(jobs[j])

(* It holds of the empty snapshot. *)
LEMMA InvInit == Init => IInv
  <1> SUFFICES ASSUME Init
               PROVE  IInv
    OBVIOUS
  <1>1. TInv
    BY TypeInit
  <1>2. \A j \in Jobs : jobs[j] = AbsentJob
    BY DEF Init
  <1>3. \A j \in Jobs : jobs[j].status = "absent" /\ jobs[j].attempt <= jobs[j].maxAttempts
    BY <1>2 DEF AbsentJob
  <1>4. QueuesConsistent
    BY <1>3 DEF QueuesConsistent, Init
  <1>5. LocksConsistent
    BY <1>3 DEF LocksConsistent, Init, Active
  <1>6. OneJobPerKey /\ \A j \in Jobs : JobOK(jobs[j])
    BY <1>3 DEF OneJobPerKey, JobOK
  <1> QED
    BY <1>1, <1>4, <1>5, <1>6 DEF IInv

(* Every step keeps it. *)
LEMMA InvStep ==
    ASSUME IInv, [Next]_vars
    PROVE  IInv'
  <1>1. TInv'
    BY TypeStep DEF IInv
  <1>2. (\A i \in Jobs : JobStep(jobs[i], jobs'[i])) /\ QueuesConsistent'
    BY StepMoves DEF IInv
  <1>3. LocksConsistent'
    BY LocksStep DEF IInv
  <1>4. OneJobPerKey'
    BY KeysStep DEF IInv
  <1>5. ASSUME NEW j \in Jobs
        PROVE  JobOK(jobs'[j])
    <2>1. jobs[j] \in JobType /\ jobs'[j] \in JobType
      BY <1>1 DEF IInv, TInv, TypeOK
    <2> QED
      BY <1>2, <2>1, JobOKStep DEF IInv
  <1>6. (\A j \in Jobs : JobOK(jobs[j]))'
    BY <1>5 DEF JobOK
  <1> QED
    BY <1>1, <1>2, <1>3, <1>4, <1>6 DEF IInv

(* The inductive invariant holds in every reachable state. *)
THEOREM Invariance == Spec => []IInv
  <1>1. Init => IInv
    BY InvInit
  <1>2. IInv /\ [Next]_vars => IInv'
    BY InvStep
  <1> QED
    BY <1>1, <1>2, PTL DEF Spec

(* Type correctness of the control state (PaasControlState and its         *)
(* environment).                                                           *)
THEOREM TypeCorrect == Spec => []TypeOK
  <1> IInv => TypeOK
    BY DEF IInv, TInv
  <1> QED
    BY Invariance, PTL

(* The "queue" and "lock" checks of stateInvariantError never fail: queues *)
(* hold exactly the queued jobs of their tenant, once each, and locks and  *)
(* active jobs correspond one to one, whatever the clocks do and even when *)
(* reports are delivered again.                                            *)
THEOREM QueuesAndLocksConsistent == Spec => [](QueuesConsistent /\ LocksConsistent)
  <1> IInv => QueuesConsistent /\ LocksConsistent
    BY DEF IInv
  <1> QED
    BY Invariance, PTL

(* Idempotency of enqueuePaasJob: a tenant's key stands for one job. *)
THEOREM KeysAreExact == Spec => []OneJobPerKey
  <1> IInv => OneJobPerKey
    BY DEF IInv
  <1> QED
    BY Invariance, PTL

(* Bounded retries of completePaasJob. *)
THEOREM AttemptsAreBounded == Spec => []AttemptsBounded
  <1> IInv => AttemptsBounded
    BY DEF IInv, JobOK, AttemptsBounded
  <1> QED
    BY Invariance, PTL

(* completePaasJob, cancelPaasJob and sweepExpiredPaasJobs agree on the    *)
(* original deadline of a job.                                             *)
THEOREM DeadlinesAreRespected == Spec => []OutcomesRespectDeadline
  <1> IInv => OutcomesRespectDeadline
    BY DEF IInv, JobOK, OutcomesRespectDeadline
  <1> QED
    BY Invariance, PTL

(* One-use capabilities are redeemed once: a redemption is never replaced. *)
THEOREM RedemptionsAreFinal == Spec => RedemptionIsFinal
  <1>1. IInv /\ [Next]_vars =>
          [\A c \in CapabilityIds :
              redeemedCapabilities[c] # NoJob =>
                  redeemedCapabilities'[c] = redeemedCapabilities[c]]_vars
    BY LedgerStep DEF IInv, RedemptionKept
  <1> QED
    BY <1>1, Invariance, PTL DEF Spec, RedemptionIsFinal

(* No command changes a job after its end. *)
THEOREM FinishedJobsAreFinal == Spec => TerminalIsFinal
  <1>1. IInv /\ [Next]_vars =>
          [\A j \in Jobs : jobs[j].status \in Terminal => jobs'[j] = jobs[j]]_vars
    BY StepMoves, TerminalStays DEF IInv
  <1> QED
    BY <1>1, Invariance, PTL DEF Spec, TerminalIsFinal

(* Attempts and deadlines together: a job stays within what its command    *)
(* allowed (completePaasJob, sweepPaasJobs).                               *)
THEOREM LimitsHold == Spec => []LimitsAreRespected
  <1> LimitsAreRespected <=> AttemptsBounded /\ OutcomesRespectDeadline
    BY DEF LimitsAreRespected
  <1> QED
    BY AttemptsAreBounded, DeadlinesAreRespected, PTL

(* Redemptions and finished jobs together: what was decided for good stays *)
(* decided, whatever arrives late.                                         *)
THEOREM DecidedForGood == Spec => NothingFinalChanges
  BY RedemptionsAreFinal, FinishedJobsAreFinal DEF NothingFinalChanges

-----------------------------------------------------------------------------
(***************************************************************************)
(* Workers and locks, when an accepted report is not delivered again.      *)
(* completePaasJob does not look at the attempt that a report is about; it *)
(* need not, because a report of a running job is then the only one, is    *)
(* about its current attempt, and nothing executes any more.               *)
(***************************************************************************)
WorkersCurrent ==
    \A w \in workers : jobs[w.job].status \in Active /\ jobs[w.job].attempt = w.attempt

Busy(j) == \E w \in workers : w.job = j

ReportOK(r) ==
    IF r.outcome = "cleanup"
    THEN jobs[r.job].status \in {"cancelling"} \cup Terminal /\ ~Busy(r.job)
    ELSE /\ jobs[r.job].status \notin {"absent", "queued"}
         /\ jobs[r.job].status = "running" =>
               /\ ~Busy(r.job)
               /\ \A o \in reports : o.job = r.job /\ o.outcome # "cleanup" => o = r

ReportsCurrent == \A r \in reports : ReportOK(r)

LInv == IInv /\ WorkersCurrent /\ ReportsCurrent

(* A job that waits has no worker, and nothing is reported about it. *)
LEMMA WaitingIsQuiet ==
    ASSUME LInv, NEW j \in Jobs, jobs[j].status \in {"absent", "queued"}
    PROVE  ~Busy(j) /\ \A r \in reports : r.job # j
  BY DEF LInv, WorkersCurrent, ReportsCurrent, ReportOK, Busy, Active, Terminal

(* What a command does to a job without a report about it. *)
Unreported(a, b) ==
    \/ b = a
    \/ a.status \in {"absent", "queued"}
    \/ a.status = "running" /\ b.status = "cancelling" /\ b.attempt = a.attempt

(* Such a command keeps workers and reports current. *)
LEMMA UnreportedKeeps ==
    ASSUME LInv, UNCHANGED <<workers, reports>>, \A i \in Jobs : Unreported(jobs[i], jobs'[i])
    PROVE  WorkersCurrent' /\ ReportsCurrent'
  <1>1. TypeOK
    BY DEF LInv, IInv, TInv
  <1>2. ASSUME NEW w \in workers
        PROVE  jobs'[w.job].status \in Active /\ jobs'[w.job].attempt = w.attempt
    <2>1. w.job \in Jobs /\ Busy(w.job)
      BY <1>1 DEF TypeOK, Busy
    <2>2. jobs[w.job].status \notin {"absent", "queued"}
      BY <2>1, WaitingIsQuiet
    <2> QED
      BY <2>1, <2>2 DEF LInv, WorkersCurrent, Unreported, Active
  <1>3. ASSUME NEW r \in reports
        PROVE  ReportOK(r)'
    <2>1. r.job \in Jobs /\ ReportOK(r)
      BY <1>1, ReportFacts DEF LInv, ReportsCurrent
    <2>2. jobs[r.job].status \notin {"absent", "queued"}
      BY <2>1, WaitingIsQuiet
    <2>3. \/ jobs'[r.job] = jobs[r.job]
          \/ jobs[r.job].status = "running" /\ jobs'[r.job].status = "cancelling"
      BY <2>1, <2>2 DEF Unreported
    <2> QED
      BY <2>1, <2>3 DEF ReportOK, Busy, Terminal
  <1> QED
    BY <1>2, <1>3 DEF WorkersCurrent, ReportsCurrent

(* A report that is accepted ends the attempt; no worker is left behind. *)
LEMMA AcceptedKeeps ==
    ASSUME LInv, NEW r \in reports, NEW job, jobs' = [jobs EXCEPT ![r.job] = job],
           workers' = workers, reports' = reports \ {r},
           \/ r.outcome # "cleanup" /\ jobs[r.job].status = "running"
           \/ r.outcome = "cleanup" /\ jobs[r.job].status = "cancelling" /\ job.status \in Terminal
    PROVE  WorkersCurrent' /\ ReportsCurrent'
  <1>1. TypeOK /\ r.job \in Jobs /\ ReportOK(r)
    BY ReportFacts DEF LInv, IInv, TInv, ReportsCurrent
  <1>2. ~Busy(r.job)
    BY <1>1 DEF ReportOK
  <1>3. jobs'[r.job] = job /\ \A i \in Jobs : i # r.job => jobs'[i] = jobs[i]
    BY <1>1 DEF TypeOK
  <1>4. ASSUME NEW w \in workers
        PROVE  jobs'[w.job].status \in Active /\ jobs'[w.job].attempt = w.attempt
    <2>1. w.job \in Jobs /\ w.job # r.job
      BY <1>1, <1>2 DEF TypeOK, Busy
    <2> QED
      BY <1>3, <2>1 DEF LInv, WorkersCurrent
  <1>5. ASSUME NEW o \in reports, o # r
        PROVE  ReportOK(o)'
    <2>1. o.job \in Jobs /\ ReportOK(o)
      BY <1>1, ReportFacts DEF LInv, ReportsCurrent
    <2>2. CASE o.job # r.job
      BY <1>3, <2>1, <2>2 DEF ReportOK, Busy
    <2>3. CASE o.job = r.job
      <3>1. jobs[r.job].status = "cancelling" /\ job.status \in Terminal
        BY <1>1, <1>5, <2>1, <2>3 DEF ReportOK, Terminal
      <3> QED
        BY <1>2, <1>3, <2>3, <3>1 DEF ReportOK, Busy, Terminal
    <2> QED
      BY <2>2, <2>3
  <1> QED
    BY <1>4, <1>5 DEF WorkersCurrent, ReportsCurrent

(* The workers and reports of the environment. *)
LEMMA EnvironmentKeeps ==
    ASSUME LInv, Environment
    PROVE  WorkersCurrent' /\ ReportsCurrent'
  <1>1. TypeOK /\ UNCHANGED jobs
    BY DEF LInv, IInv, TInv, Environment, Tick, Authorize, WorkerFinishes, WorkerCrashes, SandboxCleaned,
           snapshot
  <1>2. CASE UNCHANGED <<workers, reports>>
    BY <1>1, <1>2, UnreportedKeeps DEF Unreported
  <1>3. ASSUME NEW w \in workers, WorkerCrashes(w)
        PROVE  WorkersCurrent' /\ ReportsCurrent'
    <2>1. workers' \subseteq workers /\ reports' = reports
      BY <1>3 DEF WorkerCrashes
    <2> QED
      BY <1>1, <2>1 DEF LInv, WorkersCurrent, ReportsCurrent, ReportOK, Busy
  <1>4. ASSUME NEW w \in workers, NEW outcome \in Outcomes \ {"crash"}, WorkerFinishes(w, outcome)
        PROVE  WorkersCurrent' /\ ReportsCurrent'
    <2>1. PICK at : reports' = reports \cup {[job |-> w.job, attempt |-> w.attempt,
                                              outcome |-> outcome, at |-> at]}
      BY <1>4 DEF WorkerFinishes
    <2> DEFINE r == [job |-> w.job, attempt |-> w.attempt, outcome |-> outcome, at |-> at]
    <2>2. r.job = w.job /\ r.outcome # "cleanup"
      BY EnvironmentAssumption
    <2>3. workers' = workers \ {w} /\ reports' = reports \cup {r}
      BY <1>4, <2>1 DEF WorkerFinishes
    <2> HIDE DEF r
    <2>4. jobs[w.job].status \in Active
      BY DEF LInv, WorkersCurrent
    <2>5. ~Busy(w.job)'
      <3> SUFFICES ASSUME NEW v \in workers, v.job = w.job
                   PROVE  v = w
        BY <2>3 DEF Busy
      <3>1. v.attempt = w.attempt
        BY DEF LInv, WorkersCurrent
      <3>2. v \in [job : Jobs, attempt : Nat] /\ w \in [job : Jobs, attempt : Nat]
        BY <1>1 DEF TypeOK
      <3> QED
        BY <3>1, <3>2
    <2>6. \A o \in reports : o.job = w.job => o.outcome # "cleanup" /\ jobs[w.job].status # "running"
      BY <2>4 DEF LInv, ReportsCurrent, ReportOK, Busy
    <2>7. ReportOK(r)'
      BY <1>1, <2>2, <2>3, <2>4, <2>5, <2>6 DEF ReportOK, Active
    <2>8. ASSUME NEW o \in reports
          PROVE  ReportOK(o)'
      <3>1. ~Busy(o.job) => ~Busy(o.job)'
        BY <2>3 DEF Busy, LInv, ReportsCurrent
      <3>2. ReportOK(o)
        BY DEF LInv, ReportsCurrent
      <3> QED
        BY <1>1, <2>2, <2>3, <2>6, <3>1, <3>2 DEF ReportOK
    <2> QED
      BY <1>1, <2>3, <2>7, <2>8 DEF LInv, WorkersCurrent, ReportsCurrent
  <1>5. ASSUME NEW j \in Jobs, SandboxCleaned(j)
        PROVE  WorkersCurrent' /\ ReportsCurrent'
    <2>1. PICK n, at : reports' = reports \cup {[job |-> j, attempt |-> n,
                                                 outcome |-> "cleanup", at |-> at]}
      BY <1>5 DEF SandboxCleaned
    <2> DEFINE r == [job |-> j, attempt |-> n, outcome |-> "cleanup", at |-> at]
    <2>2. r.job = j /\ r.outcome = "cleanup"
      OBVIOUS
    <2>3. /\ workers' = {w \in workers : w.job # j} /\ reports' = reports \cup {r}
          /\ jobs[j].status = "cancelling"
      BY <1>5, <2>1 DEF SandboxCleaned
    <2> HIDE DEF r
    <2>4. \A w \in workers' : w \in workers /\ w.job # j
      BY <2>3
    <2>5. ~Busy(j)'
      BY <2>4 DEF Busy
    <2>6. ReportOK(r)'
      BY <1>1, <2>2, <2>3, <2>5 DEF ReportOK
    <2>7. ASSUME NEW o \in reports
          PROVE  ReportOK(o)'
      <3>1. ReportOK(o) /\ (~Busy(o.job) => ~Busy(o.job)')
        BY <2>3 DEF Busy, LInv, ReportsCurrent
      <3> QED
        BY <1>1, <2>2, <2>3, <3>1 DEF ReportOK
    <2>8. WorkersCurrent'
      BY <1>1, <2>4 DEF LInv, WorkersCurrent
    <2> QED
      BY <2>3, <2>6, <2>7, <2>8 DEF ReportsCurrent
  <1> QED
    BY <1>2, <1>3, <1>4, <1>5 DEF Environment, Tick, Authorize

(* The commands that no report is part of. *)
LEMMA UnreportedCommands ==
    ASSUME LInv,
           \/ \E d \in decisions, j \in Jobs, m \in 1 .. MaxAttempts : EnqueuePaasJob(d, j, m)
           \/ \E now \in Stamps, n \in 1 .. MaxGlobalConcurrency : ScheduleBegin(now, n)
           \/ \E d \in decisions, j \in Jobs : CancelQueuedPaasJob(d, j) \/ CancelRunningPaasJob(d, j)
           \/ \E now \in Stamps : SweepExpiredPaasJobs(now)
    PROVE  WorkersCurrent' /\ ReportsCurrent'
  <1>1. TypeOK /\ QueuesConsistent
    BY DEF LInv, IInv, TInv
  <1>2. UNCHANGED <<workers, reports>>
    BY DEF EnqueuePaasJob, ScheduleBegin, CancelQueuedPaasJob, CancelRunningPaasJob, SweepExpiredPaasJobs
  <1>3. ASSUME NEW j \in Jobs, NEW job, jobs' = [jobs EXCEPT ![j] = job], Unreported(jobs[j], job)
        PROVE  \A i \in Jobs : Unreported(jobs[i], jobs'[i])
    BY <1>1, <1>3 DEF TypeOK, Unreported
  <1>4. ASSUME NEW d \in decisions, NEW j \in Jobs, NEW m \in 1 .. MaxAttempts, EnqueuePaasJob(d, j, m)
        PROVE  \A i \in Jobs : Unreported(jobs[i], jobs'[i])
    <2>1. jobs[j].status = "absent" /\ \E job : jobs' = [jobs EXCEPT ![j] = job]
      BY <1>4 DEF EnqueuePaasJob
    <2> QED
      BY <1>3, <2>1 DEF Unreported
  <1>5. ASSUME NEW now \in Stamps, NEW n \in 1 .. MaxGlobalConcurrency, ScheduleBegin(now, n)
        PROVE  \A i \in Jobs : Unreported(jobs[i], jobs'[i])
    <2>1. jobs' = [j \in Jobs |-> IF j \in ExpiredQueued(now) THEN TimedOut(jobs[j], now) ELSE jobs[j]]
      BY <1>5 DEF ScheduleBegin
    <2> QED
      BY <1>1, <2>1, ExpiredFacts DEF Unreported
  <1>6. ASSUME NEW d \in decisions, NEW j \in Jobs, CancelQueuedPaasJob(d, j) \/ CancelRunningPaasJob(d, j)
        PROVE  \A i \in Jobs : Unreported(jobs[i], jobs'[i])
    <2> DEFINE job == [jobs[j] EXCEPT !.status = "cancelling", !.reason = "user", !.updated = d.at]
    <2>1. CASE CancelQueuedPaasJob(d, j)
      <3>1. jobs[j].status = "queued" /\ \E new : jobs' = [jobs EXCEPT ![j] = new]
        BY <2>1 DEF CancelQueuedPaasJob
      <3> QED
        BY <1>3, <3>1 DEF Unreported
    <2>2. CASE CancelRunningPaasJob(d, j)
      <3>1. jobs[j].status = "running" /\ jobs' = [jobs EXCEPT ![j] = job]
        BY <2>2 DEF CancelRunningPaasJob
      <3>2. jobs[j] \in JobType
        BY <1>1, JobFacts
      <3>3. job.status = "cancelling" /\ job.attempt = jobs[j].attempt
        BY <3>2 DEF JobType
      <3> HIDE DEF job
      <3> QED
        BY <1>3, <3>1, <3>3 DEF Unreported
    <2> QED
      BY <1>6, <2>1, <2>2
  <1>7. ASSUME NEW now \in Stamps, SweepExpiredPaasJobs(now)
        PROVE  \A i \in Jobs : Unreported(jobs[i], jobs'[i])
    <2> DEFINE Halted(j) == [jobs[j] EXCEPT !.status = "cancelling", !.reason = "deadline", !.updated = now]
    <2>1. jobs' = [j \in Jobs |-> IF j \in ExpiredQueued(now) THEN TimedOut(jobs[j], now)
                                  ELSE IF j \in ExpiredRunning(now) THEN Halted(j) ELSE jobs[j]]
      BY <1>7 DEF SweepExpiredPaasJobs
    <2>2. \A j \in Jobs : jobs[j] \in JobType
      BY <1>1, JobFacts
    <2>3. \A j \in Jobs : Halted(j).status = "cancelling" /\ Halted(j).attempt = jobs[j].attempt
      BY <2>2 DEF JobType
    <2> HIDE DEF Halted
    <2> QED
      BY <1>1, <2>1, <2>3, ExpiredFacts DEF Unreported
  <1> QED
    BY <1>2, <1>4, <1>5, <1>6, <1>7, UnreportedKeeps

(* The commands that accept a report. *)
LEMMA ReportCommands ==
    ASSUME LInv, ~Redelivery, NEW r \in reports,
           \/ RetryPaasJob(r) \/ FailPaasJob(r) \/ SucceedPaasJob(r) \/ AcknowledgePaasJobCancellation(r)
    PROVE  WorkersCurrent' /\ ReportsCurrent'
  <1>1. workers' = workers /\ reports' = reports \ {r}
    BY DEF RetryPaasJob, FailPaasJob, SucceedPaasJob, AcknowledgePaasJobCancellation, Delivered
  <1>2. CASE RetryPaasJob(r) \/ FailPaasJob(r) \/ SucceedPaasJob(r)
    <2>1. /\ r.outcome # "cleanup" /\ jobs[r.job].status = "running"
          /\ \E job : jobs' = [jobs EXCEPT ![r.job] = job]
      BY <1>2 DEF RetryPaasJob, FailPaasJob, SucceedPaasJob, ReportAdmitted
    <2> QED
      BY <1>1, <2>1, AcceptedKeeps
  <1>3. CASE AcknowledgePaasJobCancellation(r)
    <2> DEFINE old == jobs[r.job]
               st == IF old.reason = "deadline" THEN "timed-out" ELSE "cancelled"
               job == [old EXCEPT !.status = st, !.updated = r.at, !.completed = r.at, !.started = None]
    <2>1. r.outcome = "cleanup" /\ old.status = "cancelling" /\ jobs' = [jobs EXCEPT ![r.job] = job]
      BY <1>3 DEF AcknowledgePaasJobCancellation
    <2>2. r.job \in Jobs /\ old \in JobType
      BY ReportFacts, JobFacts DEF LInv, IInv, TInv
    <2>3. job.status \in Terminal
      BY <2>2 DEF JobType, Terminal
    <2> HIDE DEF job
    <2> QED
      BY <1>1, <2>1, <2>3, AcceptedKeeps
  <1> QED
    BY <1>2, <1>3

(* A start gives a waiting job its one worker. *)
LEMMA StartKeeps ==
    ASSUME LInv, ScheduleStart
    PROVE  WorkersCurrent' /\ ReportsCurrent'
  <1>1. PICK j \in Jobs, n \in Nat, job \in JobType :
           /\ jobs[j].status = "queued" /\ job.status = "running" /\ job.attempt = n
           /\ jobs' = [jobs EXCEPT ![j] = job]
           /\ workers' = workers \cup {[job |-> j, attempt |-> n]} /\ reports' = reports
    <2> DEFINE t == nextEligibleTenant
               j == Head(tenantQueues[t])
               job == [jobs[j] EXCEPT !.status = "running", !.started = sched.now,
                                      !.updated = sched.now, !.attempt = jobs[j].attempt + 1]
    <2>1. j \in Jobs /\ jobs[j].status = "queued"
      BY HeadFacts DEF LInv, IInv, TInv, ScheduleStart, LoopContinues, MayStart
    <2>2. /\ jobs' = [jobs EXCEPT ![j] = job] /\ reports' = reports
          /\ workers' = workers \cup {[job |-> j, attempt |-> jobs[j].attempt + 1]}
      BY DEF ScheduleStart
    <2> HIDE DEF t, j
    <2>3. jobs[j] \in JobType /\ jobs[j].attempt + 1 \in Nat /\ sched.now \in Nat
      BY <2>1, JobFacts DEF LInv, IInv, TInv, TypeOK
    <2>4. job \in JobType /\ job.status = "running" /\ job.attempt = jobs[j].attempt + 1
      BY <2>3 DEF JobType, Active
    <2> QED
      BY <2>1, <2>2, <2>3, <2>4
  <1>2. TypeOK /\ ~Busy(j) /\ \A r \in reports : r.job # j
    BY <1>1, WaitingIsQuiet DEF LInv, IInv, TInv
  <1>3. jobs'[j] = job /\ \A i \in Jobs : i # j => jobs'[i] = jobs[i]
    BY <1>1, <1>2 DEF TypeOK
  <1>4. ASSUME NEW w \in workers
        PROVE  jobs'[w.job].status \in Active /\ jobs'[w.job].attempt = w.attempt
    BY <1>2, <1>3 DEF LInv, WorkersCurrent, Busy, TypeOK
  <1>5. WorkersCurrent'
    BY <1>1, <1>3, <1>4 DEF WorkersCurrent, Active
  <1>6. ASSUME NEW r \in reports
        PROVE  ReportOK(r)'
    <2>1. r.job \in Jobs /\ r.job # j /\ ReportOK(r)
      BY <1>2, ReportFacts DEF LInv, ReportsCurrent
    <2>2. ~Busy(r.job) => ~Busy(r.job)'
      BY <1>1, <2>1 DEF Busy
    <2> QED
      BY <1>1, <1>3, <2>1, <2>2 DEF ReportOK
  <1> QED
    BY <1>1, <1>5, <1>6 DEF ReportsCurrent

(* Every step keeps workers and reports current. *)
LEMMA LockInvStep ==
    ASSUME LInv, ~Redelivery, [Next]_vars
    PROVE  LInv'
  <1>1. IInv'
    BY InvStep DEF LInv
  <1>2. CASE ScheduleEnd \/ UNCHANGED vars
    <2> UNCHANGED <<jobs, workers, reports>>
      BY <1>2 DEF ScheduleEnd, vars, snapshot
    <2> WorkersCurrent' /\ ReportsCurrent'
      BY UnreportedKeeps DEF Unreported
    <2> QED
      BY <1>1 DEF LInv
  <1>3. CASE Environment
    BY <1>1, <1>3, EnvironmentKeeps DEF LInv
  <1>4. CASE ScheduleStart
    BY <1>1, <1>4, StartKeeps DEF LInv
  <1>5. CASE Command
    <2> WorkersCurrent' /\ ReportsCurrent'
      BY <1>5, UnreportedCommands, ReportCommands DEF Command
    <2> QED
      BY <1>1 DEF LInv
  <1> QED
    BY <1>2, <1>3, <1>4, <1>5 DEF Next

(***************************************************************************)
(* When no accepted report is delivered again, an attempt that executes is *)
(* the current attempt of an active job that owns its resource, however    *)
(* crashes, cancellations, sweeps and late reports interleave; so two      *)
(* workers never execute on one resource (completePaasJob,                 *)
(* acknowledgePaasJobCancellation and schedulePaasJobs together).          *)
(***************************************************************************)
THEOREM WorkersKeepTheirLock == ~Redelivery => (Spec => []WorkersHoldTheirLock)
  <1> SUFFICES ASSUME ~Redelivery
               PROVE  Spec => []WorkersHoldTheirLock
    OBVIOUS
  <1>1. Init => LInv
    BY InvInit DEF Init, LInv, WorkersCurrent, ReportsCurrent
  <1>2. LInv /\ [Next]_vars => LInv'
    BY LockInvStep
  <1>3. LInv => WorkersHoldTheirLock
    BY DEF LInv, IInv, TInv, TypeOK, WorkersCurrent, WorkersHoldTheirLock, LocksConsistent
  <1> QED
    BY <1>1, <1>2, <1>3, PTL DEF Spec

-----------------------------------------------------------------------------
(***************************************************************************)
(* The rest of stateInvariantError.  First what holds whatever the clocks  *)
(* do: quotas, records, deployments and deadlines.                         *)
(***************************************************************************)
DeadlinesValid ==
    \A j \in Jobs : jobs[j].status # "absent" =>
        jobs[j].deadline = jobs[j].created + MaxExecution[jobs[j].tenant]

(* A deadline is set once, from the quota of the tenant. *)
LEMMA DeadlinesStep ==
    ASSUME IInv, DeadlinesValid, [Next]_vars
    PROVE  DeadlinesValid'
  <1> SUFFICES ASSUME NEW j \in Jobs, jobs'[j].status # "absent"
               PROVE  jobs'[j].deadline = jobs'[j].created + MaxExecution[jobs'[j].tenant]
    BY DEF DeadlinesValid
  <1>1. JobStep(jobs[j], jobs'[j])
    BY StepMoves DEF IInv
  <1>2. CASE Enqueued(jobs[j], jobs'[j])
    BY <1>2 DEF Enqueued
  <1>3. CASE Moved(jobs[j], jobs'[j])
    <2>1. SameOrder(jobs[j], jobs'[j]) /\ jobs[j].status # "absent"
      BY <1>3 DEF Moved, Started, Dequeued, Reported, Stopped, CleanedUp
    <2> QED
      BY <2>1 DEF SameOrder, DeadlinesValid
  <1> QED
    BY <1>1, <1>2, <1>3 DEF JobStep, DeadlinesValid

(* Jobs never vanish and never change hands. *)
LEMMA JobsRemain ==
    ASSUME IInv, [Next]_vars, NEW j \in Jobs, jobs[j].status # "absent"
    PROVE  /\ jobs'[j].status # "absent" /\ jobs'[j].tenant = jobs[j].tenant
           /\ jobs'[j].operation = jobs[j].operation /\ jobs'[j].payload = jobs[j].payload
           /\ ResourceKey(jobs'[j]) = ResourceKey(jobs[j])
  <1>1. JobStep(jobs[j], jobs'[j])
    BY StepMoves DEF IInv
  <1>2. jobs'[j] = jobs[j] \/ Moved(jobs[j], jobs'[j])
    BY <1>1 DEF JobStep, Enqueued
  <1> QED
    BY <1>2 DEF Moved, SameOrder, Started, Dequeued, Reported, Stopped, CleanedUp, ResourceKey

(* What a step adds to the ledgers is about a job that exists. *)
RecordsAboutJobs ==
    /\ \A t \in Tenants, k \in Keys :
          \/ idempotency'[<<t, k>>] = idempotency[<<t, k>>]
          \/ /\ idempotency'[<<t, k>>].jobId \in Jobs
             /\ jobs'[idempotency'[<<t, k>>].jobId].status # "absent"
             /\ jobs'[idempotency'[<<t, k>>].jobId].tenant = t
    /\ \A c \in CapabilityIds :
          \/ redeemedCapabilities'[c] = redeemedCapabilities[c]
          \/ /\ redeemedCapabilities'[c] \in Jobs
             /\ jobs'[redeemedCapabilities'[c]].status # "absent"

(* One job is entered into both ledgers. *)
LEMMA OneRecord ==
    ASSUME TInv, NEW d \in decisions, NEW j \in Jobs, NEW action, Redeem(d, j),
           NEW t \in Tenants,
           idempotency' = [idempotency EXCEPT ![<<t, d.key>>] = [action |-> action, jobId |-> j]],
           jobs'[j].status # "absent", jobs'[j].tenant = t
    PROVE  RecordsAboutJobs
  <1>1. d.key \in Keys /\ d.capability.id \in CapabilityIds
    BY DecisionFacts
  <1>2. ASSUME NEW u \in Tenants, NEW k \in Keys, idempotency'[<<u, k>>] # idempotency[<<u, k>>]
        PROVE  u = t /\ idempotency'[<<u, k>>].jobId = j
    <2>1. idempotency \in [Tenants \X Keys -> RecordType]
      BY DEF TInv, TypeOK, RecordType
    <2>2. <<u, k>> = <<t, d.key>>
      BY <1>2, <2>1
    <2>3. idempotency'[<<t, d.key>>] = [action |-> action, jobId |-> j]
      BY <1>1, <2>1
    <2> QED
      BY <2>2, <2>3
  <1>3. ASSUME NEW c \in CapabilityIds, redeemedCapabilities'[c] # redeemedCapabilities[c]
        PROVE  redeemedCapabilities'[c] = j
    BY <1>1, <1>3 DEF Redeem, capabilityToRedeem, TInv, TypeOK
  <1> QED
    BY <1>2, <1>3 DEF RecordsAboutJobs

(* Every step enters existing jobs only. *)
LEMMA RecordsEntered ==
    ASSUME IInv, [Next]_vars
    PROVE  RecordsAboutJobs
  <1> TInv
    BY DEF IInv
  <1>1. CASE UNCHANGED <<redeemedCapabilities, idempotency>>
    BY <1>1 DEF RecordsAboutJobs
  <1>2. ASSUME NEW d \in decisions, NEW j \in Jobs, NEW m \in 1 .. MaxAttempts,
               EnqueuePaasJob(d, j, m)
        PROVE  RecordsAboutJobs
    <2> DEFINE t == d.capability.tenant
    <2>1. t \in Tenants
      BY DecisionFacts
    <2>2. /\ Redeem(d, j)
          /\ idempotency' = [idempotency EXCEPT ![<<t, d.key>>] =
                                [action |-> "enqueue", jobId |-> j]]
      BY <1>2 DEF EnqueuePaasJob
    <2>3. jobs'[j].tenant = t /\ jobs'[j].status = "queued"
      BY <1>2 DEF EnqueuePaasJob, TInv, TypeOK
    <2> HIDE DEF t
    <2> QED
      BY <2>1, <2>2, <2>3, OneRecord
  <1>3. ASSUME NEW d \in decisions, NEW j \in Jobs,
               CancelQueuedPaasJob(d, j) \/ CancelRunningPaasJob(d, j)
        PROVE  RecordsAboutJobs
    <2> DEFINE t == jobs[j].tenant
    <2>1. t \in Tenants
      BY JobFacts DEF TInv
    <2>2. /\ Redeem(d, j) /\ jobs[j].status # "absent"
          /\ idempotency' = [idempotency EXCEPT ![<<t, d.key>>] =
                                [action |-> "cancel", jobId |-> j]]
      BY <1>3 DEF CancelQueuedPaasJob, CancelRunningPaasJob
    <2>3. jobs'[j].tenant = t /\ jobs'[j].status # "absent"
      BY <2>2, JobsRemain
    <2> HIDE DEF t
    <2> QED
      BY <2>1, <2>2, <2>3, OneRecord
  <1>4. \/ \E d \in decisions, j \in Jobs, m \in 1 .. MaxAttempts : EnqueuePaasJob(d, j, m)
        \/ \E d \in decisions, j \in Jobs :
              CancelQueuedPaasJob(d, j) \/ CancelRunningPaasJob(d, j)
        \/ UNCHANGED <<redeemedCapabilities, idempotency>>
    BY DEF Next, Environment, Tick, Authorize, WorkerFinishes, WorkerCrashes, SandboxCleaned,
           Command, ScheduleBegin, RetryPaasJob, FailPaasJob, SucceedPaasJob,
           AcknowledgePaasJobCancellation, SweepExpiredPaasJobs, ScheduleStart, ScheduleEnd,
           vars, snapshot
  <1> QED
    BY <1>1, <1>2, <1>3, <1>4

RecordsOfJobs ==
    /\ \A t \in Tenants, k \in Keys : idempotency[<<t, k>>] # NoRecord =>
          /\ idempotency[<<t, k>>].jobId \in Jobs
          /\ jobs[idempotency[<<t, k>>].jobId].status # "absent"
          /\ jobs[idempotency[<<t, k>>].jobId].tenant = t
    /\ \A c \in CapabilityIds : redeemedCapabilities[c] # NoJob =>
          jobs[redeemedCapabilities[c]].status # "absent"

(* Records and redemptions keep referring to jobs of their tenant. *)
LEMMA RecordsStep ==
    ASSUME IInv, RecordsOfJobs, [Next]_vars
    PROVE  RecordsOfJobs'
  <1>1. RecordsAboutJobs
    BY RecordsEntered
  <1>2. ASSUME NEW t \in Tenants, NEW k \in Keys, idempotency'[<<t, k>>] # NoRecord
        PROVE  /\ idempotency'[<<t, k>>].jobId \in Jobs
               /\ jobs'[idempotency'[<<t, k>>].jobId].status # "absent"
               /\ jobs'[idempotency'[<<t, k>>].jobId].tenant = t
    <2>1. CASE idempotency'[<<t, k>>] = idempotency[<<t, k>>]
      <3> PICK j \in Jobs : j = idempotency[<<t, k>>].jobId
        BY <1>2, <2>1 DEF RecordsOfJobs
      <3>1. jobs[j].status # "absent" /\ jobs[j].tenant = t
        BY <1>2, <2>1 DEF RecordsOfJobs
      <3>2. jobs'[j].status # "absent" /\ jobs'[j].tenant = t
        BY <3>1, JobsRemain
      <3> QED
        BY <2>1, <3>2
    <2> QED
      BY <1>1, <2>1 DEF RecordsAboutJobs
  <1>3. ASSUME NEW c \in CapabilityIds, redeemedCapabilities'[c] # NoJob
        PROVE  jobs'[redeemedCapabilities'[c]].status # "absent"
    <2>1. CASE redeemedCapabilities'[c] = redeemedCapabilities[c]
      <3>1. PICK j \in Jobs : j = redeemedCapabilities[c]
        BY <1>3, <2>1 DEF IInv, TInv, TypeOK
      <3>2. jobs[j].status # "absent"
        BY <1>3, <2>1, <3>1 DEF RecordsOfJobs
      <3>3. jobs'[j].status # "absent"
        BY <3>2, JobsRemain
      <3> QED
        BY <2>1, <3>1, <3>3
    <2> QED
      BY <1>1, <2>1 DEF RecordsAboutJobs
  <1> QED
    BY <1>2, <1>3 DEF RecordsOfJobs

-----------------------------------------------------------------------------
(***************************************************************************)
(* Quotas.  Only a start makes a job active, and it looks at the quotas.   *)
(***************************************************************************)
QuotasKept == IsFiniteSet(activeJobs) /\ QuotasRespected

(* The active jobs of a tenant are active. *)
LEMMA ActiveOfTenant ==
    ASSUME IsFiniteSet(activeJobs), NEW t, NEW b
    PROVE  IsFiniteSet(ActiveOf(t, b))
  <1> ActiveOf(t, b) \in SUBSET activeJobs
    BY DEF ActiveOf
  <1> QED
    BY FS_Subset

(* Fewer active jobs stay within the quotas. *)
LEMMA FewerActive ==
    ASSUME QuotasKept, \A j \in Jobs : jobs'[j].status \in Active =>
               /\ jobs[j].status \in Active
               /\ jobs'[j].tenant = jobs[j].tenant /\ jobs'[j].operation = jobs[j].operation
    PROVE  QuotasKept'
  <1>1. activeJobs' \in SUBSET activeJobs
    BY DEF activeJobs
  <1>2. IsFiniteSet(activeJobs') /\ Cardinality(activeJobs') <= Cardinality(activeJobs)
    BY <1>1, FS_Subset DEF QuotasKept
  <1>3. Cardinality(activeJobs) \in Nat /\ Cardinality(activeJobs') \in Nat
    BY <1>2, FS_CardinalityType DEF QuotasKept
  <1>4. Cardinality(activeJobs') <= MaxGlobalConcurrency
    BY <1>2, <1>3, QuotasAssumption DEF QuotasKept, QuotasRespected
  <1>5. ASSUME NEW t \in Tenants, NEW b \in BOOLEAN, NEW q \in Nat,
               Cardinality(ActiveOf(t, b)) <= q
        PROVE  Cardinality(ActiveOf(t, b)') <= q
    <2>1. IsFiniteSet(ActiveOf(t, b))
      BY ActiveOfTenant DEF QuotasKept
    <2>2. ActiveOf(t, b)' \in SUBSET ActiveOf(t, b)
      BY <1>1 DEF ActiveOf, activeJobs
    <2>3. /\ IsFiniteSet(ActiveOf(t, b)')
          /\ Cardinality(ActiveOf(t, b)') <= Cardinality(ActiveOf(t, b))
      BY <2>1, <2>2, FS_Subset
    <2>4. Cardinality(ActiveOf(t, b)) \in Nat /\ Cardinality(ActiveOf(t, b)') \in Nat
      BY <2>1, <2>3, FS_CardinalityType
    <2> QED
      BY <1>5, <2>3, <2>4
  <1>6. ASSUME NEW t \in Tenants
        PROVE  /\ Cardinality(ActiveOf(t, TRUE)') <= MaxConcurrentBuilds[t]
               /\ Cardinality(ActiveOf(t, FALSE)') <= MaxConcurrentDeployments[t]
    BY <1>5, QuotasAssumption DEF QuotasKept, QuotasRespected
  <1> QED
    BY <1>2, <1>4, <1>6 DEF QuotasKept, QuotasRespected

(* One more element. *)
LEMMA OneMore ==
    ASSUME NEW S, IsFiniteSet(S), NEW x, x \notin S, NEW q \in Nat, Cardinality(S) < q
    PROVE  IsFiniteSet(S \cup {x}) /\ Cardinality(S \cup {x}) <= q
  <1>1. Cardinality(S) \in Nat
    BY FS_CardinalityType
  <1>2. IsFiniteSet(S \cup {x}) /\ Cardinality(S \cup {x}) = Cardinality(S) + 1
    BY FS_AddElement
  <1> QED
    BY <1>1, <1>2

(* A start stays within the quotas. *)
LEMMA StartWithinQuotas ==
    ASSUME IInv, QuotasKept, ScheduleStart
    PROVE  QuotasKept'
  <1> DEFINE u == nextEligibleTenant
             h == Head(tenantQueues[u])
             new == [jobs[h] EXCEPT !.status = "running", !.started = sched.now,
                                    !.updated = sched.now, !.attempt = jobs[h].attempt + 1]
  <1>1. PICK t \in Tenants, j \in Jobs, job \in JobType :
           /\ Eligible(t) /\ j = Head(tenantQueues[t])
           /\ jobs[j].status = "queued" /\ jobs[j].tenant = t
           /\ jobs' = [jobs EXCEPT ![j] = job] /\ job.status = "running"
           /\ job.tenant = t /\ job.operation = jobs[j].operation
    <2>1. /\ u \in Tenants /\ h \in Jobs /\ Eligible(u)
          /\ jobs[h].status = "queued" /\ jobs[h].tenant = u
      BY HeadFacts, NextEligible DEF IInv, TInv, ScheduleStart, LoopContinues, MayStart
    <2>2. jobs' = [jobs EXCEPT ![h] = new]
      BY DEF ScheduleStart
    <2>3. new \in JobType /\ new.status = "running" /\ new.tenant = u
          /\ new.operation = jobs[h].operation
      <3> HIDE DEF u, h
      <3> jobs[h] \in JobType /\ jobs[h].attempt + 1 \in Nat /\ sched.now \in Nat
        BY <2>1, JobFacts DEF IInv, TInv, TypeOK
      <3> QED
        BY <2>1 DEF JobType, Active
    <2> HIDE DEF u, new
    <2> QED
      BY <2>1, <2>2, <2>3
  <1>2. /\ \A i \in Jobs : jobs'[i] = IF i = j THEN job ELSE jobs[i]
        /\ j \notin activeJobs
    BY <1>1 DEF IInv, TInv, TypeOK, activeJobs, Active
  <1>3. activeJobs' = activeJobs \cup {j}
    BY <1>1, <1>2 DEF activeJobs, Active
  <1>4. Cardinality(activeJobs) < MaxGlobalConcurrency
    BY DEF ScheduleStart, LoopContinues, MayStart
  <1>5. IsFiniteSet(activeJobs') /\ Cardinality(activeJobs') <= MaxGlobalConcurrency
    BY <1>2, <1>3, <1>4, OneMore, QuotasAssumption DEF QuotasKept
  <1>6. PICK b \in BOOLEAN : b = (job.operation = "build")
    OBVIOUS
  <1>7. ActiveOf(t, b)' = ActiveOf(t, b) \cup {j}
    BY <1>1, <1>2, <1>3, <1>6 DEF ActiveOf
  <1>8. \A s \in Tenants, c \in BOOLEAN : s # t \/ c # b => ActiveOf(s, c)' = ActiveOf(s, c)
    BY <1>1, <1>2, <1>3, <1>6 DEF ActiveOf
  <1>9. j \notin ActiveOf(t, b) /\ IsFiniteSet(ActiveOf(t, b))
    <2>1. IsFiniteSet(ActiveOf(t, b))
      BY ActiveOfTenant DEF QuotasKept
    <2> QED
      BY <1>2, <2>1 DEF ActiveOf
  <1>10. IF b THEN Cardinality(ActiveOf(t, TRUE)') <= MaxConcurrentBuilds[t]
              ELSE Cardinality(ActiveOf(t, FALSE)') <= MaxConcurrentDeployments[t]
    <2>1. CASE b = TRUE
      <3> Cardinality(ActiveOf(t, b)) < MaxConcurrentBuilds[t]
        BY <1>1, <1>6, <2>1 DEF Eligible
      <3> QED
        BY <1>7, <1>9, <2>1, OneMore, QuotasAssumption
    <2>2. CASE b = FALSE
      <3> Cardinality(ActiveOf(t, b)) < MaxConcurrentDeployments[t]
        BY <1>1, <1>6, <2>2 DEF Eligible
      <3> QED
        BY <1>7, <1>9, <2>2, OneMore, QuotasAssumption
    <2> QED
      BY <2>1, <2>2
  <1>11. ASSUME NEW s \in Tenants
         PROVE  /\ Cardinality(ActiveOf(s, TRUE)') <= MaxConcurrentBuilds[s]
                /\ Cardinality(ActiveOf(s, FALSE)') <= MaxConcurrentDeployments[s]
    BY <1>8, <1>10 DEF QuotasKept, QuotasRespected
  <1> QED
    BY <1>5, <1>11 DEF QuotasKept, QuotasRespected

(* Nothing but a start makes a job run, and nothing but an accepted result *)
(* makes it succeed.                                                       *)
LEMMA StatusSources ==
    ASSUME IInv, [Next]_vars, ~ScheduleStart, NEW j \in Jobs
    PROVE  \/ jobs'[j] = jobs[j]
           \/ jobs'[j].status \notin {"running", "succeeded"}
           \/ \E r \in reports : SucceedPaasJob(r) /\ r.job = j
  <1> DEFINE Goal == \/ jobs'[j] = jobs[j]
                     \/ jobs'[j].status \notin {"running", "succeeded"}
                     \/ \E r \in reports : SucceedPaasJob(r) /\ r.job = j
  <1> TInv
    BY DEF IInv
  <1>1. ASSUME NEW i \in Jobs, NEW job, job.status \notin {"running", "succeeded"},
               jobs' = [jobs EXCEPT ![i] = job]
        PROVE  Goal
    BY <1>1 DEF TInv, TypeOK
  <1>2. CASE UNCHANGED jobs
    BY <1>2
  <1>3. CASE Environment
    BY <1>3 DEF Environment, Tick, Authorize, WorkerFinishes, WorkerCrashes, SandboxCleaned,
                snapshot
  <1>4. CASE Command
    <2>1. ASSUME NEW d \in decisions, NEW i \in Jobs, NEW m \in 1 .. MaxAttempts,
                 EnqueuePaasJob(d, i, m)
          PROVE  Goal
      <3> PICK job : job.status = "queued" /\ jobs' = [jobs EXCEPT ![i] = job]
        BY <2>1 DEF EnqueuePaasJob
      <3> QED
        BY <1>1
    <2>2. ASSUME NEW now \in Stamps, NEW n \in 1 .. MaxGlobalConcurrency,
                 ScheduleBegin(now, n)
          PROVE  Goal
      <3>1. TimedOut(jobs[j], now).status = "timed-out"
        BY JobFacts DEF TInv, TimedOut, JobType
      <3> QED
        BY <2>2, <3>1 DEF ScheduleBegin
    <2>3. ASSUME NEW r \in reports,
                 \/ RetryPaasJob(r) \/ FailPaasJob(r) \/ SucceedPaasJob(r)
                 \/ AcknowledgePaasJobCancellation(r)
          PROVE  Goal
      <3>1. r.job \in Jobs
        BY ReportFacts DEF TInv
      <3>2. CASE SucceedPaasJob(r)
        BY <3>1, <3>2 DEF SucceedPaasJob, TInv, TypeOK
      <3>4. CASE RetryPaasJob(r)
        <4> DEFINE job == [jobs[r.job] EXCEPT !.status = "queued", !.updated = r.at,
                                              !.started = None]
        <4>1. job.status = "queued"
          BY <3>1, JobFacts DEF TInv, JobType
        <4>2. jobs' = [jobs EXCEPT ![r.job] = job]
          BY <3>4 DEF RetryPaasJob
        <4> HIDE DEF job
        <4> QED
          BY <1>1, <3>1, <4>1, <4>2
      <3>5. CASE FailPaasJob(r)
        <4> DEFINE job == [jobs[r.job] EXCEPT !.status = "failed", !.updated = r.at,
                                              !.started = None, !.completed = r.at]
        <4>1. job.status = "failed"
          BY <3>1, JobFacts DEF TInv, JobType
        <4>2. jobs' = [jobs EXCEPT ![r.job] = job]
          BY <3>5 DEF FailPaasJob
        <4> HIDE DEF job
        <4> QED
          BY <1>1, <3>1, <4>1, <4>2
      <3>6. CASE AcknowledgePaasJobCancellation(r)
        <4> DEFINE st == IF jobs[r.job].reason = "deadline" THEN "timed-out" ELSE "cancelled"
                   job == [jobs[r.job] EXCEPT !.status = st, !.updated = r.at,
                                              !.completed = r.at, !.started = None]
        <4>1. st \notin {"running", "succeeded"}
          OBVIOUS
        <4>2. jobs' = [jobs EXCEPT ![r.job] = job]
          BY <3>6 DEF AcknowledgePaasJobCancellation
        <4> HIDE DEF st
        <4>3. job.status = st
          BY <3>1, JobFacts DEF TInv, JobType
        <4> HIDE DEF job
        <4> QED
          BY <1>1, <3>1, <4>1, <4>2, <4>3
      <3> QED
        BY <2>3, <3>2, <3>4, <3>5, <3>6
    <2>4. ASSUME NEW d \in decisions, NEW i \in Jobs, CancelQueuedPaasJob(d, i)
          PROVE  Goal
      <3> DEFINE job == [jobs[i] EXCEPT !.status = "cancelled", !.reason = "user",
                                        !.updated = d.at, !.completed = d.at]
      <3>1. job.status = "cancelled"
        BY JobFacts DEF TInv, JobType
      <3>2. jobs' = [jobs EXCEPT ![i] = job]
        BY <2>4 DEF CancelQueuedPaasJob
      <3> HIDE DEF job
      <3> QED
        BY <1>1, <3>1, <3>2
    <2>5. ASSUME NEW d \in decisions, NEW i \in Jobs, CancelRunningPaasJob(d, i)
          PROVE  Goal
      <3> DEFINE job == [jobs[i] EXCEPT !.status = "cancelling", !.reason = "user",
                                        !.updated = d.at]
      <3>1. job.status = "cancelling"
        BY JobFacts DEF TInv, JobType
      <3>2. jobs' = [jobs EXCEPT ![i] = job]
        BY <2>5 DEF CancelRunningPaasJob
      <3> HIDE DEF job
      <3> QED
        BY <1>1, <3>1, <3>2
    <2>6. ASSUME NEW now \in Stamps, SweepExpiredPaasJobs(now)
          PROVE  Goal
      <3>1. TimedOut(jobs[j], now).status = "timed-out"
        BY JobFacts DEF TInv, TimedOut, JobType
      <3>2. [jobs[j] EXCEPT !.status = "cancelling", !.reason = "deadline",
                            !.updated = now].status = "cancelling"
        BY JobFacts DEF TInv, JobType
      <3> QED
        BY <2>6, <3>1, <3>2 DEF SweepExpiredPaasJobs
    <2> QED
      BY <1>4, <2>1, <2>2, <2>3, <2>4, <2>5, <2>6 DEF Command
  <1>5. CASE ScheduleEnd \/ UNCHANGED vars
    BY <1>2, <1>5 DEF ScheduleEnd, vars, snapshot
  <1> QED
    BY <1>3, <1>4, <1>5 DEF Next

(* Every step keeps the quotas. *)
LEMMA QuotasStep ==
    ASSUME IInv, QuotasKept, [Next]_vars
    PROVE  QuotasKept'
  <1>1. CASE ScheduleStart
    BY <1>1, StartWithinQuotas
  <1>2. CASE ~ScheduleStart
    <2> SUFFICES ASSUME NEW j \in Jobs, jobs'[j].status \in Active
                 PROVE  /\ jobs[j].status \in Active
                        /\ jobs'[j].tenant = jobs[j].tenant
                        /\ jobs'[j].operation = jobs[j].operation
      BY FewerActive
    <2>1. JobStep(jobs[j], jobs'[j])
      BY StepMoves DEF IInv
    <2>2. jobs'[j].status = "running" => jobs[j].status = "running"
      <3>1. CASE \E r \in reports : SucceedPaasJob(r) /\ r.job = j
        BY <3>1 DEF SucceedPaasJob, ReportAdmitted
      <3>2. CASE jobs'[j] = jobs[j] \/ jobs'[j].status \notin {"running", "succeeded"}
        BY <3>2
      <3> QED
        BY <1>2, <3>1, <3>2, StatusSources
    <2>3. jobs'[j].status = "cancelling" => jobs[j].status \in Active
      BY <2>1 DEF JobStep, Moved, Enqueued, Started, Dequeued, Reported, Stopped, CleanedUp,
                  Active
    <2>4. jobs[j].status \in Active
      BY <2>2, <2>3 DEF Active
    <2> QED
      BY <2>4, JobsRemain DEF Active
  <1> QED
    BY <1>1, <1>2
-----------------------------------------------------------------------------
(***************************************************************************)
(* Deployments.  What promoteDeployment leaves of the history, and the     *)
(* releases it stands for.                                                 *)
(***************************************************************************)

(* A sequence without repetitions is as long as it has elements. *)
LEMMA DistinctLength ==
    ASSUME NEW S, NEW q \in Seq(S), Distinct(q)
    PROVE  IsFiniteSet(ElementsOf(q)) /\ Cardinality(ElementsOf(q)) = Len(q)
  <1> DEFINE D == 1 .. Len(q)
             f == [i \in D |-> q[i]]
  <1>1. Len(q) \in Nat
    OBVIOUS
  <1>2. IsFiniteSet(D) /\ Cardinality(D) = Len(q)
    BY <1>1, FS_Interval
  <1>3. f \in Bijection(D, ElementsOf(q))
    BY DEF Bijection, Injection, Surjection, IsInjective, ElementsOf, Distinct
  <1>4. ExistsBijection(D, ElementsOf(q))
    BY <1>3 DEF ExistsBijection
  <1> HIDE DEF D
  <1> QED
    BY <1>2, <1>4, FS_Bijection

(* A beginning of a sequence without repetitions. *)
LEMMA Truncated ==
    ASSUME NEW S, NEW q \in Seq(S), Distinct(q), NEW n \in Nat, n <= Len(q)
    PROVE  LET p == SubSeq(q, 1, n)
           IN /\ p \in Seq(S) /\ Len(p) = n /\ Distinct(p)
              /\ ElementsOf(p) \subseteq ElementsOf(q)
              /\ n = Len(q) => ElementsOf(p) = ElementsOf(q)
  <1> DEFINE p == SubSeq(q, 1, n)
  <1>1. Len(q) \in Nat /\ \A i \in 1 .. n : q[i] \in S
    OBVIOUS
  <1>2. p \in Seq(S) /\ Len(p) = n /\ \A i \in 1 .. n : p[i] = q[i]
    BY <1>1, SubSeqProperties
  <1> HIDE DEF p
  <1>3. Distinct(p)
    BY <1>1, <1>2 DEF Distinct
  <1>4. ElementsOf(p) \subseteq ElementsOf(q) /\ (n = Len(q) => ElementsOf(p) = ElementsOf(q))
    BY <1>1, <1>2 DEF ElementsOf
  <1> QED
    BY <1>2, <1>3, <1>4 DEF p

(* A sequence with a new element in front. *)
LEMMA Prefixed ==
    ASSUME NEW S, NEW q \in Seq(S), Distinct(q), NEW x \in S, x \notin ElementsOf(q)
    PROVE  LET p == <<x>> \o q
           IN /\ p \in Seq(S) /\ Len(p) = Len(q) + 1 /\ Distinct(p)
              /\ ElementsOf(p) = {x} \cup ElementsOf(q)
  <1> DEFINE p == <<x>> \o q
  <1>1. <<x>> \in Seq(S) /\ Len(<<x>>) = 1 /\ <<x>>[1] = x /\ Len(q) \in Nat
    OBVIOUS
  <1>2. /\ p \in Seq(S) /\ Len(p) = Len(q) + 1
        /\ \A i \in 1 .. Len(q) + 1 : p[i] = IF i <= 1 THEN x ELSE q[i - 1]
    BY <1>1, ConcatProperties
  <1> HIDE DEF p
  <1>3. /\ \A i \in 1 .. Len(q) : q[i] \in ElementsOf(q)
        /\ \A i \in 1 .. Len(p) : i # 1 => i - 1 \in 1 .. Len(q) /\ p[i] = q[i - 1]
        /\ p[1] = x
    BY <1>1, <1>2 DEF ElementsOf
  <1>4. ASSUME NEW i \in 1 .. Len(p), NEW k \in 1 .. Len(p), p[i] = p[k]
        PROVE  i = k
    <2>1. CASE i = 1
      BY <1>1, <1>2, <1>3, <1>4, <2>1
    <2>2. CASE k = 1
      BY <1>1, <1>2, <1>3, <1>4, <2>2
    <2>3. CASE i # 1 /\ k # 1
      <3> i - 1 \in 1 .. Len(q) /\ k - 1 \in 1 .. Len(q) /\ p[i] = q[i - 1] /\ p[k] = q[k - 1]
        BY <1>1, <1>2, <2>3
      <3> i - 1 = k - 1
        BY <1>4 DEF Distinct
      <3> QED
        OBVIOUS
    <2> QED
      BY <2>1, <2>2, <2>3
  <1>5. ElementsOf(p) \subseteq {x} \cup ElementsOf(q)
    BY <1>1, <1>2, <1>3 DEF ElementsOf
  <1>6. x \in ElementsOf(p)
    <2> 1 \in 1 .. Len(p) /\ p[1] = x
      BY <1>1, <1>2
    <2> QED
      BY DEF ElementsOf
  <1>7. ASSUME NEW i \in 1 .. Len(q)
        PROVE  q[i] \in ElementsOf(p)
    <2> i + 1 \in 1 .. Len(p) /\ p[i + 1] = q[i]
      BY <1>1, <1>2
    <2> QED
      BY DEF ElementsOf
  <1>8. ElementsOf(q) \subseteq ElementsOf(p)
    BY <1>7 DEF ElementsOf
  <1> QED
    BY <1>2, <1>4, <1>5, <1>6, <1>8 DEF p, Distinct

(* A deployment and the artifacts released on its resource. *)
HistoryOf(d, released) ==
    /\ d.active \in Payloads
    /\ Len(d.previous) <= MaxHistory
    /\ Distinct(d.previous)
    /\ d.active \notin ElementsOf(d.previous)
    /\ ElementsOf(d.previous) \cup {d.active} \subseteq released
    /\ Len(d.previous) < MaxHistory => released = ElementsOf(d.previous) \cup {d.active}

(* The first promotion. *)
LEMMA FirstPromotion ==
    ASSUME NEW d \in DeploymentType, NEW artifact \in Payloads, NEW j, d.generation = 0
    PROVE  HistoryOf(Promoted(d, artifact, j), {artifact})
  <1> DEFINE e == Promoted(d, artifact, j)
  <1>1. e.active = artifact /\ e.previous = << >>
    BY DEF Promoted
  <1>2. Len(<< >>) = 0 /\ ElementsOf(<< >>) = {} /\ Distinct(<< >>)
    BY DEF ElementsOf, Distinct
  <1> HIDE DEF e
  <1>3. HistoryOf(e, {artifact})
    BY <1>1, <1>2, QuotasAssumption DEF HistoryOf
  <1> QED
    BY <1>3 DEF e

(* A later one: the artifact that was active is remembered, and the oldest *)
(* one is forgotten only when the history is full.                         *)
LEMMA LaterPromotion ==
    ASSUME NEW d \in DeploymentType, NEW artifact \in Payloads, NEW j, d.generation # 0,
           NEW released, HistoryOf(d, released)
    PROVE  HistoryOf(Promoted(d, artifact, j), released \cup {artifact})
  <1> DEFINE e == Promoted(d, artifact, j)
             w == Without(d.previous, {artifact})
             history == IF d.active = artifact THEN d.previous ELSE <<d.active>> \o w
             n == IF Len(history) < MaxHistory THEN Len(history) ELSE MaxHistory
  <1>1. e.active = artifact /\ e.previous = SubSeq(history, 1, n)
    BY DEF Promoted
  <1>2. /\ d.previous \in Seq(Payloads) /\ Distinct(d.previous) /\ Len(d.previous) \in Nat
        /\ MaxHistory \in Nat /\ Len(d.previous) <= MaxHistory /\ d.active \in Payloads
    BY QuotasAssumption DEF DeploymentType, HistoryOf
  <1>3. /\ w \in Seq(Payloads) /\ Distinct(w)
        /\ ElementsOf(w) = ElementsOf(d.previous) \ {artifact}
        /\ Len(w) \in Nat /\ Len(w) >= Len(d.previous) - 1
    <2>1. w \in Seq(Payloads) /\ ElementsOf(w) = ElementsOf(d.previous) \ {artifact}
      BY <1>2, WithoutElements
    <2>2. Distinct(w)
      BY <1>2, WithoutDistinct DEF Distinct
    <2> HIDE DEF w
    <2>3. Cardinality(ElementsOf(w)) = Len(w) /\ Len(w) \in Nat
      <3>1. w \in Seq(Payloads) /\ Len(w) \in Nat
        BY <2>1
      <3>2. Cardinality(ElementsOf(w)) = Len(w)
        BY <2>2, <3>1, DistinctLength
      <3> QED
        BY <3>1, <3>2
    <2>4. /\ IsFiniteSet(ElementsOf(d.previous))
          /\ Cardinality(ElementsOf(d.previous)) = Len(d.previous)
      BY <1>2, DistinctLength
    <2>5. Cardinality(ElementsOf(d.previous) \ {artifact}) =
              IF artifact \in ElementsOf(d.previous) THEN Cardinality(ElementsOf(d.previous)) - 1
                                                     ELSE Cardinality(ElementsOf(d.previous))
      BY <2>4, FS_RemoveElement
    <2> QED
      BY <1>2, <2>1, <2>2, <2>3, <2>4, <2>5
  <1> HIDE DEF e, w
  <1>4. /\ history \in Seq(Payloads) /\ Distinct(history) /\ artifact \notin ElementsOf(history)
        /\ ElementsOf(history) \cup {artifact} =
               ElementsOf(d.previous) \cup {d.active} \cup {artifact}
        /\ Len(history) \in Nat /\ Len(history) >= Len(d.previous)
    <2>1. CASE d.active = artifact
      <3> history = d.previous
        BY <2>1
      <3> HIDE DEF history
      <3> QED
        BY <1>2, <2>1 DEF HistoryOf
    <2>2. CASE d.active # artifact
      <3>1. d.active \notin ElementsOf(w)
        BY <1>3 DEF HistoryOf
      <3>2. LET p == <<d.active>> \o w
            IN /\ p \in Seq(Payloads) /\ Len(p) = Len(w) + 1 /\ Distinct(p)
               /\ ElementsOf(p) = {d.active} \cup ElementsOf(w)
        BY <1>2, <1>3, <3>1, Prefixed
      <3>3. /\ history \in Seq(Payloads) /\ Len(history) = Len(w) + 1 /\ Distinct(history)
            /\ ElementsOf(history) = {d.active} \cup ElementsOf(w)
        BY <2>2, <3>2
      <3> HIDE DEF history
      <3> QED
        BY <1>2, <1>3, <2>2, <3>3
    <2> QED
      BY <2>1, <2>2
  <1> HIDE DEF history
  <1>5. n \in Nat /\ n <= Len(history) /\ n <= MaxHistory /\ (n < MaxHistory => n = Len(history))
    BY <1>2, <1>4
  <1> HIDE DEF n
  <1>6. /\ Len(e.previous) = n /\ Distinct(e.previous)
        /\ ElementsOf(e.previous) \subseteq ElementsOf(history)
        /\ n = Len(history) => ElementsOf(e.previous) = ElementsOf(history)
    BY <1>1, <1>4, <1>5, Truncated
  <1>7. ElementsOf(e.previous) \cup {artifact} \subseteq released \cup {artifact}
    BY <1>4, <1>6 DEF HistoryOf
  <1>8. n < MaxHistory => released \cup {artifact} = ElementsOf(e.previous) \cup {artifact}
    BY <1>2, <1>4, <1>5, <1>6 DEF HistoryOf
  <1>9. HistoryOf(e, released \cup {artifact})
    BY <1>1, <1>4, <1>5, <1>6, <1>7, <1>8 DEF HistoryOf
  <1> QED
    BY <1>9 DEF e
(* The releases of a resource and the deployment they have led to. *)
ReleasesKept(k) ==
    /\ IsFiniteSet(Releases(k))
    /\ deployments[k].generation = Cardinality(Releases(k))
    /\ IF deployments[k].generation = 0
         THEN deployments[k].previous = << >>
         ELSE /\ HistoryOf(deployments[k], Released(k))
              /\ deployments[k].sourceJob \in Releases(k)
              /\ jobs[deployments[k].sourceJob].payload = deployments[k].active

(* Releases stay releases. *)
LEMMA ReleasesStay ==
    ASSUME IInv, [Next]_vars, NEW k \in ResourceKeys
    PROVE  /\ Releases(k) \subseteq Releases(k)'
           /\ \A j \in Releases(k) : jobs'[j] = jobs[j]
  <1> SUFFICES ASSUME NEW j \in Releases(k)
               PROVE  j \in Releases(k)' /\ jobs'[j] = jobs[j]
    OBVIOUS
  <1>1. j \in Jobs /\ jobs[j].status \in Terminal
    BY DEF Releases, Terminal
  <1>2. jobs'[j] = jobs[j]
    BY <1>1, StepMoves, TerminalStays DEF IInv
  <1> QED
    BY <1>2 DEF Releases

(* A step that releases nothing on a resource. *)
LEMMA NothingReleased ==
    ASSUME IInv, [Next]_vars, NEW k \in ResourceKeys, ReleasesKept(k),
           deployments'[k] = deployments[k], Releases(k)' \subseteq Releases(k)
    PROVE  ReleasesKept(k)'
  <1>1. Releases(k)' = Releases(k) /\ \A j \in Releases(k) : jobs'[j] = jobs[j]
    BY ReleasesStay
  <1>2. Released(k)' = Released(k)
    BY <1>1 DEF Released
  <1> QED
    BY <1>1, <1>2 DEF ReleasesKept, HistoryOf

(* completePaasJob releases what the job was asked to deploy. *)
LEMMA SuccessReleases ==
    ASSUME IInv, [Next]_vars, NEW r \in reports, SucceedPaasJob(r), ~ScheduleStart,
           NEW k \in ResourceKeys, ReleasesKept(k)
    PROVE  ReleasesKept(k)'
  <1>1. PICK j \in Jobs : j = r.job
    BY ReportFacts DEF IInv, TInv
  <1>2. jobs[j].status = "running" /\ jobs[j] \in JobType /\ jobs[j].payload \in Payloads
    BY <1>1, JobFacts DEF SucceedPaasJob, ReportAdmitted, IInv, TInv, PayloadsKnown
  <1>3. \A i \in Jobs : i # j => jobs'[i] = jobs[i]
    BY <1>1 DEF SucceedPaasJob, IInv, TInv, TypeOK
  <1>4. /\ jobs'[j].status = "succeeded" /\ jobs'[j].operation = jobs[j].operation
        /\ ResourceKey(jobs'[j]) = ResourceKey(jobs[j]) /\ jobs'[j].payload = jobs[j].payload
    <2>1. jobs'[j].status = "succeeded"
      BY <1>1, <1>2 DEF SucceedPaasJob, IInv, TInv, TypeOK, JobType
    <2> QED
      BY <1>2, <2>1, JobsRemain
  <1>5. CASE jobs[j].operation = "build" \/ ResourceKey(jobs[j]) # k
    <2>1. deployments'[k] = deployments[k]
      BY <1>1, <1>5 DEF SucceedPaasJob, IInv, TInv, TypeOK
    <2>2. Releases(k)' \subseteq Releases(k)
      BY <1>3, <1>4, <1>5 DEF Releases
    <2> QED
      BY <2>1, <2>2, NothingReleased
  <1>6. CASE jobs[j].operation # "build" /\ ResourceKey(jobs[j]) = k
    <2> DEFINE artifact == jobs[j].payload
               d == deployments[k]
               e == Promoted(d, artifact, j)
    <2>1. deployments'[k] = e
      BY <1>1, <1>6 DEF SucceedPaasJob, IInv, TInv, TypeOK
    <2>2. j \notin Releases(k) /\ Releases(k)' = Releases(k) \cup {j}
      BY <1>2, <1>3, <1>4, <1>6 DEF Releases
    <2>3. Released(k)' = Released(k) \cup {artifact}
      <3>1. \A i \in Releases(k) : jobs'[i] = jobs[i]
        BY ReleasesStay
      <3> QED
        BY <1>4, <2>2, <3>1 DEF Released
    <2>4. e.generation = d.generation + 1 /\ e.sourceJob = j /\ e.active = artifact
      BY DEF Promoted
    <2>5. d \in DeploymentType /\ d.generation \in Nat
      BY DEF IInv, TInv, TypeOK, DeploymentType
    <2>6. IsFiniteSet(Releases(k)') /\ e.generation = Cardinality(Releases(k)')
      BY <2>2, <2>4, FS_AddElement DEF ReleasesKept
    <2>7. HistoryOf(e, Released(k) \cup {artifact})
      <3>1. CASE d.generation = 0
        <4>1. HistoryOf(e, {artifact})
          BY <1>2, <2>5, <3>1, FirstPromotion
        <4>2. Releases(k) = {}
          BY <3>1, FS_EmptySet DEF ReleasesKept
        <4>3. Released(k) \cup {artifact} = {artifact}
          BY <4>2 DEF Released
        <4> QED
          BY <4>1, <4>3
      <3>2. CASE d.generation # 0
        <4>1. HistoryOf(d, Released(k))
          BY <3>2 DEF ReleasesKept
        <4> QED
          BY <1>2, <2>5, <3>2, <4>1, LaterPromotion
      <3> QED
        BY <3>1, <3>2
    <2>8. e.generation # 0
      BY <2>4, <2>5
    <2>9. j \in Releases(k)' /\ jobs'[j].payload = e.active
      BY <1>4, <2>2, <2>4
    <2> HIDE DEF e, d, artifact
    <2>10. HistoryOf(deployments'[k], Released(k)')
      BY <2>1, <2>3, <2>7
    <2> QED
      BY <2>1, <2>4, <2>6, <2>8, <2>9, <2>10 DEF ReleasesKept, HistoryOf
  <1> QED
    BY <1>5, <1>6

(* Every step keeps the account of the releases. *)
LEMMA ReleasesStep ==
    ASSUME IInv, [Next]_vars, NEW k \in ResourceKeys, ReleasesKept(k)
    PROVE  ReleasesKept(k)'
  <1>1. CASE \E r \in reports : SucceedPaasJob(r) /\ ~ScheduleStart
    BY <1>1, SuccessReleases
  <1>2. CASE ~ScheduleStart /\ ~\E r \in reports : SucceedPaasJob(r)
    <2>1. Releases(k)' \subseteq Releases(k)
      BY <1>2, StatusSources DEF Releases
    <2>2. deployments' = deployments
      BY <1>2 DEF Next, Environment, Tick, Authorize, WorkerFinishes, WorkerCrashes,
           SandboxCleaned, Command, EnqueuePaasJob, ScheduleBegin, RetryPaasJob, FailPaasJob,
           AcknowledgePaasJobCancellation, CancelQueuedPaasJob, CancelRunningPaasJob,
           SweepExpiredPaasJobs, ScheduleEnd, vars, snapshot
    <2> QED
      BY <2>1, <2>2, NothingReleased
  <1>3. CASE ScheduleStart
    <2> DEFINE j == Head(tenantQueues[nextEligibleTenant])
    <2>1. j \in Jobs /\ jobs[j].status = "queued"
      BY <1>3, HeadFacts DEF IInv, TInv, ScheduleStart, LoopContinues, MayStart
    <2>2. \A i \in Jobs : i # j => jobs'[i] = jobs[i]
      BY <1>3 DEF ScheduleStart, IInv, TInv, TypeOK
    <2>3. deployments' = deployments
      BY <1>3 DEF ScheduleStart
    <2> HIDE DEF j
    <2>4. jobs'[j].status # "succeeded"
      BY <2>1, StepMoves DEF IInv, JobStep, Moved, Enqueued, Started, Dequeued, Reported,
                             Stopped, CleanedUp
    <2>5. Releases(k)' \subseteq Releases(k)
      BY <2>2, <2>4 DEF Releases
    <2> QED
      BY <2>3, <2>5, NothingReleased
  <1> QED
    BY <1>1, <1>2, <1>3
(* A rollback that is admitted goes back to an artifact that some deploy   *)
(* released, through whatever chain of earlier rollbacks.                  *)
LEMMA RollbackTarget ==
    ASSUME IInv, RollbackOnlyToReleased, NEW k \in ResourceKeys, ReleasesKept(k),
           NEW p \in ElementsOf(deployments[k].previous)
    PROVE  \E i \in Releases(k) : jobs[i].operation = "deploy" /\ jobs[i].payload = p
  <1>1. p \in Released(k)
    <2>1. deployments[k].generation # 0
      BY DEF ReleasesKept, ElementsOf
    <2> QED
      BY <2>1 DEF ReleasesKept, HistoryOf
  <1>2. PICK i \in Releases(k) : jobs[i].payload = p
    BY <1>1 DEF Released
  <1>3. /\ i \in Jobs /\ jobs[i].status = "succeeded" /\ jobs[i].operation # "build"
        /\ ResourceKey(jobs[i]) = k
    BY DEF Releases
  <1>4. jobs[i].operation \in {"deploy", "rollback"}
    BY <1>3, JobFacts DEF IInv, TInv, JobType, Operations
  <1> QED
    BY <1>2, <1>3, <1>4 DEF RollbackOnlyToReleased

(* Only an enqueue brings a rollback into being, and it looks at the       *)
(* history.                                                                *)
LEMMA NewRollback ==
    ASSUME IInv, [Next]_vars, NEW j \in Jobs, jobs[j].status = "absent",
           jobs'[j].status # "absent", jobs'[j].operation = "rollback"
    PROVE  \E k \in ResourceKeys : /\ ResourceKey(jobs'[j]) = k
                                   /\ jobs'[j].payload \in ElementsOf(deployments[k].previous)
  <1> TInv
    BY DEF IInv
  <1>1. JobStep(jobs[j], jobs'[j])
    BY StepMoves DEF IInv
  <1>2. jobs'[j].status = "queued" /\ jobs'[j] # jobs[j]
    BY <1>1 DEF JobStep, Moved, Enqueued, Started, Dequeued, Reported, Stopped, CleanedUp
  <1>3. ASSUME NEW i \in Jobs, jobs[i].status # "absent", NEW job,
               jobs' = [jobs EXCEPT ![i] = job]
        PROVE  FALSE
    BY <1>2, <1>3 DEF TInv, TypeOK
  <1>4. ASSUME NEW d \in decisions, NEW i \in Jobs, NEW m \in 1 .. MaxAttempts,
               EnqueuePaasJob(d, i, m)
        PROVE  \E k \in ResourceKeys :
                  /\ ResourceKey(jobs'[j]) = k
                  /\ jobs'[j].payload \in ElementsOf(deployments[k].previous)
    <2> DEFINE k == <<d.capability.tenant, d.capability.resource>>
    <2>1. i = j
      BY <1>2, <1>4 DEF EnqueuePaasJob, TInv, TypeOK
    <2>2. /\ jobs'[j].tenant = d.capability.tenant /\ jobs'[j].resource = d.capability.resource
          /\ jobs'[j].payload = d.payload /\ jobs'[j].operation = d.operation
      BY <1>4, <2>1 DEF EnqueuePaasJob, TInv, TypeOK
    <2>3. k \in ResourceKeys
      BY DecisionFacts DEF ResourceKeys
    <2>4. d.payload \in ElementsOf(deployments[k].previous)
      BY <1>4, <2>2 DEF EnqueuePaasJob, knownRollbackTarget
    <2> QED
      BY <2>2, <2>3, <2>4 DEF ResourceKey
  <1>5. ASSUME NEW now \in Stamps, NEW n \in 1 .. MaxGlobalConcurrency, ScheduleBegin(now, n)
        PROVE  FALSE
    <2>1. j \notin ExpiredQueued(now)
      BY ExpiredFacts DEF TInv, IInv
    <2> QED
      BY <1>2, <1>5, <2>1 DEF ScheduleBegin
  <1>6. ASSUME NEW r \in reports,
               \/ RetryPaasJob(r) \/ FailPaasJob(r) \/ SucceedPaasJob(r)
               \/ AcknowledgePaasJobCancellation(r)
        PROVE  FALSE
    <2>1. r.job \in Jobs
      BY ReportFacts DEF TInv
    <2>2. jobs[r.job].status # "absent"
      BY <1>6 DEF RetryPaasJob, FailPaasJob, SucceedPaasJob,
                  AcknowledgePaasJobCancellation, ReportAdmitted
    <2>3. r.job # j
      BY <2>2
    <2> QED
      BY <1>2, <1>6, <2>1, <2>3 DEF RetryPaasJob, FailPaasJob, SucceedPaasJob,
                                    AcknowledgePaasJobCancellation, TInv, TypeOK
  <1>7. ASSUME NEW d \in decisions, NEW i \in Jobs,
               CancelQueuedPaasJob(d, i) \/ CancelRunningPaasJob(d, i)
        PROVE  FALSE
    BY <1>3, <1>7 DEF CancelQueuedPaasJob, CancelRunningPaasJob
  <1>8. ASSUME NEW now \in Stamps, SweepExpiredPaasJobs(now)
        PROVE  FALSE
    <2>1. j \notin ExpiredQueued(now) /\ j \notin ExpiredRunning(now)
      BY ExpiredFacts DEF TInv, IInv
    <2> QED
      BY <1>2, <1>8, <2>1 DEF SweepExpiredPaasJobs
  <1>9. CASE ScheduleStart
    <2> DEFINE h == Head(tenantQueues[nextEligibleTenant])
    <2>1. h \in Jobs /\ jobs[h].status # "absent"
      BY <1>9, HeadFacts DEF IInv, TInv, ScheduleStart, LoopContinues, MayStart
    <2>2. \A i \in Jobs : i # h => jobs'[i] = jobs[i]
      BY <1>9 DEF ScheduleStart, TInv, TypeOK
    <2> QED
      BY <1>2, <2>1, <2>2
  <1>10. ASSUME UNCHANGED jobs
         PROVE  FALSE
    BY <1>2, <1>10
  <1>11. Environment \/ ScheduleEnd \/ UNCHANGED vars => UNCHANGED jobs
    BY DEF Environment, Tick, Authorize, WorkerFinishes, WorkerCrashes, SandboxCleaned,
           ScheduleEnd, vars, snapshot
  <1> QED
    BY <1>4, <1>5, <1>6, <1>7, <1>8, <1>9, <1>10, <1>11 DEF Next, Command

(* Rollbacks keep going back to released artifacts. *)
LEMMA RollbacksStep ==
    ASSUME IInv, [Next]_vars, RollbackOnlyToReleased,
           \A k \in ResourceKeys : ReleasesKept(k)
    PROVE  RollbackOnlyToReleased'
  <1> SUFFICES ASSUME NEW j \in Jobs, jobs'[j].status # "absent",
                      jobs'[j].operation = "rollback"
               PROVE  \E i \in Releases(ResourceKey(jobs[j]))' :
                         jobs'[i].operation = "deploy" /\ jobs'[i].payload = jobs'[j].payload
    BY DEF RollbackOnlyToReleased
  <1>1. PICK k \in ResourceKeys :
           /\ k = ResourceKey(jobs'[j])
           /\ \E i \in Releases(k) :
                 jobs[i].operation = "deploy" /\ jobs[i].payload = jobs'[j].payload
    <2>1. CASE jobs[j].status = "absent"
      <3>1. PICK k \in ResourceKeys :
               /\ ResourceKey(jobs'[j]) = k
               /\ jobs'[j].payload \in ElementsOf(deployments[k].previous)
        BY <2>1, NewRollback
      <3>2. PICK i \in Releases(k) :
               jobs[i].operation = "deploy" /\ jobs[i].payload = jobs'[j].payload
        BY <3>1, RollbackTarget
      <3> QED
        BY <3>1, <3>2
    <2>2. CASE jobs[j].status # "absent"
      <3>1. /\ jobs[j].operation = "rollback" /\ jobs'[j].payload = jobs[j].payload
            /\ ResourceKey(jobs'[j]) = ResourceKey(jobs[j])
        BY <2>2, JobsRemain
      <3>2. ResourceKey(jobs[j]) \in ResourceKeys
        BY <2>2, LockOfActive DEF IInv
      <3>3. PICK i \in Releases(ResourceKey(jobs[j])) :
               jobs[i].operation = "deploy" /\ jobs[i].payload = jobs[j].payload
        BY <2>2, <3>1 DEF RollbackOnlyToReleased
      <3> QED
        BY <3>1, <3>2, <3>3
    <2> QED
      BY <2>1, <2>2
  <1>4. PICK i \in Releases(k) :
           jobs[i].operation = "deploy" /\ jobs[i].payload = jobs'[j].payload
    BY <1>1
  <1>2. i \in Releases(k)' /\ jobs'[i] = jobs[i]
    BY ReleasesStay
  <1>3. Releases(ResourceKey(jobs[j]))' = Releases(k)'
    BY <1>1 DEF Releases, ResourceKey
  <1> QED
    BY <1>2, <1>3, <1>4
-----------------------------------------------------------------------------
(***************************************************************************)
(* All of it together.                                                     *)
(***************************************************************************)
AInv ==
    /\ IInv
    /\ DeadlinesValid
    /\ RecordsOfJobs
    /\ QuotasKept
    /\ \A k \in ResourceKeys : ReleasesKept(k)
    /\ RollbackOnlyToReleased

(* It holds of the empty snapshot. *)
LEMMA AccountsInit == Init => AInv
  <1> SUFFICES ASSUME Init
               PROVE  AInv
    OBVIOUS
  <1>1. IInv
    BY InvInit
  <1>2. \A j \in Jobs : jobs[j].status = "absent"
    BY DEF Init, AbsentJob
  <1>3. activeJobs = {}
    BY <1>2 DEF activeJobs, Active
  <1>4. \A t \in Tenants, b \in BOOLEAN : ActiveOf(t, b) = {}
    BY <1>3 DEF ActiveOf
  <1>5. QuotasKept
    <2>1. IsFiniteSet(activeJobs) /\ Cardinality(activeJobs) = 0
      BY <1>3, FS_EmptySet
    <2>2. \A t \in Tenants, b \in BOOLEAN : Cardinality(ActiveOf(t, b)) = 0
      BY <1>4, FS_EmptySet
    <2>3. /\ MaxGlobalConcurrency >= 0
          /\ \A t \in Tenants : MaxConcurrentBuilds[t] >= 0 /\ MaxConcurrentDeployments[t] >= 0
      BY QuotasAssumption
    <2>4. \A t \in Tenants :
             /\ Cardinality(ActiveOf(t, TRUE)) <= MaxConcurrentBuilds[t]
             /\ Cardinality(ActiveOf(t, FALSE)) <= MaxConcurrentDeployments[t]
      BY <2>2, <2>3
    <2> QED
      BY <2>1, <2>3, <2>4 DEF QuotasKept, QuotasRespected
  <1>6. ASSUME NEW k \in ResourceKeys
        PROVE  ReleasesKept(k)
    <2>1. Releases(k) = {}
      BY <1>2 DEF Releases
    <2>2. deployments[k].generation = 0 /\ deployments[k].previous = << >>
      BY DEF Init, NoDeployment
    <2> QED
      BY <2>1, <2>2, FS_EmptySet DEF ReleasesKept
  <1>7. RecordsOfJobs
    <2>1. \A t \in Tenants, k \in Keys : idempotency[<<t, k>>] = NoRecord
      BY DEF Init
    <2>2. \A c \in CapabilityIds : redeemedCapabilities[c] = NoJob
      BY DEF Init
    <2> QED
      BY <2>1, <2>2 DEF RecordsOfJobs
  <1>8. DeadlinesValid /\ RollbackOnlyToReleased
    BY <1>2 DEF DeadlinesValid, RollbackOnlyToReleased
  <1> QED
    BY <1>1, <1>5, <1>6, <1>7, <1>8 DEF AInv

(* Every step keeps it. *)
LEMMA AccountsStep ==
    ASSUME AInv, [Next]_vars
    PROVE  AInv'
  <1>1. IInv' /\ DeadlinesValid' /\ RecordsOfJobs' /\ QuotasKept' /\ RollbackOnlyToReleased'
    BY InvStep, DeadlinesStep, RecordsStep, QuotasStep, RollbacksStep DEF AInv
  <1>2. ASSUME NEW k \in ResourceKeys
        PROVE  ReleasesKept(k)'
    BY ReleasesStep DEF AInv
  <1>3. (\A k \in ResourceKeys : ReleasesKept(k))'
    BY <1>2
  <1> QED
    BY <1>1, <1>3 DEF AInv

(* A history that is kept is as complete as its length allows. *)
LEMMA HistoryComplete ==
    ASSUME TypeOK, NEW k \in ResourceKeys, ReleasesKept(k), deployments[k].generation > 0
    PROVE  LET d     == deployments[k]
               known == ElementsOf(d.previous) \cup {d.active}
               total == Cardinality(Released(k))
           IN /\ known \subseteq Released(k)
              /\ Cardinality(known) = IF total <= MaxHistory THEN total ELSE MaxHistory + 1
  <1> DEFINE d     == deployments[k]
             known == ElementsOf(d.previous) \cup {d.active}
             total == Cardinality(Released(k))
  <1>1. /\ HistoryOf(d, Released(k)) /\ d.previous \in Seq(Payloads) /\ MaxHistory \in Nat
        /\ Len(d.previous) \in Nat
    BY QuotasAssumption DEF ReleasesKept, TypeOK
  <1>2. known \subseteq Released(k) /\ Len(d.previous) <= MaxHistory
    BY <1>1 DEF HistoryOf
  <1>3. IsFiniteSet(known) /\ Cardinality(known) = Len(d.previous) + 1
    <2>1. /\ IsFiniteSet(ElementsOf(d.previous))
          /\ Cardinality(ElementsOf(d.previous)) = Len(d.previous)
      BY <1>1, DistinctLength DEF HistoryOf
    <2> QED
      BY <1>1, <2>1, FS_AddElement DEF HistoryOf
  <1>4. CASE Len(d.previous) < MaxHistory
    <2>1. Released(k) = known
      BY <1>1, <1>4 DEF HistoryOf
    <2> QED
      BY <1>1, <1>2, <1>3, <1>4, <2>1
  <1>5. CASE Len(d.previous) = MaxHistory
    <2>1. IsFiniteSet(Released(k))
      <3> DEFINE f == [j \in Releases(k) |-> jobs[j].payload]
      <3>1. f \in Surjection(Releases(k), Released(k))
        BY DEF Surjection, Released
      <3>2. IsFiniteSet(Releases(k))
        BY DEF ReleasesKept
      <3> QED
        BY <3>1, <3>2, FS_Surjection
    <2>2. Cardinality(known) <= total /\ total \in Nat
      BY <1>2, <2>1, FS_Subset, FS_CardinalityType
    <2> HIDE DEF total
    <2> QED
      BY <1>1, <1>2, <1>3, <1>5, <2>2 DEF total
  <1> QED
    BY <1>1, <1>2, <1>4, <1>5

(* What the checks of stateInvariantError on quotas, records and           *)
(* deployments, and the accounts of the releases, say.                     *)
LEMMA AccountsHold ==
    ASSUME AInv
    PROVE  /\ QuotasRespected /\ RecordsReferenceJobs /\ DeploymentsValid
           /\ GenerationCountsReleases /\ HistoryKeepsReleases
  <1>1. QuotasRespected /\ RecordsReferenceJobs
    BY DEF AInv, QuotasKept, RecordsOfJobs, RecordsReferenceJobs
  <1>2. GenerationCountsReleases /\ HistoryKeepsReleases
    BY HistoryComplete DEF AInv, IInv, TInv, GenerationCountsReleases, HistoryKeepsReleases,
                           ReleasesKept
  <1>3. ASSUME NEW k \in ResourceKeys, deployments[k].generation > 0
        PROVE  LET d == deployments[k] IN
               /\ Len(d.previous) <= MaxHistory
               /\ \A i \in 1 .. Len(d.previous) :
                     /\ d.previous[i] # d.active
                     /\ \A h \in 1 .. Len(d.previous) : d.previous[h] = d.previous[i] => h = i
               /\ d.sourceJob # NoJob
               /\ jobs[d.sourceJob].status = "succeeded"
               /\ ResourceKey(jobs[d.sourceJob]) = k
               /\ jobs[d.sourceJob].payload = d.active
    <2>1. /\ HistoryOf(deployments[k], Released(k)) /\ deployments[k].sourceJob \in Releases(k)
          /\ jobs[deployments[k].sourceJob].payload = deployments[k].active
      BY <1>3 DEF AInv, ReleasesKept
    <2> QED
      BY <2>1, JobsAssumption DEF HistoryOf, Distinct, ElementsOf, Releases
  <1>4. DeploymentsValid
    BY <1>3 DEF DeploymentsValid
  <1> QED
    BY <1>1, <1>2, <1>4

(* Quotas, records, deployments and releases are right whatever the clocks *)
(* do: the parts of stateInvariantError that compare no time stamps hold   *)
(* for every skew, and generation, history and rollback targets agree with *)
(* what was released.                                                      *)
THEOREM AccountsStayRight ==
    Spec => [](/\ QuotasRespected /\ RecordsReferenceJobs /\ DeploymentsValid
               /\ GenerationCountsReleases /\ HistoryKeepsReleases /\ RollbackOnlyToReleased)
  <1>1. AInv => (/\ QuotasRespected /\ RecordsReferenceJobs /\ DeploymentsValid
                 /\ GenerationCountsReleases /\ HistoryKeepsReleases /\ RollbackOnlyToReleased)
    BY AccountsHold DEF AInv
  <1>2. Init => AInv
    BY AccountsInit
  <1>3. AInv /\ [Next]_vars => AInv'
    BY AccountsStep
  <1> QED
    BY <1>1, <1>2, <1>3, PTL DEF Spec
-----------------------------------------------------------------------------
(***************************************************************************)
(* Time stamps, when no clock lags: every stamp is then the true time of   *)
(* some moment that has passed, so no command dates a job before its       *)
(* creation and none makes the snapshot fail its own check.                *)
(***************************************************************************)
TimesOK(job, c) ==
    /\ job.created <= c
    /\ job.updated >= job.created
    /\ job.status \in Active => job.started # None
    /\ job.status \in Terminal => job.completed # None
    /\ job.started # None => job.started >= job.created
    /\ job.completed # None => job.completed >= job.created

StampsPast ==
    /\ \A d \in decisions : d.at <= clock
    /\ sched.on => sched.now = clock
    /\ \A j \in Jobs : TimesOK(jobs[j], clock)

(* One job changes. *)
LEMMA OneJobTimes ==
    ASSUME TypeOK, StampsPast, NEW j \in Jobs, NEW job, jobs' = [jobs EXCEPT ![j] = job],
           TimesOK(job, clock)
    PROVE  \A i \in Jobs : TimesOK(jobs'[i], clock)
  BY DEF TypeOK, StampsPast

(* Without lag a command is stamped with the true time. *)
LEMMA TrueStamps ==
    ASSUME TypeOK, MaxSkew = 0, NEW s \in Stamps
    PROVE  s = clock /\ s \in Nat
  BY EnvironmentAssumption DEF TypeOK, Stamps, Times

(* The time stamps of a job are numbers. *)
LEMMA TimesOfJob ==
    ASSUME TypeOK, NEW j \in Jobs
    PROVE  /\ jobs[j] \in JobType
           /\ jobs[j].created \in Int /\ jobs[j].updated \in Int
           /\ jobs[j].started \in Int /\ jobs[j].completed \in Int
           /\ None \in Int /\ \A n \in Nat : n # None
  BY JobFacts DEF JobType, None

(* The expiry of a queued job. *)
LEMMA TimedOutTimes ==
    ASSUME TypeOK, NEW j \in Jobs, NEW now \in Nat, now = clock, TimesOK(jobs[j], clock)
    PROVE  TimesOK(TimedOut(jobs[j], now), clock)
  <1> DEFINE job == TimedOut(jobs[j], now)
  <1>1. /\ job.status = "timed-out" /\ job.created = jobs[j].created /\ job.updated = now
        /\ job.completed = now /\ job.started = jobs[j].started
    BY TimesOfJob DEF TimedOut, JobType
  <1> HIDE DEF job
  <1>2. TimesOK(job, clock)
    BY <1>1, TimesOfJob DEF TimesOK, Active, Terminal
  <1> QED
    BY <1>2 DEF job

(* The end of an attempt, or of a cancellation. *)
LEMMA EndTimes ==
    ASSUME TypeOK, NEW j \in Jobs, TimesOK(jobs[j], clock), NEW at \in Nat,
           at >= jobs[j].created, NEW job,
           job.created = jobs[j].created, job.updated = at, job.started = None,
           \/ job.status = "queued" /\ job.completed = jobs[j].completed
           \/ job.status \in Terminal /\ job.completed = at
    PROVE  TimesOK(job, clock)
  BY TimesOfJob DEF TimesOK, Active, Terminal

(* The commands of callers and workers keep the times. *)
LEMMA CommandTimes ==
    ASSUME AInv, StampsPast, MaxSkew = 0, Command
    PROVE  \A i \in Jobs : TimesOK(jobs'[i], clock)
  <1> TInv /\ TypeOK
    BY DEF AInv, IInv, TInv
  <1>0. \A j \in Jobs : TimesOK(jobs[j], clock)
    BY DEF StampsPast
  <1>1. ASSUME NEW d \in decisions, NEW j \in Jobs, NEW m \in 1 .. MaxAttempts,
               EnqueuePaasJob(d, j, m)
        PROVE  \A i \in Jobs : TimesOK(jobs'[i], clock)
    <2> DEFINE t == d.capability.tenant
               job == [tenant |-> t, operation |-> d.operation,
                       resource |-> d.capability.resource, payload |-> d.payload,
                       status |-> "queued", key |-> d.key, created |-> d.at, updated |-> d.at,
                       deadline |-> d.at + MaxExecution[t], started |-> None,
                       completed |-> None, attempt |-> 0, maxAttempts |-> m, reason |-> "none"]
    <2>1. /\ jobs' = [jobs EXCEPT ![j] = job]
          /\ job.status = "queued" /\ job.created = d.at /\ job.updated = d.at
          /\ job.started = None /\ job.completed = None
      BY <1>1 DEF EnqueuePaasJob
    <2> HIDE DEF job
    <2>2. d.at \in Nat /\ d.at <= clock
      BY DecisionFacts DEF StampsPast
    <2>3. TimesOK(job, clock)
      BY <2>1, <2>2 DEF TimesOK, Active, Terminal
    <2> QED
      BY <2>1, <2>3, OneJobTimes
  <1>2. ASSUME NEW now \in Stamps, NEW n \in 1 .. MaxGlobalConcurrency, ScheduleBegin(now, n)
        PROVE  \A i \in Jobs : TimesOK(jobs'[i], clock)
    <2>1. \A j \in Jobs : TimesOK(TimedOut(jobs[j], now), clock)
      BY <1>0, TrueStamps, TimedOutTimes
    <2> QED
      BY <1>0, <1>2, <2>1 DEF ScheduleBegin
  <1>3. ASSUME NEW r \in reports,
               \/ RetryPaasJob(r) \/ FailPaasJob(r) \/ SucceedPaasJob(r)
               \/ AcknowledgePaasJobCancellation(r)
        PROVE  \A i \in Jobs : TimesOK(jobs'[i], clock)
    <2>1. PICK j \in Jobs, at \in Nat : j = r.job /\ at = r.at
      BY ReportFacts
    <2>2. jobs[j] \in JobType /\ TimesOK(jobs[j], clock)
      BY <1>0, TimesOfJob
    <2>3. at >= jobs[j].created
      <3>1. CASE ReportAdmitted(r)
        BY <2>1, <2>2, <3>1, TimesOfJob DEF ReportAdmitted, TimesOK, Active
      <3>2. CASE AcknowledgePaasJobCancellation(r)
        BY <2>1, <2>2, <3>2, TimesOfJob DEF AcknowledgePaasJobCancellation, TimesOK
      <3> QED
        BY <1>3, <3>1, <3>2 DEF RetryPaasJob, FailPaasJob, SucceedPaasJob
    <2>4. CASE RetryPaasJob(r)
      <3> DEFINE job == [jobs[j] EXCEPT !.status = "queued", !.updated = at, !.started = None]
      <3>1. jobs' = [jobs EXCEPT ![j] = job]
        BY <2>1, <2>4 DEF RetryPaasJob
      <3>2. /\ job.status = "queued" /\ job.created = jobs[j].created /\ job.updated = at
            /\ job.started = None /\ job.completed = jobs[j].completed
        BY <2>2 DEF JobType
      <3> HIDE DEF job
      <3>3. TimesOK(job, clock)
        <4>1. job.status = "queued" /\ job.completed = jobs[j].completed
          BY <3>2
        <4> QED
          BY <2>2, <2>3, <3>2, <4>1, EndTimes
      <3> QED
        BY <3>1, <3>3, OneJobTimes
    <2>5. ASSUME NEW st \in Terminal, NEW job,
                 job = [jobs[j] EXCEPT !.status = st, !.updated = at, !.started = None,
                                       !.completed = at],
                 jobs' = [jobs EXCEPT ![j] = job]
          PROVE  \A i \in Jobs : TimesOK(jobs'[i], clock)
      <3>1. /\ job.status = st /\ job.created = jobs[j].created /\ job.updated = at
            /\ job.started = None /\ job.completed = at
        BY <2>2, <2>5 DEF JobType
      <3>2. TimesOK(job, clock)
        BY <2>2, <2>3, <3>1, EndTimes
      <3> QED
        BY <2>5, <3>2, OneJobTimes
    <2>6. CASE FailPaasJob(r)
      <3> DEFINE job == [jobs[j] EXCEPT !.status = "failed", !.updated = at, !.started = None,
                                        !.completed = at]
      <3>1. jobs' = [jobs EXCEPT ![j] = job] /\ "failed" \in Terminal
        BY <2>1, <2>6 DEF FailPaasJob, Terminal
      <3> QED
        BY <2>5, <3>1
    <2>7. CASE SucceedPaasJob(r)
      <3> DEFINE job == [jobs[j] EXCEPT !.status = "succeeded", !.updated = at,
                                        !.started = None, !.completed = at]
      <3>1. jobs' = [jobs EXCEPT ![j] = job] /\ "succeeded" \in Terminal
        BY <2>1, <2>7 DEF SucceedPaasJob, Terminal
      <3> QED
        BY <2>5, <3>1
    <2>8. CASE AcknowledgePaasJobCancellation(r)
      <3> DEFINE st == IF jobs[j].reason = "deadline" THEN "timed-out" ELSE "cancelled"
                 job == [jobs[j] EXCEPT !.status = st, !.updated = at, !.completed = at,
                                        !.started = None]
      <3>1. jobs' = [jobs EXCEPT ![j] = job] /\ st \in Terminal
        BY <2>1, <2>8 DEF AcknowledgePaasJobCancellation, Terminal
      <3> HIDE DEF st
      <3>2. /\ job.status = st /\ job.created = jobs[j].created /\ job.updated = at
            /\ job.started = None /\ job.completed = at
        BY <2>2 DEF JobType
      <3> HIDE DEF job
      <3>3. TimesOK(job, clock)
        BY <2>2, <2>3, <3>1, <3>2, EndTimes
      <3> QED
        BY <3>1, <3>3, OneJobTimes
    <2> QED
      BY <1>3, <2>4, <2>6, <2>7, <2>8
  <1>4. ASSUME NEW d \in decisions, NEW j \in Jobs, CancelQueuedPaasJob(d, j)
        PROVE  \A i \in Jobs : TimesOK(jobs'[i], clock)
    <2> DEFINE job == [jobs[j] EXCEPT !.status = "cancelled", !.reason = "user",
                                      !.updated = d.at, !.completed = d.at]
    <2>1. jobs' = [jobs EXCEPT ![j] = job] /\ d.at >= jobs[j].created /\ d.at \in Nat
      BY <1>4, DecisionFacts DEF CancelQueuedPaasJob, CancelAdmitted
    <2>2. /\ job.status = "cancelled" /\ job.created = jobs[j].created /\ job.updated = d.at
          /\ job.started = jobs[j].started /\ job.completed = d.at
      BY TimesOfJob DEF JobType
    <2> HIDE DEF job
    <2>3. TimesOK(job, clock)
      BY <1>0, <2>1, <2>2, TimesOfJob DEF TimesOK, Active, Terminal
    <2> QED
      BY <2>1, <2>3, OneJobTimes
  <1>5. ASSUME NEW j \in Jobs, NEW at \in Nat, NEW why, at >= jobs[j].created,
               jobs[j].status = "running"
        PROVE  TimesOK([jobs[j] EXCEPT !.status = "cancelling", !.reason = why,
                                       !.updated = at], clock)
    <2> DEFINE job == [jobs[j] EXCEPT !.status = "cancelling", !.reason = why, !.updated = at]
    <2>1. /\ job.status = "cancelling" /\ job.created = jobs[j].created /\ job.updated = at
          /\ job.started = jobs[j].started /\ job.completed = jobs[j].completed
      BY TimesOfJob DEF JobType
    <2> HIDE DEF job
    <2>2. TimesOK(job, clock)
      BY <1>0, <1>5, <2>1, TimesOfJob DEF TimesOK, Active, Terminal
    <2> QED
      BY <2>2 DEF job
  <1>6. ASSUME NEW d \in decisions, NEW j \in Jobs, CancelRunningPaasJob(d, j)
        PROVE  \A i \in Jobs : TimesOK(jobs'[i], clock)
    <2> DEFINE job == [jobs[j] EXCEPT !.status = "cancelling", !.reason = "user",
                                      !.updated = d.at]
    <2>1. /\ jobs' = [jobs EXCEPT ![j] = job] /\ d.at >= jobs[j].created /\ d.at \in Nat
          /\ jobs[j].status = "running"
      BY <1>6, DecisionFacts DEF CancelRunningPaasJob, CancelAdmitted
    <2>2. TimesOK(job, clock)
      BY <1>5, <2>1
    <2> HIDE DEF job
    <2> QED
      BY <2>1, <2>2, OneJobTimes
  <1>7. ASSUME NEW now \in Stamps, SweepExpiredPaasJobs(now)
        PROVE  \A i \in Jobs : TimesOK(jobs'[i], clock)
    <2> DEFINE Halted(j) == [jobs[j] EXCEPT !.status = "cancelling", !.reason = "deadline",
                                            !.updated = now]
    <2>1. now = clock /\ now \in Nat
      BY TrueStamps
    <2>2. \A j \in Jobs : TimesOK(TimedOut(jobs[j], now), clock)
      BY <1>0, <2>1, TimedOutTimes
    <2>3. ASSUME NEW j \in ExpiredRunning(now)
          PROVE  TimesOK(Halted(j), clock)
      <3>1. j \in Jobs /\ jobs[j].status = "running" /\ now >= jobs[j].created
        BY <1>0, <2>1 DEF ExpiredRunning, TimesOK
      <3> QED
        BY <1>5, <2>1, <3>1
    <2>4. jobs' = [j \in Jobs |-> IF j \in ExpiredQueued(now) THEN TimedOut(jobs[j], now)
                                  ELSE IF j \in ExpiredRunning(now) THEN Halted(j) ELSE jobs[j]]
      BY <1>7 DEF SweepExpiredPaasJobs
    <2> HIDE DEF Halted
    <2> QED
      BY <1>0, <2>2, <2>3, <2>4
  <1> QED
    BY <1>1, <1>2, <1>3, <1>4, <1>6, <1>7 DEF Command

(* A start is stamped by the schedule command it belongs to. *)
LEMMA StartTimes ==
    ASSUME AInv, StampsPast, sched.on, ScheduleStart
    PROVE  \A i \in Jobs : TimesOK(jobs'[i], clock)
  <1> TInv /\ TypeOK
    BY DEF AInv, IInv, TInv
  <1> DEFINE j == Head(tenantQueues[nextEligibleTenant])
             job == [jobs[j] EXCEPT !.status = "running", !.started = sched.now,
                                    !.updated = sched.now, !.attempt = jobs[j].attempt + 1]
  <1>1. j \in Jobs
    BY HeadFacts DEF AInv, IInv, ScheduleStart, LoopContinues, MayStart
  <1>2. jobs' = [jobs EXCEPT ![j] = job]
    BY DEF ScheduleStart
  <1>3. sched.now = clock /\ clock \in Nat
    BY EnvironmentAssumption DEF StampsPast, TypeOK, Times
  <1> HIDE DEF j
  <1>4. /\ job.status = "running" /\ job.created = jobs[j].created /\ job.updated = sched.now
        /\ job.started = sched.now /\ job.completed = jobs[j].completed
    BY <1>1, TimesOfJob DEF JobType
  <1>5. TimesOK(jobs[j], clock)
    BY <1>1 DEF StampsPast
  <1> HIDE DEF job
  <1>6. TimesOK(job, clock)
    BY <1>1, <1>3, <1>4, <1>5, TimesOfJob DEF TimesOK, Active, Terminal
  <1> QED
    BY <1>1, <1>2, <1>6, OneJobTimes

(* Every step keeps the stamps in the past. *)
LEMMA StampsStep ==
    ASSUME AInv, StampsPast, MaxSkew = 0, [Next]_vars
    PROVE  StampsPast'
  <1> TInv /\ TypeOK /\ clock \in Nat
    BY EnvironmentAssumption DEF AInv, IInv, TInv, TypeOK, Times
  <1>1. ASSUME UNCHANGED <<clock, decisions>>, sched'.on => sched'.now = clock,
               \A i \in Jobs : TimesOK(jobs'[i], clock)
        PROVE  StampsPast'
    BY <1>1 DEF StampsPast
  <1>2. CASE ~sched.on /\ Environment
    <2>1. UNCHANGED <<snapshot, sched>> /\ clock' \in Nat /\ clock' >= clock
      BY <1>2 DEF Environment, Tick, Authorize, WorkerFinishes, WorkerCrashes, SandboxCleaned
    <2>2. ASSUME NEW d \in decisions'
          PROVE  d.at <= clock'
      <3>1. CASE d \in decisions
        BY <2>1, <3>1, DecisionFacts DEF StampsPast
      <3>2. CASE d \notin decisions
        <4>1. PICK at \in Stamps : d.at = at
          BY <1>2, <3>2 DEF Environment, Tick, Authorize, WorkerFinishes, WorkerCrashes,
                            SandboxCleaned
        <4> QED
          BY <2>1, <4>1, TrueStamps
      <3> QED
        BY <3>1, <3>2
    <2>3. ASSUME NEW j \in Jobs
          PROVE  TimesOK(jobs'[j], clock')
      <3>1. jobs' = jobs /\ jobs[j].created \in Nat
        BY <2>1, JobFacts DEF snapshot
      <3> QED
        BY <2>1, <3>1 DEF StampsPast, TimesOK
    <2>4. (sched.on => sched.now = clock)'
      BY <1>2, <2>1
    <2> QED
      BY <2>2, <2>3, <2>4 DEF StampsPast
  <1>3. CASE CommandRuns /\ Command
    <2>1. \A i \in Jobs : TimesOK(jobs'[i], clock)
      BY <1>3, CommandTimes
    <2>2. UNCHANGED <<clock, decisions>>
      BY <1>3 DEF Command, EnqueuePaasJob, ScheduleBegin, RetryPaasJob, FailPaasJob,
           SucceedPaasJob, AcknowledgePaasJobCancellation, CancelQueuedPaasJob,
           CancelRunningPaasJob, SweepExpiredPaasJobs
    <2>3. sched' = sched \/ \E now \in Stamps, n \in 1 .. MaxGlobalConcurrency :
                               sched' = [on |-> TRUE, now |-> now, left |-> n]
      BY <1>3 DEF Command, EnqueuePaasJob, ScheduleBegin, RetryPaasJob, FailPaasJob,
           SucceedPaasJob, AcknowledgePaasJobCancellation, CancelQueuedPaasJob,
           CancelRunningPaasJob, SweepExpiredPaasJobs
    <2>4. sched'.on => sched'.now = clock
      BY <2>3, TrueStamps DEF StampsPast
    <2> QED
      BY <1>1, <2>1, <2>2, <2>4
  <1>4. CASE sched.on /\ ScheduleStart
    <2>1. sched'.now = sched.now /\ UNCHANGED <<clock, decisions>>
      BY <1>4 DEF ScheduleStart, TypeOK
    <2> QED
      BY <1>1, <1>4, <2>1, StartTimes DEF StampsPast
  <1>5. CASE sched.on /\ ScheduleEnd
    <2>1. sched' = Idle /\ UNCHANGED <<jobs, clock, decisions>>
      BY <1>5 DEF ScheduleEnd
    <2>2. ~sched'.on
      BY <2>1 DEF Idle
    <2> QED
      BY <1>1, <2>1, <2>2 DEF StampsPast
  <1>6. CASE UNCHANGED vars
    BY <1>1, <1>6 DEF vars, snapshot, StampsPast
  <1> QED
    BY <1>2, <1>3, <1>4, <1>5, <1>6 DEF Next

(* The empty snapshot has no stamps. *)
LEMMA StampsInit == Init => StampsPast
  <1> SUFFICES ASSUME Init
               PROVE  StampsPast
    OBVIOUS
  <1>1. \A j \in Jobs : jobs[j] = AbsentJob
    BY DEF Init
  <1>2. TimesOK(AbsentJob, 0)
    BY DEF TimesOK, AbsentJob, Active, Terminal, None
  <1>3. clock = 0 /\ decisions = {} /\ ~sched.on
    BY DEF Init, Idle
  <1> QED
    BY <1>1, <1>2, <1>3 DEF StampsPast

(* With both, the snapshot passes stateInvariantError. *)
LEMMA SnapshotValid ==
    ASSUME AInv, StampsPast
    PROVE  StateInvariant
  <1> TypeOK
    BY DEF AInv, IInv, TInv
  <1>1. QuotasRespected /\ RecordsReferenceJobs /\ DeploymentsValid
    BY AccountsHold
  <1>2. QueuesConsistent /\ LocksConsistent
    BY DEF AInv, IInv
  <1>3. LifecycleTimestampsComplete
    BY DEF LifecycleTimestampsComplete, StampsPast, TimesOK
  <1>4. ASSUME NEW j \in Jobs, jobs[j].status # "absent"
        PROVE  /\ jobs[j].deadline > jobs[j].created
               /\ jobs[j].deadline - jobs[j].created <= MaxExecution[jobs[j].tenant]
               /\ jobs[j].updated >= jobs[j].created
    <2>1. jobs[j].deadline = jobs[j].created + MaxExecution[jobs[j].tenant]
      BY <1>4 DEF AInv, DeadlinesValid
    <2>2. PICK m \in Nat \ {0} : m = MaxExecution[jobs[j].tenant]
      BY JobFacts, QuotasAssumption
    <2>3. PICK c \in Nat : c = jobs[j].created
      BY JobFacts
    <2>4. TimesOK(jobs[j], clock)
      BY DEF StampsPast
    <2> QED
      BY <2>1, <2>2, <2>3, <2>4 DEF TimesOK
  <1>5. DurableFieldsValid
    BY <1>4 DEF DurableFieldsValid
  <1> QED
    BY <1>1, <1>2, <1>3, <1>5 DEF StateInvariant

(* Without lagging clocks no sequence of commands leads to a snapshot that *)
(* stateInvariantError refuses; a run shows that a lagging clock does.     *)
THEOREM SnapshotStaysValid == MaxSkew = 0 => (Spec => []StateInvariant)
  <1> SUFFICES ASSUME MaxSkew = 0
               PROVE  Spec => []StateInvariant
    OBVIOUS
  <1> DEFINE J == AInv /\ StampsPast
  <1>1. Init => J
    BY AccountsInit, StampsInit
  <1>2. J /\ [Next]_vars => J'
    BY AccountsStep, StampsStep
  <1>3. J => StateInvariant
    BY SnapshotValid
  <1> QED
    BY <1>1, <1>2, <1>3, PTL DEF Spec

(* Racing deploys and rollbacks leave a valid snapshot in which generation, *)
(* history and rollback targets agree with what was released.              *)
THEOREM ReleasesStayAccountedFor == MaxSkew = 0 => (Spec => []ReleasesAreAccountedFor)
  <1> SUFFICES ASSUME MaxSkew = 0
               PROVE  Spec => []ReleasesAreAccountedFor
    OBVIOUS
  <1>1. StateInvariant /\ (/\ QuotasRespected /\ RecordsReferenceJobs /\ DeploymentsValid
                           /\ GenerationCountsReleases /\ HistoryKeepsReleases
                           /\ RollbackOnlyToReleased) => ReleasesAreAccountedFor
    BY DEF ReleasesAreAccountedFor
  <1> QED
    BY <1>1, SnapshotStaysValid, AccountsStayRight, PTL

-----------------------------------------------------------------------------
(* Round-robin fairness of schedulePaasJobs, for any number of tenants, any *)
(* quotas and any history of enqueues, retries, cancellations and sweeps;   *)
(* and the order of one tenant's jobs.                                      *)

(* The scan position and the counts the argument is about. *)
ScanType ==
    /\ lastScheduledTenant \in 0 .. NumTenants
    /\ bypassed \in [Tenants -> Nat]

Inv == ScanType /\ BoundedBypass

(* Offsets within one round name every tenant once. *)
LEMMA TenantAtOffset ==
    ASSUME lastScheduledTenant \in 0 .. NumTenants, NEW o \in 0 .. NumTenants - 1
    PROVE  /\ TenantAt(o) \in Tenants
           /\ TenantAt(o) = IF lastScheduledTenant + o < NumTenants
                              THEN lastScheduledTenant + o + 1
                              ELSE lastScheduledTenant + o - NumTenants + 1
  <1> DEFINE N == NumTenants
             a == lastScheduledTenant + o
  <1>1. N \in Nat \ {0} /\ a \in Nat /\ a < 2 * N
    BY TenantsAssumption
  <1>2. CASE a < N
    <2> a % N = a
      BY <1>1, <1>2
    <2> QED
      BY <1>1, <1>2 DEF TenantAt, Tenants
  <1>3. CASE N <= a
    <2> a % N = a - N
      BY <1>1, <1>3
    <2> QED
      BY <1>1, <1>3 DEF TenantAt, Tenants
  <1> QED
    BY <1>1, <1>2, <1>3

(* The offset at which the scan comes to a tenant. *)
LEMMA DistanceIsOffset ==
    ASSUME lastScheduledTenant \in 0 .. NumTenants, NEW t \in Tenants
    PROVE  Distance(t) \in 0 .. NumTenants - 1 /\ TenantAt(Distance(t)) = t
  <1>1. Distance(t) \in 0 .. NumTenants - 1
    BY TenantsAssumption DEF Distance, Tenants
  <1> QED
    BY <1>1, TenantAtOffset, TenantsAssumption DEF Distance, Tenants

(* nextEligibleTenant takes the first eligible tenant of the round. *)
LEMMA NextEligibleIsFirst ==
    ASSUME lastScheduledTenant \in 0 .. NumTenants, EligibleOffsets # {}
    PROVE  \E o \in EligibleOffsets :
               /\ nextEligibleTenant = TenantAt(o)
               /\ \A p \in EligibleOffsets : o <= p
  <1>1. EligibleOffsets \in SUBSET (0 .. NumTenants - 1)
    BY DEF EligibleOffsets
  <1>2. IsFiniteSet(0 .. NumTenants - 1)
    BY FS_Interval, TenantsAssumption
  <1>3. IsFiniteSet(EligibleOffsets) /\ EligibleOffsets \in SUBSET Int
    <2>1. IsFiniteSet(EligibleOffsets)
      BY <1>1, <1>2, FS_Subset
    <2>2. EligibleOffsets \in SUBSET Int
      BY <1>1
    <2> QED
      BY <2>1, <2>2
  <1>4. \E o \in EligibleOffsets : \A p \in EligibleOffsets : o <= p
    <2> DEFINE K == EligibleOffsets
    <2> K \in SUBSET Int /\ IsFiniteSet(K) /\ K # {}
      BY <1>3
    <2> HIDE DEF K
    <2> \E o \in K : \A p \in K : o <= p
      BY LeastElement
    <2> QED
      BY DEF K
  <1> QED
    BY <1>4 DEF nextEligibleTenant

(* A start: the chosen tenant goes to the back of the round, every other   *)
(* eligible one comes closer by more than it was passed over.              *)
LEMMA StartKeepsBound ==
    ASSUME Inv, sched.on /\ LoopContinues, RecordStart,
           lastScheduledTenant' = nextEligibleTenant
    PROVE  Inv'
  <1> DEFINE N == NumTenants
             L == lastScheduledTenant
  <1>1. EligibleOffsets # {}
    BY DEF LoopContinues, MayStart
  <1>2. PICK o \in EligibleOffsets : /\ nextEligibleTenant = TenantAt(o)
                                     /\ \A p \in EligibleOffsets : o <= p
    BY <1>1, NextEligibleIsFirst DEF Inv, ScanType
  <1>3. o \in 0 .. N - 1 /\ TenantAt(o) \in Tenants /\ N \in Nat \ {0}
    BY TenantAtOffset, TenantsAssumption DEF Inv, ScanType, EligibleOffsets
  <1>4. bypassed' = [t \in Tenants |->
            IF t # TenantAt(o) /\ Eligible(t) THEN bypassed[t] + 1 ELSE 0]
    BY <1>2 DEF RecordStart
  <1>5. lastScheduledTenant' = TenantAt(o)
    BY <1>2
  <1>6. ScanType'
    BY <1>3, <1>4, <1>5 DEF Inv, ScanType, Tenants
  <1>7. ASSUME NEW t \in Tenants
        PROVE  bypassed'[t] + Distance(t)' <= N - 1
    <2>1. Distance(t)' \in 0 .. N - 1
      BY <1>6, <1>3 DEF Distance, Tenants, ScanType
    <2>2. CASE ~(t # TenantAt(o) /\ Eligible(t))
      BY <1>3, <1>4, <2>1, <2>2
    <2>3. CASE t # TenantAt(o) /\ Eligible(t)
      <3>1. Distance(t) \in 0 .. N - 1 /\ TenantAt(Distance(t)) = t
        BY DistanceIsOffset DEF Inv, ScanType
      <3>2. Distance(t) \in EligibleOffsets
        BY <2>3, <3>1 DEF EligibleOffsets
      <3>3. o < Distance(t)
        BY <1>2, <1>3, <2>3, <3>1, <3>2
      <3>4. Distance(t)' = Distance(t) - o - 1
        <4>1. TenantAt(o) = IF L + o < N THEN L + o + 1 ELSE L + o - N + 1
          BY <1>3, TenantAtOffset DEF Inv, ScanType
        <4>2. L \in 0 .. N /\ t \in 1 .. N
          BY DEF Inv, ScanType, Tenants
        <4> QED
          BY <1>3, <1>5, <3>3, <4>1, <4>2 DEF Distance
      <3>5. bypassed'[t] = bypassed[t] + 1 /\ bypassed[t] \in Nat
        BY <1>4, <2>3 DEF Inv, ScanType
      <3>6. bypassed[t] + Distance(t) <= N - 1
        BY DEF Inv, BoundedBypass
      <3> QED
        BY <1>3, <3>1, <3>4, <3>5, <3>6
    <2> QED
      BY <2>2, <2>3
  <1> QED
    BY <1>6, <1>7 DEF Inv, BoundedBypass

(* Every other step leaves the scan position and the counts alone. *)
LEMMA OtherStepsKeepScan ==
    ASSUME Next, ~(sched.on /\ LoopContinues)
    PROVE  lastScheduledTenant' = lastScheduledTenant
  <1>1. CASE ~sched.on /\ Environment
    BY <1>1 DEF Environment, Tick, Authorize, WorkerFinishes, WorkerCrashes, SandboxCleaned,
       snapshot
  <1>2. CASE CommandRuns /\ Command
    BY <1>2 DEF Command, EnqueuePaasJob, ScheduleBegin, RetryPaasJob, FailPaasJob,
       SucceedPaasJob, AcknowledgePaasJobCancellation, CancelQueuedPaasJob,
       CancelRunningPaasJob, SweepExpiredPaasJobs
  <1>3. CASE sched.on /\ ScheduleStart
    BY <1>3 DEF ScheduleStart
  <1>4. CASE sched.on /\ ScheduleEnd
    BY <1>4 DEF ScheduleEnd
  <1> QED
    BY <1>1, <1>2, <1>3, <1>4 DEF Next

(* While the loop can go on, the only step is a start. *)
LEMMA LoopOnlyStarts ==
    ASSUME Next, sched.on /\ LoopContinues
    PROVE  lastScheduledTenant' = nextEligibleTenant
  BY DEF Next, CommandRuns, ScheduleStart, ScheduleEnd

(* Initially nobody has been passed over. *)
LEMMA InitInv == HInit => Inv
  <1> SUFFICES ASSUME HInit
               PROVE  Inv
    OBVIOUS
  <1>1. ScanType /\ lastScheduledTenant = 0 /\ \A t \in Tenants : bypassed[t] = 0
    BY TenantsAssumption DEF HInit, Init, ScanType
  <1> QED
    BY <1>1, TenantsAssumption DEF Inv, BoundedBypass, Distance, Tenants

(* Every step of the reducer or its environment keeps the bound. *)
LEMMA NextInv == Inv /\ [HNext]_<<vars, historyVars>> => Inv'
  <1> SUFFICES ASSUME Inv, [HNext]_<<vars, historyVars>>
               PROVE  Inv'
    OBVIOUS
  <1>1. CASE HNext /\ sched.on /\ LoopContinues
    BY <1>1, LoopOnlyStarts, StartKeepsBound DEF HNext
  <1>2. CASE HNext /\ ~(sched.on /\ LoopContinues)
    <2> lastScheduledTenant' = lastScheduledTenant /\ bypassed' = bypassed
      BY <1>2, OtherStepsKeepScan DEF HNext, RecordStart
    <2> QED
      BY DEF Inv, ScanType, BoundedBypass, Distance
  <1>3. CASE UNCHANGED <<vars, historyVars>>
    BY <1>3 DEF vars, snapshot, historyVars, Inv, ScanType, BoundedBypass, Distance
  <1> QED
    BY <1>1, <1>2, <1>3

(* Deterministic round-robin fairness for every number of tenants: a       *)
(* tenant whose head job can start (nextEligibleTenant) is passed over at  *)
(* most NumTenants - 1 times in a row.                                     *)
THEOREM RoundRobinIsFair == HSpec => []BoundedBypass
  <1>1. Inv => BoundedBypass
    BY DEF Inv
  <1> QED
    BY <1>1, InitInv, NextInv, PTL DEF HSpec

-----------------------------------------------------------------------------
(***************************************************************************)
(* First in, first out.  A step thins a queue out, keeping the order of    *)
(* what stays, or puts one job that was not queued at its end.             *)
(***************************************************************************)
Thinned(w, q) ==
    \E pos \in [1 .. Len(w) -> 1 .. Len(q)] :
        /\ \A i \in 1 .. Len(w) : w[i] = q[pos[i]]
        /\ \A i, k \in 1 .. Len(w) : i < k => pos[i] < pos[k]

Joined(w, q) ==
    \E j \in Jobs :
        /\ w = Append(q, j) /\ jobs[j].status # "queued" /\ jobs'[j].status = "queued"
        /\ revision' = revision + 1

QueueStep(t) == Thinned(tenantQueues'[t], tenantQueues[t]) \/ Joined(tenantQueues'[t], tenantQueues[t])

(* A queue is a thinning of itself. *)
LEMMA SameIsThinned ==
    ASSUME NEW q \in Seq(Jobs)
    PROVE  Thinned(q, q)
  <1> DEFINE pos == [i \in 1 .. Len(q) |-> i]
  <1>1. pos \in [1 .. Len(q) -> 1 .. Len(q)] /\ \A i \in 1 .. Len(q) : pos[i] = i
    OBVIOUS
  <1> HIDE DEF pos
  <1> QED
    BY <1>1 DEF Thinned

(* Array.filter thins out. *)
LEMMA WithoutIsThinned ==
    ASSUME NEW q \in Seq(Jobs), NEW dropped
    PROVE  Thinned(Without(q, dropped), q)
  <1> DEFINE w == Without(q, dropped)
             pos == [i \in 1 .. Len(w) |-> Position(q, dropped, i)]
  <1>1. /\ \A n \in 1 .. Len(w) : Position(q, dropped, n) \in 1 .. Len(q) /\ w[n] = q[Position(q, dropped, n)]
        /\ \A m, n \in 1 .. Len(w) : m < n => Position(q, dropped, m) < Position(q, dropped, n)
    BY WithoutIsFilter
  <1> HIDE DEF w
  <1>2. pos \in [1 .. Len(w) -> 1 .. Len(q)] /\ \A i \in 1 .. Len(w) : pos[i] = Position(q, dropped, i)
    BY <1>1
  <1> HIDE DEF pos
  <1>3. Thinned(w, q)
    BY <1>1, <1>2 DEF Thinned
  <1> QED
    BY <1>3 DEF w

(* Array.shift thins out. *)
LEMMA TailIsThinned ==
    ASSUME NEW q \in Seq(Jobs), q # << >>
    PROVE  Thinned(Tail(q), q)
  <1> DEFINE pos == [i \in 1 .. Len(q) - 1 |-> i + 1]
  <1>1. /\ Len(q) \in Nat /\ Len(q) > 0 /\ Len(Tail(q)) = Len(q) - 1
        /\ \A i \in 1 .. Len(q) - 1 : Tail(q)[i] = q[i + 1]
    BY EmptySeq, HeadTailProperties
  <1>2. pos \in [1 .. Len(q) - 1 -> 1 .. Len(q)] /\ \A i \in 1 .. Len(q) - 1 : pos[i] = i + 1
    BY <1>1
  <1> HIDE DEF pos
  <1>3. \A i, k \in 1 .. Len(q) - 1 : i < k => pos[i] < pos[k]
    BY <1>1, <1>2
  <1> QED
    BY <1>1, <1>2, <1>3 DEF Thinned

(* What every step does to every queue. *)
LEMMA QueueSteps ==
    ASSUME IInv, [Next]_vars, NEW t \in Tenants
    PROVE  QueueStep(t)
  <1> DEFINE q == tenantQueues[t]
  <1>1. TypeOK /\ QueuesConsistent /\ q \in Seq(Jobs)
    BY DEF IInv, TInv, TypeOK
  <1>2. ASSUME tenantQueues'[t] = q
        PROVE  QueueStep(t)
    BY <1>1, <1>2, SameIsThinned DEF QueueStep
  <1>3. ASSUME NEW dropped, tenantQueues'[t] = Without(q, dropped)
        PROVE  QueueStep(t)
    BY <1>1, <1>3, WithoutIsThinned DEF QueueStep
  <1>4. ASSUME NEW j \in Jobs, NEW home \in Tenants, jobs[j].status # "queued",
               NEW job, job.status = "queued", jobs' = [jobs EXCEPT ![j] = job],
               tenantQueues' = [tenantQueues EXCEPT ![home] = Append(@, j)], revision' = revision + 1
        PROVE  QueueStep(t)
    <2>1. jobs'[j].status = "queued"
      BY <1>1, <1>4 DEF TypeOK
    <2>2. CASE t = home
      BY <1>1, <1>4, <2>1, <2>2 DEF QueueStep, Joined, TypeOK
    <2>3. CASE t # home
      BY <1>1, <1>2, <1>4, <2>3 DEF TypeOK
    <2> QED
      BY <2>2, <2>3
  <1>5. CASE UNCHANGED tenantQueues
    BY <1>2, <1>5
  <1>6. ASSUME NEW d \in decisions, NEW j \in Jobs, NEW m \in 1 .. MaxAttempts, EnqueuePaasJob(d, j, m)
        PROVE  QueueStep(t)
    <2> DEFINE home == d.capability.tenant
               job == [tenant |-> home, operation |-> d.operation,
                       resource |-> d.capability.resource, payload |-> d.payload,
                       status |-> "queued", key |-> d.key, created |-> d.at, updated |-> d.at,
                       deadline |-> d.at + MaxExecution[home], started |-> None, completed |-> None,
                       attempt |-> 0, maxAttempts |-> m, reason |-> "none"]
    <2>1. /\ jobs[j].status = "absent" /\ jobs' = [jobs EXCEPT ![j] = job]
          /\ tenantQueues' = [tenantQueues EXCEPT ![home] = Append(@, j)] /\ revision' = revision + 1
      BY <1>6 DEF EnqueuePaasJob, Pushed
    <2>2. home \in Tenants /\ job.status = "queued"
      BY DecisionFacts DEF IInv
    <2> HIDE DEF home, job
    <2> QED
      BY <1>4, <2>1, <2>2
  <1>7. ASSUME NEW r \in reports, RetryPaasJob(r)
        PROVE  QueueStep(t)
    <2> DEFINE old == jobs[r.job]
               job == [old EXCEPT !.status = "queued", !.updated = r.at, !.started = None]
    <2>1. /\ old.status = "running" /\ jobs' = [jobs EXCEPT ![r.job] = job]
          /\ tenantQueues' = [tenantQueues EXCEPT ![old.tenant] = Append(@, r.job)] /\ revision' = revision + 1
      BY <1>7 DEF RetryPaasJob, Pushed, ReportAdmitted
    <2>2. r.job \in Jobs
      BY <1>1, ReportFacts
    <2>3. old \in JobType
      BY <1>1, <2>2 DEF TypeOK
    <2>4. old.tenant \in Tenants /\ job.status = "queued"
      BY <2>3 DEF JobType
    <2>5. jobs[r.job].status # "queued"
      BY <2>1
    <2> HIDE DEF old, job
    <2> QED
      BY <1>4, <2>1, <2>2, <2>4, <2>5
  <1>8. ASSUME NEW d \in decisions, NEW j \in Jobs, CancelQueuedPaasJob(d, j)
        PROVE  QueueStep(t)
    <2>1. tenantQueues' = [tenantQueues EXCEPT ![jobs[j].tenant] = Without(@, {j})]
      BY <1>8 DEF CancelQueuedPaasJob
    <2>2. CASE t = jobs[j].tenant
      BY <1>1, <1>3, <2>1, <2>2 DEF TypeOK
    <2>3. CASE t # jobs[j].tenant
      BY <1>1, <1>2, <2>1, <2>3 DEF TypeOK
    <2> QED
      BY <2>2, <2>3
  <1>9. ASSUME NEW now, SweepExpiredPaasJobs(now)
        PROVE  QueueStep(t)
    <2> tenantQueues' = RetainedQueues(ExpiredQueued(now))
      BY <1>9 DEF SweepExpiredPaasJobs
    <2> QED
      BY <1>3 DEF RetainedQueues
  <1>10. ASSUME NEW now, NEW n, ScheduleBegin(now, n)
         PROVE  QueueStep(t)
    <2> tenantQueues' = RetainedQueues(ExpiredQueued(now))
      BY <1>10 DEF ScheduleBegin
    <2> QED
      BY <1>3 DEF RetainedQueues
  <1>11. CASE ScheduleStart
    <2> DEFINE home == nextEligibleTenant
    <2>1. tenantQueues' = [tenantQueues EXCEPT ![home] = Tail(@)] /\ EligibleOffsets # {}
      BY <1>11 DEF ScheduleStart, LoopContinues, MayStart
    <2>2. home \in Tenants /\ tenantQueues[home] # << >>
      BY <1>1, <2>1, HeadFacts
    <2> HIDE DEF home
    <2>3. CASE t = home
      BY <1>1, <2>1, <2>2, <2>3, TailIsThinned DEF QueueStep, TypeOK
    <2>4. CASE t # home
      BY <1>1, <1>2, <2>1, <2>4 DEF TypeOK
    <2> QED
      BY <2>3, <2>4
  <1>12. CASE Environment \/ ScheduleEnd \/ UNCHANGED vars
    <2> UNCHANGED tenantQueues
      BY <1>12 DEF Environment, Tick, Authorize, WorkerFinishes, WorkerCrashes, SandboxCleaned, ScheduleEnd,
                   vars, snapshot
    <2> QED
      BY <1>5
  <1>13. ASSUME NEW r \in reports, FailPaasJob(r) \/ SucceedPaasJob(r) \/ AcknowledgePaasJobCancellation(r)
         PROVE  QueueStep(t)
    BY <1>5, <1>13 DEF FailPaasJob, SucceedPaasJob, AcknowledgePaasJobCancellation
  <1>14. ASSUME NEW d \in decisions, NEW j \in Jobs, CancelRunningPaasJob(d, j)
         PROVE  QueueStep(t)
    BY <1>5, <1>14 DEF CancelRunningPaasJob
  <1> HIDE DEF q
  <1>15. CASE Command
    BY <1>6, <1>7, <1>8, <1>9, <1>10, <1>13, <1>14, <1>15 DEF Command
  <1> QED
    BY <1>11, <1>12, <1>15 DEF Next

(* The revision counts accepted transitions. *)
LEMMA RevisionGrows ==
    ASSUME TypeOK, [Next]_vars
    PROVE  revision' \in Nat /\ revision' >= revision
  <1>1. revision \in Nat
    BY DEF TypeOK
  <1>2. revision' = revision \/ revision' = revision + 1
    BY DEF Next, Environment, Tick, Authorize, WorkerFinishes, WorkerCrashes, SandboxCleaned, Command,
           EnqueuePaasJob, ScheduleBegin, RetryPaasJob, FailPaasJob, SucceedPaasJob,
           AcknowledgePaasJobCancellation, CancelQueuedPaasJob, CancelRunningPaasJob, SweepExpiredPaasJobs,
           ScheduleStart, ScheduleEnd, vars, snapshot
  <1> QED
    BY <1>1, <1>2

(* No job arrived after the current revision, so one that joins a queue    *)
(* now arrives after all the others.                                       *)
ArrivalsPast == arrival \in [Jobs -> Nat] /\ \A j \in Jobs : arrival[j] <= revision

FInv == IInv /\ ArrivalsPast /\ FifoPerTenant

(* Initially the queues are empty. *)
LEMMA FifoInit == HInit => FInv
  <1> SUFFICES ASSUME HInit
               PROVE  FInv
    OBVIOUS
  <1>1. Init /\ IInv
    BY InvInit DEF HInit
  <1>2. ArrivalsPast
    BY DEF HInit, Init, ArrivalsPast
  <1>3. FifoPerTenant
    BY <1>1 DEF FifoPerTenant, Init
  <1> QED
    BY <1>1, <1>2, <1>3 DEF FInv

(* A step that records arrivals keeps the queues in their order. *)
LEMMA FifoKept ==
    ASSUME FInv, [Next]_vars, RecordArrival
    PROVE  ArrivalsPast' /\ FifoPerTenant'
  <1>1. /\ IInv /\ TypeOK /\ QueuesConsistent /\ FifoPerTenant
        /\ arrival \in [Jobs -> Nat] /\ \A j \in Jobs : arrival[j] <= revision
    BY DEF FInv, IInv, TInv, ArrivalsPast
  <1>2. revision \in Nat /\ revision' \in Nat /\ revision' >= revision
    BY <1>1, RevisionGrows DEF TypeOK
  <1>3. \A j \in Jobs : arrival'[j] = IF jobs[j].status # "queued" /\ jobs'[j].status = "queued"
                                      THEN revision' ELSE arrival[j]
    BY DEF RecordArrival
  <1>4. ArrivalsPast'
    <2>1. arrival' \in [Jobs -> Nat]
      BY <1>1, <1>2 DEF RecordArrival
    <2>2. \A j \in Jobs : arrival[j] \in Nat
      BY <1>1
    <2> QED
      BY <1>1, <1>2, <1>3, <2>1, <2>2 DEF ArrivalsPast
  <1>5. ASSUME NEW t \in Tenants, NEW i \in 1 .. Len(tenantQueues[t])
        PROVE  /\ tenantQueues[t][i] \in Jobs
               /\ arrival'[tenantQueues[t][i]] = arrival[tenantQueues[t][i]]
               /\ arrival[tenantQueues[t][i]] \in Nat /\ arrival[tenantQueues[t][i]] <= revision
    <2>1. tenantQueues[t] \in Seq(Jobs)
      BY <1>1 DEF TypeOK
    <2>2. tenantQueues[t][i] \in Jobs
      BY <2>1, <1>5
    <2>3. jobs[tenantQueues[t][i]].status = "queued"
      BY <1>1, <1>5 DEF QueuesConsistent
    <2> QED
      BY <1>1, <1>3, <2>2, <2>3
  <1>6. ASSUME NEW t \in Tenants, NEW i \in 1 .. Len(tenantQueues'[t]),
               NEW k \in 1 .. Len(tenantQueues'[t]), i < k
        PROVE  arrival'[tenantQueues'[t][i]] < arrival'[tenantQueues'[t][k]]
    <2> DEFINE q == tenantQueues[t]
               w == tenantQueues'[t]
    <2>1. q \in Seq(Jobs)
      BY <1>1 DEF TypeOK
    <2>2. \A a, b \in 1 .. Len(q) : a < b => arrival'[q[a]] < arrival'[q[b]]
      BY <1>1, <1>5 DEF FifoPerTenant
    <2>3. CASE Thinned(w, q)
      <3>1. PICK pos \in [1 .. Len(w) -> 1 .. Len(q)] :
                   /\ \A a \in 1 .. Len(w) : w[a] = q[pos[a]]
                   /\ \A a, b \in 1 .. Len(w) : a < b => pos[a] < pos[b]
        BY <2>3 DEF Thinned
      <3>2. pos[i] \in 1 .. Len(q) /\ pos[k] \in 1 .. Len(q) /\ pos[i] < pos[k]
        BY <1>6, <3>1
      <3> QED
        BY <1>6, <2>2, <3>1, <3>2
    <2>4. CASE Joined(w, q)
      <3>1. PICK j \in Jobs : /\ w = Append(q, j) /\ jobs[j].status # "queued"
                              /\ jobs'[j].status = "queued" /\ revision' = revision + 1
        BY <2>4 DEF Joined
      <3>2. /\ Len(w) = Len(q) + 1 /\ Len(q) \in Nat
            /\ \A a \in 1 .. Len(q) : w[a] = q[a]
            /\ w[Len(q) + 1] = j
        BY <2>1, <3>1
      <3>3. i \in 1 .. Len(q) /\ (k \in 1 .. Len(q) \/ k = Len(q) + 1)
        BY <1>6, <3>2
      <3>4. CASE k \in 1 .. Len(q)
        BY <1>6, <2>2, <3>2, <3>3, <3>4
      <3>5. CASE k = Len(q) + 1
        <4>1. arrival'[w[k]] = revision + 1
          BY <1>3, <3>1, <3>2, <3>5
        <4>2. arrival'[w[i]] \in Nat /\ arrival'[w[i]] <= revision
          BY <1>5, <3>2, <3>3
        <4> QED
          BY <1>2, <4>1, <4>2
      <3> QED
        BY <3>3, <3>4, <3>5
    <2> QED
      BY <1>1, <2>3, <2>4, QueueSteps DEF QueueStep
  <1> QED
    BY <1>4, <1>6 DEF FifoPerTenant

(* Every step keeps the queues in the order of arrival. *)
LEMMA FifoStep == FInv /\ [HNext]_<<vars, historyVars>> => FInv'
  <1> SUFFICES ASSUME FInv, [HNext]_<<vars, historyVars>>
               PROVE  FInv'
    OBVIOUS
  <1>1. [Next]_vars
    BY DEF HNext
  <1>2. IInv'
    BY <1>1, InvStep DEF FInv
  <1>3. CASE HNext
    BY <1>1, <1>2, <1>3, FifoKept DEF HNext, FInv
  <1>4. CASE UNCHANGED <<vars, historyVars>>
    <2>1. UNCHANGED <<revision, tenantQueues, arrival>>
      BY <1>4 DEF vars, snapshot, historyVars
    <2> QED
      BY <1>2, <2>1 DEF FInv, ArrivalsPast, FifoPerTenant
  <1> QED
    BY <1>3, <1>4

(***************************************************************************)
(* Every tenant's queue is in the order in which its jobs entered it, for  *)
(* any number of tenants and jobs and whatever retries, expiries,          *)
(* cancellations and starts take jobs out in between (tenantQueues of      *)
(* paasControlState.ts).                                                   *)
(***************************************************************************)
THEOREM QueuesAreFifo == HSpec => []FifoPerTenant
  <1>1. FInv => FifoPerTenant
    BY DEF FInv
  <1> QED
    BY <1>1, FifoInit, FifoStep, PTL DEF HSpec
=============================================================================

-------------------------- MODULE DeploymentAdmission --------------------------
(***************************************************************************)
(* The admission of deployments (src/src/core/runtimeDeploymentAdmission.ts)*)
(* on the evidence of two observers.  Several admission replicas verify    *)
(* signed evidence, redeem it in the replay store they share, keep the     *)
(* decisions in their own memory and admit a deployment on them.  Catalog, *)
(* registry and handoff may change, evidence may be revoked and a replica  *)
(* may restart between any two of these steps.  Verification runs without  *)
(* awaiting anything, but the store is shared: its checks and its          *)
(* redemption are two steps.                                               *)
(***************************************************************************)
EXTENDS CloudContextVerification, PostgresAccess

CONSTANTS
    Replicas,           \* admission processes
    Lifetimes,          \* how long the observers let their evidence live
    ObservationAges,    \* how old an observation is when it is signed
    ResolutionLives,    \* how long a resolver's answer lives
    MaxEvidence,        \* bound on the evidence signed
    MaxChanges,         \* bound on changes, revocations and restarts
    MaxAdmissionTime    \* bound on the clock, in half seconds

ASSUME LifetimesAssumption == Lifetimes \subseteq Nat /\ ResolutionLives \subseteq Nat
ASSUME SomethingIsAccepted ==
    AcceptedCatalogs # {} /\ AcceptedHandoffs # {} /\ AcceptedRegistries # {}

VARIABLES
    catalogNow,    \* the catalog in force
    registryNow,   \* the resolver registry in force
    handoffNow,    \* the handoff in force
    signed,     \* evidence in circulation
    lineage,    \* what the hosts hold as the last observation of each kind
    revoked,    \* revoked evidence ids and keys
    evidenceUsed, \* the replay store: evidence ids used
    checked,    \* evidence a replica has checked and not yet redeemed
    decisions,  \* the authentic decisions in a replica's memory
    granted,    \* ghost: how many decisions came of a piece of evidence
    admitted,   \* the last admission of a replica
    wallClock,      \* half seconds
    changes

admissionVars ==
    <<catalogNow, registryNow, handoffNow, signed, lineage, revoked, evidenceUsed, checked,
      decisions, granted, admitted, wallClock, changes>>
replicaVars == <<evidenceUsed, checked, decisions, granted, admitted, lineage>>
hostVars == <<catalogNow, registryNow, handoffNow, revoked, wallClock, changes>>

Kinds == {"cloud", "postgres"}
NotChecking == [evidence |-> NoEvidence]
NotAdmitted == [rests |-> {}]

InitAdmission ==
    /\ catalogNow = CHOOSE c \in AcceptedCatalogs : TRUE
    /\ registryNow = CHOOSE g \in AcceptedRegistries : TRUE
    /\ handoffNow = CHOOSE h \in AcceptedHandoffs : TRUE
    /\ signed = {}
    /\ lineage = [k \in Kinds |-> NoEvidence]
    /\ revoked = [ids |-> {}, keys |-> {}]
    /\ evidenceUsed = {}
    /\ checked = [r \in Replicas |-> NotChecking]
    /\ decisions = [r \in Replicas |-> {}]
    /\ granted = [e \in 1 .. MaxEvidence |-> 0]
    /\ admitted = [r \in Replicas |-> NotAdmitted]
    /\ wallClock = 2
    /\ changes = 0

-----------------------------------------------------------------------------
(* The observers *)

Fresh == Cardinality(signed) + 1

\* The generation of a binding the hosts know of: the catalog's.
GenerationOf(binding) ==
    LET known == {b \in AllBindings(Catalogs[catalogNow]) : b.id = binding}
    IN IF known = {} THEN 1 ELSE (CHOOSE b \in known : TRUE).status.generation

\* The whole dispatch set is authorized before the first resolver is called.
DispatchAuthorized(q) == <<q, registryNow>> \in AuthorizedDispatches

\* resolveReference: the answer names its request and its resolver and lives
\* long enough.
resolveReference(q, resolution, expires) ==
    assertResolutionLifetime(resolution, ResolutionTtls(Closures[q], Registries[registryNow]), wallClock, expires)

CloudEvidence(q, expires, resolution, key) ==
    [id |-> Fresh, type |-> "cloud", selection |-> q[2], environment |-> Catalogs[catalogNow].environment,
     catalog |-> cloudContextCatalogDesiredStateDigest[catalogNow], placement |-> placementDigest[q],
     observations |-> cloudContextDependencyClosureDigest[q], registry |-> registryNow,
     policy |-> AdmissionPolicy, issued |-> wallClock, expires |-> expires, key |-> key,
     previous |-> lineage["cloud"], resolution |-> resolution]

\* createCloudContextObservationEvidence.  One reference whose resolution does
\* not live long enough ends the attempt without evidence; resolvers only read.
ObserveCloud(s) ==
    /\ Fresh \in 1 .. MaxEvidence
    /\ <<catalogNow, s>> \in Derivations
    /\ DispatchAuthorized(<<catalogNow, s>>)
    /\ \E life \in Lifetimes, resolutionLife \in ResolutionLives, t \in TrustedVerifiers :
           LET q == <<catalogNow, s>>
               expires == wallClock + life
               resolution == [resolved |-> wallClock, expires |-> wallClock + resolutionLife]
           IN /\ resolveReference(q, resolution, expires)
              /\ signed' = signed \cup {CloudEvidence(q, expires, resolution, t.key)}
    /\ UNCHANGED <<replicaVars, hostVars>>

PostgresEvidence(p, expires, observed, key) ==
    [id |-> Fresh, type |-> "postgres",
     kind |-> IF Profiles[p].class = "runtime" THEN "Deployment" ELSE "Job",
     class |-> Profiles[p].class, binding |-> Profiles[p].binding, profile |-> p, handoff |-> handoffNow,
     generation |-> GenerationOf(Profiles[p].binding), previous |-> lineage["postgres"],
     observations |-> SubjectDigest[<<handoffNow, Profiles[p].class>>],
     proofs |-> Expected[Profiles[p].binding], observed |-> observed, issued |-> wallClock,
     expires |-> expires, key |-> key]

\* signPostgresAccessObservationEvidence: the access in force is observed and
\* signed; only what its own parser accepts is signed.
ObservePostgres(p) ==
    /\ Fresh \in 1 .. MaxEvidence
    /\ \E life \in Lifetimes, form \in {"full", "short"}, t \in TrustedObservers, age \in ObservationAges :
           LET e == PostgresEvidence(p, [at |-> wallClock + life, form |-> form], wallClock - age, t.key)
           IN parseUnsigned(e) /\ signed' = signed \cup {e}
    /\ UNCHANGED <<replicaVars, hostVars>>

-----------------------------------------------------------------------------
(* The replicas *)

\* A decision keeps what admission reads of it.
CloudDecision(e) ==
    [type |-> "cloud", evidence |-> e.id, evaluated |-> wallClock,
     expires |-> [at |-> e.expires, form |-> "full"], selection |-> e.selection,
     placed |-> selectedPlacement(Catalogs[e.placement[1]], e.placement[2]).bindings,
     bindings |-> BindingsIn(Closures[e.observations])]

PostgresDecision(e) ==
    [type |-> "postgres", evidence |-> e.id, evaluated |-> wallClock, expires |-> e.expires,
     binding |-> e.binding, class |-> e.class]

\* assertDeployableCloudContextPlacement: every check but the redemption.
CheckCloud(r, e) ==
    /\ checked[r] = NotChecking
    /\ e.type = "cloud"
    /\ \E s \in Selections :
           CloudEvidenceAccepted(e, s, catalogNow, registryNow, lineage["cloud"], revoked, wallClock)
    /\ checked' = [checked EXCEPT ![r] = CloudDecision(e)]
    /\ UNCHANGED <<signed, evidenceUsed, decisions, granted, admitted, lineage, hostVars>>

\* verifyPostgresAccessObservationEvidence: every check but the redemption.
CheckPostgres(r, e) ==
    /\ checked[r] = NotChecking
    /\ e.type = "postgres"
    /\ \E p \in AcceptedProfiles :
           PostgresEvidenceAccepted(e, p, handoffNow, GenerationOf(Profiles[p].binding),
                                    lineage["postgres"], revoked, wallClock)
    /\ checked' = [checked EXCEPT ![r] = PostgresDecision(e)]
    /\ UNCHANGED <<signed, evidenceUsed, decisions, granted, admitted, lineage, hostVars>>

\* Variant: a replica remembers by itself what it has redeemed.
Redeems_Remembered(r) == checked[r].evidence \notin {d.evidence : d \in decisions[r]}

\* The replay store takes a piece of evidence once, whoever brings it.
Redeems(r) == checked[r].evidence \notin evidenceUsed

\* The last step of a verification: the decision, or a replay refused.
RedeemEvidence(r) ==
    /\ checked[r] # NotChecking
    /\ LET d == checked[r]
       IN /\ evidenceUsed' = evidenceUsed \cup {d.evidence}
          /\ IF Redeems(r)
             THEN /\ decisions' = [decisions EXCEPT ![r] = @ \cup {d}]
                  /\ granted' = [granted EXCEPT ![d.evidence] = @ + 1]
                  /\ lineage' = [lineage EXCEPT ![d.type] = d.evidence]
             ELSE UNCHANGED <<decisions, granted, lineage>>
    /\ checked' = [checked EXCEPT ![r] = NotChecking]
    /\ UNCHANGED <<signed, admitted, hostVars>>

\* Variant: admission reads a timestamp as verification does.
AdmissionTimestamp_Verification(t) == WellWritten(t)

\* timestamp: admission reads a time only in its full form.
AdmissionTimestamp(t) == t.form = "full"

\* assertActiveDecision
assertActiveDecision(d) ==
    AdmissionTimestamp(d.expires) /\ d.evaluated <= wallClock /\ wallClock < d.expires.at

\* The order of the strings: within one second the form without a fraction
\* comes after every form with one.
Precedes(t, u) ==
    \/ t.at \div 2 < u.at \div 2
    \/ /\ t.at \div 2 = u.at \div 2
       /\ \/ t.form = "full" /\ (u.form = "short" \/ t.at <= u.at)
          \/ t.form = u.form /\ t.form = "short"

\* expiresAt: the first of the sorted expiries.
EarliestExpiry(ds) ==
    LET times == {d.expires : d \in ds} IN CHOOSE t \in times : \A u \in times : Precedes(t, u)

\* assertRuntimeDeploymentAdmission
Admit(r, c, ps) ==
    /\ c.type = "cloud"
    /\ assertActiveDecision(c)
    /\ c.bindings = c.placed
    /\ \A p \in ps : p.type = "postgres" /\ assertActiveDecision(p) /\ p.class = "runtime"
    /\ \A p, q \in ps : p.binding = q.binding => p = q
    /\ {p.binding : p \in ps} = c.bindings
    /\ admitted' = [admitted EXCEPT ![r] =
                       [rests |-> {d.evidence : d \in {c} \cup ps}, request |-> c.selection.request,
                        expires |-> EarliestExpiry({c} \cup ps)]]
    /\ UNCHANGED <<signed, evidenceUsed, checked, decisions, granted, lineage, hostVars>>

-----------------------------------------------------------------------------
(* What happens around them *)

\* A catalog comes into force when its parser accepts it.
ChangeCatalog(c) ==
    /\ changes < MaxChanges
    /\ c # catalogNow
    /\ c \in AcceptedCatalogs
    /\ catalogNow' = c
    /\ changes' = changes + 1
    /\ UNCHANGED <<signed, replicaVars, registryNow, handoffNow, revoked, wallClock>>

ChangeRegistry(g) ==
    /\ changes < MaxChanges
    /\ g # registryNow
    /\ g \in AcceptedRegistries
    /\ registryNow' = g
    /\ changes' = changes + 1
    /\ UNCHANGED <<signed, replicaVars, catalogNow, handoffNow, revoked, wallClock>>

ChangeHandoff(h) ==
    /\ changes < MaxChanges
    /\ h # handoffNow
    /\ h \in AcceptedHandoffs
    /\ handoffNow' = h
    /\ changes' = changes + 1
    /\ UNCHANGED <<signed, replicaVars, catalogNow, registryNow, revoked, wallClock>>

Revoke(e) ==
    /\ changes < MaxChanges
    /\ revoked' \in {[revoked EXCEPT !.ids = @ \cup {e.id}], [revoked EXCEPT !.keys = @ \cup {e.key}]}
    /\ changes' = changes + 1
    /\ UNCHANGED <<signed, replicaVars, catalogNow, registryNow, handoffNow, wallClock>>

\* The decisions of a process are authentic in that process alone.
RestartReplica(r) ==
    /\ changes < MaxChanges
    /\ checked[r] # NotChecking \/ decisions[r] # {}
    /\ checked' = [checked EXCEPT ![r] = NotChecking]
    /\ decisions' = [decisions EXCEPT ![r] = {}]
    /\ admitted' = [admitted EXCEPT ![r] = NotAdmitted]
    /\ changes' = changes + 1
    /\ UNCHANGED <<signed, evidenceUsed, granted, lineage, catalogNow, registryNow, handoffNow,
                   revoked, wallClock>>

AdmissionTick ==
    /\ wallClock < MaxAdmissionTime
    /\ wallClock' = wallClock + 1
    /\ UNCHANGED <<signed, replicaVars, catalogNow, registryNow, handoffNow, revoked, changes>>

NextAdmission ==
    \/ \E s \in Selections : ObserveCloud(s)
    \/ \E p \in DOMAIN Profiles : ObservePostgres(p)
    \/ \E r \in Replicas, e \in signed : CheckCloud(r, e)
    \/ \E r \in Replicas, e \in signed : CheckPostgres(r, e)
    \/ \E r \in Replicas : RedeemEvidence(r)
    \/ \E r \in Replicas : \E c \in decisions[r], ps \in SUBSET decisions[r] : Admit(r, c, ps)
    \/ \E c \in DOMAIN Catalogs : ChangeCatalog(c)
    \/ \E g \in DOMAIN Registries : ChangeRegistry(g)
    \/ \E h \in DOMAIN Handoffs : ChangeHandoff(h)
    \/ \E e \in signed : Revoke(e)
    \/ \E r \in Replicas : RestartReplica(r)
    \/ AdmissionTick

SpecAdmission == InitAdmission /\ [][NextAdmission]_admissionVars

-----------------------------------------------------------------------------
(* Properties *)

\* A piece of evidence leads to one decision at most, however many replicas
\* verify it at once and whatever they forget in a restart (redeem is the
\* last step of both verifications).
EvidenceDecidesOnce == \A e \in DOMAIN granted : granted[e] <= 1

\* An admission ends no later than any evidence or any resolution it rests
\* on: expiresAt is the first of the expiries sorted as strings, and the
\* resolutions outlive the evidence that carries them.
AdmissionOutlivesNothing ==
    \A r \in Replicas : \A e \in {x \in signed : x.id \in admitted[r].rests} :
        IF e.type = "cloud"
        THEN admitted[r].expires.at <= e.expires /\ admitted[r].expires.at <= e.resolution.expires
        ELSE admitted[r].expires.at <= e.expires.at

\* One placement to find, one item behind every dependency key (a second one
\* would be dropped unseen), every binding in the placement's own context.
HasOneClosure(c, s) ==
    LET found == PlacementsOf(Catalogs[c], s)
    IN /\ \A p, q \in found : p = q
       /\ \A p \in found :
              LET inputs == DependencyInputs(Catalogs[c], p)
              IN /\ \A d, e \in inputs : d.key = e.key => d = e
                 /\ \A d \in inputs : d.key[2] = "resource-binding" => d.key[1] = p.context

Unambiguous == {c \in AcceptedCatalogs : \A s \in Selections : HasOneClosure(c, s)}

\* A catalog in force yields exactly one closure for every selection, so the
\* observer and every verifier derive the same dependencies from it.
AcceptedCatalogsDerive == catalogNow \in Unambiguous
=============================================================================

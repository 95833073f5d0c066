---------------------------- MODULE PostgresAccess ----------------------------
(***************************************************************************)
(* Access to a managed PostgreSQL binding: the handoff its infrastructure  *)
(* publishes (src/src/core/awsDatabaseInfrastructureHandoff.ts), the       *)
(* profile of one access class (src/src/core/postgresAccessProfile.ts) and *)
(* when signed evidence that the access is ready is accepted               *)
(* (src/src/core/postgresAccessObservation.ts).  Times are half seconds,   *)
(* and a timestamp keeps the form it is written in.                        *)
(***************************************************************************)
EXTENDS Integers, FiniteSets

CONSTANTS
    Handoffs,           \* database handoffs somebody may publish, by name
    Profiles,           \* access profiles, by name
    TrustedObservers,   \* the verifiers whose observations are accepted
    Expected            \* the authority, bootstrap and probe proofs expected of a binding

accessClasses == {"runtime", "migration", "bootstrap"}
Persistent == {"runtime", "migration"}
NoAssociation == "null"
NoEvidence == 0

ObservationKeys ==
    {"namespace", "serviceAccount", "admissionPolicy", "applicationNetworkPolicy", "nodeClass",
     "nodePool", "podIdentityAssociation"}
Namespaced == {"serviceAccount", "applicationNetworkPolicy"}
\* The manifests that share the one name their binding and class manage.
Managed == {"admissionPolicy", "applicationNetworkPolicy", "nodeClass", "nodePool"}

ManagedName(binding, class) == <<binding, class, "access">>

\* timestamp: whole seconds may be written without their fraction.
WellWritten(t) == t.form \in {"full", "short"} /\ (t.form = "short" => t.at % 2 = 0)

-----------------------------------------------------------------------------
(* The handoff *)

HandoffLiterals ==
    {"owner", "authorizedConsumer", "applicationMutationAllowed", "state", "directPodCreationAllowed",
     "namespaceWriteAccess", "allowedWorkloadKinds", "requiredActorEvidence", "readiness"}

\* assertManifestIdentity: every manifest names what the entry says.
assertManifestIdentity(entry, binding, class) ==
    LET m == entry.manifests
    IN /\ m["namespace"].name = entry.namespace
       /\ m["serviceAccount"].name = entry.serviceAccount
       /\ \A k \in Namespaced : m[k].namespace = entry.namespace
       /\ entry.annotation = entry.bindingDigest
       /\ \A k \in Managed : m[k].name = ManagedName(binding, class)
       /\ entry.selector = entry.toleration
       /\ entry.selector # {}

\* parseAwsDatabaseInfrastructureHandoff
parseAwsDatabaseInfrastructureHandoff(h) ==
    /\ h.credentialFree
    /\ h.literals = HandoffLiterals
    /\ DOMAIN h.classes = accessClasses
    /\ \A class \in accessClasses :
           LET entry == h.classes[class]
           IN /\ assertManifestIdentity(entry, h.binding, class)
              /\ entry.bundle = entry.manifests
              /\ entry.mode = IF class \in Persistent THEN "persistent" ELSE "just-in-time"
              /\ (entry.association # NoAssociation) = (class \in Persistent)

AcceptedHandoffs == {h \in DOMAIN Handoffs : parseAwsDatabaseInfrastructureHandoff(Handoffs[h])}

\* derivePostgresAccessObservationSubjects: what must be observed of a class.
derivePostgresAccessObservationSubjects(handoff, class) ==
    LET entry == handoff.classes[class]
    IN [k \in ObservationKeys |->
            IF k = "podIdentityAssociation"
            THEN [name |-> entry.association, namespace |-> NoAssociation,
                  spec |-> <<entry.association, entry.namespace, entry.serviceAccount>>]
            ELSE [name |-> entry.manifests[k].name,
                  namespace |-> IF k \in Namespaced THEN entry.namespace ELSE NoAssociation,
                  spec |-> entry.manifests[k]]]

\* The subjects of each handoff and class, by the name of their content.
AccessSubjects == [q \in AcceptedHandoffs \X Persistent |->
                derivePostgresAccessObservationSubjects(Handoffs[q[1]], q[2])]
SubjectDigest ==
    [q \in DOMAIN AccessSubjects |-> CHOOSE o \in DOMAIN AccessSubjects : AccessSubjects[o] = AccessSubjects[q]]

-----------------------------------------------------------------------------
(* The profile *)

PendingBlockers ==
    {"DATABASE_ACCESS_BUNDLE_NOT_OBSERVED", "DATABASE_DEPLOYMENT_AUTHORITY_NOT_OBSERVED",
     "POSTGRES_SQL_BOOTSTRAP_EVIDENCE_REQUIRED"}

ProfileLiterals ==
    {"port", "tlsMode", "authentication", "tokenDelivery", "exposure", "sourceBoundaryMode", "state",
     "ready", "credentials"}

\* postgresAccessProfileSpecDigest: everything but its own digest and readiness.
postgresAccessProfileSpecDigest(p) ==
    [f \in DOMAIN p \ {"digest", "blockers"} |-> p[f]]

assertSemantics(p) ==
    /\ p.id = <<p.binding, p.class>>
    /\ p.module = p.component
    /\ p.annotation = p.bindingDigest
    /\ p.blockers = PendingBlockers
    /\ p.digest = postgresAccessProfileSpecDigest(p)

\* parsePostgresAccessProfile: private, verified TLS, an IAM token, no
\* credential, not ready; never the bootstrap class.
parsePostgresAccessProfile(p) ==
    p.class \in Persistent /\ p.literals = ProfileLiterals /\ assertSemantics(p)

AcceptedProfiles == {p \in DOMAIN Profiles : parsePostgresAccessProfile(Profiles[p])}

\* The profile and the handoff speak of one workload and one bundle.
ProfileMatchesHandoff(p, h) ==
    LET entry == h.classes[p.class]
    IN /\ entry.namespace = p.namespace
       /\ entry.serviceAccount = p.serviceAccount
       /\ entry.association = p.association
       /\ entry.bindingDigest = p.bindingDigest
       /\ entry.bundle = p.bundle

-----------------------------------------------------------------------------
(* Evidence *)

\* The bootstrap identity was activated, used and removed in that order,
\* before the evidence was issued.
BootstrapOrdered(e) ==
    /\ e.proofs.activated < e.proofs.completed
    /\ e.proofs.completed <= e.proofs.removed
    /\ e.proofs.removed <= e.issued

\* parseObservations: nothing is observed after it is signed.
parseObservations(e) == e.observed <= e.issued

\* parseUnsigned
parseUnsigned(e) ==
    /\ e.class \in Persistent
    /\ WellWritten(e.expires)
    /\ e.issued < e.expires.at
    /\ BootstrapOrdered(e)
    /\ e.kind = IF e.class = "runtime" THEN "Deployment" ELSE "Job"
    /\ e.generation >= 1
    /\ parseObservations(e)

\* uniqueTrustedVerifier.  A key stands for the verifier that holds it: its
\* id and version, its binary, policy and schema, and its signatures.
UniqueTrustedObserver(e) == Cardinality({t \in TrustedObservers : t.key = e.key}) = 1

ObserverOf(e) == CHOOSE t \in TrustedObservers : t.key = e.key

\* The evidence is about this profile and this handoff, and they agree.
SubjectBound(e, p, h) ==
    /\ e.profile = p
    /\ e.class = Profiles[p].class
    /\ e.handoff = h
    /\ ProfileMatchesHandoff(Profiles[p], Handoffs[h])

\* One trusted verifier, not revoked, that may speak of this access.
ObserverTrusted(e, revocations) ==
    /\ UniqueTrustedObserver(e)
    /\ e.id \notin revocations.ids
    /\ e.key \notin revocations.keys
    /\ e.binding \in ObserverOf(e).bindings
    /\ e.class \in ObserverOf(e).classes

\* In force now, no longer than allowed, on observations that are not stale.
ObservedInTime(e, time) ==
    /\ e.issued <= time
    /\ time < e.expires.at
    /\ e.expires.at - e.issued <= ObserverOf(e).ttl
    /\ time - e.observed <= ObserverOf(e).age

\* The authority, bootstrap and probe proofs are the ones expected, and the
\* bootstrap identity was not active too long.
ProofsMatch(e) ==
    /\ e.proofs = Expected[e.binding]
    /\ e.proofs.removed - e.proofs.activated <= ObserverOf(e).activation

\* verifyPostgresAccessObservationEvidence, up to the redemption of the evidence.
PostgresEvidenceAccepted(e, p, h, generation, previous, revocations, time) ==
    /\ parseUnsigned(e)
    /\ h \in AcceptedHandoffs
    /\ SubjectBound(e, p, h)
    /\ e.generation = generation
    /\ e.previous = previous
    /\ ObserverTrusted(e, revocations)
    /\ ObservedInTime(e, time)
    /\ e.observations = SubjectDigest[<<h, Profiles[p].class>>]
    /\ ProofsMatch(e)
=============================================================================

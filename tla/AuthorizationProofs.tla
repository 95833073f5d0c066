-------------------------- MODULE AuthorizationProofs --------------------------
(***************************************************************************)
(* What authorizes work authorizes it once, and is never used up for       *)
(* nothing: the capabilities and approvals of infrastructure operations,   *)
(* the evidence behind deployments and the capabilities of PaaS jobs.      *)
(* For any number of hosts, replicas and gateways, whatever they have read *)
(* before the shared store changed and wherever they stop.                 *)
(***************************************************************************)
EXTENDS InfrastructureRequests, DeploymentAdmission, PaasGateway, FiniteSetTheorems,
        WellFoundedInduction, TLAPS

-----------------------------------------------------------------------------
(* Numbers *)

(* A set of natural numbers has a least one. *)
LEMMA LeastNatural ==
    ASSUME NEW T \in SUBSET Nat, T # {}
    PROVE  \E m \in T : \A n \in T : m <= n
  <1>1. IsWellFoundedOn(OpToRel(<, Nat), Nat)
    BY NatLessThanWellFounded
  <1>2. PICK R : R = OpToRel(<, Nat)
    OBVIOUS
  <1>3. \A m, n \in Nat : m < n => <<m, n>> \in R
    BY <1>2 DEF OpToRel
  <1>4. PICK m \in T : \A n \in T : ~(<<n, m>> \in R)
    BY <1>1, <1>2, WFMin
  <1>5. ASSUME NEW n \in T PROVE m <= n
    <2>1. m \in Nat /\ n \in Nat
      OBVIOUS
    <2>2. ~(n < m)
      BY <1>3, <1>4, <1>5, <2>1
    <2> QED
      BY <2>1, <2>2
  <1> QED
    BY <1>5

(* The first of some positions is one of them, and none comes before it. *)
LEMMA FirstIsLeast ==
    ASSUME NEW positions \in SUBSET Nat, positions # {}
    PROVE  First(positions) \in positions /\ \A j \in positions : First(positions) <= j
  BY LeastNatural DEF First

-----------------------------------------------------------------------------
(* Evidence behind deployments *)

(* The inductive invariant: EvidenceDecidesOnce does not say that what led *)
(* to a decision is in the replay store, which is what stops a second one. *)
EvidenceInv ==
    /\ granted \in [1 .. MaxEvidence -> Nat]
    /\ \A e \in 1 .. MaxEvidence : granted[e] = 0 \/ (granted[e] = 1 /\ e \in evidenceUsed)

(* The redemption is the only step that decides. *)
LEMMA RedeemEvidenceStep ==
    ASSUME EvidenceInv, NEW r \in Replicas, RedeemEvidence(r)
    PROVE  EvidenceInv'
  <1>1. PICK used : used = checked[r].evidence
    OBVIOUS
  <1>2. evidenceUsed' = evidenceUsed \cup {used}
    BY <1>1 DEF RedeemEvidence
  <1>3. CASE used \in evidenceUsed
    <2>1. granted' = granted
      BY <1>1, <1>3 DEF RedeemEvidence, Redeems
    <2> QED
      BY <1>2, <2>1 DEF EvidenceInv
  <1>4. CASE used \notin evidenceUsed
    <2>1. granted' = [granted EXCEPT ![used] = @ + 1]
      BY <1>1, <1>4 DEF RedeemEvidence, Redeems
    <2>2. PICK ids : ids = 1 .. MaxEvidence
      OBVIOUS
    <2>3. granted \in [ids -> Nat] /\ \A e \in ids : granted[e] = 0 \/ (granted[e] = 1 /\ e \in evidenceUsed)
      BY <2>2 DEF EvidenceInv
    <2>4. granted' \in [ids -> Nat]
      <3>1. granted' = [e \in ids |-> IF e = used THEN granted[e] + 1 ELSE granted[e]]
        BY <2>1, <2>3, Zenon
      <3>2. \A e \in ids : granted[e] \in Nat /\ granted[e] + 1 \in Nat
        BY <2>3
      <3> QED
        BY <3>1, <3>2
    <2>5. ASSUME NEW e \in ids
          PROVE  granted'[e] = 0 \/ (granted'[e] = 1 /\ e \in evidenceUsed')
      <3>1. CASE e = used
        BY <1>2, <1>4, <2>1, <2>3, <3>1
      <3>2. CASE e # used
        BY <1>2, <2>1, <2>3, <3>2
      <3> QED
        BY <3>1, <3>2
    <2> QED
      BY <2>2, <2>4, <2>5 DEF EvidenceInv
  <1> QED
    BY <1>3, <1>4

(* Every other step leaves the replay store and the decisions counted. *)
LEMMA OtherAdmissionSteps ==
    ASSUME EvidenceInv, UNCHANGED <<granted, evidenceUsed>>
    PROVE  EvidenceInv'
  BY DEF EvidenceInv

(* Every step keeps the invariant. *)
LEMMA NextAdmissionInv == EvidenceInv /\ [NextAdmission]_admissionVars => EvidenceInv'
  <1> SUFFICES ASSUME EvidenceInv, [NextAdmission]_admissionVars PROVE EvidenceInv'
    OBVIOUS
  <1>1. ASSUME NEW s \in Selections, ObserveCloud(s) PROVE UNCHANGED <<granted, evidenceUsed>>
    BY <1>1 DEF ObserveCloud, replicaVars
  <1>2. ASSUME NEW p \in DOMAIN Profiles, ObservePostgres(p)
        PROVE  UNCHANGED <<granted, evidenceUsed>>
    BY <1>2 DEF ObservePostgres, replicaVars
  <1>3. ASSUME NEW r \in Replicas, NEW e \in signed, CheckCloud(r, e) \/ CheckPostgres(r, e)
        PROVE  UNCHANGED <<granted, evidenceUsed>>
    BY <1>3 DEF CheckCloud, CheckPostgres
  <1>4. ASSUME NEW r \in Replicas, NEW c \in decisions[r], NEW ps \in SUBSET decisions[r], Admit(r, c, ps)
        PROVE  UNCHANGED <<granted, evidenceUsed>>
    BY <1>4 DEF Admit
  <1>5. ASSUME NEW x, ChangeCatalog(x) \/ ChangeRegistry(x) \/ ChangeHandoff(x) \/ Revoke(x)
        PROVE  UNCHANGED <<granted, evidenceUsed>>
    BY <1>5 DEF ChangeCatalog, ChangeRegistry, ChangeHandoff, Revoke, replicaVars
  <1>6. ASSUME NEW r \in Replicas, RestartReplica(r) PROVE UNCHANGED <<granted, evidenceUsed>>
    BY <1>6 DEF RestartReplica
  <1>7. AdmissionTick \/ UNCHANGED admissionVars => UNCHANGED <<granted, evidenceUsed>>
    BY DEF AdmissionTick, replicaVars, admissionVars
  <1> QED
    BY <1>1, <1>2, <1>3, <1>4, <1>5, <1>6, <1>7, OtherAdmissionSteps, RedeemEvidenceStep
    DEF NextAdmission

(* However many replicas verify a piece of evidence at once, and whatever  *)
(* they forget when they restart, it leads to one decision at most.        *)
THEOREM EvidenceIsUsedOnce == SpecAdmission => []EvidenceDecidesOnce
  <1>1. InitAdmission => EvidenceInv
    BY DEF InitAdmission, EvidenceInv
  <1>2. SpecAdmission => []EvidenceInv
    BY <1>1, NextAdmissionInv, PTL DEF SpecAdmission
  <1>3. EvidenceInv => EvidenceDecidesOnce
    BY DEF EvidenceInv, EvidenceDecidesOnce
  <1> QED
    BY <1>2, <1>3, PTL

(* What is looked up by id is there, and ids are unique. *)
LEMMA LookedUp ==
    ASSUME NEW docs, NEW id, Has(docs, id)
    PROVE  ById(docs, id) \in docs /\ ById(docs, id).id = id
  BY DEF Has, ById

(* A binding that a placement may consume is located in the placement's    *)
(* context: ids of bindings are unique across contexts.                    *)
LEMMA BindingsAreLocal ==
    ASSUME NEW catalog, assertCloudContextCatalog(catalog), NEW p \in catalog.placements,
           NEW id \in p.bindings, NEW c, c = locateBinding(catalog, id),
           NEW b, b = ById(c.bindings, id)
    PROVE  c.id = p.context /\ b.id = id
  <1>1. PICK home \in catalog.contexts : home.id = p.context /\ \E x \in home.bindings : x.id = id
    BY DEF assertCloudContextCatalog, assertPlacements, assertPlacement, MayConsume
  <1>2. c \in catalog.contexts /\ Has(c.bindings, id)
    BY <1>1 DEF locateBinding, Has
  <1>3. b \in c.bindings /\ b.id = id
    BY <1>2, LookedUp
  <1>4. PICK x \in home.bindings : x.id = id
    BY <1>1
  <1>5. PICK all : all = UNION {{[id |-> y.id, context |-> z.id, binding |-> y] : y \in z.bindings} :
                                   z \in catalog.contexts}
    OBVIOUS
  <1>6. PICK u, v : u = [id |-> x.id, context |-> home.id, binding |-> x]
                    /\ v = [id |-> b.id, context |-> c.id, binding |-> b]
    OBVIOUS
  <1>7. u \in all /\ v \in all
    <2>1. \A z \in catalog.contexts : \A y \in z.bindings : [id |-> y.id, context |-> z.id, binding |-> y] \in all
      <3> DEFINE In(z) == {[id |-> y.id, context |-> z.id, binding |-> y] : y \in z.bindings}
      <3>1. all = UNION {In(z) : z \in catalog.contexts}
        BY <1>5
      <3>2. \A z : \A y \in z.bindings : [id |-> y.id, context |-> z.id, binding |-> y] \in In(z)
        OBVIOUS
      <3> HIDE DEF In
      <3>3. \A z \in catalog.contexts : \A r \in In(z) : r \in all
        BY <3>1
      <3> QED
        BY <3>2, <3>3
    <2> QED
      BY <1>1, <1>2, <1>3, <1>4, <1>6, <2>1, Zenon
  <1>8. UniqueIds(all)
    BY <1>5 DEF assertCloudContextCatalog
  <1>9. u.id = v.id
    BY <1>3, <1>4, <1>6
  <1>10. u = v
    BY <1>7, <1>8, <1>9 DEF UniqueIds
  <1>11. u.context = v.context
    BY <1>10
  <1> QED
    BY <1>1, <1>3, <1>6, <1>11

\* The dependencies of a placement, by what they are dependencies on.
OnContext(catalog, d) == \E c \in catalog.contexts : d = addContextDependency(c)
OnCapability(catalog, d) ==
    \E c \in catalog.contexts : \E kind \in CapabilityKinds : \E id : d = addCapabilityDependency(c, kind, id)
OnBinding(catalog, p, d) ==
    \E id \in p.bindings :
        d = addBindingDependency(locateBinding(catalog, id), ById(locateBinding(catalog, id).bindings, id))

(* Every dependency of a placement is on a context, a capability or a      *)
(* binding that the catalog has.                                           *)
LEMMA DependenciesAreKnown ==
    ASSUME NEW catalog, assertCloudContextCatalog(catalog), NEW p \in catalog.placements,
           NEW d \in DependencyInputs(catalog, p)
    PROVE  OnContext(catalog, d) \/ OnCapability(catalog, d) \/ OnBinding(catalog, p, d)
  <1>1. PICK c : c = ById(catalog.contexts, p.context)
    OBVIOUS
  <1>2. assertPlacement(p, catalog)
    BY DEF assertCloudContextCatalog, assertPlacements
  <1>3. c \in catalog.contexts
    BY <1>1, <1>2, LookedUp DEF assertPlacement
  <1>4. CASE d = addContextDependency(c)
    BY <1>3, <1>4 DEF OnContext
  <1>5. CASE \E kind \in CapabilityKinds \ {"dns"} : d = addCapabilityDependency(c, kind, p.capabilities[kind])
    BY <1>3, <1>5 DEF OnCapability
  <1>6. CASE \E id \in p.dns : d = addCapabilityDependency(c, "dns", id)
    <2>1. "dns" \in CapabilityKinds
      BY DEF CapabilityKinds
    <2> QED
      BY <1>3, <1>6, <2>1 DEF OnCapability
  <1>7. CASE OnBinding(catalog, p, d)
    BY <1>7
  <1>8. CASE \E x \in p.delegated :
                d \in {addContextDependency(ById(catalog.contexts, x.context)),
                       addCapabilityDependency(ById(catalog.contexts, x.context), "runtime", x.runtime)}
    <2>1. PICK x \in p.delegated :
                d \in {addContextDependency(ById(catalog.contexts, x.context)),
                       addCapabilityDependency(ById(catalog.contexts, x.context), "runtime", x.runtime)}
      BY <1>8
    <2>2. MayDelegate(x, catalog)
      BY <1>2, <2>1 DEF assertPlacement
    <2>3. Has(catalog.contexts, x.context)
      BY <2>2 DEF MayDelegate, Has
    <2>4. ById(catalog.contexts, x.context) \in catalog.contexts
      BY <2>3, LookedUp
    <2>5. "runtime" \in CapabilityKinds
      BY DEF CapabilityKinds
    <2> QED
      BY <2>1, <2>4, <2>5 DEF OnContext, OnCapability
  <1> QED
    BY <1>1, <1>4, <1>5, <1>6, <1>7, <1>8 DEF DependencyInputs, OnBinding

(* Two dependencies of one placement with one key are the same. *)
LEMMA KeysAreUnique ==
    ASSUME NEW catalog, assertCloudContextCatalog(catalog), NEW p \in catalog.placements,
           NEW d \in DependencyInputs(catalog, p), NEW e \in DependencyInputs(catalog, p),
           d.key = e.key
    PROVE  d = e
  <1>1. \A x, y \in catalog.contexts : x.id = y.id => x = y
    BY DEF assertCloudContextCatalog, UniqueIds
  <1>2. ASSUME NEW x, OnContext(catalog, x)
        PROVE  \E c \in catalog.contexts : x = addContextDependency(c) /\ x.key = <<c.id, "context", c.id>>
    <2>1. \A c : addContextDependency(c).key = <<c.id, "context", c.id>>
      BY DEF addContextDependency
    <2> QED
      BY <1>2, <2>1, Zenon DEF OnContext
  <1>3. ASSUME NEW x, OnCapability(catalog, x)
        PROVE  \E c \in catalog.contexts : \E kind \in CapabilityKinds : \E id :
                  x = addCapabilityDependency(c, kind, id) /\ x.key = <<c.id, kind, id>>
    BY <1>3 DEF OnCapability, addCapabilityDependency
  <1>4. ASSUME NEW x, OnBinding(catalog, p, x)
        PROVE  \E id \in p.bindings :
                  /\ x = addBindingDependency(locateBinding(catalog, id),
                                              ById(locateBinding(catalog, id).bindings, id))
                  /\ x.key = <<p.context, "resource-binding", id>>
    <2>1. PICK id \in p.bindings :
              x = addBindingDependency(locateBinding(catalog, id),
                                       ById(locateBinding(catalog, id).bindings, id))
      BY <1>4 DEF OnBinding
    <2>2. PICK c, b : c = locateBinding(catalog, id) /\ b = ById(c.bindings, id)
      OBVIOUS
    <2>3. c.id = p.context /\ b.id = id
      BY <2>2, BindingsAreLocal
    <2>4. x.key = <<c.id, "resource-binding", b.id>>
      BY <2>1, <2>2 DEF addBindingDependency
    <2> QED
      BY <2>1, <2>3, <2>4
  <1>5. \A x : OnContext(catalog, x) => x.key[2] = "context"
    BY <1>2
  <1>6. \A x : OnCapability(catalog, x) => x.key[2] \in CapabilityKinds
    BY <1>3
  <1>7. \A x : OnBinding(catalog, p, x) => x.key[2] = "resource-binding"
    BY <1>4
  <1>8. "context" \notin CapabilityKinds /\ "resource-binding" \notin CapabilityKinds
    BY DEF CapabilityKinds
  <1>9. CASE OnContext(catalog, d) /\ OnContext(catalog, e)
    <2>1. PICK c \in catalog.contexts : d = addContextDependency(c) /\ d.key = <<c.id, "context", c.id>>
      BY <1>2, <1>9
    <2>2. PICK f \in catalog.contexts : e = addContextDependency(f) /\ e.key = <<f.id, "context", f.id>>
      BY <1>2, <1>9
    <2>3. c.id = f.id
      BY <2>1, <2>2
    <2> QED
      BY <1>1, <2>1, <2>2, <2>3
  <1>10. CASE OnCapability(catalog, d) /\ OnCapability(catalog, e)
    <2>1. PICK c \in catalog.contexts : \E kind \in CapabilityKinds : \E id :
              d = addCapabilityDependency(c, kind, id) /\ d.key = <<c.id, kind, id>>
      BY <1>3, <1>10
    <2>2. PICK kind, id : d = addCapabilityDependency(c, kind, id) /\ d.key = <<c.id, kind, id>>
      BY <2>1
    <2>3. PICK f \in catalog.contexts : \E kind2 \in CapabilityKinds : \E id2 :
              e = addCapabilityDependency(f, kind2, id2) /\ e.key = <<f.id, kind2, id2>>
      BY <1>3, <1>10
    <2>4. PICK kind2, id2 : e = addCapabilityDependency(f, kind2, id2) /\ e.key = <<f.id, kind2, id2>>
      BY <2>3
    <2>5. c.id = f.id /\ kind = kind2 /\ id = id2
      BY <2>2, <2>4
    <2>6. c = f
      BY <1>1, <2>5
    <2> QED
      BY <2>2, <2>4, <2>5, <2>6
  <1>11. CASE OnBinding(catalog, p, d) /\ OnBinding(catalog, p, e)
    <2>1. PICK id \in p.bindings :
              /\ d = addBindingDependency(locateBinding(catalog, id),
                                          ById(locateBinding(catalog, id).bindings, id))
              /\ d.key = <<p.context, "resource-binding", id>>
      BY <1>4, <1>11
    <2>2. PICK id2 \in p.bindings :
              /\ e = addBindingDependency(locateBinding(catalog, id2),
                                          ById(locateBinding(catalog, id2).bindings, id2))
              /\ e.key = <<p.context, "resource-binding", id2>>
      BY <1>4, <1>11
    <2>3. id = id2
      BY <2>1, <2>2
    <2> QED
      BY <2>1, <2>2, <2>3
  <1> QED
    BY <1>5, <1>6, <1>7, <1>8, <1>9, <1>10, <1>11, DependenciesAreKnown

(* What the assertions on a catalog accept has one closure per selection. *)
LEMMA AcceptedIsUnambiguous ==
    ASSUME NEW c \in AcceptedCatalogs, NEW s
    PROVE  HasOneClosure(c, s)
  <1>1. PICK catalog : catalog = Catalogs[c]
    OBVIOUS
  <1>2. assertCloudContextCatalog(catalog) /\ assertPlacements(catalog)
    BY <1>1 DEF AcceptedCatalogs, parseCloudContextCatalog, assertCloudContextCatalog
  <1>3. PICK found : found = PlacementsOf(catalog, s)
    OBVIOUS
  <1>4. \A p \in found : p \in catalog.placements /\ p.application = s.application /\ p.component = s.component
    BY <1>3 DEF PlacementsOf
  <1>5. \A p, q \in found : p = q
    BY <1>2, <1>4 DEF assertPlacements
  <1>6. ASSUME NEW p \in found, NEW d \in DependencyInputs(catalog, p), d.key[2] = "resource-binding"
        PROVE  d.key[1] = p.context
    <2>1. ~OnContext(catalog, d) /\ ~OnCapability(catalog, d)
      BY <1>6 DEF OnContext, OnCapability, addContextDependency, addCapabilityDependency, CapabilityKinds
    <2>2. PICK id \in p.bindings :
              d = addBindingDependency(locateBinding(catalog, id), ById(locateBinding(catalog, id).bindings, id))
      BY <1>2, <1>4, <2>1, DependenciesAreKnown DEF OnBinding
    <2>3. PICK home, b : home = locateBinding(catalog, id) /\ b = ById(home.bindings, id)
      OBVIOUS
    <2>4. home.id = p.context
      BY <1>2, <1>4, <2>3, BindingsAreLocal
    <2> QED
      BY <2>2, <2>3, <2>4 DEF addBindingDependency
  <1>7. \A p \in found : \A d, e \in DependencyInputs(catalog, p) : d.key = e.key => d = e
    BY <1>2, <1>4, KeysAreUnique
  <1> QED
    BY <1>1, <1>3, <1>5, <1>6, <1>7 DEF HasOneClosure

(* A catalog in force yields exactly one closure for every selection       *)
(* (assertCloudContextCatalog, deriveCloudContextPlacementDependencies),   *)
(* so an observer and every verifier mean the same dependencies.           *)
THEOREM CatalogsDerive == SpecAdmission => []AcceptedCatalogsDerive
  <1>1. InitAdmission => catalogNow \in AcceptedCatalogs
    BY SomethingIsAccepted DEF InitAdmission
  <1>2. catalogNow \in AcceptedCatalogs /\ [NextAdmission]_admissionVars => (catalogNow \in AcceptedCatalogs)'
    <2> SUFFICES ASSUME catalogNow \in AcceptedCatalogs, [NextAdmission]_admissionVars
                 PROVE  catalogNow' \in AcceptedCatalogs
      OBVIOUS
    <2>1. ASSUME NEW x, ObserveCloud(x) \/ ObservePostgres(x) PROVE catalogNow' \in AcceptedCatalogs
      BY <2>1 DEF ObserveCloud, ObservePostgres, hostVars
    <2>2. ASSUME NEW r, NEW e, CheckCloud(r, e) \/ CheckPostgres(r, e) \/ RedeemEvidence(r) \/ RestartReplica(r)
                                 \/ Revoke(e) PROVE catalogNow' \in AcceptedCatalogs
      BY <2>2 DEF CheckCloud, CheckPostgres, RedeemEvidence, RestartReplica, Revoke, hostVars
    <2>3. ASSUME NEW r, NEW c, NEW ps, Admit(r, c, ps) PROVE catalogNow' \in AcceptedCatalogs
      BY <2>3 DEF Admit, hostVars
    <2>4. ASSUME NEW x, ChangeCatalog(x) \/ ChangeRegistry(x) \/ ChangeHandoff(x) \/ AdmissionTick
          PROVE  catalogNow' \in AcceptedCatalogs
      BY <2>4 DEF ChangeCatalog, ChangeRegistry, ChangeHandoff, AdmissionTick
    <2>5. CASE UNCHANGED admissionVars
      BY <2>5 DEF admissionVars
    <2> QED
      BY <2>1, <2>2, <2>3, <2>4, <2>5 DEF NextAdmission
  <1>3. catalogNow \in AcceptedCatalogs => AcceptedCatalogsDerive
    BY AcceptedIsUnambiguous DEF AcceptedCatalogsDerive, Unambiguous
  <1> QED
    BY <1>1, <1>2, <1>3, PTL DEF SpecAdmission

\* The expiry that a decision on this evidence carries.
ExpiryOf(e) == IF e.type = "cloud" THEN [at |-> e.expires, form |-> "full"] ELSE e.expires

\* Times are numbers, and resolutions outlive the evidence that carries them.
Lives(e) ==
    /\ ExpiryOf(e).at \in Nat
    /\ e.type = "cloud" => /\ e.expires \in Nat /\ e.resolution.expires \in Nat
                           /\ e.expires <= e.resolution.expires

\* A decision is about a piece of evidence in circulation.
Backed(d) == \E e \in signed : d.evidence = e.id /\ d.expires = ExpiryOf(e)

\* Evidence is known by its id.
SignedOnce ==
    /\ IsFiniteSet(signed)
    /\ \A e \in signed : e.id \in 1 .. Cardinality(signed) /\ Lives(e)
    /\ \A e, f \in signed : e.id = f.id => e = f

\* What replicas hold rests on evidence in circulation.
ReplicasBacked ==
    /\ \E f : checked = [r \in Replicas |-> f[r]]
    /\ \E f : decisions = [r \in Replicas |-> f[r]]
    /\ \E f : admitted = [r \in Replicas |-> f[r]]
    /\ \A r \in Replicas : /\ checked[r] = NotChecking \/ Backed(checked[r])
                           /\ \A d \in decisions[r] : Backed(d)
                           /\ \A i \in admitted[r].rests : \E e \in signed : e.id = i

(* The inductive invariant: an admission is about decisions of another     *)
(* step, and those about evidence of yet another one.                      *)
AdmissionInv == wallClock \in Nat /\ SignedOnce /\ ReplicasBacked /\ AdmissionOutlivesNothing

(* Among full timestamps the order of the strings is the order of times,   *)
(* so the first of the sorted expiries is the earliest.                    *)
LEMMA EarliestIsFirst ==
    ASSUME NEW ds, \A d \in ds : d.expires.form = "full" /\ d.expires.at \in Nat,
           NEW x \in ds
    PROVE  EarliestExpiry(ds).at \in Nat /\ EarliestExpiry(ds).at <= x.expires.at
  <1>1. PICK times : times = {d.expires : d \in ds}
    OBVIOUS
  <1>2. \A t \in times : t.form = "full" /\ t.at \in Nat
    BY <1>1
  <1>3. x.expires \in times
    BY <1>1
  <1>4. PICK ats : ats = {t.at : t \in times}
    OBVIOUS
  <1>5. ats \in SUBSET Nat /\ ats # {}
    BY <1>2, <1>3, <1>4
  <1>6. PICK m \in ats : \A n \in ats : m <= n
    BY <1>5, LeastNatural
  <1>7. PICK t \in times : t.at = m
    BY <1>4, <1>6
  <1>8. \A u \in times : u.at \in ats
    BY <1>4
  <1>9. ASSUME NEW u \in times PROVE Precedes(t, u)
    <2>1. t.at \in Nat /\ u.at \in Nat /\ t.at <= u.at /\ t.form = "full" /\ u.form = "full"
      BY <1>2, <1>6, <1>7, <1>8
    <2>2. t.at \div 2 < u.at \div 2 \/ t.at \div 2 = u.at \div 2
      BY <2>1
    <2> QED
      BY <2>1, <2>2 DEF Precedes
  <1>10. PICK first : first = EarliestExpiry(ds)
    OBVIOUS
  <1>11. first \in times /\ \A u \in times : Precedes(first, u)
    BY <1>1, <1>9, <1>10 DEF EarliestExpiry
  <1>12. first.at \in Nat /\ x.expires.at \in Nat /\ first.form = "full" /\ x.expires.form = "full"
    BY <1>2, <1>3, <1>11
  <1>13. first.at \div 2 < x.expires.at \div 2 \/ first.at <= x.expires.at
    BY <1>3, <1>11, <1>12 DEF Precedes
  <1> QED
    BY <1>10, <1>12, <1>13

(* Fresh evidence joins what is in circulation, and nothing rests on it. *)
LEMMA SignStep ==
    ASSUME AdmissionInv, NEW e, e.id = Fresh, Lives(e), signed' = signed \cup {e},
           UNCHANGED <<replicaVars, hostVars>>
    PROVE  AdmissionInv'
  <1>1. PICK n \in Nat : n = Cardinality(signed)
    BY FS_CardinalityType DEF AdmissionInv, SignedOnce
  <1>2. e.id = n + 1 /\ \A f \in signed : f.id \in 1 .. n /\ f.id # e.id
    BY <1>1 DEF Fresh, AdmissionInv, SignedOnce
  <1>3. e \notin signed
    BY <1>2
  <1>4. IsFiniteSet(signed') /\ Cardinality(signed') = n + 1
    BY <1>1, <1>3, FS_AddElement DEF AdmissionInv, SignedOnce
  <1>5. \A f \in signed' : f.id \in 1 .. Cardinality(signed') /\ Lives(f)
    BY <1>1, <1>2, <1>4 DEF AdmissionInv, SignedOnce
  <1>6. SignedOnce'
    BY <1>2, <1>4, <1>5 DEF AdmissionInv, SignedOnce
  <1>7. /\ UNCHANGED <<checked, decisions, admitted, wallClock>>
        /\ \A d : Backed(d) => Backed(d)'
    BY DEF replicaVars, hostVars, Backed
  <1>8. ReplicasBacked'
    BY <1>7 DEF AdmissionInv, ReplicasBacked
  <1>9. ASSUME NEW r \in Replicas, NEW f \in signed', f.id \in admitted'[r].rests
        PROVE  f \in signed /\ f.id \in admitted[r].rests
    <2>1. PICK g \in signed : g.id = f.id
      BY <1>7, <1>9 DEF AdmissionInv, ReplicasBacked
    <2>2. f # e
      BY <1>2, <2>1
    <2> QED
      BY <1>7, <1>9, <2>2
  <1>10. AdmissionOutlivesNothing'
    BY <1>7, <1>9 DEF AdmissionInv, AdmissionOutlivesNothing
  <1> QED
    BY <1>6, <1>7, <1>8, <1>10 DEF AdmissionInv

(* The cloud observer signs only what its resolutions outlive. *)
LEMMA ObserveCloudStep ==
    ASSUME AdmissionInv, NEW s \in Selections, ObserveCloud(s)
    PROVE  AdmissionInv'
  <1>1. PICK q, expires, resolution, key :
            /\ \E life \in Lifetimes, resolutionLife \in ResolutionLives :
                   /\ expires = wallClock + life
                   /\ resolution = [resolved |-> wallClock, expires |-> wallClock + resolutionLife]
            /\ resolveReference(q, resolution, expires)
            /\ signed' = signed \cup {CloudEvidence(q, expires, resolution, key)}
    <2>1. PICK q : q = <<catalogNow, s>>
      OBVIOUS
    <2>2. PICK life \in Lifetimes, resolutionLife \in ResolutionLives, t \in TrustedVerifiers :
              LET expires == wallClock + life
                  resolution == [resolved |-> wallClock, expires |-> wallClock + resolutionLife]
              IN /\ resolveReference(q, resolution, expires)
                 /\ signed' = signed \cup {CloudEvidence(q, expires, resolution, t.key)}
      BY <2>1 DEF ObserveCloud
    <2>3. PICK expires, resolution, key :
              /\ expires = wallClock + life /\ key = t.key
              /\ resolution = [resolved |-> wallClock, expires |-> wallClock + resolutionLife]
      OBVIOUS
    <2> QED
      BY <2>2, <2>3
  <1>2. UNCHANGED <<replicaVars, hostVars>>
    BY DEF ObserveCloud
  <1>3. PICK e : e = CloudEvidence(q, expires, resolution, key)
    OBVIOUS
  <1>4. e.id = Fresh /\ e.type = "cloud" /\ e.expires = expires /\ e.resolution = resolution
    BY <1>3 DEF CloudEvidence
  <1>5. resolution.expires >= expires
    BY <1>1 DEF resolveReference, assertResolutionLifetime
  <1>6. expires \in Nat /\ resolution.expires \in Nat
    BY <1>1, LifetimesAssumption DEF AdmissionInv
  <1>7. Lives(e)
    BY <1>4, <1>5, <1>6 DEF Lives, ExpiryOf
  <1> QED
    BY <1>1, <1>2, <1>3, <1>4, <1>7, SignStep

(* The database observer signs with the expiry it was asked for. *)
LEMMA ObservePostgresStep ==
    ASSUME AdmissionInv, NEW p \in DOMAIN Profiles, ObservePostgres(p)
    PROVE  AdmissionInv'
  <1>1. PICK life \in Lifetimes, form \in {"full", "short"}, t \in TrustedObservers, age \in ObservationAges :
            signed' = signed \cup {PostgresEvidence(p, [at |-> wallClock + life, form |-> form],
                                                    wallClock - age, t.key)}
    BY DEF ObservePostgres
  <1>2. PICK expires : expires = [at |-> wallClock + life, form |-> form]
    OBVIOUS
  <1>3. PICK e : e = PostgresEvidence(p, expires, wallClock - age, t.key)
    OBVIOUS
  <1>4. e.id = Fresh /\ e.type = "postgres" /\ e.expires = expires
    BY <1>3 DEF PostgresEvidence
  <1>5. UNCHANGED <<replicaVars, hostVars>>
    BY DEF ObservePostgres
  <1>6. Lives(e)
    <2>1. expires.at \in Nat
      BY <1>2, LifetimesAssumption DEF AdmissionInv
    <2> QED
      BY <1>4, <2>1 DEF Lives, ExpiryOf
  <1> QED
    BY <1>1, <1>2, <1>3, <1>4, <1>5, <1>6, SignStep

(* A replica that has checked evidence holds a decision on it. *)
LEMMA CheckStep ==
    ASSUME AdmissionInv, NEW r \in Replicas, NEW e \in signed, CheckCloud(r, e) \/ CheckPostgres(r, e)
    PROVE  AdmissionInv'
  <1>1. PICK d : checked' = [checked EXCEPT ![r] = d] /\ d.evidence = e.id /\ d.expires = ExpiryOf(e)
    <2>1. CASE CheckCloud(r, e)
      <3>1. CloudDecision(e).evidence = e.id /\ CloudDecision(e).expires = ExpiryOf(e)
        BY <2>1 DEF CheckCloud, CloudDecision, ExpiryOf
      <3> QED
        BY <2>1, <3>1 DEF CheckCloud
    <2>2. CASE CheckPostgres(r, e)
      <3>1. PostgresDecision(e).evidence = e.id /\ PostgresDecision(e).expires = ExpiryOf(e)
        BY <2>2 DEF CheckPostgres, PostgresDecision, ExpiryOf
      <3> QED
        BY <2>2, <3>1 DEF CheckPostgres
    <2> QED
      BY <2>1, <2>2
  <1>2. UNCHANGED <<signed, decisions, admitted, wallClock>>
    BY DEF CheckCloud, CheckPostgres, hostVars
  <1>3. Backed(d) /\ \A x : Backed(x) => Backed(x)'
    BY <1>1, <1>2 DEF Backed
  <1>4. PICK f : checked = [x \in Replicas |-> f[x]]
    BY DEF AdmissionInv, ReplicasBacked
  <1>5. checked' = [x \in Replicas |-> IF x = r THEN d ELSE f[x]]
    BY <1>1, <1>4
  <1>6. checked'[r] = d /\ \A x \in Replicas : x # r => checked'[x] = checked[x]
    BY <1>4, <1>5
  <1>7. PICK g : g = [x \in Replicas |-> IF x = r THEN d ELSE f[x]]
    OBVIOUS
  <1>8. checked' = [x \in Replicas |-> g[x]]
    BY <1>5, <1>7
  <1>9. ReplicasBacked'
    BY <1>2, <1>3, <1>6, <1>8 DEF AdmissionInv, ReplicasBacked
  <1> QED
    BY <1>2, <1>9 DEF AdmissionInv, SignedOnce, AdmissionOutlivesNothing

(* A redemption moves what was checked to the decisions or drops it. *)
LEMMA RedeemStep ==
    ASSUME AdmissionInv, NEW r \in Replicas, RedeemEvidence(r)
    PROVE  AdmissionInv'
  <1>1. PICK d : d = checked[r]
    OBVIOUS
  <1>2. Backed(d)
    BY <1>1 DEF RedeemEvidence, AdmissionInv, ReplicasBacked
  <1>3. /\ UNCHANGED <<signed, admitted, wallClock>>
        /\ checked' = [checked EXCEPT ![r] = NotChecking]
        /\ decisions' = decisions \/ decisions' = [decisions EXCEPT ![r] = @ \cup {d}]
    BY <1>1 DEF RedeemEvidence, hostVars
  <1>4. PICK f, g : checked = [x \in Replicas |-> f[x]] /\ decisions = [x \in Replicas |-> g[x]]
    BY DEF AdmissionInv, ReplicasBacked
  <1>5. PICK f2, g2 : /\ f2 = [x \in Replicas |-> IF x = r THEN NotChecking ELSE f[x]]
                      /\ g2 = [x \in Replicas |-> IF x = r /\ decisions' # decisions THEN g[x] \cup {d} ELSE g[x]]
    OBVIOUS
  <1>6. checked' = [x \in Replicas |-> f2[x]]
    BY <1>3, <1>4, <1>5
  <1>7. decisions' = [x \in Replicas |-> g2[x]]
    <2>1. CASE decisions' = decisions
      BY <1>4, <1>5, <2>1
    <2>2. CASE decisions' # decisions
      <3>1. decisions' = [decisions EXCEPT ![r] = @ \cup {d}]
        BY <1>3, <2>2
      <3> QED
        BY <1>4, <1>5, <2>2, <3>1
    <2> QED
      BY <2>1, <2>2
  <1>8. ASSUME NEW x \in Replicas
        PROVE  /\ checked'[x] = NotChecking \/ checked'[x] = checked[x]
               /\ \A y \in decisions'[x] : y \in decisions[x] \/ y = d
    BY <1>4, <1>5, <1>6, <1>7
  <1>9. \A x : Backed(x) => Backed(x)'
    BY <1>3 DEF Backed
  <1>10. ReplicasBacked'
    BY <1>2, <1>3, <1>6, <1>7, <1>8, <1>9 DEF AdmissionInv, ReplicasBacked
  <1> QED
    BY <1>3, <1>10 DEF AdmissionInv, SignedOnce, AdmissionOutlivesNothing

(* An admission takes the earliest expiry of the decisions it rests on. *)
LEMMA AdmitStep ==
    ASSUME AdmissionInv, NEW r \in Replicas, NEW c \in decisions[r], NEW ps \in SUBSET decisions[r],
           Admit(r, c, ps)
    PROVE  AdmissionInv'
  <1>1. PICK ds : ds = {c} \cup ps
    OBVIOUS
  <1>2. PICK rests, request, expires :
            /\ rests = {d.evidence : d \in ds}
            /\ expires = EarliestExpiry(ds)
            /\ admitted' = [admitted EXCEPT ![r] = [rests |-> rests, request |-> request, expires |-> expires]]
    BY <1>1 DEF Admit
  <1>3. \A d \in ds : d \in decisions[r] /\ AdmissionTimestamp(d.expires)
    BY <1>1 DEF Admit, assertActiveDecision
  <1>4. \A d \in ds : Backed(d) /\ d.expires.form = "full"
    BY <1>3 DEF AdmissionInv, ReplicasBacked, AdmissionTimestamp
  <1>5. \A d \in ds : d.expires.at \in Nat
    BY <1>4 DEF Backed, AdmissionInv, SignedOnce, Lives
  <1>6. \A d \in ds : expires.at \in Nat /\ expires.at <= d.expires.at
    BY <1>2, <1>4, <1>5, EarliestIsFirst
  <1>7. PICK new : new = [rests |-> rests, request |-> request, expires |-> expires]
    OBVIOUS
  <1>8. new.rests = rests /\ new.expires = expires
    BY <1>7
  <1>9. PICK f : admitted = [x \in Replicas |-> f[x]]
    BY DEF AdmissionInv, ReplicasBacked
  <1>10. admitted' = [x \in Replicas |-> IF x = r THEN new ELSE f[x]]
    BY <1>2, <1>7, <1>9
  <1>11. admitted'[r] = new /\ \A x \in Replicas : x # r => admitted'[x] = admitted[x]
    BY <1>9, <1>10
  <1>12. \E g : admitted' = [x \in Replicas |-> g[x]]
    <2>1. PICK g : g = [x \in Replicas |-> IF x = r THEN new ELSE f[x]]
      OBVIOUS
    <2>2. admitted' = [x \in Replicas |-> g[x]]
      BY <1>10, <2>1
    <2> QED
      BY <2>2
  <1>13. UNCHANGED <<signed, checked, decisions, wallClock>>
    BY DEF Admit, hostVars
  <1>14. \A i \in rests : \E e \in signed : e.id = i
    BY <1>2, <1>4 DEF Backed
  <1>15. \A x : Backed(x) => Backed(x)'
    BY <1>13 DEF Backed
  <1>16. \A x \in Replicas : \A i \in admitted'[x].rests : \E e \in signed : e.id = i
    BY <1>8, <1>11, <1>14 DEF AdmissionInv, ReplicasBacked
  <1>17. ReplicasBacked'
    BY <1>12, <1>13, <1>15, <1>16 DEF AdmissionInv, ReplicasBacked
  <1>18. ASSUME NEW e \in signed, e.id \in rests
         PROVE  IF e.type = "cloud"
                THEN expires.at <= e.expires /\ expires.at <= e.resolution.expires
                ELSE expires.at <= e.expires.at
    <2>1. PICK d \in ds : d.evidence = e.id
      BY <1>2, <1>18
    <2>2. PICK g \in signed : d.evidence = g.id /\ d.expires = ExpiryOf(g)
      BY <1>4 DEF Backed
    <2>3. d.expires = ExpiryOf(e) /\ Lives(e)
      BY <2>1, <2>2 DEF AdmissionInv, SignedOnce
    <2>4. expires.at <= ExpiryOf(e).at
      BY <1>6, <2>3
    <2>5. CASE e.type = "cloud"
      <3>1. ExpiryOf(e).at = e.expires
        BY <2>5 DEF ExpiryOf
      <3>2. expires.at \in Nat
        BY <1>6, <2>1
      <3> QED
        BY <2>3, <2>4, <2>5, <3>1, <3>2 DEF Lives
    <2>6. CASE e.type # "cloud"
      BY <2>4, <2>6 DEF ExpiryOf
    <2> QED
      BY <2>5, <2>6
  <1>19. AdmissionOutlivesNothing'
    BY <1>8, <1>11, <1>13, <1>18 DEF AdmissionInv, AdmissionOutlivesNothing
  <1> QED
    BY <1>13, <1>17, <1>19 DEF AdmissionInv, SignedOnce

(* Every step keeps the invariant. *)
LEMMA NextAdmissionOutlives == AdmissionInv /\ [NextAdmission]_admissionVars => AdmissionInv'
  <1> SUFFICES ASSUME AdmissionInv, [NextAdmission]_admissionVars PROVE AdmissionInv'
    OBVIOUS
  <1>1. ASSUME UNCHANGED <<signed, checked, decisions, admitted>>, wallClock' \in Nat PROVE AdmissionInv'
    <2>1. \A x : Backed(x) => Backed(x)'
      BY <1>1 DEF Backed
    <2> QED
      BY <1>1, <2>1 DEF AdmissionInv, SignedOnce, ReplicasBacked, AdmissionOutlivesNothing
  <1>2. ASSUME NEW r \in Replicas, RestartReplica(r) PROVE AdmissionInv'
    <2>1. /\ UNCHANGED <<signed, wallClock>>
          /\ checked' = [checked EXCEPT ![r] = NotChecking]
          /\ decisions' = [decisions EXCEPT ![r] = {}]
          /\ admitted' = [admitted EXCEPT ![r] = NotAdmitted]
      BY <1>2 DEF RestartReplica
    <2>2. PICK f, g, h : /\ checked = [x \in Replicas |-> f[x]] /\ decisions = [x \in Replicas |-> g[x]]
                         /\ admitted = [x \in Replicas |-> h[x]]
      BY DEF AdmissionInv, ReplicasBacked
    <2>3. PICK f2, g2, h2 : /\ f2 = [x \in Replicas |-> IF x = r THEN NotChecking ELSE f[x]]
                            /\ g2 = [x \in Replicas |-> IF x = r THEN {} ELSE g[x]]
                            /\ h2 = [x \in Replicas |-> IF x = r THEN NotAdmitted ELSE h[x]]
      OBVIOUS
    <2>4. /\ checked' = [x \in Replicas |-> f2[x]] /\ decisions' = [x \in Replicas |-> g2[x]]
          /\ admitted' = [x \in Replicas |-> h2[x]]
      BY <2>1, <2>2, <2>3
    <2>5. NotAdmitted.rests = {}
      BY DEF NotAdmitted
    <2>6. ASSUME NEW x \in Replicas
          PROVE  /\ checked'[x] = NotChecking \/ checked'[x] = checked[x]
                 /\ decisions'[x] \subseteq decisions[x]
                 /\ admitted'[x] = admitted[x] \/ admitted'[x].rests = {}
      BY <2>2, <2>3, <2>4, <2>5
    <2>7. \A x : Backed(x) => Backed(x)'
      BY <2>1 DEF Backed
    <2>8. ReplicasBacked'
      BY <2>1, <2>4, <2>6, <2>7 DEF AdmissionInv, ReplicasBacked
    <2>9. AdmissionOutlivesNothing'
      BY <2>1, <2>6 DEF AdmissionInv, AdmissionOutlivesNothing
    <2> QED
      BY <2>1, <2>8, <2>9 DEF AdmissionInv, SignedOnce
  <1>3. ASSUME NEW x, ChangeCatalog(x) \/ ChangeRegistry(x) \/ ChangeHandoff(x) \/ Revoke(x) PROVE AdmissionInv'
    BY <1>1, <1>3 DEF ChangeCatalog, ChangeRegistry, ChangeHandoff, Revoke, replicaVars, AdmissionInv
  <1>4. ASSUME AdmissionTick PROVE AdmissionInv'
    BY <1>1, <1>4 DEF AdmissionTick, replicaVars, AdmissionInv
  <1>5. CASE UNCHANGED admissionVars
    BY <1>1, <1>5 DEF admissionVars, AdmissionInv
  <1> QED
    BY <1>2, <1>3, <1>4, <1>5, ObserveCloudStep, ObservePostgresStep, CheckStep, RedeemStep, AdmitStep
    DEF NextAdmission

(* An admission ends no later than any evidence or any resolution it rests *)
(* on, though its expiry is the first of strings and not the least of      *)
(* times (assertRuntimeDeploymentAdmission).                               *)
THEOREM AdmissionsEndInTime == SpecAdmission => []AdmissionOutlivesNothing
  <1>1. InitAdmission => AdmissionInv
    <2> SUFFICES ASSUME InitAdmission PROVE AdmissionInv
      OBVIOUS
    <2>1. /\ checked = [r \in Replicas |-> NotChecking] /\ decisions = [r \in Replicas |-> {}]
          /\ admitted = [r \in Replicas |-> NotAdmitted] /\ signed = {} /\ wallClock = 2
      BY DEF InitAdmission
    <2>2. \A r \in Replicas : checked[r] = NotChecking /\ decisions[r] = {} /\ admitted[r].rests = {}
      BY <2>1 DEF NotAdmitted
    <2>3. SignedOnce /\ AdmissionOutlivesNothing
      BY <2>1, FS_EmptySet DEF SignedOnce, AdmissionOutlivesNothing
    <2>4. /\ checked = [r \in Replicas |-> checked[r]] /\ decisions = [r \in Replicas |-> decisions[r]]
          /\ admitted = [r \in Replicas |-> admitted[r]]
      BY <2>1
    <2>5. ReplicasBacked
      BY <2>2, <2>4 DEF ReplicasBacked
    <2> QED
      BY <2>1, <2>3, <2>5 DEF AdmissionInv
  <1>2. AdmissionInv => AdmissionOutlivesNothing
    BY DEF AdmissionInv
  <1> QED
    BY <1>1, <1>2, NextAdmissionOutlives, PTL DEF SpecAdmission

-----------------------------------------------------------------------------
(* Capabilities of PaaS jobs *)

StartedWith(c) == \E k \in Keys : jobOf[k] # NoJob /\ jobOf[k].capability.id = c

\* A capability was used up for a job.
SpentStarted == Absent \notin spent /\ \A c \in spent : StartedWith(c)

\* A decision on its way is about a request and would use up its capability.
DecidedRedeem ==
    \A d \in decided : d.request \in PaasRequests /\ d.redeem \in {Absent, d.request.capability.id}

(* The inductive invariant: ReplayedMeansDone is about the last answers    *)
(* only; they are true because of everything in the store and on its way.  *)
GatewayInv ==
    /\ jobOf \in [Keys -> PaasRequests \cup {NoJob}]
    /\ SpentStarted /\ DecidedRedeem /\ ReplayedMeansDone

(* The authorizer says replayed only of a capability in the set it is given. *)
LEMMA ReplayedOnlyIfSpent ==
    ASSUME NEW intent, NEW q, NEW time, NEW ids, NEW grants,
           "PAAS_AUTH_CAPABILITY_REPLAYED" \in Reasons(intent, q, time, ids, grants)
    PROVE  q.capability.id \in ids
  <1>1. PICK endpoint : "PAAS_AUTH_CAPABILITY_REPLAYED"
                          \in EvaluateEndpointUse(endpoint, q)
                              \cup EvaluateAuthorization(intent, endpoint, q, time, ids, grants)
    BY DEF Reasons, EvaluateRequest, Report
  <1>2. "PAAS_AUTH_CAPABILITY_REPLAYED"
           \in evaluateCapability(intent.accessControl, q, time, ids)
    BY <1>1 DEF EvaluateEndpointUse, EvaluateAuthorization, Report
  <1> QED
    BY <1>2 DEF evaluateCapability, Report

(* A request names an operation, so it is a job unlike none. *)
LEMMA RequestIsJob ==
    ASSUME NEW q \in PaasRequests
    PROVE  q # NoJob /\ <<q.tenant, q.key>> \in Keys
  <1>1. q.operation \in requiredOperations
    BY RequestsParse DEF parsePaasAuthorizationRequest
  <1>2. q.operation # NoJob.operation
    BY <1>1 DEF NoJob, Absent, requiredOperations
  <1> QED
    BY <1>2 DEF Keys

(* Started jobs stay as they are, so what was said of them stays true. *)
LEMMA SameJobs ==
    ASSUME GatewayInv, UNCHANGED <<jobOf, spent>>
    PROVE  SpentStarted'
  BY DEF GatewayInv, SpentStarted, StartedWith

(* A decision says replayed of a capability that was spent for a job. *)
LEMMA DecideStep ==
    ASSUME GatewayInv, NEW q \in PaasRequests, Decide(q)
    PROVE  GatewayInv'
  <1>1. PICK reasons : reasons = Reasons(PaasIntents[intentNow], q, gatewayTime, spent, Grants)
    OBVIOUS
  <1>2. PICK d : d = authorizePaasRequest(PaasIntents[intentNow], q, gatewayTime, spent, Grants)
    OBVIOUS
  <1>3. d.request = q /\ d.redeem \in {Absent, q.capability.id} /\ d.reasons = reasons
    BY <1>1, <1>2 DEF authorizePaasRequest
  <1>4. /\ decided' = decided \cup {d} \/ decided' = decided
        /\ lastDecision' = [decision |-> d, intent |-> intentNow]
        /\ UNCHANGED <<jobOf, spent, answered>>
    BY <1>2 DEF Decide
  <1>5. DecidedRedeem'
    BY <1>2, <1>3, <1>4 DEF GatewayInv, DecidedRedeem
  <1>6. lastDecision'.decision = d
    BY <1>4
  <1>7. "PAAS_AUTH_CAPABILITY_REPLAYED" \in reasons => StartedWith(q.capability.id)
    BY <1>1, ReplayedOnlyIfSpent DEF GatewayInv, SpentStarted
  <1>8. ReplayedMeansDone'
    BY <1>3, <1>4, <1>6, <1>7 DEF GatewayInv, ReplayedMeansDone, StartedWith
  <1> QED
    BY <1>4, <1>5, <1>8, SameJobs DEF GatewayInv

(* A capability is spent together with its job; jobs are never replaced. *)
LEMMA EnqueueStep ==
    ASSUME GatewayInv, NEW d \in decided, Enqueue(d)
    PROVE  GatewayInv'
  <1>1. PICK q \in PaasRequests : q = d.request
    BY DEF GatewayInv, DecidedRedeem
  <1>2. PICK k \in Keys : k = <<q.tenant, q.key>>
    BY RequestIsJob
  <1>3. /\ answered' = [code |-> EnqueueCode(d), request |-> q]
        /\ decided' = decided \ {d}
        /\ spent' = spent \cup Redeemed(d)
        /\ UNCHANGED lastDecision
    BY <1>1 DEF Enqueue
  <1>4. d.redeem \in {Absent, q.capability.id}
    BY <1>1 DEF GatewayInv, DecidedRedeem
  <1>5. DecidedRedeem'
    BY <1>3 DEF GatewayInv, DecidedRedeem
  <1>6. CASE EnqueueCode(d) = "ACCEPTED"
    <2>1. jobOf[k] = NoJob
      BY <1>1, <1>2, <1>6 DEF EnqueueCode
    <2>2. jobOf' = [jobOf EXCEPT ![k] = q]
      BY <1>1, <1>2, <1>6 DEF Enqueue
    <2>3. spent' = spent \cup ({d.redeem} \ {Absent})
      BY <1>3, <1>6 DEF Redeemed
    <2>4. jobOf'[k] = q /\ \A other \in Keys : other # k => jobOf'[other] = jobOf[other]
      BY <2>2 DEF GatewayInv
    <2>5. \A c : StartedWith(c) => StartedWith(c)'
      BY <2>1, <2>4 DEF StartedWith
    <2>6. StartedWith(q.capability.id)'
      BY <2>4, RequestIsJob DEF StartedWith
    <2>7. SpentStarted'
      BY <1>4, <2>3, <2>5, <2>6 DEF GatewayInv, SpentStarted
    <2>8. answered'.code # "CAPABILITY_REPLAYED"
      BY <1>3, <1>6
    <2>9. ReplayedMeansDone'
      BY <1>3, <2>5, <2>8 DEF GatewayInv, ReplayedMeansDone, StartedWith
    <2> QED
      BY <1>5, <2>2, <2>7, <2>9 DEF GatewayInv
  <1>7. CASE EnqueueCode(d) # "ACCEPTED"
    <2>1. UNCHANGED <<jobOf, spent>>
      BY <1>3, <1>7 DEF Enqueue, Redeemed
    <2>2. answered'.code = "CAPABILITY_REPLAYED" => d.redeem \in spent
      BY <1>3 DEF EnqueueCode
    <2>3. answered'.code = "CAPABILITY_REPLAYED" => StartedWith(answered'.request.capability.id)
      BY <1>3, <1>4, <2>2 DEF GatewayInv, SpentStarted
    <2>4. ReplayedMeansDone'
      BY <1>3, <2>1, <2>3 DEF GatewayInv, ReplayedMeansDone, StartedWith
    <2> QED
      BY <1>5, <2>1, <2>4, SameJobs DEF GatewayInv
  <1> QED
    BY <1>6, <1>7

(* Every step keeps the invariant: crashes only drop decisions. *)
LEMMA NextGatewayInv == GatewayInv /\ [NextGateway]_gatewayVars => GatewayInv'
  <1> SUFFICES ASSUME GatewayInv, [NextGateway]_gatewayVars PROVE GatewayInv'
    OBVIOUS
  <1>1. ASSUME decided' \subseteq decided, UNCHANGED <<jobOf, spent, lastDecision, answered>>
        PROVE  GatewayInv'
    BY <1>1, SameJobs DEF GatewayInv, DecidedRedeem, ReplayedMeansDone
  <1>2. ASSUME NEW d \in decided, CrashGateway(d) PROVE GatewayInv'
    BY <1>1, <1>2 DEF CrashGateway
  <1>3. ASSUME NEW i, ChangeIntent(i) PROVE GatewayInv'
    BY <1>1, <1>3 DEF ChangeIntent
  <1>4. CASE GatewayTick \/ UNCHANGED gatewayVars
    BY <1>1, <1>4 DEF GatewayTick, gatewayVars
  <1> QED
    BY <1>2, <1>3, <1>4, DecideStep, EnqueueStep DEF NextGateway

(* Whatever gateways race, crash or read of a changed intent: a client is  *)
(* told that its capability was replayed only if it paid for a job.        *)
THEOREM ReplayedCapabilityPaid == SpecGateway => []ReplayedMeansDone
  <1>1. InitGateway => GatewayInv
    <2> SUFFICES ASSUME InitGateway PROVE GatewayInv
      OBVIOUS
    <2>1. lastDecision.decision.reasons = {} /\ answered.code = Absent
      BY DEF InitGateway, NoDecision
    <2>2. ReplayedMeansDone
      BY <2>1 DEF ReplayedMeansDone, Absent
    <2> QED
      BY <2>2 DEF InitGateway, GatewayInv, SpentStarted, DecidedRedeem
  <1>2. SpecGateway => []GatewayInv
    BY <1>1, NextGatewayInv, PTL DEF SpecGateway
  <1>3. GatewayInv => ReplayedMeansDone
    BY DEF GatewayInv
  <1> QED
    BY <1>2, <1>3, PTL

(* What the evaluation of an intent promises of each of its endpoints and  *)
(* of its access control.                                                  *)
LEMMA AcceptedEndpoints ==
    ASSUME NEW intent, parsePaasSecurityIntent(intent), NEW e \in intent.endpoints
    PROVE  /\ e.exposure = "public" => e.authentication = "oidc+mtls"
           /\ ~SandboxBypass(e)
           /\ intent.accessControl.ttl \in Nat /\ intent.accessControl.ttl <= 900
           /\ "oneUseMutations" \in intent.accessControl.flags
  <1>1. EvaluateEndpoints(intent.endpoints) = {} /\ EvaluateAccessControl(intent.accessControl) = {}
    BY DEF parsePaasSecurityIntent, evaluatePaasSecurityIntent
  <1>2. EvaluateEndpoint(e) = {}
    BY <1>1 DEF EvaluateEndpoints
  <1>3. e.exposure = "public" => e.authentication = "oidc+mtls"
    <2>1. Report("PAAS_PUBLIC_ENDPOINT_WEAK_AUTH", e.exposure = "public" /\ e.authentication # "oidc+mtls") = {}
      BY <1>2 DEF EvaluateEndpoint
    <2> QED
      BY <2>1 DEF Report
  <1>4. ~SandboxBypass(e)
    <2>1. Report("PAAS_ENDPOINT_SANDBOX_BYPASS", SandboxBypass(e)) = {}
      BY <1>2 DEF EvaluateEndpoint
    <2> QED
      BY <2>1 DEF Report
  <1>5. intent.accessControl.ttl \in Nat
    BY DEF parsePaasSecurityIntent, parseAccessControl
  <1>6. ~(intent.accessControl.ttl > 900) /\ intent.accessControl.flags = AccessFlags
    BY <1>1 DEF EvaluateAccessControl, Report
  <1> QED
    BY <1>3, <1>4, <1>5, <1>6 DEF AccessFlags

(* No reason against a request: its endpoint is one of the intent, and     *)
(* neither the request nor the endpoint nor what authorizes it objects.    *)
LEMMA AllowedHasNoReason ==
    ASSUME NEW intent, NEW q, NEW time, NEW ids, NEW grants,
           Reasons(intent, q, time, ids, grants) = {}
    PROVE  LET e == CHOOSE x \in intent.endpoints : x.id = q.endpoint
           IN  /\ e \in intent.endpoints
               /\ EvaluateRequest(intent, q) = {}
               /\ EvaluateEndpointUse(e, q) = {}
               /\ EvaluateAuthorization(intent, e, q, time, ids, grants) = {}
  <1>1. EvaluateRequest(intent, q) = {} /\ \E e \in intent.endpoints : e.id = q.endpoint
    BY DEF Reasons
  <1>2. PICK e : e = CHOOSE x \in intent.endpoints : x.id = q.endpoint
    OBVIOUS
  <1>3. e \in intent.endpoints
    BY <1>1, <1>2
  <1>4. EvaluateEndpointUse(e, q) = {} /\ EvaluateAuthorization(intent, e, q, time, ids, grants) = {}
    BY <1>1, <1>2 DEF Reasons
  <1> QED
    BY <1>1, <1>2, <1>3, <1>4

(* A capability nothing is held against is present, one-use where the      *)
(* intent asks for it, and younger than the longest life the intent gives. *)
LEMMA SoundCapability ==
    ASSUME NEW access, NEW q, NEW time \in Nat, NEW ids, access.ttl \in Nat,
           parsePaasAuthorizationRequest(q),
           evaluateCapability(access, q, time, ids) = {}
    PROVE  /\ q.capability # NoCapability
           /\ Mutating(q) /\ "oneUseMutations" \in access.flags => q.capability.oneUse
           /\ time - q.capability.issued < access.ttl
  <1>1. q.capability # NoCapability
    BY DEF evaluateCapability
  <1>2. {q.capability.issued, q.capability.notBefore, q.capability.expires} \subseteq Nat
    BY <1>1 DEF parsePaasAuthorizationRequest, parseCapability
  <1>3. Report("PAAS_AUTH_CAPABILITY_TIME_INVALID", ~CapabilityInTime(q.capability, time)) = {}
    BY <1>1 DEF evaluateCapability
  <1>4. Report("PAAS_AUTH_CAPABILITY_TTL_EXCEEDED", q.capability.expires - q.capability.issued > access.ttl) = {}
    BY <1>1 DEF evaluateCapability
  <1>5. Report("PAAS_AUTH_CAPABILITY_NOT_ONE_USE",
               Mutating(q) /\ "oneUseMutations" \in access.flags /\ ~q.capability.oneUse) = {}
    BY <1>1 DEF evaluateCapability
  <1>6. time < q.capability.expires
    BY <1>3 DEF Report, CapabilityInTime
  <1>7. ~(q.capability.expires - q.capability.issued > access.ttl)
    BY <1>4 DEF Report
  <1>8. Mutating(q) /\ "oneUseMutations" \in access.flags => q.capability.oneUse
    BY <1>5 DEF Report
  <1>9. time - q.capability.issued < access.ttl
    BY <1>2, <1>6, <1>7
  <1> QED
    BY <1>1, <1>8, <1>9

\* AllowedIsGoverned, of one decision d under one intent.
Governed(d, intent) ==
    LET q == d.request
        endpoint == CHOOSE e \in intent.endpoints : e.id = q.endpoint
    IN /\ q.target # "host"
       /\ q.operation \in sandboxOperations => q.target = "tenant-sandbox"
       /\ endpoint.exposure = "public" => q.actor.methods = {"oidc", "mtls"}
       /\ q.actor.tenant = q.tenant
       /\ endpoint.authorization = "capability" /\ Mutating(q) =>
              /\ d.redeem = q.capability.id
              /\ d.evaluated - q.capability.issued < intent.accessControl.ttl

(* The evaluation of the intent and the decision of a request meet: what   *)
(* the intent leaves open the authorizer closes, and the other way round.  *)
LEMMA AllowedUnderAccepted ==
    ASSUME NEW intent, parsePaasSecurityIntent(intent),
           NEW q, parsePaasAuthorizationRequest(q), NEW time \in Nat, NEW ids, NEW grants,
           authorizePaasRequest(intent, q, time, ids, grants).allowed
    PROVE  Governed(authorizePaasRequest(intent, q, time, ids, grants), intent)
  <1>1. PICK d : d = authorizePaasRequest(intent, q, time, ids, grants)
    OBVIOUS
  <1>2. Reasons(intent, q, time, ids, grants) = {}
    BY DEF authorizePaasRequest
  <1>3. /\ d.request = q /\ d.evaluated = time
        /\ q.capability # NoCapability /\ q.capability.oneUse => d.redeem = q.capability.id
    BY <1>1, <1>2 DEF authorizePaasRequest
  <1>4. PICK e : e = CHOOSE x \in intent.endpoints : x.id = q.endpoint
    OBVIOUS
  <1>5. /\ e \in intent.endpoints
        /\ EvaluateRequest(intent, q) = {}
        /\ EvaluateEndpointUse(e, q) = {}
        /\ EvaluateAuthorization(intent, e, q, time, ids, grants) = {}
    BY <1>2, <1>4, AllowedHasNoReason
  <1>6. /\ e.exposure = "public" => e.authentication = "oidc+mtls"
        /\ ~SandboxBypass(e)
        /\ intent.accessControl.ttl \in Nat /\ intent.accessControl.ttl <= 900
        /\ "oneUseMutations" \in intent.accessControl.flags
    BY <1>5, AcceptedEndpoints
  <1>7. q.actor.tenant = q.tenant
    <2>1. Report("PAAS_AUTH_TENANT_MISMATCH", q.actor.tenant # q.tenant) = {}
      BY <1>5 DEF EvaluateRequest
    <2> QED
      BY <2>1 DEF Report
  <1>8. /\ q.operation \in e.operations /\ authenticationSatisfies(e.authentication, q.actor)
        /\ q.target # "host" /\ q.target = e.target
    <2>1. Report("PAAS_AUTH_OPERATION_UNDECLARED", q.operation \notin e.operations) = {}
      BY <1>5 DEF EvaluateEndpointUse
    <2>2. Report("PAAS_AUTHENTICATION_INSUFFICIENT", ~authenticationSatisfies(e.authentication, q.actor)) = {}
      BY <1>5 DEF EvaluateEndpointUse
    <2>3. /\ Report("PAAS_AUTH_HOST_EXECUTION_DENIED", q.target = "host") = {}
          /\ Report("PAAS_AUTH_EXECUTION_TARGET_INVALID", q.target # e.target) = {}
      BY <1>5 DEF EvaluateEndpointUse
    <2> QED
      BY <2>1, <2>2, <2>3 DEF Report
  <1>9. q.operation \in sandboxOperations => q.target = "tenant-sandbox"
    BY <1>6, <1>8 DEF SandboxBypass
  <1>10. e.exposure = "public" => q.actor.methods = {"oidc", "mtls"}
    <2>1. q.actor.methods \subseteq {"oidc", "mtls"}
      BY DEF parsePaasAuthorizationRequest, parseActor
    <2> QED
      BY <1>6, <1>8, <2>1 DEF authenticationSatisfies
  <1>11. e.authorization = "capability" /\ Mutating(q) =>
            d.redeem = q.capability.id /\ d.evaluated - q.capability.issued < intent.accessControl.ttl
    <2> SUFFICES ASSUME e.authorization = "capability", Mutating(q)
                 PROVE  d.redeem = q.capability.id /\ d.evaluated - q.capability.issued < intent.accessControl.ttl
      OBVIOUS
    <2>1. evaluateCapability(intent.accessControl, q, time, ids) = {}
      BY <1>5 DEF EvaluateAuthorization
    <2>2. /\ q.capability # NoCapability /\ q.capability.oneUse
          /\ time - q.capability.issued < intent.accessControl.ttl
      BY <1>6, <2>1, SoundCapability
    <2>3. q.capability.issued \in Nat
      BY <2>2 DEF parsePaasAuthorizationRequest, parseCapability
    <2> QED
      BY <1>3, <1>6, <2>2, <2>3
  <1> QED
    BY <1>1, <1>3, <1>4, <1>7, <1>8, <1>9, <1>10, <1>11 DEF Governed

\* An intent is in force only if it was accepted; the clock counts.
GovernedInv ==
    /\ intentNow \in AcceptedIntents
    /\ gatewayTime \in Nat
    /\ lastDecision.decision.allowed => Governed(lastDecision.decision, PaasIntents[lastDecision.intent])

(* Whatever intents replace each other and whenever requests are decided:  *)
(* what authorizePaasRequest allows under an intent the evaluation accepts *)
(* stays within it.                                                        *)
THEOREM AllowedStaysGoverned == SpecGateway => []AllowedIsGoverned
  <1>1. InitGateway => GovernedInv
    BY SomeIntentIsAccepted DEF InitGateway, GovernedInv, NoDecision
  <1>2. GovernedInv /\ [NextGateway]_gatewayVars => GovernedInv'
    <2> SUFFICES ASSUME GovernedInv, [NextGateway]_gatewayVars PROVE GovernedInv'
      OBVIOUS
    <2>1. ASSUME NEW q \in PaasRequests, Decide(q) PROVE GovernedInv'
      <3>1. PICK d : d = authorizePaasRequest(PaasIntents[intentNow], q, gatewayTime, spent, Grants)
        OBVIOUS
      <3>2. lastDecision' = [decision |-> d, intent |-> intentNow] /\ UNCHANGED <<intentNow, gatewayTime>>
        BY <2>1, <3>1 DEF Decide
      <3>3. parsePaasSecurityIntent(PaasIntents[intentNow]) /\ parsePaasAuthorizationRequest(q)
        BY RequestsParse DEF GovernedInv, AcceptedIntents
      <3>4. d.allowed => Governed(d, PaasIntents[intentNow])
        BY <3>1, <3>3, AllowedUnderAccepted DEF GovernedInv
      <3> QED
        BY <3>2, <3>4 DEF GovernedInv
    <2>2. ASSUME UNCHANGED lastDecision, intentNow' \in AcceptedIntents, gatewayTime' \in Nat PROVE GovernedInv'
      BY <2>2 DEF GovernedInv
    <2>3. ASSUME NEW d \in decided, Enqueue(d) \/ CrashGateway(d) PROVE GovernedInv'
      BY <2>2, <2>3 DEF Enqueue, CrashGateway, GovernedInv
    <2>4. ASSUME NEW i \in DOMAIN PaasIntents, ChangeIntent(i) PROVE GovernedInv'
      BY <2>2, <2>4 DEF ChangeIntent, GovernedInv
    <2>5. CASE GatewayTick \/ UNCHANGED gatewayVars
      BY <2>2, <2>5 DEF GatewayTick, gatewayVars, GovernedInv
    <2> QED
      BY <2>1, <2>3, <2>4, <2>5 DEF NextGateway
  <1>3. GovernedInv => AllowedIsGoverned
    BY DEF GovernedInv, Governed, AllowedIsGoverned
  <1> QED
    BY <1>1, <1>2, <1>3, PTL DEF SpecGateway

-----------------------------------------------------------------------------
(* Capabilities and approvals of infrastructure operations *)

\* A plan that is stored.
StoredPlan(p) == p.created \in Nat /\ p.expires \in Nat

RequestTypes ==
    /\ now \in Nat
    /\ \A d \in DOMAIN PlanContents : plans[d] = NoPlan \/ StoredPlan(plans[d])
    /\ approvals \subseteq [approver : Approvers, plan : DOMAIN PlanContents, at : Nat]
    /\ IsFiniteSet(approvals)
    /\ DOMAIN plans = DOMAIN PlanContents
    /\ operations = [o \in OperationIds |-> operations[o]]

\* What the evaluator has seen of a request that carries out a plan.
PlanSeen(r, at) ==
    /\ r.plan.digest = r.capability.plan
    /\ at < r.plan.expires
    /\ r.plan.created \in Nat
    /\ \A a \in r.approvals : /\ a.plan = r.plan.digest
                              /\ a.approver # r.actor.principal
                              /\ a.at \in r.plan.created .. at
    /\ \A a, b \in r.approvals : a.approver = b.approver => a = b
    /\ Cardinality(r.approvals) >= RequiredApprovals(r)

\* A decision rests on approvals that were given.
Sound(d) ==
    /\ d.request.operation \in mutationOperations => d.request.key # NoKey
    /\ d.request.approvals \subseteq approvals
    /\ RequiresPlan(d.request.operation) => PlanSeen(d.request, d.at)

(* The inductive invariant.  A decision waits while plans are computed     *)
(* again, approvals arrive and other hosts commit, so what it rests on is  *)
(* kept of the moment it was made, and what has been redeemed is tied to   *)
(* the operations that were started with it.                               *)
RequestInv ==
    /\ RequestTypes
    /\ \A d \in pending : Sound(d)
    /\ \A o \in Started : /\ Sound(operations[o])
                          /\ CapabilityToRedeem(operations[o].request) \subseteq redeemed
    /\ CapabilityStartsOneOperation

(* A request the evaluator allows is sound at that time. *)
LEMMA AllowedIsSound ==
    ASSUME RequestInv, NEW r,
           OperationRequestParses(r.operation, r.plan.digest, r.approvals, r.key),
           authorizeInfrastructureControllerRequest(r, now, redeemed),
           r.approvals \subseteq approvals,
           r.plan = NoPlan \/ StoredPlan(r.plan)
    PROVE  Sound([request |-> r, at |-> now])
  <1>1. PICK d : d = [request |-> r, at |-> now]
    OBVIOUS
  <1>2. d.request = r /\ d.at = now
    BY <1>1
  <1>3. r.operation \in mutationOperations => r.key # NoKey
    BY DEF OperationRequestParses, mutationOperations, NoKey, None
  <1>4. RequestParses(r) /\ authorizePlanAndApprovals(r, now) = {}
    BY DEF authorizeInfrastructureControllerRequest, DenialReasons
  <1>5. ASSUME RequiresPlan(r.operation) PROVE PlanSeen(r, now)
    <2>1. r.plan # NoPlan /\ PlanReasons(r, now) = {}
      BY <1>4, <1>5 DEF authorizePlanAndApprovals
    <2>2. StoredPlan(r.plan)
      BY <2>1
    <2>3. \A condition, reason : When(condition, reason) = {} => ~ condition
      BY DEF When
    <2>4. /\ ~ (r.plan.expires <= now)
          /\ r.capability.plan = r.plan.digest
          /\ \A a \in r.approvals : /\ a.plan = r.plan.digest
                                    /\ a.approver # r.actor.principal
                                    /\ ~ (a.at < r.plan.created) /\ ~ (a.at > now)
          /\ ~ (Cardinality(r.approvals) < RequiredApprovals(r))
      BY <2>1 DEF PlanReasons, When
    <2>5. now \in Nat /\ \A a \in r.approvals : a.at \in Nat
      BY DEF RequestInv, RequestTypes
    <2>6. Cardinality(r.approvals) \in Nat /\ RequiredApprovals(r) \in Nat
      <3>1. IsFiniteSet(r.approvals)
        BY FS_Subset DEF RequestInv, RequestTypes
      <3> QED
        BY <3>1, FS_CardinalityType DEF RequiredApprovals
    <2>7. \A a, b \in r.approvals : a.approver = b.approver => a = b
      BY <1>4 DEF RequestParses, ApprovalsParse
    <2> QED
      BY <2>2, <2>4, <2>5, <2>6, <2>7 DEF PlanSeen, StoredPlan
  <1> QED
    BY <1>1, <1>2, <1>3, <1>5 DEF Sound

(* Approvals are never taken back. *)
LEMMA StaysSound ==
    ASSUME NEW d, Sound(d), approvals \subseteq approvals'
    PROVE  Sound(d)'
  BY DEF Sound

(* A host adds a decision that is sound at its time. *)
LEMMA EvaluateStep ==
    ASSUME RequestInv, NEW r \in Assemblies, Evaluate(r)
    PROVE  RequestInv'
  <1>1. PICK i \in Intents, p \in DOMAIN PlanContents \cup {NoDigest}, given \in SUBSET approvals :
            r = Assembled(i, p, given)
    BY DEF Assemblies
  <1>2. i \in InfrastructureControllerRequest
    BY RequestBoundsAssumption
  <1>3. r.approvals = given /\ r.plan = IF p = NoDigest THEN NoPlan ELSE plans[p]
    BY <1>1, <1>2 DEF Assembled, InfrastructureControllerRequest
  <1>4. r.approvals \subseteq approvals /\ (r.plan = NoPlan \/ StoredPlan(r.plan))
    BY <1>3 DEF RequestInv, RequestTypes
  <1>5. Sound([request |-> r, at |-> now])
    BY <1>4, AllowedIsSound DEF Evaluate
  <1>6. /\ pending' = pending \cup {[request |-> r, at |-> now]}
        /\ UNCHANGED <<now, plans, approvals, redeemed, operations>>
    BY DEF Evaluate
  <1>7. \A d \in pending' : Sound(d)'
    BY <1>5, <1>6, StaysSound DEF RequestInv
  <1>8. \A o \in Started' : Sound(operations[o])'
    BY <1>6 DEF RequestInv, Started, Sound
  <1> QED
    BY <1>6, <1>7, <1>8 DEF RequestInv, RequestTypes, Started, CapabilityStartsOneOperation

(* A commit finds neither capability nor key in use, whatever was decided before. *)
LEMMA CommitStep ==
    ASSUME RequestInv, NEW d \in pending, NEW o \in OperationIds, Commit(d, o)
    PROVE  RequestInv'
  <1>1. /\ o \notin Started /\ CommitFits(d)
        /\ pending' = pending \ {d}
        /\ redeemed' = redeemed \cup CapabilityToRedeem(d.request)
        /\ operations' = [operations EXCEPT ![o] = d]
        /\ UNCHANGED <<now, plans, approvals>>
    BY DEF Commit
  <1>2. operations = [x \in OperationIds |-> operations[x]]
    BY DEF RequestInv, RequestTypes
  <1>3. operations'[o] = d /\ \A x \in OperationIds : x # o => operations'[x] = operations[x]
    BY <1>1, <1>2
  <1>4. operations' = [x \in OperationIds |-> operations'[x]]
    BY <1>1, <1>2
  <1>5. Started' \subseteq Started \cup {o}
    BY <1>3 DEF Started
  <1>6. Sound(d)
    BY DEF RequestInv
  <1>7. \A x \in Started' : /\ Sound(operations[x])'
                           /\ CapabilityToRedeem(operations'[x].request) \subseteq redeemed'
    <2> TAKE x \in Started'
    <2>1. CASE x = o
      BY <1>1, <1>3, <1>6, <2>1 DEF Sound
    <2>2. CASE x # o
      <3>1. x \in Started /\ operations'[x] = operations[x]
        BY <1>3, <1>5, <2>2 DEF Started
      <3>2. Sound(operations[x]) /\ CapabilityToRedeem(operations[x].request) \subseteq redeemed
        BY <3>1 DEF RequestInv
      <3> QED
        BY <1>1, <3>1, <3>2 DEF Sound
    <2> QED
      BY <2>1, <2>2
  <1>8. \A e \in pending' : Sound(e)'
    BY <1>1, StaysSound DEF RequestInv
  <1>9. CapabilityStartsOneOperation'
    <2> DEFINE clash(r, q) == /\ r.operation \in mutationOperations
                              /\ q.operation \in mutationOperations
                              /\ r.capability.id = q.capability.id \/ r.key = q.key
    <2>1. ASSUME NEW x \in Started, clash(d.request, operations[x].request) PROVE FALSE
      <3>1. d.request.capability.id \notin redeemed /\ operations[x].request.capability.id \in redeemed
        BY <1>1, <2>1 DEF CommitFits, CapabilityToRedeem, RequestInv
      <3>2. operations[x].request.key # d.request.key
        BY <1>1, <1>6, <2>1 DEF CommitFits, Sound
      <3> QED
        BY <2>1, <3>1, <3>2
    <2>2. \A r, q : clash(r, q) => clash(q, r)
      OBVIOUS
    <2>3. \A x, y \in Started : clash(operations[x].request, operations[y].request) => x = y
      BY DEF RequestInv, CapabilityStartsOneOperation
    <2>4. \A x, y \in Started' : clash(operations'[x].request, operations'[y].request) => x = y
      <3> HIDE DEF clash
      <3> SUFFICES ASSUME NEW x \in Started', NEW y \in Started', x # y,
                          clash(operations'[x].request, operations'[y].request)
                   PROVE  FALSE
        OBVIOUS
      <3>1. \A z \in Started' : z # o => z \in Started /\ operations'[z] = operations[z]
        BY <1>3, <1>5 DEF Started
      <3>2. CASE x = o
        BY <1>3, <2>1, <3>1, <3>2
      <3>3. CASE y = o
        BY <1>3, <2>1, <2>2, <3>1, <3>3
      <3>4. CASE x # o /\ y # o
        BY <2>3, <3>1, <3>4
      <3> QED
        BY <3>2, <3>3, <3>4
    <2> QED
      BY <2>4 DEF CapabilityStartsOneOperation
  <1> QED
    BY <1>1, <1>4, <1>7, <1>8, <1>9 DEF RequestInv, RequestTypes

(* Steps that start nothing keep the decisions and the operations sound. *)
LEMMA NothingStarted ==
    ASSUME RequestInv, RequestTypes', approvals \subseteq approvals', pending' \subseteq pending,
           UNCHANGED <<redeemed, operations>>
    PROVE  RequestInv'
  <1>1. \A d \in pending' : Sound(d)'
    BY StaysSound DEF RequestInv
  <1>2. \A o \in Started' : Sound(operations[o])'
    BY DEF RequestInv, Started, Sound
  <1> QED
    BY <1>1, <1>2 DEF RequestInv, Started, CapabilityStartsOneOperation

(* A plan that is computed is a stored plan. *)
LEMMA StorePlanStep ==
    ASSUME RequestInv, NEW d \in DOMAIN PlanContents, NEW passed, StorePlan(d, passed)
    PROVE  RequestInv'
  <1>1. PICK p : /\ p = [digest |-> d, desired |-> PlanContents[d].desired,
                         destructive |-> PlanContents[d].destructive,
                         created |-> now, expires |-> now + PlanTtl, policyChecksPassed |-> passed]
                 /\ plans' = [plans EXCEPT ![d] = p]
    BY DEF StorePlan
  <1>2. StoredPlan(p)
    BY <1>1, RequestBoundsAssumption DEF StoredPlan, RequestInv, RequestTypes
  <1>3. UNCHANGED <<now, approvals, pending, redeemed, operations>>
    BY DEF StorePlan
  <1>4. RequestTypes'
    BY <1>1, <1>2, <1>3 DEF RequestInv, RequestTypes, StoredPlan
  <1> QED
    BY <1>3, <1>4, NothingStarted

(* An approval is one more of finitely many. *)
LEMMA ApproveStep ==
    ASSUME RequestInv, NEW p \in Approvers, NEW d \in DOMAIN PlanContents, Approve(p, d)
    PROVE  RequestInv'
  <1>1. PICK a \in [approver : Approvers, plan : DOMAIN PlanContents, at : Nat] :
            approvals' = approvals \cup {a}
    BY DEF Approve, RequestInv, RequestTypes
  <1>2. IsFiniteSet(approvals')
    BY <1>1, FS_AddElement DEF RequestInv, RequestTypes
  <1>3. UNCHANGED <<now, plans, pending, redeemed, operations>>
    BY DEF Approve
  <1>4. RequestTypes'
    BY <1>1, <1>2, <1>3 DEF RequestInv, RequestTypes, StoredPlan
  <1> QED
    BY <1>1, <1>3, <1>4, NothingStarted

(* Every step keeps the invariant. *)
LEMMA NextRequestsInv == RequestInv /\ [NextRequests]_requestVars => RequestInv'
  <1> SUFFICES ASSUME RequestInv, [NextRequests]_requestVars PROVE RequestInv'
    OBVIOUS
  <1>1. ASSUME now' \in Nat, pending' \subseteq pending,
               UNCHANGED <<plans, approvals, redeemed, operations>>
        PROVE  RequestInv'
    <2>1. RequestTypes'
      BY <1>1 DEF RequestInv, RequestTypes, StoredPlan
    <2> QED
      BY <1>1, <2>1, NothingStarted
  <1>2. now \in Nat
    BY DEF RequestInv, RequestTypes
  <1>3. CASE Tick
    BY <1>1, <1>2, <1>3 DEF Tick
  <1>4. ASSUME NEW offer, NEW policy, Negotiate(offer, policy) PROVE RequestInv'
    BY <1>1, <1>2, <1>4 DEF Negotiate
  <1>5. CASE Connect
    BY <1>1, <1>2, <1>5 DEF Connect
  <1>6. ASSUME NEW r, NEW retryAfter, Refuse(r, retryAfter) PROVE RequestInv'
    BY <1>1, <1>2, <1>6 DEF Refuse
  <1>7. ASSUME NEW d \in pending, Forget(d) PROVE RequestInv'
    BY <1>1, <1>2, <1>7 DEF Forget
  <1>8. CASE UNCHANGED requestVars
    BY <1>1, <1>2, <1>8 DEF requestVars
  <1> QED
    BY <1>3, <1>4, <1>5, <1>6, <1>7, <1>8, StorePlanStep, ApproveStep, EvaluateStep, CommitStep
    DEF NextRequests

(* The invariant holds always. *)
LEMMA RequestInvHolds == SpecRequests => []RequestInv
  <1>1. InitRequests => RequestInv
    BY FS_EmptySet
    DEF InitRequests, RequestInv, RequestTypes, Started, CapabilityStartsOneOperation
  <1> QED
    BY <1>1, NextRequestsInv, PTL DEF SpecRequests

(* However hosts race between evaluation and commit, a capability and an   *)
(* idempotency key start one mutation at most.                             *)
THEOREM MutationsStartOnce == SpecRequests => []CapabilityStartsOneOperation
  <1>1. RequestInv => CapabilityStartsOneOperation
    BY DEF RequestInv
  <1> QED
    BY <1>1, RequestInvHolds, PTL

(* The approvals of a decision come from as many principals as there are   *)
(* approvals, because a request names every approver once.                 *)
LEMMA ApproversCounted ==
    ASSUME RequestInv, NEW given, given \subseteq approvals,
           \A a, b \in given : a.approver = b.approver => a = b,
           NEW by, by \subseteq {a.approver : a \in approvals},
           \A a \in given : a.approver \in by
    PROVE  Cardinality(by) \in Nat /\ Cardinality(given) <= Cardinality(by)
  <1> DEFINE all == {a.approver : a \in approvals}
             approver == [a \in approvals |-> a.approver]
             named == [a \in given |-> a.approver]
  <1>1. approver \in Surjection(approvals, all)
    BY DEF Surjection
  <1>2. IsFiniteSet(approvals)
    BY DEF RequestInv, RequestTypes
  <1> HIDE DEF all, approver
  <1>3. IsFiniteSet(all)
    BY <1>1, <1>2, FS_Surjection
  <1>4. IsFiniteSet(by)
    BY <1>3, FS_Subset DEF all
  <1>5. named \in Injection(given, by)
    BY DEF Injection, IsInjective
  <1> HIDE DEF named
  <1> QED
    BY <1>4, <1>5, FS_Injection, FS_CardinalityType

(* A mutation that carries out a plan was approved, after the plan was     *)
(* last computed and before the decision, by as many different principals  *)
(* as its operation and its environment ask for, none of them the one who  *)
(* asked for it, whatever happened to plans and approvals in the meantime. *)
THEOREM PlansStayApproved == SpecRequests => []PlansAreApproved
  <1>1. RequestInv => PlansAreApproved
    <2> SUFFICES ASSUME RequestInv PROVE PlansAreApproved
      OBVIOUS
    <2> SUFFICES ASSUME NEW o \in Started, NEW r, r = operations[o].request,
                        RequiresPlan(r.operation),
                        NEW by, by = {p \in Approvers \ {r.actor.principal} :
                                        \E a \in approvals :
                                            /\ a.approver = p /\ a.plan = r.plan.digest
                                            /\ a.at \in r.plan.created .. operations[o].at}
                 PROVE  /\ r.plan.digest = r.capability.plan
                        /\ operations[o].at < r.plan.expires
                        /\ Cardinality(by) >= IF r.operation = "delete" THEN 2
                                              ELSE IF r.environment = "production" THEN 1 ELSE 0
      BY DEF PlansAreApproved
    <2>1. r.approvals \subseteq approvals /\ PlanSeen(r, operations[o].at)
      BY DEF RequestInv, Sound
    <2>2. by \subseteq {a.approver : a \in approvals}
      OBVIOUS
    <2>3. \A a \in r.approvals : a.approver \in by
      BY <2>1 DEF PlanSeen, RequestInv, RequestTypes
    <2>4. Cardinality(by) \in Nat /\ Cardinality(r.approvals) <= Cardinality(by)
      BY <2>1, <2>2, <2>3, ApproversCounted DEF PlanSeen
    <2>5. Cardinality(r.approvals) \in Nat
      <3>1. IsFiniteSet(r.approvals)
        BY <2>1, FS_Subset DEF RequestInv, RequestTypes
      <3> QED
        BY <3>1, FS_CardinalityType
    <2>6. RequiredApprovals(r) = IF r.operation = "delete" THEN 2
                                 ELSE IF r.environment = "production" THEN 1 ELSE 0
      BY DEF RequiredApprovals
    <2> QED
      BY <2>1, <2>4, <2>5, <2>6 DEF PlanSeen
  <1> QED
    BY <1>1, RequestInvHolds, PTL

-----------------------------------------------------------------------------
(* Answers both sides agree on *)

(* The server selects its first version that the client has. *)
LEMMA SelectedIsFirst ==
    ASSUME NEW offer, NEW policy \in Policies, SelectedVersion(offer, policy) # None
    PROVE  \E i \in DOMAIN policy.versions :
              /\ policy.versions[i] = SelectedVersion(offer, policy)
              /\ \A j \in DOMAIN policy.versions : policy.versions[j] \in offer.versions => i <= j
  <1>1. PICK mutual : mutual = MutualVersions(offer, policy)
    OBVIOUS
  <1>2. mutual # {} /\ SelectedVersion(offer, policy) = policy.versions[First(mutual)]
    BY <1>1 DEF SelectedVersion
  <1>3. mutual \in SUBSET DOMAIN policy.versions
    BY <1>1 DEF MutualVersions
  <1>4. mutual \in SUBSET Nat
    BY <1>3, PoliciesAssumption
  <1>5. First(mutual) \in mutual /\ \A j \in mutual : First(mutual) <= j
    BY <1>2, <1>4, FirstIsLeast
  <1>6. \A j \in DOMAIN policy.versions : policy.versions[j] \in offer.versions => j \in mutual
    BY <1>1 DEF MutualVersions
  <1> QED
    BY <1>2, <1>3, <1>5, <1>6

(* The deprecation that is looked up is one of the selected version. *)
LEMMA DeprecationIsOfVersion ==
    ASSUME NEW version, NEW policy \in Policies, NEW d \in DeprecationOf(version, policy)
    PROVE  d.version = version
  <1>1. PICK of : of = {i \in DOMAIN policy.deprecations : policy.deprecations[i].version = version}
    OBVIOUS
  <1>2. of # {} /\ d = policy.deprecations[First(of)]
    BY <1>1 DEF DeprecationOf
  <1>3. of \in SUBSET Nat
    BY <1>1, PoliciesAssumption
  <1>4. First(of) \in of
    BY <1>2, <1>3, FirstIsLeast
  <1> QED
    BY <1>1, <1>2, <1>4

\* What the client's parser and the preference of the server say of an answer.
AnswerAgreed(offer, policy, a) ==
    /\ VersionResponseParses(a, policy)
    /\ "VERSION_SUNSET" \in a.reasons =>
          \A d \in a.deprecations :
              \/ d.replacement \notin offer.versions
              \/ \E i, j \in DOMAIN policy.versions :
                    /\ i < j
                    /\ policy.versions[i] = d.version
                    /\ policy.versions[j] = d.replacement

(* Where negotiation answers, it answers what its own parser accepts, and  *)
(* a sunset refuses a client only if the replacement is less preferred.    *)
LEMMA NegotiatedIsAgreed ==
    ASSUME NEW offer, NEW policy \in Policies, NEW time, NegotiationAnswers(offer, policy)
    PROVE  AnswerAgreed(offer, policy, Negotiated(offer, policy, time))
  <1>1. PICK selected : selected = SelectedVersion(offer, policy)
    OBVIOUS
  <1>2. PICK ds : ds = DeprecationOf(selected, policy)
    OBVIOUS
  <1>3. PICK a : a = Negotiated(offer, policy, time)
    OBVIOUS
  <1>4. CASE selected = None \/ ~(offer.features \subseteq policy.features)
    <2>1. a = versionResponse(None, {"UNSUPPORTED_VERSION"}, {})
          \/ a = versionResponse(None, {"REQUIRED_FEATURE_UNAVAILABLE"}, {})
      BY <1>1, <1>3, <1>4 DEF Negotiated
    <2>2. /\ a.compatible = FALSE /\ a.selected = None /\ a.deprecations = {}
          /\ a.reasons # {} /\ "VERSION_SUNSET" \notin a.reasons
      <3>1. CASE a = versionResponse(None, {"UNSUPPORTED_VERSION"}, {})
        BY <3>1 DEF versionResponse
      <3>2. CASE a = versionResponse(None, {"REQUIRED_FEATURE_UNAVAILABLE"}, {})
        BY <3>2 DEF versionResponse
      <3> QED
        BY <2>1, <3>1, <3>2
    <2> QED
      BY <1>3, <2>2 DEF AnswerAgreed, VersionResponseParses
  <1>5. CASE selected # None /\ offer.features \subseteq policy.features
    <2>1. \A d \in ds : DeprecationValid(d, policy.versions)
      BY <1>1, <1>2, <1>5 DEF NegotiationAnswers
    <2>2. \A d \in ds : d.version = selected
      BY <1>2, DeprecationIsOfVersion
    <2>3. PICK i \in DOMAIN policy.versions :
              /\ policy.versions[i] = selected
              /\ \A j \in DOMAIN policy.versions : policy.versions[j] \in offer.versions => i <= j
      BY <1>1, <1>5, SelectedIsFirst
    <2>4. selected \in ToSet(policy.versions)
      BY <2>3 DEF ToSet
    <2>5. ASSUME NEW d \in ds
          PROVE  \/ d.replacement \notin offer.versions
                 \/ \E k, j \in DOMAIN policy.versions :
                       k < j /\ policy.versions[k] = d.version /\ policy.versions[j] = d.replacement
      <3> SUFFICES ASSUME d.replacement \in offer.versions
                   PROVE  \E k, j \in DOMAIN policy.versions :
                             k < j /\ policy.versions[k] = d.version /\ policy.versions[j] = d.replacement
        OBVIOUS
      <3>1. d.replacement \in ToSet(policy.versions) /\ d.replacement # selected
        BY <2>1, <2>2, <2>5 DEF DeprecationValid
      <3>2. PICK j \in DOMAIN policy.versions : policy.versions[j] = d.replacement
        BY <3>1 DEF ToSet
      <3>3. i <= j /\ i # j
        BY <2>3, <3>1, <3>2
      <3>4. i \in Nat /\ j \in Nat
        BY PoliciesAssumption
      <3>5. i < j
        BY <3>3, <3>4
      <3> QED
        BY <2>2, <2>3, <2>5, <3>2, <3>5
    <2>6. CASE \E d \in ds : d.sunset <= time
      <3>1. a = versionResponse(None, {"VERSION_SUNSET"}, ds)
        BY <1>1, <1>2, <1>3, <1>5, <2>6 DEF Negotiated
      <3>2. a.compatible = FALSE /\ a.selected = None /\ a.deprecations = ds /\ a.reasons = {"VERSION_SUNSET"}
        BY <3>1 DEF versionResponse
      <3> QED
        BY <1>3, <2>1, <2>5, <3>2 DEF AnswerAgreed, VersionResponseParses
    <2>7. CASE ~\E d \in ds : d.sunset <= time
      <3>1. a = versionResponse(selected, IF ds = {} THEN {} ELSE {"DEPRECATED_VERSION"}, ds)
        BY <1>1, <1>2, <1>3, <1>5, <2>7 DEF Negotiated
      <3>2. /\ a.compatible = TRUE /\ a.selected = selected /\ a.deprecations = ds
            /\ a.reasons = IF ds = {} THEN {} ELSE {"DEPRECATED_VERSION"}
        BY <1>5, <3>1 DEF versionResponse
      <3>3. VersionResponseParses(a, policy)
        BY <1>5, <2>1, <2>2, <2>4, <3>2 DEF VersionResponseParses
      <3>4. "VERSION_SUNSET" \notin a.reasons
        BY <3>2
      <3> QED
        BY <1>3, <3>3, <3>4 DEF AnswerAgreed
    <2> QED
      BY <2>6, <2>7
  <1> QED
    BY <1>4, <1>5

\* The last negotiation, if there is one, is agreed; so is the last answer.
AnswersInv ==
    /\ \E last : session = [connected |-> session.connected, last |-> last]
    /\ \/ session.last = <<>>
       \/ \E offer, policy, at, a : /\ session.last = <<[offer |-> offer, policy |-> policy, at |-> at, answer |-> a]>>
                                    /\ AnswerAgreed(offer, policy, a)
    /\ answer # NoAnswer => OperationResponseParses(answer)

(* Refusals and acceptances are what the client's parser takes. *)
LEMMA ResponsesParse ==
    /\ \A o \in OperationIds : OperationResponseParses(acceptInfrastructureOperation(o))
    /\ \A reasons : \A delay \in RetryDelays :
          RejectAllowed(reasons, delay) => OperationResponseParses(rejectInfrastructureOperation(reasons, delay))
  <1>1. ASSUME NEW o \in OperationIds PROVE OperationResponseParses(acceptInfrastructureOperation(o))
    <2>1. 0 <= MaxRetryAfter
      BY DelaysAssumption
    <2> QED
      BY <2>1, RequestBoundsAssumption DEF OperationResponseParses, acceptInfrastructureOperation, NoDelay
  <1>2. ASSUME NEW reasons, NEW delay \in RetryDelays, RejectAllowed(reasons, delay)
        PROVE  OperationResponseParses(rejectInfrastructureOperation(reasons, delay))
    BY <1>2, DelaysAssumption DEF OperationResponseParses, rejectInfrastructureOperation, RejectAllowed
  <1> QED
    BY <1>1, <1>2

(* What is agreed is said of the negotiation in the session. *)
LEMMA AgreedSession == AnswersInv => AnswersAreAgreed
  <1> SUFFICES ASSUME AnswersInv PROVE AnswersAreAgreed
    OBVIOUS
  <1>1. CASE session.last = <<>>
    BY <1>1 DEF AnswersInv, AnswersAreAgreed, AnswersParse, SunsetFollowsPreference
  <1>2. CASE session.last # <<>>
    <2>1. PICK offer, policy, at, a :
              /\ session.last = <<[offer |-> offer, policy |-> policy, at |-> at, answer |-> a]>>
              /\ AnswerAgreed(offer, policy, a)
      BY <1>2 DEF AnswersInv
    <2>2. PICK n : n = [offer |-> offer, policy |-> policy, at |-> at, answer |-> a]
      OBVIOUS
    <2>3. n.offer = offer /\ n.policy = policy /\ n.answer = a
      BY <2>2
    <2>4. session.last[1] = n /\ {session.last[i] : i \in DOMAIN session.last} = {n}
      BY <2>1, <2>2
    <2>5. AnswersParse
      BY <2>1, <2>3, <2>4 DEF AnswersInv, AnswersParse, AnswerAgreed
    <2>6. SunsetFollowsPreference
      BY <2>1, <2>3, <2>4 DEF SunsetFollowsPreference, AnswerAgreed
    <2> QED
      BY <2>5, <2>6 DEF AnswersAreAgreed
  <1> QED
    BY <1>1, <1>2

(* Whatever a server and its clients are configured with: every answer     *)
(* that is given is one the other side's parser accepts, and a client is   *)
(* turned away at a sunset only if the server prefers the old version      *)
(* (negotiateInfrastructureControllerVersion).                             *)
THEOREM AnswersStayAgreed == SpecRequests => []AnswersAreAgreed
  <1>1. InitRequests => AnswersInv
    <2> SUFFICES ASSUME InitRequests PROVE AnswersInv
      OBVIOUS
    <2>1. session = [connected |-> FALSE, last |-> <<>>] /\ answer = NoAnswer
      BY DEF InitRequests, NoSession
    <2>2. session.last = <<>> /\ session = [connected |-> session.connected, last |-> <<>>]
      BY <2>1
    <2> QED
      BY <2>1, <2>2 DEF AnswersInv
  <1>2. AnswersInv /\ [NextRequests]_requestVars => AnswersInv'
    <2> SUFFICES ASSUME AnswersInv, [NextRequests]_requestVars PROVE AnswersInv'
      OBVIOUS
    <2>1. ASSUME NEW offer \in Offers, NEW policy \in Policies, Negotiate(offer, policy) PROVE AnswersInv'
      <3>1. PICK a : a = Negotiated(offer, policy, now)
        OBVIOUS
      <3>2. PICK last : last = <<[offer |-> offer, policy |-> policy, at |-> now, answer |-> a]>>
        OBVIOUS
      <3>3. session' = [session EXCEPT !.last = last] /\ UNCHANGED answer
        BY <2>1, <3>1, <3>2 DEF Negotiate
      <3>4. session' = [connected |-> session.connected, last |-> last]
        BY <3>3 DEF AnswersInv
      <3>5. session'.last = last /\ session' = [connected |-> session'.connected, last |-> last]
        BY <3>4
      <3>6. AnswerAgreed(offer, policy, a)
        BY <2>1, <3>1, NegotiatedIsAgreed DEF Negotiate
      <3>7. \E o, p, at, b : /\ session'.last = <<[offer |-> o, policy |-> p, at |-> at, answer |-> b]>>
                             /\ AnswerAgreed(o, p, b)
        BY <3>2, <3>5, <3>6
      <3> QED
        BY <3>3, <3>5, <3>7 DEF AnswersInv
    <2>2. ASSUME Connect PROVE AnswersInv'
      <3>1. session' = [connected |-> TRUE, last |-> <<>>] /\ UNCHANGED answer
        BY <2>2 DEF Connect
      <3> QED
        BY <3>1 DEF AnswersInv
    <2>3. ASSUME UNCHANGED <<session, answer>> PROVE AnswersInv'
      BY <2>3 DEF AnswersInv
    <2>4. ASSUME NEW r, NEW retryAfter \in RetryDelays, Refuse(r, retryAfter) PROVE AnswersInv'
      <3>1. PICK reasons : RejectAllowed(reasons, retryAfter)
                           /\ answer' = rejectInfrastructureOperation(reasons, retryAfter)
        BY <2>4 DEF Refuse
      <3>2. UNCHANGED session
        BY <2>4 DEF Refuse
      <3> QED
        BY <3>1, <3>2, ResponsesParse DEF AnswersInv
    <2>5. ASSUME NEW d \in pending, NEW o \in OperationIds, Commit(d, o) PROVE AnswersInv'
      BY <2>5, ResponsesParse DEF Commit, AnswersInv
    <2>6. ASSUME Tick \/ (\E d \in DOMAIN PlanContents, checksPassed \in BOOLEAN : StorePlan(d, checksPassed))
                   \/ (\E p \in Approvers, d \in DOMAIN PlanContents : Approve(p, d))
                   \/ (\E r \in Assemblies : Evaluate(r))
                   \/ (\E d \in pending : Forget(d)) \/ UNCHANGED requestVars
          PROVE  AnswersInv'
      BY <2>3, <2>6 DEF Tick, StorePlan, Approve, Evaluate, Forget, requestVars
    <2> QED
      BY <2>1, <2>2, <2>4, <2>5, <2>6 DEF NextRequests
  <1> QED
    BY <1>1, <1>2, AgreedSession, PTL DEF SpecRequests

=============================================================================

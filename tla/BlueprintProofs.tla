--------------------------- MODULE BlueprintProofs ---------------------------
(***************************************************************************)
(* Safety of blueprints and of the catalogs compiled from them, for any    *)
(* finite blueprint, any edits and any intents for its databases.          *)
(***************************************************************************)
EXTENDS BlueprintReview, CloudPlan, FiniteSetTheorems, SequenceTheorems, WellFoundedInduction, TLAPS

-----------------------------------------------------------------------------
(* What an accepted blueprint is *)

(* A finite list with as many identifiers as entries repeats none.         *)
LEMMA UniqueIdentifiers ==
    ASSUME NEW S, IsFiniteSet(S), ~Repeats(S)
    PROVE  \A x, y \in S : x.id = y.id => x = y
  <1> DEFINE name == [x \in S |-> x.id]
  <1>1. name \in Surjection(S, Ids(S))
    BY DEF Surjection, Ids
  <1>2. Cardinality(Ids(S)) = Cardinality(S)
    BY DEF Repeats
  <1>3. name \in Injection(S, Ids(S))
    BY <1>1, <1>2, FS_Surjection
  <1> QED
    BY <1>3 DEF Injection, IsInjective

(* An entry of such a list is what its identifier finds. *)
LEMMA FoundByIdentifier ==
    ASSUME NEW S, IsFiniteSet(S), ~Repeats(S), NEW x \in S
    PROVE  Find(S, x.id) = x /\ x.id \in Ids(S)
  BY UniqueIdentifiers DEF Find, Ids

(* An accepted blueprint repeats no identifier in any of its lists, and no *)
(* policy has anything to report of it.                                    *)
LEMMA AcceptedBlueprint ==
    ASSUME NEW b, NEW now, assertBlueprint(b, now)
    PROVE  /\ \A l \in {"zones", "applications", "identities"} : ~Repeats(b[l])
           /\ ReferenceIntegrity(b) = {}
           /\ transitiveNetworkPolicy(b) = {}
           /\ SharedOwnership(b) = {}
           /\ \A a \in b.applications : ApplicationViolations(b, a) = {}
           /\ identityPolicy(b, now) = {}
  <1>1. evaluateBlueprint(b, now) = {}
    BY DEF assertBlueprint
  <1>2. /\ structuralIntegrityPolicy(b) = {} /\ transitiveNetworkPolicy(b) = {}
        /\ applicationDeploymentPolicy(b) = {} /\ identityPolicy(b, now) = {}
    BY <1>1 DEF evaluateBlueprint
  <1>3. Report("CORE_DUPLICATE_ID", DuplicateIds(b)) = {} /\ ReferenceIntegrity(b) = {}
    BY <1>2 DEF structuralIntegrityPolicy
  <1>4. ~DuplicateIds(b)
    BY <1>3 DEF Report
  <1>5. \A l \in {"zones", "applications", "identities"} : ~Repeats(b[l])
    BY <1>4 DEF DuplicateIds, ResourceLists
  <1>6. SharedOwnership(b) = {} /\ \A a \in b.applications : ApplicationViolations(b, a) = {}
    BY <1>2 DEF applicationDeploymentPolicy
  <1> QED
    BY <1>2, <1>3, <1>5, <1>6

(* Of an accepted blueprint with finite lists, an application and its      *)
(* components are known by their identifiers, a data boundary is held by   *)
(* one component, and components run under identities of workloads.        *)
LEMMA AcceptedComponents ==
    ASSUME NEW b, NEW now, assertBlueprint(b, now),
           DOMAIN b = BlueprintFields, FiniteDocument(b)
    PROVE  /\ \A c, d \in Components(b) : c[1] = d[1] /\ c[2].id = d[2].id => c = d
           /\ \A c, d \in Components(b) : c[2].boundaries \cap d[2].boundaries # {} => c = d
           /\ \A c \in Components(b) : ShortLivedWorkload(b, c[2].identity)
  <1>1. /\ IsFiniteSet(b.applications)
        /\ \A a \in b.applications : IsFiniteSet(a.components)
    BY DEF FiniteDocument, BlueprintFields
  <1>2. ~Repeats(b.applications) /\ SharedOwnership(b) = {}
    BY AcceptedBlueprint
  <1>3. ASSUME NEW a \in b.applications
        PROVE  /\ ~Repeats(a.components)
               /\ \A c \in a.components : ShortLivedWorkload(b, c.identity)
    <2>1. ApplicationViolations(b, a) = {}
      BY AcceptedBlueprint
    <2>2. /\ Report("APP_DUPLICATE_COMPONENT", Repeats(a.components)) = {}
          /\ \A c \in a.components : ComponentViolations(b, a, c) = {}
      <3>1. Report("APP_DUPLICATE_COMPONENT", Repeats(a.components)) \subseteq ApplicationViolations(b, a)
        BY Zenon DEF ApplicationViolations
      <3>2. UNION {ComponentViolations(b, a, c) : c \in a.components} \subseteq ApplicationViolations(b, a)
        BY Zenon DEF ApplicationViolations
      <3> QED
        BY <2>1, <3>1, <3>2
    <2>3. \A c \in a.components :
              Report("APP_COMPONENT_IDENTITY_POSTURE", ~ShortLivedWorkload(b, c.identity)) = {}
      BY <2>2 DEF ComponentViolations
    <2> QED
      BY <2>2, <2>3 DEF Report
  <1>4. \A c \in Components(b) : \E a \in b.applications : c[1] = a.id /\ c[2] \in a.components /\ c = <<c[1], c[2]>>
    BY DEF Components
  <1>5. ASSUME NEW c \in Components(b), NEW d \in Components(b), c[1] = d[1], c[2].id = d[2].id
        PROVE  c = d
    <2>1. PICK a \in b.applications : c[1] = a.id /\ c[2] \in a.components /\ c = <<c[1], c[2]>>
      BY <1>4
    <2>2. PICK e \in b.applications : d[1] = e.id /\ d[2] \in e.components /\ d = <<d[1], d[2]>>
      BY <1>4
    <2>3. a = e
      BY <1>1, <1>2, <1>5, <2>1, <2>2, UniqueIdentifiers
    <2>4. c[2] = d[2]
      BY <1>1, <1>3, <1>5, <2>1, <2>2, <2>3, UniqueIdentifiers
    <2> QED
      BY <1>5, <2>1, <2>2, <2>4
  <1>6. ASSUME NEW c \in Components(b), NEW d \in Components(b), c[2].boundaries \cap d[2].boundaries # {}
        PROVE  c = d
    <2>1. Report("APP_SHARED_COMPONENT_DATA", Shared([x \in Components(b) |-> x[2].boundaries])) = {}
      BY <1>2 DEF SharedOwnership
    <2>2. ~Shared([x \in Components(b) |-> x[2].boundaries])
      BY <2>1 DEF Report
    <2> QED
      BY <1>6, <2>2 DEF Shared
  <1> QED
    BY <1>3, <1>4, <1>5, <1>6

-----------------------------------------------------------------------------
(* Planned catalogs: databases and their owners *)

(* The bindings of a planned catalog are those of the intent, in the       *)
(* context of the applications; the other context has none.                *)
LEMMA PlannedBindings ==
    ASSUME NEW b, NEW i, NEW x, NEW plane,
           NEW catalog, catalog = PlannedCatalog(b, i, x, plane)
    PROVE  /\ AllBindings(catalog) = {PlannedBinding(k) : k \in i.bindings}
           /\ x.application # x.execution =>
                  ById(catalog.contexts, x.execution).bindings = {}
  <1>1. catalog.contexts = {applicationContext(b, i, x), executionContext(b, i, x, plane)}
    BY DEF PlannedCatalog
  <1>2. /\ applicationContext(b, i, x).id = x.application
        /\ applicationContext(b, i, x).bindings = {PlannedBinding(k) : k \in i.bindings}
    BY DEF applicationContext, PlannedContext
  <1>3. /\ executionContext(b, i, x, plane).id = x.execution
        /\ executionContext(b, i, x, plane).bindings = {}
    BY DEF executionContext, PlannedContext
  <1>4. AllBindings(catalog) = applicationContext(b, i, x).bindings \cup executionContext(b, i, x, plane).bindings
    BY <1>1 DEF AllBindings
  <1>5. ASSUME x.application # x.execution
        PROVE  ById(catalog.contexts, x.execution) = executionContext(b, i, x, plane)
    BY <1>1, <1>2, <1>3, <1>5 DEF ById
  <1> QED
    BY <1>2, <1>3, <1>4, <1>5

(* Whom a placement delegates to is in the context of isolated execution. *)
LEMMA PlannedPlacements ==
    ASSUME NEW b, NEW i, NEW x, NEW plane, NEW p \in PlannedCatalog(b, i, x, plane).placements
    PROVE  \A d \in p.delegated : d.context = x.execution
  <1>1. PICK c \in Components(b) : p = PlannedPlacement(c[1], c[2], i, x)
    BY DEF PlannedCatalog
  <1>2. p.delegated = IF c[1] = <<"mind">> /\ c[2].id = <<"execution">>
                      THEN {[context |-> x.execution, runtime |-> "isolated-execution-runtime"]} ELSE {}
    BY <1>1 DEF PlannedPlacement
  <1> QED
    BY <1>2

(* What a placement consumes is a binding of its own component. *)
LEMMA ConsumedByOwner ==
    ASSUME NEW i, NEW catalog, assertCloudContextCatalog(catalog), IntentHolds(i),
           AllBindings(catalog) = {PlannedBinding(k) : k \in i.bindings},
           NEW k \in i.bindings, NEW p \in catalog.placements, k.id \in p.bindings
    PROVE  p.application = k.tenant /\ p.component = k.module
  <1>1. MayConsume(p, k.id, catalog)
    BY DEF assertCloudContextCatalog, assertPlacements, assertPlacement
  <1>2. PICK e \in AllBindings(catalog) :
            e.id = k.id /\ e.application = p.application /\ e.component = p.component
    BY <1>1 DEF MayConsume, AllBindings
  <1>4. PICK l \in i.bindings : e = PlannedBinding(l)
    BY <1>2
  <1>5. e.id = l.id /\ e.application = l.tenant /\ e.component = l.module
    BY <1>4 DEF PlannedBinding
  <1>6. l = k
    BY <1>2, <1>5 DEF IntentHolds
  <1> QED
    BY <1>2, <1>5, <1>6

(* Every binding goes to exactly one placement. *)
LEMMA ConsumedOnce ==
    ASSUME NEW catalog, assertCloudContextCatalog(catalog), NEW e \in AllBindings(catalog)
    PROVE  Cardinality({p \in catalog.placements : e.id \in p.bindings}) = 1
  <1> DEFINE consumers == {p \in catalog.placements : e.id \in p.bindings}
  <1>1. assertPlacements(catalog)
    BY DEF assertCloudContextCatalog
  <1>2. e.id \in UNION {p.bindings : p \in catalog.placements}
    BY <1>1 DEF assertPlacements
  <1>3. PICK p \in catalog.placements : e.id \in p.bindings
    BY <1>2
  <1>4. \A q \in catalog.placements : q # p => p.bindings \cap q.bindings = {}
    BY <1>1 DEF assertPlacements
  <1>5. consumers = {p}
    BY <1>3, <1>4
  <1> QED
    BY <1>5, FS_Singleton

(* One database of a compiled catalog: the component that holds its data   *)
(* boundary is the one its placement is of, and runs under its runtime     *)
(* identity; its migration identity is an automation's.                    *)
LEMMA OwnedDatabase ==
    ASSUME NEW i, NEW x, NEW plane, compileAwsCloudContextCatalog(PlanBlueprint, i, x, plane),
           NEW k \in i.bindings,
           NEW p \in PlannedCatalog(PlanBlueprint, i, x, plane).placements, k.id \in p.bindings
    PROVE  LET components == Components(PlanBlueprint)
               own == {c \in components : <<c[1], c[2].id>> = <<p.application, p.component>>}
           IN /\ {c \in components : k.boundary \in c[2].boundaries} = own
              /\ \A c \in own : c[2].identity = k.runtimeIdentity
  <1> DEFINE catalog == PlannedCatalog(PlanBlueprint, i, x, plane)
             components == Components(PlanBlueprint)
             own == {c \in components : <<c[1], c[2].id>> = <<p.application, p.component>>}
  <1>1. /\ assertManagedPostgresIntent(i, {PlanBlueprint}, 1)
        /\ assertCloudContextCatalog(catalog)
        /\ assertBlueprint(PlanBlueprint, 1)
    BY DEF compileAwsCloudContextCatalog
  <1>2. IntentHolds(i) /\ OwnerHolds(k, PlanBlueprint)
    BY <1>1 DEF assertManagedPostgresIntent
  <1>3. p.application = k.tenant /\ p.component = k.module
    BY <1>1, <1>2, PlannedBindings, ConsumedByOwner
  <1>4. PICK a \in PlanBlueprint.applications :
            /\ a.id = k.tenant
            /\ \E o \in a.components :
                  o.id = k.module /\ k.boundary \in o.boundaries /\ o.identity = k.runtimeIdentity
    BY <1>2 DEF OwnerHolds
  <1>5. PICK o \in a.components : o.id = k.module /\ k.boundary \in o.boundaries /\ o.identity = k.runtimeIdentity
    BY <1>4
  <1>6. /\ \A c, d \in components : c[1] = d[1] /\ c[2].id = d[2].id => c = d
        /\ \A c, d \in components : c[2].boundaries \cap d[2].boundaries # {} => c = d
    BY <1>1, AcceptedComponents, PlanBlueprintAssumption
  <1> HIDE DEF components
  <1>7. PICK c : c = <<a.id, o>>
    OBVIOUS
  <1>8. /\ c \in components /\ c[1] = k.tenant /\ c[2].id = k.module /\ k.boundary \in c[2].boundaries
        /\ c[2].identity = k.runtimeIdentity
    BY <1>4, <1>5, <1>7 DEF components, Components
  <1>9. own = {c}
    BY <1>3, <1>6, <1>8
  <1>10. {d \in components : k.boundary \in d[2].boundaries} = {c}
    BY <1>6, <1>8
  <1> QED
    BY <1>8, <1>9, <1>10 DEF components

(* Who migrates a database of a compiled catalog is no component. *)
LEMMA MigratedByNobody ==
    ASSUME NEW i, NEW x, NEW plane, compileAwsCloudContextCatalog(PlanBlueprint, i, x, plane),
           NEW k \in i.bindings, NEW c \in Components(PlanBlueprint)
    PROVE  c[2].identity # k.migrationIdentity
  <1>1. assertManagedPostgresIntent(i, {PlanBlueprint}, 1) /\ assertBlueprint(PlanBlueprint, 1)
    BY DEF compileAwsCloudContextCatalog
  <1>2. PICK migrator \in PlanBlueprint.identities :
            migrator.id = k.migrationIdentity /\ migrator.kind = "automation"
    BY <1>1 DEF assertManagedPostgresIntent, MigratorHolds
  <1>3. ~Repeats(PlanBlueprint.identities) /\ IsFiniteSet(PlanBlueprint.identities)
    BY <1>1, AcceptedBlueprint, PlanBlueprintAssumption DEF FiniteDocument, BlueprintFields
  <1>4. Find(PlanBlueprint.identities, k.migrationIdentity) = migrator
    BY <1>2, <1>3, FoundByIdentifier
  <1>5. ShortLivedWorkload(PlanBlueprint, c[2].identity)
    BY <1>1, AcceptedComponents, PlanBlueprintAssumption
  <1> QED
    BY <1>2, <1>4, <1>5 DEF ShortLivedWorkload

(* The inductive invariant behind the catalogs: each of them was compiled  *)
(* from the intent as it stands.                                           *)
CatalogsAreCompiled ==
    \A catalog \in planned : \E x \in Extensions, plane \in untrustedPlanes(PlanBlueprint) :
        LET i == ParsedIntent(planIntent, planEnvironment)
        IN /\ compileAwsCloudContextCatalog(PlanBlueprint, i, x, plane)
           /\ catalog = PlannedCatalog(PlanBlueprint, i, x, plane)

(* Amending and migrating an intent drop what was compiled from it.        *)
LEMMA CatalogsStayCompiled == SpecPlan => []CatalogsAreCompiled
  <1>1. InitPlan => CatalogsAreCompiled
    BY DEF InitPlan, CatalogsAreCompiled
  <1>2. CatalogsAreCompiled /\ [NextPlan]_planVars => CatalogsAreCompiled'
    <2> SUFFICES ASSUME CatalogsAreCompiled, [NextPlan]_planVars PROVE CatalogsAreCompiled'
      OBVIOUS
    <2>1. CASE planned' = {}
      BY <2>1 DEF CatalogsAreCompiled
    <2>2. ASSUME NEW x \in Extensions, NEW plane \in untrustedPlanes(PlanBlueprint), RenderCloudContexts(x, plane)
          PROVE  CatalogsAreCompiled'
      BY <2>2 DEF RenderCloudContexts, CatalogsAreCompiled
    <2>3. CASE UNCHANGED planVars
      BY <2>3 DEF planVars, CatalogsAreCompiled
    <2> QED
      BY <2>1, <2>2, <2>3 DEF NextPlan, AmendIntent, MigrateIntent
  <1> QED
    BY <1>1, <1>2, PTL DEF SpecPlan

(* Whatever intents are written, amended and migrated, and whichever       *)
(* accounts and planes a catalog is compiled for, its databases are        *)
(* consumed and migrated by whom the blueprint says                        *)
(* (compileAwsCloudContextCatalog).                                        *)
THEOREM DatabasesStayOwned == SpecPlan => []PlannedDatabasesAreOwned
  <1>1. CatalogsAreCompiled => PlannedDatabasesAreOwned
    <2> SUFFICES ASSUME CatalogsAreCompiled, NEW catalog \in planned, NEW e \in AllBindings(catalog)
                 PROVE  LET components == Components(PlanBlueprint)
                            own(p) == {c \in components : <<c[1], c[2].id>> = <<p.application, p.component>>}
                        IN /\ \A c \in components : c[2].identity # e.migrationIdentity
                           /\ Cardinality({p \in catalog.placements : e.id \in p.bindings}) = 1
                           /\ \A p \in catalog.placements : e.id \in p.bindings =>
                                  /\ {c \in components : e.boundary \in c[2].boundaries} = own(p)
                                  /\ \A c \in own(p) : c[2].identity = e.runtimeIdentity
                           /\ \A p \in catalog.placements : \A d \in p.delegated :
                                  e \notin ById(catalog.contexts, d.context).bindings
      BY DEF PlannedDatabasesAreOwned
    <2>1. PICK i : i = ParsedIntent(planIntent, planEnvironment)
      OBVIOUS
    <2>2. PICK x \in Extensions, plane \in untrustedPlanes(PlanBlueprint) :
              /\ compileAwsCloudContextCatalog(PlanBlueprint, i, x, plane)
              /\ catalog = PlannedCatalog(PlanBlueprint, i, x, plane)
      BY <2>1 DEF CatalogsAreCompiled
    <2>3. /\ assertCloudContextCatalog(catalog) /\ x.application # x.execution
      BY <2>2 DEF compileAwsCloudContextCatalog, validateExtensions
    <2>4. /\ AllBindings(catalog) = {PlannedBinding(k) : k \in i.bindings}
          /\ ById(catalog.contexts, x.execution).bindings = {}
      BY <2>2, <2>3, PlannedBindings
    <2>5. PICK k \in i.bindings : e = PlannedBinding(k)
      BY <2>4
    <2>6. /\ e.id = k.id /\ e.boundary = k.boundary
          /\ e.runtimeIdentity = k.runtimeIdentity /\ e.migrationIdentity = k.migrationIdentity
      BY <2>5 DEF PlannedBinding
    <2>7. \A c \in Components(PlanBlueprint) : c[2].identity # e.migrationIdentity
      BY <2>2, <2>6, MigratedByNobody
    <2>8. Cardinality({p \in catalog.placements : e.id \in p.bindings}) = 1
      BY <2>3, ConsumedOnce
    <2>9. ASSUME NEW p \in catalog.placements, e.id \in p.bindings
          PROVE  LET own == {c \in Components(PlanBlueprint) :
                                <<c[1], c[2].id>> = <<p.application, p.component>>}
                 IN /\ {c \in Components(PlanBlueprint) : e.boundary \in c[2].boundaries} = own
                    /\ \A c \in own : c[2].identity = e.runtimeIdentity
      BY <2>2, <2>6, <2>9, OwnedDatabase
    <2>10. ASSUME NEW p \in catalog.placements, NEW d \in p.delegated
           PROVE  e \notin ById(catalog.contexts, d.context).bindings
      BY <2>2, <2>4, <2>10, PlannedPlacements
    <2> QED
      BY <2>7, <2>8, <2>9, <2>10
  <1> QED
    BY <1>1, CatalogsStayCompiled, PTL

-----------------------------------------------------------------------------
(* Migration of an intent *)

(* What two parsed bindings may agree on apart from their tenancy.         *)
SameButTenancy(k, l) ==
    /\ k.id = l.id /\ k.tenant = l.tenant /\ k.boundary = l.boundary
    /\ k.workspace = l.workspace /\ k.module = l.module /\ k.service = l.service
    /\ k.database = l.database
    /\ k.backupRetentionDays = l.backupRetentionDays
    /\ k.restoreTestIntervalDays = l.restoreTestIntervalDays
    /\ k.runtimeIdentity = l.runtimeIdentity /\ k.migrationIdentity = l.migrationIdentity
    /\ k.runtimeBoundary = l.runtimeBoundary /\ k.migrationBoundary = l.migrationBoundary

(* Lists of bindings that agree on everything else.                        *)
SameBindings(before, after) ==
    /\ \A k \in before : \E l \in after : SameButTenancy(k, l)
    /\ \A l \in after : \E k \in before : SameButTenancy(k, l)

(* Migrating a binding changes only its tenancy.                           *)
LEMMA MigratedBinding ==
    ASSUME NEW raw, BindingParses(raw, "v1alpha1"), NEW organization, NEW tenants
    PROVE  SameButTenancy(parseBinding(raw), parseBinding(BindingWithTenancy(raw, organization, tenants)))
  <1>1. PICK new : new = BindingWithTenancy(raw, organization, tenants)
    OBVIOUS
  <1>2. DOMAIN raw = CommonFields \cup {"tenant"}
    BY DEF BindingParses
  <1>3. "tenancy" \notin DOMAIN raw
    BY <1>2 DEF CommonFields
  <1>4. /\ "tenancy" \in DOMAIN new /\ new.tenancy.application = raw.tenant
        /\ \A f \in CommonFields : new[f] = raw[f]
    BY <1>1 DEF BindingWithTenancy, CommonFields
  <1>5. parseBinding(raw).tenant = raw.tenant /\ parseBinding(new).tenant = raw.tenant
    BY <1>3, <1>4 DEF parseBinding
  <1>6. \A f \in CommonFields : parseBinding(raw)[f] = raw[f] /\ parseBinding(new)[f] = raw[f]
    BY <1>4 DEF parseBinding, CommonFields
  <1>7. \A f \in CommonFields : parseBinding(raw)[f] = parseBinding(new)[f]
    BY <1>6
  <1> HIDE DEF parseBinding
  <1>8. PICK k, l : k = parseBinding(raw) /\ l = parseBinding(new)
    OBVIOUS
  <1>9. SameButTenancy(k, l)
    BY <1>5, <1>7, <1>8 DEF SameButTenancy, CommonFields
  <1> QED
    BY <1>1, <1>8, <1>9

(* The catalog is planned from what the two have in common.                *)
LEMMA SameCatalog ==
    ASSUME NEW i, NEW j, i.environment = j.environment, SameBindings(i.bindings, j.bindings),
           NEW b, NEW x, NEW plane
    PROVE  PlannedCatalog(b, i, x, plane) = PlannedCatalog(b, j, x, plane)
  <1>1. \A k \in i.bindings : \E l \in j.bindings : PlannedBinding(k) = PlannedBinding(l)
    BY DEF SameBindings, SameButTenancy, PlannedBinding, codeflyServiceRef
  <1>2. \A l \in j.bindings : \E k \in i.bindings : PlannedBinding(k) = PlannedBinding(l)
    BY DEF SameBindings, SameButTenancy, PlannedBinding, codeflyServiceRef
  <1>3. {PlannedBinding(k) : k \in i.bindings} = {PlannedBinding(k) : k \in j.bindings}
    BY <1>1, <1>2
  <1>4. UNION {{k.runtimeIdentity, k.migrationIdentity} : k \in i.bindings}
        = UNION {{k.runtimeIdentity, k.migrationIdentity} : k \in j.bindings}
    BY DEF SameBindings, SameButTenancy
  <1>5. applicationContext(b, i, x) = applicationContext(b, j, x)
    BY <1>3, <1>4 DEF applicationContext
  <1>6. executionContext(b, i, x, plane) = executionContext(b, j, x, plane)
    BY DEF executionContext
  <1>7. ASSUME NEW application, NEW component
        PROVE  PlannedPlacement(application, component, i, x) = PlannedPlacement(application, component, j, x)
    <2>1. {k.id : k \in {k \in i.bindings : k.tenant = application /\ k.module = component.id}}
          = {k.id : k \in {k \in j.bindings : k.tenant = application /\ k.module = component.id}}
      BY DEF SameBindings, SameButTenancy
    <2> QED
      BY <2>1 DEF PlannedPlacement
  <1>8. {PlannedPlacement(c[1], c[2], i, x) : c \in Components(b)}
        = {PlannedPlacement(c[1], c[2], j, x) : c \in Components(b)}
    BY <1>7
  <1> QED
    BY <1>5, <1>6, <1>8 DEF PlannedCatalog

(* Compiling, too, depends on nothing else, if both intents hold.          *)
LEMMA SameCompilation ==
    ASSUME NEW i, NEW j, i.environment = j.environment, SameBindings(i.bindings, j.bindings),
           IntentHolds(i), IntentHolds(j), NEW b, NEW x, NEW plane
    PROVE  compileAwsCloudContextCatalog(b, i, x, plane) <=> compileAwsCloudContextCatalog(b, j, x, plane)
  <1>1. PICK catalog : catalog = PlannedCatalog(b, i, x, plane) /\ catalog = PlannedCatalog(b, j, x, plane)
    BY SameCatalog
  <1>2. ASSUME NEW k, NEW l, SameButTenancy(k, l)
        PROVE  /\ BoundaryHolds(k, b) <=> BoundaryHolds(l, b)
               /\ OwnerHolds(k, b) <=> OwnerHolds(l, b)
               /\ MigratorHolds(k, b) <=> MigratorHolds(l, b)
               /\ codeflyServiceRef(k) = codeflyServiceRef(l)
    BY <1>2 DEF SameButTenancy, BoundaryHolds, OwnerHolds, MigratorHolds, codeflyServiceRef
  <1>3. (\A k \in i.bindings : BoundaryHolds(k, b) /\ OwnerHolds(k, b) /\ MigratorHolds(k, b))
        <=> (\A k \in j.bindings : BoundaryHolds(k, b) /\ OwnerHolds(k, b) /\ MigratorHolds(k, b))
    BY <1>2 DEF SameBindings
  <1>4. assertManagedPostgresIntent(i, {b}, 1) <=> assertManagedPostgresIntent(j, {b}, 1)
    BY <1>3 DEF assertManagedPostgresIntent
  <1>5. {k.id : k \in i.bindings} = {k.id : k \in j.bindings}
    BY DEF SameBindings, SameButTenancy
  <1>6. assertManagedPostgresBindings(catalog, i) => assertManagedPostgresBindings(catalog, j)
    BY <1>2, <1>5 DEF assertManagedPostgresBindings, SameBindings, SameButTenancy
  <1>7. assertManagedPostgresBindings(catalog, j) => assertManagedPostgresBindings(catalog, i)
    BY <1>2, <1>5 DEF assertManagedPostgresBindings, SameBindings, SameButTenancy
  <1> QED
    BY <1>1, <1>4, <1>6, <1>7 DEF compileAwsCloudContextCatalog

(* What a migration that returned says of the document it was given and of *)
(* the one it made: both parse, both intents hold, and their bindings      *)
(* agree but for the tenancy.                                              *)
LEMMA MigratedIntent ==
    ASSUME NEW source, source = [apiVersion |-> source.apiVersion, literals |-> source.literals,
                                 bindings |-> source.bindings],
           NEW environment, NEW blueprints, NEW organization, NEW tenants,
           migrateManagedPostgresV1alpha1ToV1alpha2(source, environment, blueprints, organization, tenants, 1),
           NEW target, target = WithTenancy(source, organization, tenants)
    PROVE  LET before == ParsedIntent(source, environment)
               after == ParsedIntent(target, environment)
           IN /\ IntentHolds(before) /\ IntentHolds(after)
              /\ SameBindings(before.bindings, after.bindings)
              /\ after.apiVersion = "v1alpha2"
              /\ \A raw \in target.bindings : BindingParses(raw, "v1alpha2")
  <1> DEFINE before == ParsedIntent(source, environment)
             after == ParsedIntent(target, environment)
             new(raw) == BindingWithTenancy(raw, organization, tenants)
  <1>1. target = [apiVersion |-> "v1alpha2", literals |-> source.literals,
                  bindings |-> {new(raw) : raw \in source.bindings}]
    BY DEF WithTenancy
  <1>2. /\ parseManagedPostgresIntent(source, environment, blueprints, 1)
        /\ source.apiVersion = "v1alpha1"
        /\ parseManagedPostgresIntent(target, environment, blueprints, 1)
    BY DEF migrateManagedPostgresV1alpha1ToV1alpha2
  <1>3. IntentHolds(before) /\ IntentHolds(after)
    BY <1>2 DEF parseManagedPostgresIntent, assertManagedPostgresIntent
  <1>4. /\ \A raw \in source.bindings : BindingParses(raw, "v1alpha1")
        /\ \A raw \in target.bindings : BindingParses(raw, "v1alpha2")
    BY <1>1, <1>2 DEF parseManagedPostgresIntent
  <1>5. \A raw \in source.bindings : SameButTenancy(parseBinding(raw), parseBinding(new(raw)))
    BY <1>4, MigratedBinding
  <1>6. before.bindings = {parseBinding(raw) : raw \in source.bindings}
    BY DEF ParsedIntent
  <1>7. after.bindings = {parseBinding(raw) : raw \in {new(raw) : raw \in source.bindings}}
    BY <1>1 DEF ParsedIntent
  <1> HIDE DEF before, after, new
  <1>8. \A k \in before.bindings : \E l \in after.bindings : SameButTenancy(k, l)
    BY <1>5, <1>6, <1>7
  <1>9. \A l \in after.bindings : \E k \in before.bindings : SameButTenancy(k, l)
    BY <1>5, <1>6, <1>7
  <1>10. after.apiVersion = "v1alpha2"
    BY <1>1 DEF after, ParsedIntent
  <1> QED
    BY <1>3, <1>4, <1>8, <1>9, <1>10 DEF SameBindings, before, after

(* In an intent of the newer version that holds, two databases have one    *)
(* platform tenant exactly if they have one application.                   *)
LEMMA TenantsOfMigrated ==
    ASSUME NEW value, value.apiVersion = "v1alpha2", NEW environment,
           IntentHolds(ParsedIntent(value, environment)),
           \A raw \in value.bindings : BindingParses(raw, "v1alpha2"),
           NEW k \in value.bindings, NEW l \in value.bindings
    PROVE  (k.tenancy.platformTenant = l.tenancy.platformTenant)
           <=> (k.tenancy.application = l.tenancy.application)
  <1> DEFINE intent == ParsedIntent(value, environment)
  <1>1. /\ intent.apiVersion = "v1alpha2"
        /\ parseBinding(k) \in intent.bindings /\ parseBinding(l) \in intent.bindings
    BY DEF ParsedIntent
  <1>2. "tenancy" \in DOMAIN k /\ "tenancy" \in DOMAIN l
    BY DEF BindingParses
  <1>3. parseBinding(k).tenancy = {k.tenancy} /\ parseBinding(l).tenancy = {l.tenancy}
    BY <1>2 DEF parseBinding, CommonFields
  <1>4. TenancyHolds(intent)
    BY DEF IntentHolds
  <1> HIDE DEF intent
  <1>5. \A t \in parseBinding(k).tenancy : \A u \in parseBinding(l).tenancy :
            (t.application = u.application) <=> (t.platformTenant = u.platformTenant)
    BY <1>1, <1>4 DEF TenancyHolds
  <1> QED
    BY <1>3, <1>5

(* The inductive invariant behind migrations: an intent is a document, and *)
(* until it is amended it is what a migration made of its source.          *)
MigrationInv ==
    /\ planIntent = [apiVersion |-> planIntent.apiVersion, literals |-> planIntent.literals,
                     bindings |-> planIntent.bindings]
    /\ \A source \in migratedFrom :
           /\ source = [apiVersion |-> source.apiVersion, literals |-> source.literals,
                        bindings |-> source.bindings]
           /\ \E blueprints \in SUBSET {PlanBlueprint}, tenants \in PlatformTenants :
                  /\ planIntent = WithTenancy(source, "deus", tenants)
                  /\ migrateManagedPostgresV1alpha1ToV1alpha2(source, planEnvironment, blueprints, "deus",
                                                              tenants, 1)

LEMMA MigrationInvHolds == SpecPlan => []MigrationInv
  <1>1. InitPlan => MigrationInv
    BY DEF InitPlan, MigrationInv
  <1>2. MigrationInv /\ [NextPlan]_planVars => MigrationInv'
    <2> SUFFICES ASSUME MigrationInv, [NextPlan]_planVars PROVE MigrationInv'
      OBVIOUS
    <2>1. PICK old : old = planIntent /\ old = [apiVersion |-> old.apiVersion, literals |-> old.literals,
                                                bindings |-> old.bindings]
      BY DEF MigrationInv
    <2>2. ASSUME NEW raw \in RawBindings, AmendIntent(raw)
          PROVE  MigrationInv'
      <3>1. planIntent' = [apiVersion |-> old.apiVersion, literals |-> old.literals,
                           bindings |-> old.bindings \cup {raw}]
        BY <2>1, <2>2 DEF AmendIntent
      <3>2. migratedFrom' = {}
        BY <2>2 DEF AmendIntent
      <3> QED
        BY <3>1, <3>2 DEF MigrationInv
    <2>3. ASSUME NEW blueprints \in SUBSET {PlanBlueprint}, NEW tenants \in PlatformTenants,
                 MigrateIntent(blueprints, tenants)
          PROVE  MigrationInv'
      <3>1. /\ migrateManagedPostgresV1alpha1ToV1alpha2(old, planEnvironment, blueprints, "deus", tenants, 1)
            /\ planIntent' = WithTenancy(old, "deus", tenants)
            /\ migratedFrom' = {old} /\ planEnvironment' = planEnvironment
        BY <2>1, <2>3 DEF MigrateIntent
      <3>2. planIntent' = [apiVersion |-> "v1alpha2", literals |-> old.literals,
                           bindings |-> {BindingWithTenancy(raw, "deus", tenants) : raw \in old.bindings}]
        BY <2>1, <3>1 DEF WithTenancy
      <3>3. planIntent' = [apiVersion |-> planIntent'.apiVersion, literals |-> planIntent'.literals,
                           bindings |-> planIntent'.bindings]
        BY <3>2
      <3> QED
        BY <2>1, <3>1, <3>3 DEF MigrationInv
    <2>4. ASSUME NEW x \in Extensions, NEW plane \in untrustedPlanes(PlanBlueprint), RenderCloudContexts(x, plane)
          PROVE  MigrationInv'
      BY <2>4 DEF RenderCloudContexts, MigrationInv
    <2>5. CASE UNCHANGED planVars
      BY <2>5 DEF planVars, MigrationInv
    <2> QED
      BY <2>2, <2>3, <2>4, <2>5 DEF NextPlan
  <1> QED
    BY <1>1, <1>2, PTL DEF SpecPlan

(* Whatever an intent says and whichever tenants its applications are      *)
(* given, migrating it changes nothing of what is deployed                 *)
(* (migrateManagedPostgresV1alpha1ToV1alpha2).                             *)
THEOREM MigrationStaysFaithful == SpecPlan => []MigrationKeepsThePlan
  <1>1. MigrationInv => MigrationKeepsThePlan
    <2> SUFFICES ASSUME MigrationInv, NEW source \in migratedFrom
                 PROVE  LET before == ParsedIntent(source, planEnvironment)
                            after == ParsedIntent(planIntent, planEnvironment)
                        IN /\ \A x \in Extensions, plane \in untrustedPlanes(PlanBlueprint) :
                                 /\ compileAwsCloudContextCatalog(PlanBlueprint, before, x, plane)
                                    <=> compileAwsCloudContextCatalog(PlanBlueprint, after, x, plane)
                                 /\ PlannedCatalog(PlanBlueprint, before, x, plane)
                                    = PlannedCatalog(PlanBlueprint, after, x, plane)
                           /\ \A k, l \in planIntent.bindings :
                                 (k.tenancy.platformTenant = l.tenancy.platformTenant)
                                 <=> (k.tenancy.application = l.tenancy.application)
      BY DEF MigrationKeepsThePlan
    <2>1. PICK before, after :
              before = ParsedIntent(source, planEnvironment) /\ after = ParsedIntent(planIntent, planEnvironment)
      OBVIOUS
    <2>2. /\ source = [apiVersion |-> source.apiVersion, literals |-> source.literals,
                       bindings |-> source.bindings]
          /\ \E blueprints \in SUBSET {PlanBlueprint}, tenants \in PlatformTenants :
                 /\ planIntent = WithTenancy(source, "deus", tenants)
                 /\ migrateManagedPostgresV1alpha1ToV1alpha2(source, planEnvironment, blueprints, "deus",
                                                             tenants, 1)
      BY DEF MigrationInv
    <2>3. /\ IntentHolds(before) /\ IntentHolds(after)
          /\ SameBindings(before.bindings, after.bindings)
          /\ after.apiVersion = "v1alpha2"
          /\ \A raw \in planIntent.bindings : BindingParses(raw, "v1alpha2")
      BY <2>1, <2>2, MigratedIntent
    <2>4. before.environment = planEnvironment /\ after.environment = planEnvironment
          /\ planIntent.apiVersion = after.apiVersion
      BY <2>1 DEF ParsedIntent
    <2>5. \A x \in Extensions, plane \in untrustedPlanes(PlanBlueprint) :
              /\ compileAwsCloudContextCatalog(PlanBlueprint, before, x, plane)
                 <=> compileAwsCloudContextCatalog(PlanBlueprint, after, x, plane)
              /\ PlannedCatalog(PlanBlueprint, before, x, plane) = PlannedCatalog(PlanBlueprint, after, x, plane)
      BY <2>3, <2>4, SameCatalog, SameCompilation
    <2>6. \A k, l \in planIntent.bindings :
              (k.tenancy.platformTenant = l.tenancy.platformTenant)
              <=> (k.tenancy.application = l.tenancy.application)
      BY <2>1, <2>3, <2>4, TenantsOfMigrated
    <2> QED
      BY <2>1, <2>5, <2>6
  <1> QED
    BY <1>1, MigrationInvHolds, PTL

-----------------------------------------------------------------------------
(* Recursion: the levels of paths and of what is reached *)

(* A set of natural numbers has a least one. *)
LEMMA LeastNumber ==
    ASSUME NEW T \in SUBSET Nat, T # {}
    PROVE  \E m \in T : \A n \in T : m <= n
  <1>1. IsWellFoundedOn(OpToRel(<, Nat), Nat)
    BY NatLessThanWellFounded
  <1>2. PICK R : R = OpToRel(<, Nat)
    OBVIOUS
  <1>3. \A m, n \in Nat : m < n => <<m, n>> \in R
    BY <1>2 DEF OpToRel
  <1>4. PICK m \in T : \A n \in T : ~(<<n, m>> \in R)
    BY <1>1, <1>2, WFMin
  <1>5. ASSUME NEW n \in T PROVE m <= n
    <2>1. m \in Nat /\ n \in Nat
      OBVIOUS
    <2>2. ~(n < m)
      BY <1>3, <1>4, <1>5, <2>1
    <2> QED
      BY <2>1, <2>2
  <1> QED
    BY <1>5

(* The levels of paths up to a depth.                                      *)
AreLevels(f, edges, from, m) ==
    f = [n \in 0 .. m |-> IF n = 0 THEN {<<>>} ELSE Extended(f[n - 1], edges, from)]

LEMMA LevelsExist ==
    ASSUME NEW edges, NEW from, NEW depth \in Nat
    PROVE  \E f : AreLevels(f, edges, from, depth)
  <1> DEFINE T == {m \in Nat : ~\E f : AreLevels(f, edges, from, m)}
  <1>1. SUFFICES ASSUME T # {} PROVE FALSE
    OBVIOUS
  <1>2. PICK m \in T : \A n \in T : m <= n
    BY <1>1, LeastNumber
  <1>3. m # 0
    <2>1. AreLevels([n \in 0 .. 0 |-> {<<>>}], edges, from, 0)
      BY DEF AreLevels
    <2> QED
      BY <2>1, <1>2
  <1>4. m - 1 \in Nat /\ m - 1 \notin T
    BY <1>2, <1>3
  <1>5. PICK f : AreLevels(f, edges, from, m - 1)
    BY <1>4
  <1>6. /\ \A n \in 0 .. m - 1 : f[n] = IF n = 0 THEN {<<>>} ELSE Extended(f[n - 1], edges, from)
    BY <1>5 DEF AreLevels
  <1>7. PICK g : g = [n \in 0 .. m |-> IF n = m THEN Extended(f[m - 1], edges, from) ELSE f[n]]
    OBVIOUS
  <1>8. ASSUME NEW n \in 0 .. m
        PROVE  g[n] = IF n = 0 THEN {<<>>} ELSE Extended(g[n - 1], edges, from)
    <2>1. CASE n = m
      <3>1. m - 1 \in 0 .. m /\ m - 1 # m
        BY <1>4
      <3>2. g[m - 1] = f[m - 1]
        BY <1>7, <3>1
      <3> QED
        BY <1>3, <1>7, <2>1, <3>2
    <2>2. CASE n = 0
      BY <1>2, <1>3, <1>4, <1>6, <1>7, <2>2
    <2>3. CASE n # 0 /\ n # m
      <3>1. n \in 0 .. m - 1 /\ n - 1 \in 0 .. m /\ n - 1 # m
        BY <2>3, <1>2
      <3>2. g[n] = f[n] /\ g[n - 1] = f[n - 1]
        BY <1>7, <2>3, <3>1
      <3> QED
        BY <1>6, <2>3, <3>1, <3>2
    <2> QED
      BY <2>1, <2>2, <2>3
  <1>9. AreLevels(g, edges, from, m)
    BY <1>7, <1>8 DEF AreLevels
  <1> QED
    BY <1>2, <1>9

(* PathLevels is what its recursion says.                                  *)
LEMMA PathLevelsAre ==
    ASSUME NEW edges, NEW from, NEW depth \in Nat
    PROVE  AreLevels(PathLevels(edges, from, depth), edges, from, depth)
  <1> DEFINE P(f) == f = [n \in 0 .. depth |-> IF n = 0 THEN {<<>>} ELSE Extended(f[n - 1], edges, from)]
  <1>1. \E f : P(f)
    <2>1. PICK f : AreLevels(f, edges, from, depth)
      BY LevelsExist
    <2>2. P(f)
      BY <2>1 DEF AreLevels
    <2> QED
      BY <2>2
  <1>2. PathLevels(edges, from, depth) = CHOOSE f : P(f)
    BY DEF PathLevels
  <1> HIDE DEF P
  <1>3. P(CHOOSE f : P(f))
    BY <1>1
  <1>4. P(PathLevels(edges, from, depth))
    BY <1>2, <1>3
  <1> QED
    BY <1>4 DEF P, AreLevels

(* The same for what is reached in so many edges.                          *)
AreReached(f, start, edges, allowed, m) ==
    f = [i \in 0 .. m |-> IF i = 0 THEN start \cap allowed ELSE Spread(f[i - 1], edges, allowed)]

LEMMA ReachedExist ==
    ASSUME NEW start, NEW edges, NEW allowed, NEW depth \in Nat
    PROVE  \E f : AreReached(f, start, edges, allowed, depth)
  <1> DEFINE T == {m \in Nat : ~\E f : AreReached(f, start, edges, allowed, m)}
  <1>1. SUFFICES ASSUME T # {} PROVE FALSE
    OBVIOUS
  <1>2. PICK m \in T : \A n \in T : m <= n
    BY <1>1, LeastNumber
  <1>3. m # 0
    <2>1. AreReached([n \in 0 .. 0 |-> start \cap allowed], start, edges, allowed, 0)
      BY DEF AreReached
    <2> QED
      BY <2>1, <1>2
  <1>4. m - 1 \in Nat /\ m - 1 \notin T
    BY <1>2, <1>3
  <1>5. PICK f : AreReached(f, start, edges, allowed, m - 1)
    BY <1>4
  <1>6. \A n \in 0 .. m - 1 : f[n] = IF n = 0 THEN start \cap allowed ELSE Spread(f[n - 1], edges, allowed)
    BY <1>5 DEF AreReached
  <1>7. PICK g : g = [n \in 0 .. m |-> IF n = m THEN Spread(f[m - 1], edges, allowed) ELSE f[n]]
    OBVIOUS
  <1>8. ASSUME NEW n \in 0 .. m
        PROVE  g[n] = IF n = 0 THEN start \cap allowed ELSE Spread(g[n - 1], edges, allowed)
    <2>1. CASE n = m
      <3>1. m - 1 \in 0 .. m /\ m - 1 # m
        BY <1>4
      <3>2. g[m - 1] = f[m - 1]
        BY <1>7, <3>1
      <3> QED
        BY <1>3, <1>7, <2>1, <3>2
    <2>2. CASE n = 0
      BY <1>2, <1>3, <1>4, <1>6, <1>7, <2>2
    <2>3. CASE n # 0 /\ n # m
      <3>1. n \in 0 .. m - 1 /\ n - 1 \in 0 .. m /\ n - 1 # m
        BY <2>3, <1>2
      <3>2. g[n] = f[n] /\ g[n - 1] = f[n - 1]
        BY <1>7, <2>3, <3>1
      <3> QED
        BY <1>6, <2>3, <3>1, <3>2
    <2> QED
      BY <2>1, <2>2, <2>3
  <1>9. AreReached(g, start, edges, allowed, m)
    BY <1>7, <1>8 DEF AreReached
  <1> QED
    BY <1>2, <1>9

(* Reach is what its recursion says.                                       *)
LEMMA ReachIs ==
    ASSUME NEW start, NEW edges, NEW allowed, NEW depth \in Nat
    PROVE  AreReached(Reach(start, edges, allowed, depth), start, edges, allowed, depth)
  <1> DEFINE P(f) == f = [i \in 0 .. depth |-> IF i = 0 THEN start \cap allowed ELSE Spread(f[i - 1], edges, allowed)]
  <1>1. \E f : P(f)
    <2>1. PICK f : AreReached(f, start, edges, allowed, depth)
      BY ReachedExist
    <2>2. P(f)
      BY <2>1 DEF AreReached
    <2> QED
      BY <2>2
  <1>2. Reach(start, edges, allowed, depth) = CHOOSE f : P(f)
    BY DEF Reach
  <1> HIDE DEF P
  <1>3. P(CHOOSE f : P(f))
    BY <1>1
  <1>4. P(Reach(start, edges, allowed, depth))
    BY <1>2, <1>3
  <1> QED
    BY <1>4 DEF P, AreReached

-----------------------------------------------------------------------------
(* Simple paths *)

(* A sequence of edges from a node, each from where the last one leads, to *)
(* no node a second time.                                                  *)
SimplePath(p, from, edges) ==
    /\ p \in Seq(edges)
    /\ \A i \in 1 .. Len(p) :
           /\ p[i].from = IF i = 1 THEN from ELSE p[i - 1].to
           /\ p[i].to # from
           /\ \A j \in 1 .. Len(p) : p[i].to = p[j].to => i = j

(* One that ends at a node and keeps to allowed ones.                      *)
Leads(p, from, to, edges, allowed) ==
    SimplePath(p, from, edges) /\ EndOf(p, from) = to /\ Zones(p, from) \subseteq allowed

(* The nodes of a prefix, its end and its own longer prefix.               *)
LEMMA PrefixOfPath ==
    ASSUME NEW edges, NEW p \in Seq(edges), NEW from, NEW n \in 0 .. Len(p)
    PROVE  /\ SubSeq(p, 1, n) \in Seq(edges) /\ Len(SubSeq(p, 1, n)) = n
           /\ \A i \in 1 .. n : SubSeq(p, 1, n)[i] = p[i]
           /\ EndOf(SubSeq(p, 1, n), from) = IF n = 0 THEN from ELSE p[n].to
           /\ Zones(SubSeq(p, 1, n), from) = {from} \cup {p[i].to : i \in 1 .. n}
           /\ n < Len(p) => SubSeq(p, 1, n + 1) = Append(SubSeq(p, 1, n), p[n + 1])
  <1>0. n \in Nat /\ Len(p) \in Nat /\ n <= Len(p)
    OBVIOUS
  <1>1. \A i \in 1 .. Len(p) : p[i] \in edges
    BY ElementOfSeq
  <1>2. PICK q : q = SubSeq(p, 1, n)
    OBVIOUS
  <1>3. q \in Seq(edges) /\ Len(q) = n /\ \A i \in 1 .. n : q[i] = p[i]
    BY <1>0, <1>1, <1>2, SubSeqProperties
  <1>4. DOMAIN q = 1 .. n
    BY <1>3
  <1>5. EndOf(q, from) = IF n = 0 THEN from ELSE p[n].to
    <2>1. CASE n = 0
      BY <1>3, <2>1 DEF EndOf
    <2>2. CASE n # 0
      BY <1>0, <1>3, <2>2 DEF EndOf
    <2> QED
      BY <2>1, <2>2
  <1>6. Zones(q, from) = {from} \cup {p[i].to : i \in 1 .. n}
    BY <1>3, <1>4 DEF Zones
  <1>7. ASSUME n < Len(p)
        PROVE  SubSeq(p, 1, n + 1) = Append(q, p[n + 1])
    <2>1. n + 1 \in Nat /\ n + 1 <= Len(p)
      BY <1>0, <1>7
    <2>2. PICK r : r = SubSeq(p, 1, n + 1)
      OBVIOUS
    <2>3. r \in Seq(edges) /\ Len(r) = n + 1 /\ \A i \in 1 .. n + 1 : r[i] = p[i]
      BY <1>1, <2>1, <2>2, SubSeqProperties
    <2>4. p[n + 1] \in edges
      BY <1>0, <1>1, <2>1
    <2>5. PICK e \in edges : e = p[n + 1]
      BY <2>4
    <2>6. PICK s : s = Append(q, e)
      OBVIOUS
    <2>7. s \in Seq(edges) /\ Len(s) = n + 1 /\ \A i \in 1 .. n + 1 : s[i] = p[i]
      BY <1>0, <1>3, <2>5, <2>6, AppendProperties
    <2>8. r = s
      BY <2>3, <2>7, SeqEqual
    <2> QED
      BY <2>2, <2>5, <2>6, <2>8
  <1> QED
    BY <1>2, <1>3, <1>5, <1>6, <1>7

(* A path and an edge that extends it.                                     *)
LEMMA OneMoreEdge ==
    ASSUME NEW paths, NEW edges, NEW from, NEW q \in paths, NEW e \in edges,
           e.from = EndOf(q, from), e.to \notin Zones(q, from)
    PROVE  Append(q, e) \in Extended(paths, edges, from)
  <1> DEFINE next(p) == {x \in edges : x.from = EndOf(p, from) /\ x.to \notin Zones(p, from)}
             longer(p) == {Append(p, x) : x \in next(p)}
  <1>1. Extended(paths, edges, from) = UNION {longer(p) : p \in paths}
    BY DEF Extended
  <1>2. e \in next(q)
    OBVIOUS
  <1> HIDE DEF next
  <1>3. Append(q, e) \in longer(q)
    BY <1>2
  <1> HIDE DEF longer
  <1> QED
    BY <1>1, <1>3

(* Every simple path is listed at its level.                               *)
LEMMA SimplePathsAreListed ==
    ASSUME NEW edges, NEW from, NEW depth \in Nat, NEW p, SimplePath(p, from, edges), Len(p) <= depth
    PROVE  p \in PathLevels(edges, from, depth)[Len(p)]
  <1> DEFINE level == PathLevels(edges, from, depth)
             T == {n \in 0 .. Len(p) : SubSeq(p, 1, n) \notin level[n]}
  <1>0. p \in Seq(edges) /\ Len(p) \in Nat
    BY DEF SimplePath
  <1>1. AreLevels(level, edges, from, depth)
    BY PathLevelsAre
  <1> HIDE DEF level
  <1>5. \A n \in 0 .. depth : level[n] = IF n = 0 THEN {<<>>} ELSE Extended(level[n - 1], edges, from)
    BY <1>1 DEF AreLevels
  <1>2. T = {}
    <2>1. SUFFICES ASSUME T # {} PROVE FALSE
      OBVIOUS
    <2>0. T \in SUBSET Nat
      OBVIOUS
    <2>2. PICK n \in T : \A m \in T : n <= m
      BY <2>0, <2>1, LeastNumber
    <2>3. n # 0
      <3>1. SubSeq(p, 1, 0) = <<>>
        BY SubSeqEmpty
      <3>2. level[0] = {<<>>}
        BY <1>5
      <3>3. 0 \notin T
        BY <3>1, <3>2
      <3> QED
        BY <2>2, <3>3
    <2>4. PICK m \in 0 .. Len(p) - 1 : n = m + 1 /\ m \in 0 .. Len(p) /\ m < Len(p) /\ m \notin T
      <3>1. n \in 0 .. Len(p) /\ n - 1 \in 0 .. Len(p) - 1 /\ n = (n - 1) + 1 /\ ~(n <= n - 1)
        BY <1>0, <2>2, <2>3
      <3>2. n - 1 \notin T
        BY <2>2, <3>1
      <3> QED
        BY <1>0, <3>1, <3>2
    <2>5. PICK q : q = SubSeq(p, 1, m) /\ q \in level[m]
      BY <2>4
    <2>6. /\ EndOf(q, from) = IF m = 0 THEN from ELSE p[m].to
          /\ Zones(q, from) = {from} \cup {p[i].to : i \in 1 .. m}
          /\ SubSeq(p, 1, m + 1) = Append(q, p[m + 1])
      BY <1>0, <2>4, <2>5, PrefixOfPath
    <2>7. /\ m + 1 \in 1 .. Len(p) /\ m + 1 - 1 = m /\ m + 1 \in 0 .. depth
          /\ \A i \in 1 .. m : i \in 1 .. Len(p) /\ i # m + 1
      BY <1>0, <2>4
    <2>8. PICK e : e = p[m + 1]
      OBVIOUS
    <2>9. e \in edges /\ e.from = EndOf(q, from) /\ e.to \notin Zones(q, from)
      BY <1>0, <2>6, <2>7, <2>8, ElementOfSeq DEF SimplePath
    <2>10. Append(q, e) \in Extended(level[m], edges, from)
      BY <2>5, <2>9, OneMoreEdge
    <2>11. level[m + 1] = Extended(level[m], edges, from)
      BY <1>5, <2>4, <2>7
    <2>12. SubSeq(p, 1, n) \in level[n]
      BY <2>4, <2>6, <2>8, <2>10, <2>11
    <2> QED
      BY <2>2, <2>12
  <1>3. Len(p) \in 0 .. Len(p)
    BY <1>0
  <1>4. SubSeq(p, 1, Len(p)) = p
    BY <1>0, SubSeqFull
  <1> QED
    BY <1>2, <1>3, <1>4 DEF level

(* Going along one more edge, and cutting off the loop if that closes one. *)
LEMMA PathExtended ==
    ASSUME NEW edges, NEW allowed, NEW from, NEW p, NEW e \in edges,
           Leads(p, from, e.from, edges, allowed), e.to \in allowed
    PROVE  \E q : Leads(q, from, e.to, edges, allowed)
  <1>0. p \in Seq(edges) /\ Len(p) \in Nat /\ Zones(p, from) = {from} \cup {p[i].to : i \in 1 .. Len(p)}
    BY DEF Leads, SimplePath, Zones
  <1>1. CASE e.to \in Zones(p, from)
    <2>1. PICK n \in 0 .. Len(p) : e.to = IF n = 0 THEN from ELSE p[n].to
      <3>1. CASE e.to = from
        BY <1>0, <3>1
      <3>2. CASE e.to # from
        BY <1>0, <1>1, <3>2
      <3> QED
        BY <3>1, <3>2
    <2>2. PICK q : q = SubSeq(p, 1, n)
      OBVIOUS
    <2>3. /\ q \in Seq(edges) /\ Len(q) = n /\ \A i \in 1 .. n : q[i] = p[i]
          /\ EndOf(q, from) = e.to
          /\ Zones(q, from) = {from} \cup {p[i].to : i \in 1 .. n}
      BY <1>0, <2>1, <2>2, PrefixOfPath
    <2>4. \A i \in 1 .. n : i \in 1 .. Len(p)
      BY <1>0
    <2>5. \A i \in 1 .. n : i # 1 => i - 1 \in 1 .. n
      OBVIOUS
    <2>6. SimplePath(q, from, edges)
      <3>1. \A i \in 1 .. n : q[i].from = IF i = 1 THEN from ELSE q[i - 1].to
        <4> SUFFICES ASSUME NEW i \in 1 .. n PROVE q[i].from = IF i = 1 THEN from ELSE q[i - 1].to
          OBVIOUS
        <4>1. p[i].from = IF i = 1 THEN from ELSE p[i - 1].to
          BY <2>4 DEF SimplePath, Leads
        <4> QED
          BY <2>3, <2>5, <4>1
      <3>2. \A i \in 1 .. n : q[i].to # from
        BY <2>3, <2>4 DEF SimplePath, Leads
      <3>3. \A i, j \in 1 .. n : q[i].to = q[j].to => i = j
        BY <2>3, <2>4 DEF SimplePath, Leads
      <3> QED
        BY <2>3, <3>1, <3>2, <3>3 DEF SimplePath
    <2>7. Zones(q, from) \subseteq allowed
      BY <1>0, <2>3, <2>4 DEF Leads
    <2> QED
      BY <2>3, <2>6, <2>7 DEF Leads
  <1>2. CASE e.to \notin Zones(p, from)
    <2>1. PICK n \in Nat : n = Len(p)
      BY <1>0
    <2>2. PICK q : q = Append(p, e)
      OBVIOUS
    <2>3. /\ q \in Seq(edges) /\ Len(q) = n + 1
          /\ \A i \in 1 .. n : q[i] = p[i]
          /\ q[n + 1] = e
      BY <1>0, <2>1, <2>2, AppendProperties
    <2>4. EndOf(q, from) = e.to
      BY <2>3 DEF EndOf
    <2>5. Zones(q, from) = {from} \cup {q[i].to : i \in 1 .. n + 1}
      BY <2>3 DEF Zones
    <2>6. \A i \in 1 .. n + 1 : i = n + 1 \/ i \in 1 .. n
      OBVIOUS
    <2>7. Zones(q, from) \subseteq allowed
      BY <1>0, <2>1, <2>3, <2>5, <2>6 DEF Leads
    <2>8. \A i \in 1 .. n + 1 : q[i].to # from
      BY <1>0, <1>2, <2>1, <2>3, <2>6 DEF Leads, SimplePath
    <2>9. ASSUME NEW i \in 1 .. n + 1 PROVE q[i].from = IF i = 1 THEN from ELSE q[i - 1].to
      <3>1. CASE i \in 1 .. n
        <4>1. i # 1 => i - 1 \in 1 .. n
          BY <3>1
        <4>2. p[i].from = IF i = 1 THEN from ELSE p[i - 1].to
          BY <2>1, <3>1 DEF Leads, SimplePath
        <4> QED
          BY <2>3, <3>1, <4>1, <4>2
      <3>2. CASE i = n + 1
        <4>1. e.from = IF n = 0 THEN from ELSE p[n].to
          BY <2>1, <1>0 DEF Leads, EndOf
        <4>2. n # 0 => n \in 1 .. n /\ i # 1 /\ i - 1 = n
          BY <3>2
        <4> QED
          BY <2>3, <3>2, <4>1, <4>2
      <3> QED
        BY <2>6, <3>1, <3>2
    <2>10. ASSUME NEW i \in 1 .. n + 1, NEW j \in 1 .. n + 1, q[i].to = q[j].to PROVE i = j
      <3>1. CASE i \in 1 .. n /\ j \in 1 .. n
        BY <2>1, <2>3, <2>10, <3>1 DEF Leads, SimplePath
      <3>2. CASE i = n + 1 /\ j \in 1 .. n
        BY <1>0, <1>2, <2>1, <2>3, <2>10, <3>2
      <3>3. CASE j = n + 1 /\ i \in 1 .. n
        BY <1>0, <1>2, <2>1, <2>3, <2>10, <3>3
      <3> QED
        BY <2>6, <3>1, <3>2, <3>3
    <2>11. SimplePath(q, from, edges)
      BY <2>3, <2>8, <2>9, <2>10 DEF SimplePath
    <2> QED
      BY <2>4, <2>7, <2>11 DEF Leads
  <1> QED
    BY <1>1, <1>2

(* What is reached is where a simple path between allowed nodes leads.     *)
LEMMA ReachedByPath ==
    ASSUME NEW start, NEW edges, NEW allowed, NEW depth \in Nat,
           NEW y \in Reach(start, edges, allowed, depth)[depth]
    PROVE  y \in allowed /\ \E s \in start \cap allowed : \E p : Leads(p, s, y, edges, allowed)
  <1> DEFINE within == Reach(start, edges, allowed, depth)
             Found(z) == z \in allowed /\ \E s \in start \cap allowed : \E p : Leads(p, s, z, edges, allowed)
             T == {n \in 0 .. depth : \E z \in within[n] : ~Found(z)}
  <1>1. AreReached(within, start, edges, allowed, depth)
    BY ReachIs
  <1> HIDE DEF within
  <1>2. \A n \in 0 .. depth : within[n] = IF n = 0 THEN start \cap allowed ELSE Spread(within[n - 1], edges, allowed)
    BY <1>1 DEF AreReached
  <1>3. \A z \in start \cap allowed : Found(z)
    <2> SUFFICES ASSUME NEW z \in start \cap allowed PROVE Found(z)
      OBVIOUS
    <2>1. <<>> \in Seq(edges) /\ Len(<<>>) = 0
      BY EmptySeq
    <2>2. SimplePath(<<>>, z, edges)
      BY <2>1 DEF SimplePath
    <2>3. EndOf(<<>>, z) = z /\ Zones(<<>>, z) \subseteq allowed
      BY <2>1 DEF EndOf, Zones
    <2> QED
      BY <2>2, <2>3 DEF Leads
  <1>4. ASSUME NEW e \in edges, Found(e.from), e.to \in allowed
        PROVE  Found(e.to)
    BY <1>4, PathExtended
  <1> HIDE DEF Found
  <1>5. T = {}
    <2>1. SUFFICES ASSUME T # {} PROVE FALSE
      OBVIOUS
    <2>2. T \in SUBSET Nat
      OBVIOUS
    <2>3. PICK n \in T : \A m \in T : n <= m
      BY <2>1, <2>2, LeastNumber
    <2>4. PICK z \in within[n] : ~Found(z)
      BY <2>3
    <2>5. n # 0
      BY <1>2, <1>3, <2>3, <2>4
    <2>6. n \in 0 .. depth /\ n - 1 \in 0 .. depth /\ ~(n <= n - 1)
      BY <2>3, <2>5
    <2>7. \A x \in within[n - 1] : Found(x)
      BY <2>3, <2>6
    <2>8. z \in Spread(within[n - 1], edges, allowed)
      BY <1>2, <2>4, <2>5, <2>6
    <2> QED
      BY <1>4, <2>4, <2>7, <2>8 DEF Spread
  <1> QED
    BY <1>5 DEF within, Found

(* A simple path has fewer edges than there are nodes to go to.            *)
LEMMA SimplePathLength ==
    ASSUME NEW edges, NEW allowed, IsFiniteSet(allowed), NEW from, NEW p,
           SimplePath(p, from, edges), Zones(p, from) \subseteq allowed
    PROVE  Len(p) \in Nat /\ Cardinality(allowed) \in Nat /\ Len(p) <= Cardinality(allowed)
  <1>1. p \in Seq(edges) /\ Len(p) \in Nat /\ DOMAIN p = 1 .. Len(p)
    BY DEF SimplePath
  <1>2. PICK f : f = [i \in 1 .. Len(p) |-> p[i].to]
    OBVIOUS
  <1>3. f \in Injection(1 .. Len(p), allowed)
    BY <1>1, <1>2 DEF Injection, IsInjective, Zones, SimplePath
  <1>4. Cardinality(1 .. Len(p)) = Len(p)
    BY <1>1, FS_Interval
  <1>5. Cardinality(1 .. Len(p)) <= Cardinality(allowed)
    BY <1>3, FS_Injection
  <1> QED
    BY <1>1, <1>4, <1>5, FS_CardinalityType

(* A simple path of several edges that starts with a given one.            *)
LeadsVia(p, e, to, edges, allowed) ==
    /\ SimplePath(p, e.from, edges)
    /\ Zones(p, e.from) \subseteq allowed \cup {e.from}
    /\ Len(p) \in Nat /\ Len(p) > 1
    /\ p[1] = e /\ p[Len(p)].to = to

(* A simple path from an allowed neighbour, seen from where it is one.     *)
LEMMA PathFromNeighbour ==
    ASSUME NEW edges, NEW allowed, NEW e \in edges, e.from \notin allowed,
           NEW y, NEW q, Leads(q, e.to, y, edges, allowed), q # <<>>
    PROVE  \E p : LeadsVia(p, e, y, edges, allowed)
  <1>0. /\ q \in Seq(edges) /\ Len(q) \in Nat /\ Len(q) # 0
        /\ Zones(q, e.to) = {e.to} \cup {q[i].to : i \in 1 .. Len(q)}
        /\ Zones(q, e.to) \subseteq allowed
        /\ q[Len(q)].to = y
    BY EmptySeq DEF Leads, SimplePath, Zones, EndOf
  <1>1. PICK n \in Nat \ {0} : n = Len(q)
    BY <1>0
  <1>2. PICK one : one = <<e>>
    OBVIOUS
  <1>3. one \in Seq(edges) /\ Len(one) = 1 /\ one[1] = e
    BY <1>2
  <1>4. PICK p : p = one \o q
    OBVIOUS
  <1>5. /\ p \in Seq(edges) /\ Len(p) = 1 + n
        /\ \A i \in 1 .. 1 + n : p[i] = IF i <= 1 THEN one[i] ELSE q[i - 1]
    <2>1. /\ p \in Seq(edges) /\ Len(p) = Len(one) + Len(q)
          /\ \A i \in 1 .. Len(one) + Len(q) : p[i] = IF i <= Len(one) THEN one[i] ELSE q[i - Len(one)]
      <3>1. /\ one \o q \in Seq(edges) /\ Len(one \o q) = Len(one) + Len(q)
            /\ \A i \in 1 .. Len(one) + Len(q) :
                   (one \o q)[i] = IF i <= Len(one) THEN one[i] ELSE q[i - Len(one)]
        <4>1. one \in Seq(edges) /\ q \in Seq(edges)
          BY <1>0, <1>3
        <4> QED
          BY <4>1, ConcatProperties, Zenon
      <3> QED
        BY <1>4, <3>1, Zenon
    <2>2. Len(one) = 1 /\ Len(q) = n
      BY <1>1, <1>3
    <2> QED
      BY <2>1, <2>2
  <1>6. /\ p[1] = e
        /\ \A i \in 1 .. n : i + 1 \in 1 .. 1 + n /\ p[i + 1] = q[i]
    <2>1. \A i \in 1 .. n : i + 1 \in 1 .. 1 + n /\ ~(i + 1 <= 1) /\ (i + 1) - 1 = i
      OBVIOUS
    <2> QED
      BY <1>1, <1>3, <1>5, <2>1
  <1>7. \A i \in 1 .. 1 + n : i = 1 \/ \E j \in 1 .. n : i = j + 1
    <2> SUFFICES ASSUME NEW i \in 1 .. 1 + n, i # 1 PROVE \E j \in 1 .. n : i = j + 1
      OBVIOUS
    <2>1. i - 1 \in 1 .. n /\ i = (i - 1) + 1
      OBVIOUS
    <2> QED
      BY <2>1
  <1>8. e.to \in allowed /\ \A i \in 1 .. n : q[i].to \in allowed /\ q[i].to # e.to
    BY <1>0, <1>1 DEF Leads, SimplePath
  <1>9. Zones(p, e.from) = {e.from} \cup {p[i].to : i \in 1 .. 1 + n}
    <2>1. DOMAIN p = 1 .. 1 + n
      BY <1>5
    <2> QED
      BY <2>1 DEF Zones
  <1>10. \A i \in 1 .. 1 + n : p[i].to \in allowed
    BY <1>6, <1>7, <1>8
  <1>11. ASSUME NEW i \in 1 .. 1 + n PROVE p[i].from = IF i = 1 THEN e.from ELSE p[i - 1].to
    <2>1. CASE i = 1
      BY <1>6, <2>1
    <2>2. ASSUME NEW j \in 1 .. n, i = j + 1 PROVE p[i].from = p[i - 1].to /\ i # 1
      <3>1. q[j].from = IF j = 1 THEN e.to ELSE q[j - 1].to
        BY <1>1 DEF Leads, SimplePath
      <3>2. i - 1 = j /\ i # 1 /\ p[i] = q[j]
        BY <1>6, <2>2
      <3>3. CASE j = 1
        BY <1>6, <3>1, <3>2, <3>3
      <3>4. CASE j # 1
        <4>1. j - 1 \in 1 .. n /\ (j - 1) + 1 = j
          BY <3>4
        <4>2. p[j] = q[j - 1]
          BY <1>6, <4>1
        <4> QED
          BY <3>1, <3>2, <3>4, <4>2
      <3> QED
        BY <3>3, <3>4
    <2> QED
      BY <1>7, <2>1, <2>2
  <1>12. ASSUME NEW i \in 1 .. 1 + n, NEW j \in 1 .. 1 + n, p[i].to = p[j].to PROVE i = j
    <2>1. \A k, l \in 1 .. n : q[k].to = q[l].to => k = l
      BY <1>1 DEF Leads, SimplePath
    <2>5. ASSUME NEW k \in 1 .. n PROVE p[k + 1].to # p[1].to
      BY <1>6, <1>8
    <2>2. CASE i = 1
      BY <1>7, <1>12, <2>2, <2>5
    <2>3. CASE j = 1
      BY <1>7, <1>12, <2>3, <2>5
    <2>4. CASE i # 1 /\ j # 1
      <3>1. PICK k \in 1 .. n : i = k + 1
        BY <1>7, <2>4
      <3>2. PICK l \in 1 .. n : j = l + 1
        BY <1>7, <2>4
      <3>3. q[k].to = q[l].to
        BY <1>6, <1>12, <3>1, <3>2
      <3> QED
        BY <2>1, <3>1, <3>2, <3>3
    <2> QED
      BY <2>2, <2>3, <2>4
  <1>13. SimplePath(p, e.from, edges)
    BY <1>5, <1>10, <1>11, <1>12 DEF SimplePath
  <1>14. Zones(p, e.from) \subseteq allowed \cup {e.from}
    BY <1>9, <1>10
  <1>15. Len(p) \in Nat /\ Len(p) > 1 /\ p[Len(p)].to = y
    BY <1>0, <1>1, <1>5, <1>6
  <1> QED
    BY <1>6, <1>13, <1>14, <1>15 DEF LeadsVia

-----------------------------------------------------------------------------
(* The network of an accepted blueprint *)

(* A list without repetitions has as many identifiers as entries.          *)
LEMMA FiniteIdentifiers ==
    ASSUME NEW S, IsFiniteSet(S), ~Repeats(S)
    PROVE  IsFiniteSet(Ids(S)) /\ Cardinality(Ids(S)) = Cardinality(S) /\ Cardinality(S) \in Nat
  <1> DEFINE name == [x \in S |-> x.id]
  <1>1. name \in Surjection(S, Ids(S))
    BY DEF Surjection, Ids
  <1>2. IsFiniteSet(Ids(S))
    BY <1>1, FS_Surjection
  <1> QED
    BY <1>2, FS_CardinalityType DEF Repeats

(* findNetworkPaths lists every simple path between zones.                 *)
LEMMA NetworkPathsAreListed ==
    ASSUME NEW b, IsFiniteSet(b.zones), ~Repeats(b.zones), NEW from, NEW p,
           SimplePath(p, from, CanReach(b)), Zones(p, from) \subseteq Ids(b.zones), p # <<>>
    PROVE  p \in findNetworkPaths(b, from)
  <1>1. PICK n \in Nat : n = Cardinality(b.zones) /\ n = Cardinality(Ids(b.zones)) /\ IsFiniteSet(Ids(b.zones))
    BY FiniteIdentifiers
  <1>2. Len(p) \in Nat /\ Len(p) <= n
    BY <1>1, SimplePathLength
  <1>3. Len(p) # 0
    BY EmptySeq DEF SimplePath
  <1>4. PICK level : level = PathLevels(CanReach(b), from, n)
    OBVIOUS
  <1>5. p \in level[Len(p)]
    BY <1>2, <1>4, SimplePathsAreListed
  <1>6. Len(p) \in 1 .. n
    BY <1>2, <1>3
  <1>7. findNetworkPaths(b, from) = UNION {level[m] : m \in 1 .. n}
    BY <1>1, <1>4 DEF findNetworkPaths, PathsUpTo
  <1> QED
    BY <1>5, <1>6, <1>7

(* What is reached from a zone is the zone or where a listed path ends.    *)
LEMMA ReachedIsListed ==
    ASSUME NEW b, IsFiniteSet(b.zones), ~Repeats(b.zones), NEW z \in b.zones,
           NEW allowed \in SUBSET Ids(b.zones),
           NEW y \in ReachedFrom({z.id}, CanReach(b), allowed), y # z.id
    PROVE  y \in Ids(b.zones) /\ \E p \in findNetworkPaths(b, z.id) :
               p[Len(p)].to = y /\ Zones(p, z.id) \subseteq allowed
  <1>1. IsFiniteSet(allowed) /\ Cardinality(allowed) \in Nat
    BY FiniteIdentifiers, FS_Subset, FS_CardinalityType
  <1>2. PICK n \in Nat : n = Cardinality(allowed)
    BY <1>1
  <1>3. y \in Reach({z.id}, CanReach(b), allowed, n)[n]
    BY <1>2 DEF ReachedFrom
  <1>4. y \in allowed /\ \E s \in {z.id} \cap allowed : \E p : Leads(p, s, y, CanReach(b), allowed)
    BY <1>3, ReachedByPath
  <1>5. PICK p : Leads(p, z.id, y, CanReach(b), allowed)
    BY <1>4
  <1>6. p # <<>> /\ p[Len(p)].to = y /\ SimplePath(p, z.id, CanReach(b)) /\ Zones(p, z.id) \subseteq allowed
    BY <1>5 DEF Leads, EndOf
  <1> QED
    BY <1>4, <1>6, NetworkPathsAreListed

(* Of a zone of an accepted blueprint: how everything that can be reached  *)
(* from it is contained, whatever way leads there.                         *)
LEMMA ContainedZone ==
    ASSUME NEW b, NEW now, assertBlueprint(b, now), IsFiniteSet(b.zones), NEW z \in b.zones
    PROVE  LET edges == CanReach(b)
               zones == Ids(b.zones)
               Kinds(ids) == {KindOf(b, y) : y \in ids}
           IN /\ z.kind = "execution" =>
                    \A e \in {e \in edges : e.from = z.id /\ ~e.brokered} :
                        LET beyond == ReachedFrom({e.to}, edges, zones \ {z.id})
                        IN \A y \in beyond \ {e.to} : ~Trusted(KindOf(b, y))
              /\ "requireInspectedEgress" \in b.posture.flags /\ z.kind # "external" =>
                    "external" \notin Kinds(ReachedFrom({z.id}, edges, zones \ InspectedZones(b)))
              /\ z.scope.tenants # {} =>
                    \A y \in ReachedFrom({z.id}, edges, zones) :
                        LET tenants == ScopeOf(b.zones, y).tenants
                        IN tenants = {} \/ tenants \cap z.scope.tenants # {}
  <1> DEFINE edges == CanReach(b)
             zones == Ids(b.zones)
  <1>1. ~Repeats(b.zones) /\ transitiveNetworkPolicy(b) = {}
    BY AcceptedBlueprint
  <1>2. ASSUME NEW p \in findNetworkPaths(b, z.id), p[Len(p)].to \in zones
        PROVE  PathViolations(b, z, p) = {}
    BY <1>1, <1>2 DEF transitiveNetworkPolicy
  <1>3. Find(b.zones, z.id) = z /\ z.id \in zones
    BY <1>1, FoundByIdentifier
  <1>4. KindOf(b, z.id) = z.kind /\ ScopeOf(b.zones, z.id) = z.scope
    BY <1>3 DEF KindOf, ScopeOf
  <1>5. ASSUME z.kind = "execution", NEW e \in edges, e.from = z.id, ~e.brokered,
               NEW y \in ReachedFrom({e.to}, edges, zones \ {z.id}), y # e.to
        PROVE  ~Trusted(KindOf(b, y))
    <2>1. PICK allowed : allowed = zones \ {z.id}
      OBVIOUS
    <2>2. IsFiniteSet(allowed) /\ Cardinality(allowed) \in Nat
      BY <1>1, <2>1, FiniteIdentifiers, FS_Subset, FS_CardinalityType
    <2>3. PICK n \in Nat : n = Cardinality(allowed)
      BY <2>2
    <2>4. y \in Reach({e.to}, edges, allowed, n)[n]
      BY <1>5, <2>1, <2>3 DEF ReachedFrom
    <2>5. y \in allowed /\ \E s \in {e.to} \cap allowed : \E q : Leads(q, s, y, edges, allowed)
      BY <2>4, ReachedByPath
    <2>6. PICK q : Leads(q, e.to, y, edges, allowed)
      BY <2>5
    <2>7. q # <<>>
      BY <1>5, <2>6 DEF Leads, EndOf
    <2>8. PICK p : /\ SimplePath(p, z.id, edges)
                   /\ Zones(p, z.id) \subseteq zones
                   /\ Len(p) \in Nat /\ Len(p) > 1
                   /\ p[1] = e /\ p[Len(p)].to = y
      <3>1. e \in edges /\ e.from = z.id /\ e.from \notin allowed /\ allowed \cup {e.from} \subseteq zones
        BY <1>3, <1>5, <2>1
      <3> HIDE DEF edges, zones
      <3>2. \E p : LeadsVia(p, e, y, edges, allowed)
        BY <2>6, <2>7, <3>1, PathFromNeighbour
      <3>3. PICK p : LeadsVia(p, e, y, edges, allowed)
        BY <3>2
      <3>4. SimplePath(p, z.id, edges) /\ Zones(p, z.id) \subseteq zones
        BY <3>1, <3>3 DEF LeadsVia
      <3> QED
        BY <3>3, <3>4 DEF LeadsVia
    <2>9. p # <<>>
      BY <2>8, EmptySeq
    <2>10. p \in findNetworkPaths(b, z.id)
      BY <1>1, <2>8, <2>9, NetworkPathsAreListed
    <2>11. PathViolations(b, z, p) = {}
      BY <1>2, <2>1, <2>5, <2>8, <2>10
    <2>12. Report("NET_TRANSITIVE_EXECUTION_BYPASS",
                  /\ z.kind = "execution" /\ Trusted(KindOf(b, y)) /\ ~e.brokered /\ Len(p) > 1) = {}
      BY <2>8, <2>11 DEF PathViolations
    <2> QED
      BY <1>5, <2>8, <2>12 DEF Report
  <1>6. ASSUME "requireInspectedEgress" \in b.posture.flags, z.kind # "external",
               NEW y \in ReachedFrom({z.id}, edges, zones \ InspectedZones(b))
        PROVE  KindOf(b, y) # "external"
    <2>1. CASE y = z.id
      BY <1>4, <1>6, <2>1
    <2>2. CASE y # z.id
      <3>1. y \in zones /\ \E p \in findNetworkPaths(b, z.id) :
                p[Len(p)].to = y /\ Zones(p, z.id) \subseteq zones \ InspectedZones(b)
        BY <1>1, <1>6, <2>2, ReachedIsListed
      <3>2. PICK p \in findNetworkPaths(b, z.id) :
                p[Len(p)].to = y /\ Zones(p, z.id) \subseteq zones \ InspectedZones(b)
        BY <3>1
      <3>3. PathViolations(b, z, p) = {}
        BY <1>2, <3>1, <3>2
      <3>4. Report("NET_TRANSITIVE_UNINSPECTED_EGRESS",
                   /\ "requireInspectedEgress" \in b.posture.flags
                   /\ KindOf(b, y) = "external"
                   /\ Zones(p, z.id) \cap InspectedZones(b) = {}) = {}
        BY <3>2, <3>3 DEF PathViolations
      <3> QED
        BY <1>6, <3>2, <3>4 DEF Report
    <2> QED
      BY <2>1, <2>2
  <1>7. ASSUME z.scope.tenants # {}, NEW y \in ReachedFrom({z.id}, edges, zones)
        PROVE  ScopeOf(b.zones, y).tenants = {} \/ ScopeOf(b.zones, y).tenants \cap z.scope.tenants # {}
    <2>1. CASE y = z.id
      BY <1>4, <1>7, <2>1
    <2>2. CASE y # z.id
      <3>1. y \in zones /\ \E p \in findNetworkPaths(b, z.id) : p[Len(p)].to = y
        BY <1>1, <1>7, <2>2, ReachedIsListed
      <3>2. PICK p \in findNetworkPaths(b, z.id) : p[Len(p)].to = y
        BY <3>1
      <3>3. PathViolations(b, z, p) = {}
        BY <1>2, <3>1, <3>2
      <3>4. Report("NET_CROSS_TENANT_PATH",
                   /\ z.scope.tenants # {}
                   /\ ScopeOf(b.zones, y).tenants # {}
                   /\ z.scope.tenants \cap ScopeOf(b.zones, y).tenants = {}) = {}
        BY <3>2, <3>3 DEF PathViolations
      <3> QED
        BY <1>7, <3>4 DEF Report
    <2> QED
      BY <2>1, <2>2
  <1> QED
    BY <1>5, <1>6, <1>7

-----------------------------------------------------------------------------
(* The life of a document *)

(* The inductive invariant behind reviews: a document has finitely many    *)
(* edits, and it was loaded and accepted, as it stands, at every time it   *)
(* was compiled.                                                           *)
ReviewInv ==
    /\ document \in DOMAIN Documents
    /\ IsFiniteSet(edits)
    /\ \A now \in compiledAt :
           LET d == Edited(document, edits)
           IN loadPlatformBlueprint(d) /\ assertBlueprint(Migrated(d), now)

LEMMA ReviewInvHolds == SpecReview => []ReviewInv
  <1>1. InitReview => ReviewInv
    BY FS_EmptySet DEF InitReview, ReviewInv
  <1>2. ReviewInv /\ [NextReview]_reviewVars => ReviewInv'
    <2> SUFFICES ASSUME ReviewInv, [NextReview]_reviewVars PROVE ReviewInv'
      OBVIOUS
    <2>1. ASSUME NEW e \in Edits, Edit(e)
          PROVE  ReviewInv'
      <3>1. IsFiniteSet(edits \cup {e})
        BY FS_AddElement DEF ReviewInv
      <3> QED
        BY <2>1, <3>1 DEF Edit, ReviewInv
    <2>2. CASE compileBlueprint
      <3>1. /\ document' = document /\ edits' = edits /\ compiledAt' = compiledAt \cup {reviewTime}
            /\ loadPlatformBlueprint(Edited(document, edits))
            /\ assertBlueprint(Migrated(Edited(document, edits)), reviewTime)
        BY <2>2 DEF compileBlueprint
      <3>2. Edited(document, edits)' = Edited(document, edits)
        BY <3>1 DEF Edited
      <3> QED
        BY <3>1, <3>2 DEF ReviewInv
    <2>3. CASE ReviewTick
      BY <2>3 DEF ReviewTick, ReviewInv
    <2>4. CASE UNCHANGED reviewVars
      BY <2>4 DEF reviewVars, ReviewInv
    <2> QED
      BY <2>1, <2>2, <2>3, <2>4 DEF NextReview
  <1> QED
    BY <1>1, <1>2, PTL DEF SpecReview

(* What is loaded from a document with finitely many edits has finite      *)
(* lists of zones and identities.                                          *)
LEMMA LoadedIsFinite ==
    ASSUME ReviewInv, NEW d, d = Edited(document, edits), loadPlatformBlueprint(d), NEW f \in {"zones", "identities"}
    PROVE  IsFiniteSet(Migrated(d)[f])
  <1>1. DOMAIN Migrated(d) = BlueprintFields
    BY DEF loadPlatformBlueprint, parsePlatformBlueprint
  <1>2. f \in DOMAIN d /\ Migrated(d)[f] = d[f]
    <2>1. CASE d.apiVersion = "v1alpha0"
      BY <1>1, <2>1 DEF Migrated, BlueprintFields
    <2>2. CASE d.apiVersion # "v1alpha0"
      BY <1>1, <2>2 DEF Migrated, BlueprintFields
    <2> QED
      BY <2>1, <2>2
  <1>3. f \in DOMAIN Documents[document] => IsFiniteSet(Documents[document][f])
    BY DocumentsAssumption DEF ReviewInv, FiniteDocument
  <1>4. PICK mine : mine = {e \in edits : e.list = f}
    OBVIOUS
  <1>5. PICK added : added = {e.entry : e \in mine}
    OBVIOUS
  <1>6. IsFiniteSet(added)
    <2>1. IsFiniteSet(mine)
      BY <1>4, FS_Subset DEF ReviewInv
    <2>2. PICK g : g = [e \in mine |-> e.entry]
      OBVIOUS
    <2>3. g \in Surjection(mine, added)
      BY <1>5, <2>2 DEF Surjection
    <2> QED
      BY <2>1, <2>3, FS_Surjection
  <1>7. d[f] = IF f \in {e.list : e \in edits}
               THEN (IF f \in DOMAIN Documents[document] THEN Documents[document][f] ELSE {}) \cup added
               ELSE Documents[document][f]
    BY <1>2, <1>4, <1>5 DEF Edited
  <1>8. f \in DOMAIN Documents[document] \/ f \in {e.list : e \in edits}
    BY <1>2 DEF Edited
  <1>9. IsFiniteSet({})
    BY FS_EmptySet
  <1>10. IsFiniteSet(d[f])
    BY <1>3, <1>6, <1>7, <1>8, <1>9, FS_Union
  <1> QED
    BY <1>2, <1>10

(* However often a document is edited and compiled, and whatever it was    *)
(* to begin with: a compiled blueprint contains its network, whatever way  *)
(* its flows chain up (findNetworkPaths, transitiveNetworkPolicy).         *)
THEOREM NetworksStayContained == SpecReview => []NetworkIsContained
  <1>1. ReviewInv => NetworkIsContained
    <2> SUFFICES ASSUME ReviewInv, compiledAt # {} PROVE NetworkIsContained
      BY DEF NetworkIsContained
    <2>1. PICK b : b = Migrated(Edited(document, edits))
      OBVIOUS
    <2>2. PICK now \in compiledAt : TRUE
      OBVIOUS
    <2>3. loadPlatformBlueprint(Edited(document, edits)) /\ assertBlueprint(b, now)
      BY <2>1, <2>2 DEF ReviewInv
    <2>4. IsFiniteSet(b.zones)
      BY <2>1, <2>3, LoadedIsFinite
    <2> QED
      BY <2>1, <2>3, <2>4, ContainedZone DEF NetworkIsContained
  <1> QED
    BY <1>1, ReviewInvHolds, PTL

-----------------------------------------------------------------------------
(* The access of an accepted blueprint *)

(* What is reached in some edges is reached in more.                       *)
LEMMA ReachGrows ==
    ASSUME NEW start, NEW edges, NEW allowed, NEW depth \in Nat, NEW k \in 0 .. depth,
           NEW y \in Reach(start, edges, allowed, depth)[k]
    PROVE  y \in Reach(start, edges, allowed, depth)[depth]
  <1> DEFINE within == Reach(start, edges, allowed, depth)
             T == {n \in k .. depth : y \notin within[n]}
  <1>1. AreReached(within, start, edges, allowed, depth)
    BY ReachIs
  <1>2. y \in within[k]
    OBVIOUS
  <1> HIDE DEF within
  <1>3. \A n \in 0 .. depth : n # 0 => within[n] = Spread(within[n - 1], edges, allowed)
    BY <1>1 DEF AreReached
  <1>4. T = {}
    <2>1. SUFFICES ASSUME T # {} PROVE FALSE
      OBVIOUS
    <2>2. T \in SUBSET Nat
      OBVIOUS
    <2>3. PICK n \in T : \A m \in T : n <= m
      BY <2>1, <2>2, LeastNumber
    <2>4. n # k
      BY <1>2, <2>3
    <2>5. n \in 0 .. depth /\ n # 0 /\ n - 1 \in k .. depth /\ ~(n <= n - 1)
      BY <2>3, <2>4
    <2>6. y \in within[n - 1]
      BY <2>3, <2>5
    <2>7. y \in Spread(within[n - 1], edges, allowed)
      BY <2>6 DEF Spread
    <2> QED
      BY <1>3, <2>3, <2>5, <2>7
  <1>5. depth \in k .. depth
    OBVIOUS
  <1> QED
    BY <1>4, <1>5 DEF within

(* If edges connect allowed nodes only, what is listed leads to what is    *)
(* reached.                                                                *)
LEMMA ListedIsReached ==
    ASSUME NEW edges, NEW allowed, NEW from \in allowed, NEW depth \in Nat,
           \A e \in edges : e.to \in allowed,
           NEW k \in 0 .. depth, NEW c \in PathLevels(edges, from, depth)[k]
    PROVE  EndOf(c, from) \in Reach({from}, edges, allowed, depth)[depth]
  <1> DEFINE level == PathLevels(edges, from, depth)
             within == Reach({from}, edges, allowed, depth)
             Fine(x, n) == x \in Seq(edges) /\ EndOf(x, from) \in within[n]
             T == {n \in 0 .. depth : \E x \in level[n] : ~Fine(x, n)}
  <1>1. AreReached(within, {from}, edges, allowed, depth) /\ AreLevels(level, edges, from, depth)
    BY ReachIs, PathLevelsAre
  <1> HIDE DEF within, level
  <1>2. /\ \A n \in 0 .. depth :
               within[n] = IF n = 0 THEN {from} \cap allowed ELSE Spread(within[n - 1], edges, allowed)
        /\ \A n \in 0 .. depth : level[n] = IF n = 0 THEN {<<>>} ELSE Extended(level[n - 1], edges, from)
    BY <1>1 DEF AreReached, AreLevels
  <1>3. T = {}
    <2>1. SUFFICES ASSUME T # {} PROVE FALSE
      OBVIOUS
    <2>2. T \in SUBSET Nat
      OBVIOUS
    <2>3. PICK n \in T : \A m \in T : n <= m
      BY <2>1, <2>2, LeastNumber
    <2>4. PICK x \in level[n] : ~Fine(x, n)
      BY <2>3
    <2>5. n # 0
      <3>1. SUFFICES ASSUME n = 0 PROVE FALSE
        OBVIOUS
      <3>2. x = <<>> /\ within[n] = {from} \cap allowed
        BY <1>2, <2>3, <2>4, <3>1
      <3>3. x \in Seq(edges) /\ EndOf(x, from) = from
        BY <3>2, EmptySeq DEF EndOf
      <3> QED
        BY <2>4, <3>2, <3>3
    <2>6. n \in 0 .. depth /\ n - 1 \in 0 .. depth /\ ~(n <= n - 1)
      BY <2>3, <2>5
    <2>7. \A w \in level[n - 1] : Fine(w, n - 1)
      BY <2>3, <2>6
    <2>8. x \in Extended(level[n - 1], edges, from)
      BY <1>2, <2>4, <2>5, <2>6
    <2>9. PICK w \in level[n - 1] : \E e \in edges : e.from = EndOf(w, from) /\ x = Append(w, e)
      BY <2>8 DEF Extended
    <2>10. PICK e \in edges : e.from = EndOf(w, from) /\ x = Append(w, e)
      BY <2>9
    <2>11. w \in Seq(edges) /\ EndOf(w, from) \in within[n - 1]
      BY <2>7
    <2>12. x \in Seq(edges) /\ EndOf(x, from) = e.to
      <3>1. x \in Seq(edges) /\ x # <<>> /\ Len(x) = Len(w) + 1 /\ x[Len(w) + 1] = e
        BY <2>10, <2>11, AppendProperties
      <3> QED
        BY <3>1 DEF EndOf
    <2>13. e.to \in Spread(within[n - 1], edges, allowed)
      BY <2>10, <2>11 DEF Spread
    <2>14. within[n] = Spread(within[n - 1], edges, allowed)
      BY <1>2, <2>5, <2>6
    <2> QED
      BY <2>4, <2>12, <2>13, <2>14
  <1>4. EndOf(c, from) \in within[k]
    <2>1. c \in level[k]
      BY DEF level
    <2> QED
      BY <1>3, <2>1
  <1> QED
    BY <1>4, ReachGrows DEF within

(* reachableIdentities lists chains to the identities that are reached,    *)
(* and to no other.                                                        *)
LEMMA ChainsReach ==
    ASSUME NEW b, IsFiniteSet(b.identities), ~Repeats(b.identities), ReferenceIntegrity(b) = {},
           NEW i \in b.identities, NEW x
    PROVE  x \in ReachedFrom({i.id}, b.delegations, Ids(b.identities))
           <=> \E c \in reachableIdentities(b, i.id) : EndOf(c, i.id) = x
  <1>1. PICK n \in Nat : n = Cardinality(b.identities) /\ n = Cardinality(Ids(b.identities))
    BY FiniteIdentifiers
  <1>2. IsFiniteSet(Ids(b.identities)) /\ i.id \in Ids(b.identities)
    BY FiniteIdentifiers, FoundByIdentifier
  <1>3. PICK allowed : allowed = Ids(b.identities)
    OBVIOUS
  <1>4. \A d \in b.delegations : d.to \in allowed
    <2>1. Report("CORE_UNKNOWN_DELEGATION_TARGET", \E d \in b.delegations : d.to \notin Ids(b.identities)) = {}
      BY DEF ReferenceIntegrity
    <2> QED
      BY <1>3, <2>1 DEF Report
  <1>5. PICK level : level = PathLevels(b.delegations, i.id, n)
    OBVIOUS
  <1>6. reachableIdentities(b, i.id) = UNION {level[m] : m \in 0 .. n}
    BY <1>1, <1>5 DEF reachableIdentities
  <1>7. ReachedFrom({i.id}, b.delegations, allowed) = Reach({i.id}, b.delegations, allowed, n)[n]
    BY <1>1, <1>3 DEF ReachedFrom
  <1>8. ASSUME x \in Reach({i.id}, b.delegations, allowed, n)[n]
        PROVE  \E c \in reachableIdentities(b, i.id) : EndOf(c, i.id) = x
    <2>1. \E s \in {i.id} \cap allowed : \E p : Leads(p, s, x, b.delegations, allowed)
      BY <1>8, ReachedByPath
    <2>2. PICK p : Leads(p, i.id, x, b.delegations, allowed)
      BY <2>1
    <2>3. SimplePath(p, i.id, b.delegations) /\ EndOf(p, i.id) = x /\ Zones(p, i.id) \subseteq allowed
      BY <2>2 DEF Leads
    <2>4. Len(p) \in Nat /\ Len(p) <= n
      BY <1>1, <1>2, <1>3, <2>3, SimplePathLength
    <2>5. p \in level[Len(p)]
      BY <1>5, <2>3, <2>4, SimplePathsAreListed
    <2>6. Len(p) \in 0 .. n
      BY <2>4
    <2> QED
      BY <1>6, <2>3, <2>5, <2>6
  <1>9. ASSUME NEW c \in reachableIdentities(b, i.id), EndOf(c, i.id) = x
        PROVE  x \in Reach({i.id}, b.delegations, allowed, n)[n]
    <2>1. PICK m \in 0 .. n : c \in level[m]
      BY <1>6, <1>9
    <2>2. i.id \in allowed
      BY <1>2, <1>3
    <2> QED
      BY <1>4, <1>5, <1>9, <2>1, <2>2, ListedIsReached
  <1> QED
    BY <1>3, <1>7, <1>8, <1>9

(* What AccessIsIsolated says of one blueprint at one time.                *)
IsolatedAt(b, now) ==
    \A i \in b.identities :
        LET ids == ReachedFrom({i.id}, b.delegations, Ids(b.identities))
            held == {g \in b.grants : g.identity \in ids}
        IN \A g \in {g \in held : g.effect = "allow"} : \A r \in g.resources : \A a \in g.actions :
              LET tenants == tenantScopesByResource(b, r)
                  denied == \E d \in held : /\ d.effect = "deny"
                                            /\ resourceMatches(d.resources, r)
                                            /\ actionMatches(d.actions, a)
              IN (i.tenant # Undefined /\ tenants # {} /\ i.tenant \notin tenants /\ ~denied) =>
                    \E x \in g.exception : /\ x.expires > now
                                           /\ \E q \in b.requirements : q.id = x.requirement /\ r \in q.sources

(* Of every identity of an accepted blueprint: what it may do with what     *)
(* belongs to another tenant, by whatever chain of delegations.            *)
LEMMA IsolatedBlueprint ==
    ASSUME NEW b, NEW now, assertBlueprint(b, now), IsFiniteSet(b.identities)
    PROVE  IsolatedAt(b, now)
  <1> DEFINE ids(j) == ReachedFrom({j.id}, b.delegations, Ids(b.identities))
             held(j) == {g \in b.grants : g.identity \in ids(j)}
             denied(j, r, a) == \E d \in held(j) : /\ d.effect = "deny"
                                                  /\ resourceMatches(d.resources, r)
                                                  /\ actionMatches(d.actions, a)
             excused(g, r) == \E x \in g.exception : /\ x.expires > now
                                                    /\ \E q \in b.requirements : q.id = x.requirement /\ r \in q.sources
  <1>0. SUFFICES ASSUME NEW i \in b.identities, NEW g \in {g \in held(i) : g.effect = "allow"},
                        NEW r \in g.resources, NEW a \in g.actions,
                        i.tenant # Undefined, tenantScopesByResource(b, r) # {},
                        i.tenant \notin tenantScopesByResource(b, r), ~denied(i, r, a)
                 PROVE  excused(g, r)
    <2>1. IsolatedAt(b, now) <=>
            \A i \in b.identities : \A g \in {g \in held(i) : g.effect = "allow"} :
                \A r \in g.resources : \A a \in g.actions :
                    (/\ i.tenant # Undefined /\ tenantScopesByResource(b, r) # {}
                     /\ i.tenant \notin tenantScopesByResource(b, r) /\ ~denied(i, r, a)) => excused(g, r)
      BY Zenon DEF IsolatedAt
    <2> HIDE DEF held, denied, excused
    <2> QED
      BY <2>1
  <1>1. ~Repeats(b.identities) /\ ReferenceIntegrity(b) = {} /\ identityPolicy(b, now) = {}
    BY AcceptedBlueprint
  <1>2. \A x : x \in ids(i) <=> \E c \in reachableIdentities(b, i.id) : EndOf(c, i.id) = x
    BY <1>1, ChainsReach
  <1>3. \A effect : Held(b, i.id, effect) = {h \in held(i) : h.effect = effect}
    BY <1>2 DEF Held
  <1>4. PICK e : e = [grant |-> g, resource |-> r, action |-> a,
                      allowed |-> ~\E d \in Held(b, i.id, "deny") : /\ resourceMatches(d.resources, r)
                                                                    /\ actionMatches(d.actions, a)]
    OBVIOUS
  <1>5. e \in analyzeEntitlements(b, i.id)
    <2> DEFINE denies == Held(b, i.id, "deny")
               entitled(h, y) == [grant |-> h, resource |-> y[1], action |-> y[2],
                                  allowed |-> ~\E d \in denies : /\ resourceMatches(d.resources, y[1])
                                                                 /\ actionMatches(d.actions, y[2])]
               entitlements(h) == {entitled(h, y) : y \in h.resources \X h.actions}
    <2>1. analyzeEntitlements(b, i.id) = UNION {entitlements(h) : h \in Held(b, i.id, "allow")}
      BY DEF analyzeEntitlements
    <2>2. g \in Held(b, i.id, "allow")
      BY <1>0, <1>3
    <2>3. <<r, a>> \in g.resources \X g.actions
      OBVIOUS
    <2>4. e = entitled(g, <<r, a>>)
      BY <1>4
    <2> HIDE DEF entitled
    <2>5. e \in entitlements(g)
      BY <2>3, <2>4
    <2> HIDE DEF entitlements
    <2> QED
      BY <2>1, <2>2, <2>5
  <1>6. e.allowed
    BY <1>0, <1>3, <1>4
  <1>7. e.grant = g /\ e.resource = r
    BY <1>4
  <1>8. Report("IDENTITY_CROSS_TENANT_PATH",
               \E j \in b.identities : \E f \in analyzeEntitlements(b, j.id) : CrossesTenants(b, j, f, now)) = {}
    BY <1>1 DEF identityPolicy
  <1>9. ~CrossesTenants(b, i, e, now)
    BY <1>5, <1>8 DEF Report
  <1>10. \E x \in g.exception : validAccessException(b, x, r, now)
    BY <1>0, <1>6, <1>7, <1>9 DEF CrossesTenants
  <1> QED
    BY <1>10 DEF validAccessException

(* Whatever identities delegate to each other: a compiled blueprint lets   *)
(* nobody act on what belongs to another tenant but under an exception     *)
(* that was in force and is audited (analyzeEntitlements, identityPolicy). *)
THEOREM AccessStaysIsolated == SpecReview => []AccessIsIsolated
  <1>1. ReviewInv => AccessIsIsolated
    <2> SUFFICES ASSUME ReviewInv PROVE AccessIsIsolated
      OBVIOUS
    <2>1. PICK b : b = Migrated(Edited(document, edits))
      OBVIOUS
    <2>2. ASSUME NEW now \in compiledAt
          PROVE  IsolatedAt(b, now)
      <3>1. loadPlatformBlueprint(Edited(document, edits)) /\ assertBlueprint(b, now)
        BY <2>1 DEF ReviewInv
      <3>2. IsFiniteSet(b.identities)
        BY <2>1, <3>1, LoadedIsFinite
      <3> QED
        BY <3>1, <3>2, IsolatedBlueprint
    <2> QED
      BY <2>1, <2>2 DEF AccessIsIsolated, IsolatedAt
  <1> QED
    BY <1>1, ReviewInvHolds, PTL
=============================================================================

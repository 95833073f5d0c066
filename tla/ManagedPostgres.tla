--------------------------- MODULE ManagedPostgres ---------------------------
(***************************************************************************)
(* Intents for managed databases (src/src/core/managedPostgres.ts): what   *)
(* the parser makes of a document, what is asserted of an intent by itself *)
(* and against the blueprint it belongs to, and the migration of a         *)
(* document to the version that names its tenants.  The fields a document  *)
(* states with a literal are the members of its field literals.            *)
(***************************************************************************)
EXTENDS BlueprintPolicies

MaxBackupDays == 35
MaxRestoreTestDays == 365
ProductionBackupDays == 14
IntentLiterals ==
    {"broker.apiVersion", "resourceKind", "authorization", "tenantBindingRequired", "idempotencyRequired",
     "directProviderCredentials", "plugin.name"}
IntentBindingLiterals ==
    {"engine", "port", "requestedBy", "owner", "serviceClass", "networkExposure", "multiZone",
     "customerManagedEncryption", "deletionProtection", "pointInTimeRecovery", "mode",
     "separateBoundaries", "allowNetworkCidr", "authentication", "tlsMode", "credentialDelivery",
     "adminCredentialsExposed", "separateMigrationIdentity", "outputs", "audit"}

ManagedPostgresTenancy == {"organization", "platformTenant", "application", "owner"}
CommonFields ==
    {"id", "boundary", "workspace", "module", "service", "database", "backupRetentionDays",
     "restoreTestIntervalDays", "runtimeIdentity", "migrationIdentity", "runtimeBoundary",
     "migrationBoundary", "literals"}

-----------------------------------------------------------------------------
(* The parser *)

\* Whether parseBinding returns: the older version names a tenant, the newer
\* one the tenancy, and neither has a field it does not know.
BindingParses(raw, version) ==
    /\ DOMAIN raw = CommonFields \cup {IF version = "v1alpha2" THEN "tenancy" ELSE "tenant"}
    /\ version = "v1alpha2" => DOMAIN raw.tenancy = ManagedPostgresTenancy
    /\ raw.literals = IntentBindingLiterals
    /\ raw.backupRetentionDays \in 1..MaxBackupDays
    /\ raw.restoreTestIntervalDays \in 1..MaxRestoreTestDays

\* Variant: the tenant of a binding is taken for its platform tenant.
parseBinding_PlatformTenant(raw) ==
    LET tenant == IF "tenancy" \in DOMAIN raw THEN raw.tenancy.platformTenant ELSE raw.tenant
    IN [f \in CommonFields \cup {"tenant", "tenancy"} |->
            CASE f = "tenant" -> tenant
              [] f = "tenancy" -> IF "tenancy" \in DOMAIN raw
                                  THEN {[raw.tenancy EXCEPT !.application = tenant]} ELSE {}
              [] OTHER -> raw[f]]

\* What it returns: the tenant is the application of the tenancy, if there
\* is one; an intent of the older version has no tenancy.
parseBinding(raw) ==
    LET tenant == IF "tenancy" \in DOMAIN raw THEN raw.tenancy.application ELSE raw.tenant
    IN [f \in CommonFields \cup {"tenant", "tenancy"} |->
            CASE f = "tenant" -> tenant
              [] f = "tenancy" -> IF "tenancy" \in DOMAIN raw THEN {raw.tenancy} ELSE {}
              [] OTHER -> raw[f]]

ParsedIntent(value, environment) ==
    [apiVersion |-> value.apiVersion, environment |-> environment,
     bindings |-> {parseBinding(raw) : raw \in value.bindings}]

-----------------------------------------------------------------------------
(* Assertions *)

codeflyServiceRef(binding) == <<binding.workspace, binding.module, binding.service>>

\* The owner chain of a binding, and one platform tenant per application.
TenancyHolds(intent) ==
    IF intent.apiVersion = "v1alpha2"
    THEN /\ \A k \in intent.bindings : \E t \in k.tenancy :
                t.application = k.tenant /\ t.owner = k.runtimeIdentity
         /\ \A k, l \in intent.bindings : \A t \in k.tenancy : \A u \in l.tenancy :
                (t.application = u.application) <=> (t.platformTenant = u.platformTenant)
    ELSE \A k \in intent.bindings : k.tenancy = {}

IntentHolds(intent) ==
    /\ intent.bindings # {}
    /\ \A k, l \in intent.bindings : k # l =>
           /\ k.id # l.id
           /\ codeflyServiceRef(k) # codeflyServiceRef(l)
           /\ k.boundary # l.boundary
    /\ TenancyHolds(intent)
    /\ \A k \in intent.bindings :
           /\ k.runtimeIdentity # k.migrationIdentity
           /\ k.runtimeBoundary # k.migrationBoundary
           /\ intent.environment = "production" => k.backupRetentionDays >= ProductionBackupDays

\* The data boundary is a protected relational one whose recovery the binding
\* does not weaken.
BoundaryHolds(k, b) ==
    /\ k.boundary \in Ids(b.boundaries)
    /\ LET d == Find(b.boundaries, k.boundary)
       IN /\ "relational" \in d.services
          /\ {"customerManagedKey", "rotationRequired"} \subseteq d.encryption
          /\ {"multiAz", "deletionProtection", "backup"} \subseteq d.recovery
          /\ k.backupRetentionDays >= IF d.retentionDays < MaxBackupDays THEN d.retentionDays ELSE MaxBackupDays
          /\ k.restoreTestIntervalDays <= d.restoreTestIntervalDays

\* The binding belongs to the component that holds the data boundary and runs
\* under the runtime identity.
OwnerHolds(k, b) ==
    \E a \in b.applications :
        /\ a.id = k.tenant
        /\ \E c \in a.components :
               c.id = k.module /\ k.boundary \in c.boundaries /\ c.identity = k.runtimeIdentity

\* Variant: whoever is short-lived may migrate.
MigratorHolds_ShortLived(k, b) ==
    \E i \in b.identities : i.id = k.migrationIdentity /\ i.shortLived

MigratorHolds(k, b) ==
    \E i \in b.identities : i.id = k.migrationIdentity /\ i.kind = "automation" /\ i.shortLived

\* Against no blueprint (an empty set) or the one that is given.
assertManagedPostgresIntent(intent, blueprints, now) ==
    /\ IntentHolds(intent)
    /\ \A b \in blueprints :
           /\ assertBlueprint(b, now)
           /\ \A k \in intent.bindings : BoundaryHolds(k, b) /\ OwnerHolds(k, b) /\ MigratorHolds(k, b)

\* Whether parsing returns; what it returns is ParsedIntent.
parseManagedPostgresIntent(value, environment, blueprints, now) ==
    /\ value.apiVersion \in {"v1alpha1", "v1alpha2"}
    /\ value.literals = IntentLiterals
    /\ \A raw \in value.bindings : BindingParses(raw, value.apiVersion)
    /\ assertManagedPostgresIntent(ParsedIntent(value, environment), blueprints, now)

-----------------------------------------------------------------------------
(* Migration *)

\* A binding whose tenant is replaced by the whole chain of owners.
BindingWithTenancy(raw, organization, platformTenants) ==
    [f \in CommonFields \cup {"tenancy"} |->
        IF f = "tenancy"
        THEN [organization |-> organization, application |-> raw.tenant,
              platformTenant |-> platformTenants[raw.tenant], owner |-> raw.runtimeIdentity]
        ELSE raw[f]]

\* A document of the newer version with these bindings.
WithTenancy(value, organization, platformTenants) ==
    [value EXCEPT
        !.apiVersion = "v1alpha2",
        !.bindings = {BindingWithTenancy(raw, organization, platformTenants) : raw \in @}]

\* Whether the migration returns; what it returns is WithTenancy.  The way
\* back always throws.
migrateManagedPostgresV1alpha1ToV1alpha2(value, environment, blueprints, organization, platformTenants, now) ==
    /\ parseManagedPostgresIntent(value, environment, blueprints, now)
    /\ value.apiVersion = "v1alpha1"
    /\ \A raw \in value.bindings : raw.tenant \in DOMAIN platformTenants
    /\ parseManagedPostgresIntent(WithTenancy(value, organization, platformTenants), environment, blueprints, now)
=============================================================================

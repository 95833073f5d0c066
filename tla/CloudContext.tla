----------------------------- MODULE CloudContext -----------------------------
(***************************************************************************)
(* The catalog of pre-provisioned cloud contexts                           *)
(* (src/src/core/cloudContext.ts): what its parser and its assertions      *)
(* accept.  A list whose entries carry an id is a set of records; what a   *)
(* document states with a literal (TRUE, FALSE or one word) is a member of *)
(* its field literals, and a parser requires them all.  A reference is the *)
(* scheme of its URI, keyed by its purpose.                                *)
(***************************************************************************)
EXTENDS Integers, FiniteSets

CONSTANTS
    Catalogs,           \* catalogs somebody may propose, by name
    Selections          \* the deployments asked for

NoTime == 0
Environments == {"development", "staging", "production"}
CapabilityKinds == {"runtime", "network", "registry", "identity", "observability", "dns"}
StrongIsolation == {"microvm", "dedicated-vm"}

CloudContextStatus ==
    [phase : {"planned", "ready", "degraded", "unavailable"}, generation : Nat,
     observedGeneration : Nat, verifiedAt : Nat, evidenceRef : BOOLEAN]
CloudContextPlacement ==
    [application : STRING, component : STRING, context : STRING,
     capabilities : [CapabilityKinds \ {"dns"} -> STRING], dns : SUBSET STRING,
     bindings : SUBSET STRING, delegated : SUBSET [context : STRING, runtime : STRING]]

\* uniqueMap
UniqueIds(docs) == \A d, e \in docs : d.id = e.id => d = e

ById(docs, id) == CHOOSE d \in docs : d.id = id

Has(docs, id) == \E d \in docs : d.id = id

\* The digest of each document of a family: one of those with its content.
Digests(family) == [i \in DOMAIN family |-> CHOOSE j \in DOMAIN family : family[j] = family[i]]

-----------------------------------------------------------------------------
(* Parsers *)

RuntimeLiterals == {"privateControlPlane", "workloadIdentity", "directHostAccess"}
NetworkLiterals == {"private", "directInternetAccess", "inspectedEgress", "brokeredEgress"}
RegistryLiterals == {"immutableDigestsOnly", "signatureVerification", "provenanceVerification"}
DnsLiterals == {"managedRecordsOnly"}
IdentityLiterals == {"mode", "shortLived", "administrator"}
ObservabilityLiterals == {"immutableAudit"}
ContextLiterals ==
    {"mode", "owner", "physicalMutationFromCodefly", "privateNetworking", "inspectedEgress",
     "immutableAudit", "credentialDelivery", "directProviderCredentials"}
BindingLiterals ==
    {"kind", "lifecycle", "separateBoundaries", "allowNetworkCidr", "separate", "port",
     "credentialValue"}

parseRuntime(c) ==
    /\ c.literals = RuntimeLiterals
    /\ c.planes # {}
    /\ c.trust \in {"trusted", "semi-trusted", "untrusted"}
    /\ c.isolation \in {"process", "container"} \cup StrongIsolation
    /\ c.credentials \in {"workload-identity", "brokered"}
    /\ DOMAIN c.refs = {"runtime-target"}

parseNetwork(c) == c.literals = NetworkLiterals /\ DOMAIN c.refs = {"network-boundary"}
parseRegistry(c) == c.literals = RegistryLiterals /\ DOMAIN c.refs = {"registry-target"}
parseDns(c) == c.literals = DnsLiterals /\ DOMAIN c.refs = {"dns-zone"}

parseIdentity(c) ==
    c.literals = IdentityLiterals /\ c.allowed # {} /\ DOMAIN c.refs = {"identity-binding"}

parseObservability(c) ==
    /\ c.literals = ObservabilityLiterals
    /\ DOMAIN c.refs = {"audit-sink", "logs-sink", "metrics-sink", "traces-sink"}

CloudCapabilityParses(c) ==
    CASE c.kind = "runtime" -> parseRuntime(c)
      [] c.kind = "network" -> parseNetwork(c)
      [] c.kind = "registry" -> parseRegistry(c)
      [] c.kind = "dns" -> parseDns(c)
      [] c.kind = "identity" -> parseIdentity(c)
      [] c.kind = "observability" -> parseObservability(c)

\* What a status claims of its verification follows its phase.
assertStatus(s) ==
    /\ s.generation >= 1
    /\ s.observedGeneration <= s.generation
    /\ IF s.phase = "planned"
       THEN s.observedGeneration = 0 /\ s.verifiedAt = NoTime /\ ~s.evidenceRef
       ELSE s.observedGeneration >= 1 /\ s.verifiedAt # NoTime /\ s.evidenceRef

parseStatus(s) == s \in CloudContextStatus /\ assertStatus(s)

parseResourceBinding(b) ==
    /\ b.literals = BindingLiterals
    /\ DOMAIN b.refs = {"provider-resource", "postgres-endpoint", "postgres-ca-bundle",
                        "postgres-runtime-identity", "postgres-migration-identity"}
    /\ parseStatus(b.status)

parsePlacement(p) == p \in CloudContextPlacement

parseContext(c) ==
    /\ c.environment \in Environments
    /\ c.literals = ContextLiterals
    /\ DOMAIN c.refs = {"provider-boundary"}
    /\ \A k \in c.capabilities : CloudCapabilityParses(k)
    /\ \A b \in c.bindings : parseResourceBinding(b)
    /\ parseStatus(c.status)

-----------------------------------------------------------------------------
(* Assertions on a parsed catalog *)

Capabilities(context, kind) == {k \in context.capabilities : k.kind = kind}
AllBindings(catalog) == UNION {c.bindings : c \in catalog.contexts}

\* Code nobody trusts runs strongly isolated and holds no credential.
UntrustedIsContained(runtime) ==
    runtime.trust = "untrusted" =>
        runtime.credentials = "brokered" /\ runtime.isolation \in StrongIsolation

assertContext(c, catalog) ==
    /\ c.environment = catalog.environment
    /\ assertStatus(c.status)
    /\ \A kind \in CapabilityKinds :
           Capabilities(c, kind) # {} /\ UniqueIds(Capabilities(c, kind))
    /\ \A r \in Capabilities(c, "runtime") : UntrustedIsContained(r)
    /\ \A b \in c.bindings :
           /\ assertStatus(b.status)
           /\ b.runtimeIdentity # b.migrationIdentity
           /\ b.runtimeBoundary # b.migrationBoundary

\* requireCapability
requireCapability(context, kind, id) == Has(Capabilities(context, kind), id)

\* A placement consumes the bindings of its own component in its own context.
MayConsume(p, id, catalog) ==
    \E c \in catalog.contexts :
        /\ c.id = p.context
        /\ \E b \in c.bindings :
               b.id = id /\ b.application = p.application /\ b.component = p.component

\* Customer code is delegated only to a contained, untrusted runtime.
MayDelegate(d, catalog) ==
    \E c \in catalog.contexts :
        /\ c.id = d.context
        /\ requireCapability(c, "runtime", d.runtime)
        /\ LET r == ById(Capabilities(c, "runtime"), d.runtime)
           IN r.trust = "untrusted" /\ UntrustedIsContained(r)

assertPlacement(p, catalog) ==
    /\ Has(catalog.contexts, p.context)
    /\ LET c == ById(catalog.contexts, p.context)
       IN /\ \A kind \in CapabilityKinds \ {"dns"} :
                 requireCapability(c, kind, p.capabilities[kind])
          /\ \A id \in p.dns : requireCapability(c, "dns", id)
          /\ ById(Capabilities(c, "runtime"), p.capabilities["runtime"]).trust # "untrusted"
    /\ \A id \in p.bindings : MayConsume(p, id, catalog)
    /\ \A d \in p.delegated : MayDelegate(d, catalog)

\* Variant: a second placement of a component is not noticed.
assertPlacements_Repeated(catalog) ==
    /\ \A p \in catalog.placements : assertPlacement(p, catalog)
    /\ {b.id : b \in AllBindings(catalog)} = UNION {p.bindings : p \in catalog.placements}

\* Every component is placed once and every binding goes to one placement.
assertPlacements(catalog) ==
    /\ \A p, q \in catalog.placements :
           p # q => <<p.application, p.component>> # <<q.application, q.component>>
    /\ \A p \in catalog.placements : assertPlacement(p, catalog)
    /\ \A p, q \in catalog.placements : p # q => p.bindings \cap q.bindings = {}
    /\ {b.id : b \in AllBindings(catalog)} = UNION {p.bindings : p \in catalog.placements}

assertCloudContextCatalog(catalog) ==
    /\ catalog.contexts # {}
    /\ UniqueIds(catalog.contexts)
    /\ UniqueIds(UNION {{[id |-> b.id, context |-> c.id, binding |-> b] : b \in c.bindings} :
                           c \in catalog.contexts})
    /\ \A c \in catalog.contexts : assertContext(c, catalog)
    /\ assertPlacements(catalog)

parseCloudContextCatalog(catalog) ==
    /\ catalog.environment \in Environments
    /\ \A c \in catalog.contexts : parseContext(c)
    /\ \A p \in catalog.placements : parsePlacement(p)
    /\ assertCloudContextCatalog(catalog)

AcceptedCatalogs == {c \in DOMAIN Catalogs : parseCloudContextCatalog(Catalogs[c])}
=============================================================================

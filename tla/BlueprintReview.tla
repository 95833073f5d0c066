--------------------------- MODULE BlueprintReview ---------------------------
(***************************************************************************)
(* The life of a blueprint document: it is edited, loaded (with migration  *)
(* if it is of the older version), asserted and compiled for a cloud whose *)
(* adapter must have the capabilities it asks for (src/src/config.ts,      *)
(* src/src/core/adapter.ts).  Accepting depends on the clock, because      *)
(* exceptions expire.                                                      *)
(***************************************************************************)
EXTENDS BlueprintPolicies

CONSTANTS
    Documents,            \* the documents to start from
    Edits,                \* entries editors add: their list and themselves
    AdapterCapabilities,  \* what the adapter's descriptor lists
    MaxEdits,             \* bound on the edits of a document
    MaxReviewTime         \* bound on the clock

ASSUME DocumentsAssumption == \A d \in DOMAIN Documents : FiniteDocument(Documents[d])

VARIABLES
    document,    \* the document under review, by name
    edits,       \* what was added to it
    reviewTime,
    compiledAt   \* the times at which the document as it stands was compiled

reviewVars == <<document, edits, reviewTime, compiledAt>>

\* The document with its edits: an edit of a list it lacks starts that list.
Edited(d, es) ==
    [f \in DOMAIN Documents[d] \cup {e.list : e \in es} |->
        IF f \in {e.list : e \in es}
        THEN (IF f \in DOMAIN Documents[d] THEN Documents[d][f] ELSE {})
             \cup {e.entry : e \in {e \in es : e.list = f}}
        ELSE Documents[d][f]]

InitReview ==
    /\ document \in DOMAIN Documents
    /\ edits = {}
    /\ reviewTime = 1
    /\ compiledAt = {}

Edit(e) ==
    /\ e \notin edits
    /\ Cardinality(edits) < MaxEdits
    /\ edits' = edits \cup {e}
    /\ compiledAt' = {}
    /\ UNCHANGED <<document, reviewTime>>

\* compileBlueprint on what loadPlatformBlueprint returns; whatever throws
\* leaves nothing behind.
compileBlueprint ==
    /\ LET d == Edited(document, edits)
           b == Migrated(d)
       IN /\ loadPlatformBlueprint(d)
          /\ assertBlueprint(b, reviewTime)
          /\ b.capabilities \subseteq AdapterCapabilities
    /\ compiledAt' = compiledAt \cup {reviewTime}
    /\ UNCHANGED <<document, edits, reviewTime>>

ReviewTick ==
    /\ reviewTime < MaxReviewTime
    /\ reviewTime' = reviewTime + 1
    /\ UNCHANGED <<document, edits, compiledAt>>

NextReview == (\E e \in Edits : Edit(e)) \/ compileBlueprint \/ ReviewTick

SpecReview == InitReview /\ [][NextReview]_reviewVars

-----------------------------------------------------------------------------
(* Properties: what a compiled blueprint promises, in terms of the closure *)
(* of its flows and delegations instead of the paths the analysis lists.   *)

\* One more edge, from and to allowed nodes.
Spread(nodes, edges, allowed) == nodes \cup {e.to : e \in {e \in edges : e.from \in nodes /\ e.to \in allowed}}

\* What can be reached from a set of nodes in so many edges or less.
Reach(start, edges, allowed, depth) ==
    LET within[i \in 0..depth] ==
            IF i = 0 THEN start \cap allowed ELSE Spread(within[i - 1], edges, allowed)
    IN within

\* What can be reached from a set of nodes along edges between allowed nodes.
ReachedFrom(start, edges, allowed) ==
    Reach(start, edges, allowed, Cardinality(allowed))[Cardinality(allowed)]

\* However flows chain up, a compiled blueprint lets no walk of several hops
\* leave an execution zone unbrokered and end in a trusted zone, lets nothing
\* reach the outside around the inspected zones, and connects no two zones of
\* disjoint tenants.
NetworkIsContained ==
    compiledAt # {} =>
        LET b == Migrated(Edited(document, edits))
            edges == CanReach(b)
            zones == Ids(b.zones)
            Kinds(ids) == {KindOf(b, z) : z \in ids}
        IN \A z \in b.zones :
              /\ z.kind = "execution" =>
                    \A e \in {e \in edges : e.from = z.id /\ ~e.brokered} :
                        LET beyond == ReachedFrom({e.to}, edges, zones \ {z.id})
                        IN \A y \in beyond \ {e.to} : ~Trusted(KindOf(b, y))
              /\ "requireInspectedEgress" \in b.posture.flags /\ z.kind # "external" =>
                    "external" \notin Kinds(ReachedFrom({z.id}, edges, zones \ InspectedZones(b)))
              /\ z.scope.tenants # {} =>
                    \A y \in ReachedFrom({z.id}, edges, zones) :
                        LET tenants == ScopeOf(b.zones, y).tenants
                        IN tenants = {} \/ tenants \cap z.scope.tenants # {}

\* Whatever identities delegate to each other, an identity of one tenant is
\* allowed an action on a resource of another only under an exception that
\* was in force when the blueprint was compiled and is audited.
AccessIsIsolated ==
    LET b == Migrated(Edited(document, edits))
    IN \A now \in compiledAt : \A i \in b.identities :
          LET ids == ReachedFrom({i.id}, b.delegations, Ids(b.identities))
              held == {g \in b.grants : g.identity \in ids}
          IN \A g \in {g \in held : g.effect = "allow"} : \A r \in g.resources : \A a \in g.actions :
                LET tenants == tenantScopesByResource(b, r)
                    denied == \E d \in held : /\ d.effect = "deny"
                                              /\ resourceMatches(d.resources, r)
                                              /\ actionMatches(d.actions, a)
                IN (i.tenant # Undefined /\ tenants # {} /\ i.tenant \notin tenants /\ ~denied) =>
                      \E x \in g.exception : /\ x.expires > now
                                             /\ \E q \in b.requirements : q.id = x.requirement /\ r \in q.sources
=============================================================================

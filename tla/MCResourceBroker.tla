-------------------------- MODULE MCResourceBroker --------------------------
(* Instances of ResourceBroker for TLC: a database claim in two            *)
(* generations, the second also asked for without an attempt, for another  *)
(* kind and without a lifecycle guard.  And of the store that a host keeps *)
(* the state in: the broker's transitions are atomic because the store's   *)
(* are, and they share no variable, so each is explored by itself.         *)
EXTENDS ResourceBroker, ConditionalStore

CONSTANT Explored   \* the parts of a run

VARIABLE part

InitParts == part \in Explored /\ Init /\ InitStore

NextParts ==
    /\ UNCHANGED part
    /\ \/ part = "broker" /\ Next /\ UNCHANGED storeVars
       \/ part = "store" /\ NextStore /\ UNCHANGED vars

\* A part at rest has nobody to take its steps.
FairParts ==
    /\ InitParts /\ [][NextParts]_<<part, vars, storeVars>>
    /\ \/ part = "broker" /\ Fairness
       \/ part = "store" /\ StoreFairness

\* Where there are clients, the host that was asked acknowledges every command
\* in the end (EveryCommandAcknowledged of ConditionalStore).
StoreAcknowledges == part = "store" => EveryCommandAcknowledged

DatabaseProvider ==
    [p \in Providers |-> [id |-> p, secure |-> TRUE, resourceKinds |-> {"ManagedPostgres"},
                          capabilities |-> {"private-network", "multi-zone"}]]

Request(generation, attempts) ==
    [claimId |-> "db", tenantId |-> "acme", generation |-> generation, resourceKind |-> "ManagedPostgres",
     desiredStateDigest |-> <<"db", generation>>, desiredStateRef |-> Text("broker"),
     requiredProviderCapabilities |-> {"private-network"}, lifecycle |-> lifecycleGuards,
     maxReconcileAttempts |-> attempts]
FirstGeneration == {Request(1, m) : m \in 1 .. 2}
TwoGenerations ==
    FirstGeneration
        \cup {Request(2, m) : m \in 0 .. 1}
        \cup {[Request(2, 1) EXCEPT !.resourceKind = "Bucket"],
              [Request(2, 1) EXCEPT !.lifecycle = @ \ {"deletionProtection"}]}

Context(operation, key, capability) ==
    [operation |-> operation, capabilityVerified |-> TRUE, tenant |-> "acme", resource |-> "db",
     key |-> key, capability |-> capability]
Mutations == {"claim.apply", "claim.cancel", "claim.delete"}
\* Besides these, a context that is not verified and one of another tenant.
ThreeCapabilities ==
    {Context(op, k, cap) : op \in Mutations, k \in {"k1", "k2"}, cap \in {"c1", "c2", "c3"}}
        \cup {[Context("claim.apply", "k1", "c1") EXCEPT !.capabilityVerified = FALSE],
              [Context("claim.delete", "k1", "c2") EXCEPT !.tenant = "other"]}
TwoCapabilities == {Context(op, "k1", cap) : op \in Mutations, cap \in {"c1", "c2"}}

Observation(operation, generation, ref, outputs) ==
    [operation |-> operation, observedStateDigest |-> <<"db", generation>>,
     providerResourceRef |-> ref, outputs |-> outputs]
Endpoint == [name |-> "endpoint", kind |-> "reference", value |-> Text("broker")]
\* The state of either generation, complete; and of the first without outputs,
\* with a secret among them, with credentials in a value, and a destruction.
AdapterAnswers ==
    {Observation("reconcile", n, Text("provider"), <<Endpoint>>) : n \in 1 .. 2}
        \cup {Observation("reconcile", 1, Text("provider"), outputs) :
                 outputs \in {<<>>, <<Endpoint, [Endpoint EXCEPT !.name = "password"]>>,
                              <<[name |-> "url", kind |-> "value",
                                 value |-> [Text("https") EXCEPT !.credentials = TRUE, !.at = TRUE]]>>}}
        \cup {Observation("destroy", 1, NoReference, <<>>)}
=============================================================================

------------------------ MODULE MCPaasControlState ------------------------
(* Instances of PaasControlState for TLC. *)
EXTENDS PaasControlState, TLC

(* Capabilities of the instances. *)
Grant(id, t, ops, r, once) ==
    [id |-> id, tenant |-> t, operations |-> ops, resource |-> r, oneUse |-> once]

(* One tenant that deploys, rolls back and cancels on one resource. *)
ReleaseCapabilities == {Grant("c1", 1, {"deploy", "rollback"}, "web", FALSE)}

LifecycleCapabilities ==
    {Grant("c1", 1, {"build"}, "web", TRUE),
     Grant("c2", 1, {"deploy"}, "web", TRUE),
     Grant("c3", 1, {"cancel"}, "web", TRUE)}

(* Quotas: the same for every tenant. *)
OneEach == [t \in Tenants |-> 1]
TwoEach == [t \in Tenants |-> 2]

(* Job ids are opaque to the reducer, so callers may as well draw them in  *)
(* order: a state is explored only if the ids in use are a prefix of this  *)
(* list.                                                                   *)
JobOrder == <<"j1", "j2", "j3", "j4">>

InOrder ==
    \A n \in 2 .. Cardinality(Jobs) :
        jobs[JobOrder[n]].status # "absent" => jobs[JobOrder[n - 1]].status # "absent"

(* Payloads and keys are only compared for equality. *)
Symmetry == Permutations(Payloads) \cup Permutations(Keys)
=============================================================================

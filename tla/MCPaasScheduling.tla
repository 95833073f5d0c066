-------------------------- MODULE MCPaasScheduling --------------------------
(* Instances of PaasScheduling for TLC. *)
EXTENDS PaasScheduling, TLC

CapabilityId == <<"c1", "c2">>

Grants(ops) ==
    {[id |-> CapabilityId[t], tenant |-> t, operations |-> ops, resource |-> "web",
      oneUse |-> FALSE] : t \in Tenants}

BuildAndCancelCapabilities == Grants({"build", "cancel"})

OneEach == [t \in Tenants |-> 1]

JobOrder == <<"j1", "j2", "j3", "j4", "j5">>

InOrder ==
    \A n \in 2 .. Cardinality(Jobs) :
        jobs[JobOrder[n]].status # "absent" => jobs[JobOrder[n - 1]].status # "absent"

Symmetry == Permutations(Keys)
=============================================================================

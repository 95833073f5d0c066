--------------------------- MODULE SeedLifecycle ---------------------------
(***************************************************************************)
(* What the provisioning of the management-seed access promises, whoever   *)
(* runs it, however often, and wherever a run stops: the access is         *)
(* installed once, from a change set that was prepared; the installation   *)
(* is attested before anything of the provisioner is taken away; and the   *)
(* provisioner then loses its rights in three steps, in one order, with no *)
(* way back.                                                               *)
(***************************************************************************)
EXTENDS Naturals

VARIABLE stage

Foundation == 0    \* both target roles exist and have no policy
Prepared   == 1    \* a prepared receipt describes the change set
Installing == 2    \* CloudFormation is at work, or gave up
Deployed   == 3    \* both policies are installed
Attested   == 4    \* an executed receipt says so
Bounded    == 5    \* the provisioner has the deny-all boundary
Stripped   == 6    \* ... and no policy
Retired    == 7    \* ... and the retired tags

LInit == stage = Foundation

LNext == stage < Retired /\ stage' = stage + 1

LSpec == LInit /\ [][LNext]_stage
=============================================================================

---------------------------- MODULE MCBootstrap ----------------------------
(* Instances of the management-seed bootstrap for TLC: candidate, review   *)
(* and seal; preview, apply and recovery; and the access to the account,   *)
(* provisioned and retired.  Each part starts from what another one        *)
(* produces and they share no variable, so a run explores each of its      *)
(* parts by itself, the others at rest.                                    *)
EXTENDS BootstrapCandidate, BootstrapApply, SeedAccess, TLC

CONSTANT Explored   \* the parts of a run

VARIABLE part

InitParts ==
    /\ part \in Explored
    /\ InitCandidate /\ InitApply /\ Init
    /\ part # "apply" => wave = "full"

NextParts ==
    /\ UNCHANGED part
    /\ \/ part = "candidate" /\ NextCandidate /\ UNCHANGED <<applyVars, vars>>
       \/ part = "apply" /\ NextApply /\ UNCHANGED <<candidateVars, vars>>
       \/ part = "access" /\ Next /\ UNCHANGED <<candidateVars, applyVars>>

SpecParts == InitParts /\ [][NextParts]_<<part, candidateVars, applyVars, vars>>

\* A part at rest has nobody to take its steps.
FairParts ==
    /\ SpecParts
    /\ \/ part = "apply" /\ ApplyFairness
       \/ part = "access" /\ Fairness

Symmetry == Permutations(Runners)

\* One checkout of the host kit's source with one configuration.
OneCheckout == {<<"v1", "v1">>}

\* As a configuration, the second version breaks its contract.
BrokenContract == [v \in {"v1", "v2"} |-> IF v = "v2" THEN {"contract"} ELSE {}]

\* The fields of planReviewManifest, and those of the published schema.
LauncherFields == {"envelope", "plans"}
SchemaFields == ManifestFields
=============================================================================

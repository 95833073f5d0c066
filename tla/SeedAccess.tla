----------------------------- MODULE SeedAccess -----------------------------
(***************************************************************************)
(* Provisioning of the management-seed access and retirement of its        *)
(* provisioner: scripts/provision-management-seed-access-main.mjs with     *)
(* management-seed-access-provisioning.mjs and -live.mjs.                  *)
(*                                                                         *)
(* A run is one execution of the script in one of its modes.  It is a      *)
(* sequence of AWS calls and ends with a receipt file, with an error, or   *)
(* by stopping anywhere; runs may overlap.  IAM is eventually consistent:  *)
(* iam is the set of attributes that were written, vis of those that every *)
(* reader is sure to see, and a read returns something between the two.    *)
(* What is compared with the bundle and never changes (names, trust,       *)
(* documents, the SAML provider, source roles, boundary versions) is left  *)
(* out, and so is --observe-foundation, which only reads.  Reads in a row  *)
(* are one step where the order cannot matter: nothing written is undone,  *)
(* so a row of reads that saw something missing could have seen it missing *)
(* at the first, and one that saw it written can see it at the last.       *)
(***************************************************************************)
EXTENDS Naturals, Sequences

CONSTANTS
    Runners,       \* operators' terminals: each has at most one run at a time
    MaxAttempts,   \* read-backs before a retirement run gives up (12 in the code)
    MaxCrashes,    \* bound on the runs that stop in the middle
    CfnMayFail     \* whether CloudFormation may fail to create the stack

ASSUME SeedAssumption ==
    /\ MaxAttempts \in Nat \ {0}
    /\ MaxCrashes \in Nat
    /\ CfnMayFail \in BOOLEAN

VARIABLES
    iam,          \* attributes that were written
    vis,          \* attributes whose write has reached every replica
    changeSet,    \* status of the one change set, "none" before it is created
    prepared,     \* the prepared receipt is on disk
    executed,     \* the executed receipt on disk: "none", "mutated" or "recovered"
    retirement,   \* the retirement receipt on disk
    runs,         \* runner -> its run
    crashes

vars == <<iam, vis, changeSet, prepared, executed, retirement, runs, crashes>>
files == <<prepared, executed, retirement>>

Targets == {"preview", "apply"}    \* the inline policy of a target role is installed
Attributes == Targets \cup
    {"boundary",    \* the provisioner has the deny-all permissions boundary
     "usage",       \* PermissionsBoundaryUsageCount of that boundary is 1
     "stripped",    \* the provisioner's inline policy is deleted
     "tags"}        \* the provisioner has the retired tags

PutBoundary == "iam:PutRolePermissionsBoundary"
DeletePolicy == "iam:DeleteRolePolicy"
TagRole == "iam:TagRole"

States == {"active", "bounded", "stripped", "retired"}

(* What a run that observed a state still has to do. *)
Remaining(state) ==
    CASE state = "active"   -> <<PutBoundary, DeletePolicy, TagRole>>
      [] state = "bounded"  -> <<DeletePolicy, TagRole>>
      [] state = "stripped" -> <<TagRole>>
      [] OTHER              -> << >>

(* What a status of the change set says of the stack. *)
StackComplete == changeSet = "EXECUTE_COMPLETE"

Idle == [pc |-> "idle", recovering |-> FALSE, phase |-> "gate", saw |-> {},
         state |-> "none", start |-> "none", performed |-> << >>,
         expected |-> "none", attempts |-> 0]

NoReceipt == [start |-> "none", performed |-> << >>]

At(r, pc) == runs[r].pc = pc

Goto(r, pc) == runs' = [runs EXCEPT ![r].pc = pc]

(* A run ends with its receipt or with an error; nothing in AWS is undone. *)
End(r) == runs' = [runs EXCEPT ![r] = Idle]

(* The answers to a read of some attributes: those it shows as written. *)
Reads(attributes) ==
    {o \in SUBSET attributes : vis \cap attributes \subseteq o /\ o \subseteq iam}

FoundationExact(o) == o \cap Targets = {}
DeploymentExact(o) == Targets \subseteq o
ActiveExact(o) == o \subseteq Targets
RetiredExact(o) == Attributes \ Targets \subseteq o

(* The mode a terminal is given; any mode at any time. *)
Start(r) ==
    /\ At(r, "idle")
    /\ \E pc \in {"prepare", "active", "role"} : Goto(r, pc)
    /\ UNCHANGED <<iam, vis, changeSet, files, crashes>>

-----------------------------------------------------------------------------
(* --prepare *)

AttestFoundation(r) ==
    /\ At(r, "prepare")
    /\ \E o \in Reads(Attributes) :
          IF FoundationExact(o) /\ ActiveExact(o) THEN Goto(r, "create") ELSE End(r)
    /\ UNCHANGED <<iam, vis, changeSet, files, crashes>>

(* The name and the client token are fixed by the bundle: AWS takes a       *)
(* second create-change-set for a repetition or refuses it.                 *)
CreateChangeSet(r) ==
    /\ At(r, "create")
    /\ changeSet' = IF changeSet = "none" THEN "AVAILABLE" ELSE changeSet
    /\ Goto(r, "created") \/ (changeSet # "none" /\ End(r))
    /\ UNCHANGED <<iam, vis, files, crashes>>

ReverifyPrepared(r) ==
    /\ At(r, "created")
    /\ IF changeSet = "AVAILABLE" THEN Goto(r, "writePrepared") ELSE End(r)
    /\ UNCHANGED <<iam, vis, changeSet, files, crashes>>

WritePrepared(r) ==
    /\ At(r, "writePrepared")
    /\ prepared' = TRUE
    /\ End(r)
    /\ UNCHANGED <<iam, vis, changeSet, executed, retirement, crashes>>

-----------------------------------------------------------------------------
(* --execute *)

AttestActive(r) ==
    /\ At(r, "active")
    /\ \E o \in Reads(Attributes \ Targets) :
          IF ActiveExact(o) THEN Goto(r, "installation") ELSE End(r)
    /\ UNCHANGED <<iam, vis, changeSet, files, crashes>>

(* An exact empty foundation, else an exact deployment, else an error. *)
InstallationProgress(r) ==
    /\ At(r, "installation")
    /\ \E o \in Reads(Targets) :
          \/ FoundationExact(o) /\ Goto(r, "reverify")
          \/ /\ ~FoundationExact(o)
             /\ \E d \in Reads(Attributes) :
                   IF DeploymentExact(d) /\ ActiveExact(d)
                   THEN runs' = [runs EXCEPT ![r].pc = "reverify", ![r].recovering = TRUE]
                   ELSE End(r)
    /\ UNCHANGED <<iam, vis, changeSet, files, crashes>>

(* The prepared receipt is read and the live change set compared with it;  *)
(* its status must be the one that fits what IAM showed.                   *)
Reverify(r) ==
    /\ At(r, "reverify")
    /\ IF prepared /\ changeSet = (IF runs[r].recovering THEN "EXECUTE_COMPLETE"
                                                         ELSE "AVAILABLE")
       THEN Goto(r, IF runs[r].recovering THEN "attest" ELSE "execute")
       ELSE End(r)
    /\ UNCHANGED <<iam, vis, changeSet, files, crashes>>

(* execute-change-set.  Another run may have executed it since it was       *)
(* verified; the client token is the same, so AWS either takes the call for *)
(* a repetition or refuses it.                                              *)
ExecuteChangeSet(r) ==
    /\ At(r, "execute")
    /\ \/ /\ changeSet = "AVAILABLE"
          /\ changeSet' = "EXECUTE_IN_PROGRESS"
          /\ Goto(r, "wait")
       \/ /\ changeSet # "AVAILABLE"
          /\ Goto(r, "wait") \/ End(r)
          /\ UNCHANGED changeSet
    /\ UNCHANGED <<iam, vis, files, crashes>>

WaitForStack(r) ==
    /\ At(r, "wait")
    /\ \/ changeSet = "EXECUTE_COMPLETE" /\ Goto(r, "attest")
       \/ changeSet = "EXECUTE_FAILED" /\ End(r)
    /\ UNCHANGED <<iam, vis, changeSet, files, crashes>>

(* The read-back after the mutation is not retried: one stale answer and   *)
(* the run ends without a receipt, to be recovered by the next.            *)
AttestDeployment(r) ==
    /\ At(r, "attest")
    /\ \E o \in Reads(Attributes) :
          IF StackComplete /\ DeploymentExact(o) /\ ActiveExact(o)
          THEN Goto(r, "writeExecuted") ELSE End(r)
    /\ UNCHANGED <<iam, vis, changeSet, files, crashes>>

WriteExecuted(r) ==
    /\ At(r, "writeExecuted")
    /\ executed' = IF runs[r].recovering THEN "recovered" ELSE "mutated"
    /\ End(r)
    /\ UNCHANGED <<iam, vis, changeSet, prepared, retirement, crashes>>

-----------------------------------------------------------------------------
(* --retire *)

(***************************************************************************)
(* attestProvisionerRetirementProgress: get-role and the use of the         *)
(* boundary first, the policies later, so that the provisioner may change   *)
(* in between.  The script calls it as a gate, for the starting state,      *)
(* after each operation until the expected state shows, and in the final    *)
(* attestation; the last two are repeated.                                  *)
(***************************************************************************)
RetirementState_NoResume(o) ==
    CASE o = {}                               -> "active"
      [] o = {"boundary", "usage"}             -> "bounded"
      [] o = Attributes \ Targets              -> "retired"
      [] OTHER                                -> "inexact"

RetirementState(o) ==
    CASE o = {}                               -> "active"
      [] o = {"boundary", "usage"}             -> "bounded"
      [] o = {"boundary", "usage", "stripped"} -> "stripped"
      [] o = Attributes \ Targets              -> "retired"
      [] OTHER                                -> "inexact"

(* A failed read-back is repeated from its first call, MaxAttempts times in all. *)
Retry(r) ==
    IF runs[r].phase \in {"await", "final"} /\ runs[r].attempts + 1 < MaxAttempts
    THEN runs' = [runs EXCEPT ![r].attempts = @ + 1, ![r].saw = {},
                              ![r].pc = IF runs[r].phase = "final" THEN "targets" ELSE "role"]
    ELSE End(r)

ReadRole(r) ==
    /\ At(r, "role")
    /\ \E o \in Reads({"boundary", "tags", "usage"}) :
          IF "usage" \in o <=> "boundary" \in o
          THEN runs' = [runs EXCEPT ![r].pc = "policies", ![r].saw = o]
          ELSE Retry(r)
    /\ UNCHANGED <<iam, vis, changeSet, files, crashes>>

(* The loop of a retirement run: the next operation, or the final attestation. *)
Continue(r, start, state) ==
    runs' = [runs EXCEPT ![r] =
        [Idle EXCEPT !.pc = IF state = "retired" THEN "targets" ELSE "operate",
                     !.phase = IF state = "retired" THEN "final" ELSE "start",
                     !.state = state, !.start = start, !.performed = runs[r].performed]]

(* What the run does with the state it observed. *)
Progress(r, state) ==
    CASE runs[r].phase = "gate"  -> Goto(r, "receipt")
      [] runs[r].phase = "start" -> Continue(r, state, state)
      [] runs[r].phase = "await" ->
            IF state = runs[r].expected THEN Continue(r, runs[r].start, state) ELSE Retry(r)
      [] OTHER -> IF state = "retired" THEN Goto(r, "exact") ELSE Retry(r)

(* The policy may be listed and be gone when its document is read. *)
ReadPolicies(r) ==
    /\ At(r, "policies")
    /\ \/ \E o \in Reads({"stripped"}) :
             LET state == RetirementState(runs[r].saw \cup o)
             IN  IF state = "inexact" THEN Retry(r) ELSE Progress(r, state)
       \/ "stripped" \in iam \ vis /\ Retry(r)
    /\ UNCHANGED <<iam, vis, changeSet, files, crashes>>

ReadExecuted_NotRequired(r) ==
    /\ At(r, "receipt")
    /\ runs' = [runs EXCEPT ![r] = [Idle EXCEPT !.pc = "role", !.phase = "start"]]
    /\ UNCHANGED <<iam, vis, changeSet, files, crashes>>

ReadExecuted(r) ==
    /\ At(r, "receipt")
    /\ IF executed = "none" THEN End(r)
       ELSE runs' = [runs EXCEPT ![r] = [Idle EXCEPT !.pc = "role", !.phase = "start"]]
    /\ UNCHANGED <<iam, vis, changeSet, files, crashes>>

(* The operation is recorded, and the read-back waits for its effect. *)
Performed(r, operation, expected) ==
    runs' = [runs EXCEPT ![r].performed = Append(@, operation), ![r].expected = expected,
                         ![r].state = "none", ![r].pc = "role", ![r].phase = "await"]

(***************************************************************************)
(* performNextProvisionerRetirementOperation.  Putting a boundary or a tag  *)
(* that is there is no error for IAM; deleting a policy that is gone is.    *)
(***************************************************************************)
(* Mutant: the boundary replaces what is attached. *)
PerformNext_Restores(r) ==
    /\ At(r, "operate")
    /\ \/ /\ runs[r].state = "active"
          /\ iam' = (iam \cup {"boundary", "usage"}) \ {"stripped"}
          /\ Performed(r, PutBoundary, "bounded")
       \/ /\ runs[r].state = "bounded"
          /\ iam' = iam \cup {"stripped"}
          /\ IF "stripped" \in iam THEN End(r) ELSE Performed(r, DeletePolicy, "stripped")
       \/ /\ runs[r].state = "stripped"
          /\ iam' = iam \cup {"tags"}
          /\ Performed(r, TagRole, "retired")
    /\ UNCHANGED <<vis, changeSet, files, crashes>>

PerformNext(r) ==
    /\ At(r, "operate")
    /\ \/ /\ runs[r].state = "active"
          /\ iam' = iam \cup {"boundary", "usage"}
          /\ Performed(r, PutBoundary, "bounded")
       \/ /\ runs[r].state = "bounded"
          /\ iam' = iam \cup {"stripped"}
          /\ IF "stripped" \in iam THEN End(r) ELSE Performed(r, DeletePolicy, "stripped")
       \/ /\ runs[r].state = "stripped"
          /\ iam' = iam \cup {"tags"}
          /\ Performed(r, TagRole, "retired")
    /\ UNCHANGED <<vis, changeSet, files, crashes>>

(* The final attestation: the target roles, the progress once more, and     *)
(* every attribute of the retired provisioner a last time.                  *)
AttestTargets(r) ==
    /\ At(r, "targets")
    /\ \E o \in Reads(Targets) : IF DeploymentExact(o) THEN Goto(r, "role") ELSE Retry(r)
    /\ UNCHANGED <<iam, vis, changeSet, files, crashes>>

VerifyExactRetired(r) ==
    /\ At(r, "exact")
    /\ \E o \in Reads(Attributes \ Targets) :
          IF RetiredExact(o) THEN Goto(r, "writeRetirement") ELSE Retry(r)
    /\ UNCHANGED <<iam, vis, changeSet, files, crashes>>

(* createProvisionerRetirementReceipt refuses a run whose operations are    *)
(* not the ones its starting state called for.                              *)
WriteRetirement(r) ==
    /\ At(r, "writeRetirement")
    /\ retirement' = IF runs[r].performed = Remaining(runs[r].start)
                     THEN [start |-> runs[r].start, performed |-> runs[r].performed]
                     ELSE retirement
    /\ End(r)
    /\ UNCHANGED <<iam, vis, changeSet, prepared, executed, crashes>>

-----------------------------------------------------------------------------
(* The environment. *)

CfnInstall(t) ==
    /\ changeSet = "EXECUTE_IN_PROGRESS"
    /\ t \notin iam
    /\ iam' = iam \cup {t}
    /\ UNCHANGED <<vis, changeSet, files, runs, crashes>>

CfnComplete ==
    /\ changeSet = "EXECUTE_IN_PROGRESS"
    /\ Targets \subseteq iam
    /\ changeSet' = "EXECUTE_COMPLETE"
    /\ UNCHANGED <<iam, vis, files, runs, crashes>>

CfnFail ==
    /\ CfnMayFail
    /\ changeSet = "EXECUTE_IN_PROGRESS"
    /\ changeSet' = "EXECUTE_FAILED"
    /\ UNCHANGED <<iam, vis, files, runs, crashes>>

Converge(a) ==
    /\ a \in iam \ vis
    /\ vis' = vis \cup {a}
    /\ UNCHANGED <<iam, changeSet, files, runs, crashes>>

(* A run stops: killed, out of credentials, or refused by AWS.              *)
Crash(r) ==
    /\ ~At(r, "idle")
    /\ crashes < MaxCrashes
    /\ crashes' = crashes + 1
    /\ End(r)
    /\ UNCHANGED <<iam, vis, changeSet, files>>

-----------------------------------------------------------------------------
Init ==
    /\ iam = {}
    /\ vis = {}
    /\ changeSet = "none"
    /\ prepared = FALSE
    /\ executed = "none"
    /\ retirement = NoReceipt
    /\ runs = [r \in Runners |-> Idle]
    /\ crashes = 0

Prepare(r) ==
    AttestFoundation(r) \/ CreateChangeSet(r) \/ ReverifyPrepared(r) \/ WritePrepared(r)

Execute(r) ==
    \/ AttestActive(r) \/ InstallationProgress(r) \/ Reverify(r) \/ ExecuteChangeSet(r)
    \/ WaitForStack(r) \/ AttestDeployment(r) \/ WriteExecuted(r)

Retire(r) ==
    \/ ReadRole(r) \/ ReadPolicies(r) \/ ReadExecuted(r) \/ PerformNext(r)
    \/ AttestTargets(r) \/ VerifyExactRetired(r) \/ WriteRetirement(r)

Step(r) == Prepare(r) \/ Execute(r) \/ Retire(r)

Cloud == (\E t \in Targets : CfnInstall(t)) \/ CfnComplete

Next ==
    \/ \E r \in Runners : Start(r) \/ Step(r) \/ Crash(r)
    \/ Cloud \/ CfnFail
    \/ \E a \in Attributes : Converge(a)

Spec == Init /\ [][Next]_vars

(***************************************************************************)
(* Fairness: the operator starts each mode again and again, as the runbook *)
(* has it after an interruption; a run goes on unless it is stopped;       *)
(* CloudFormation finishes; IAM converges.                                 *)
(***************************************************************************)
Fairness ==
    /\ \A r \in Runners :
          /\ \A pc \in {"prepare", "active", "role"} :
                SF_vars(Start(r) /\ runs'[r].pc = pc)
          /\ WF_vars(Step(r))
    /\ WF_vars(Cloud)
    /\ \A a \in Attributes : WF_vars(Converge(a))

FairSpec == Spec /\ Fairness

-----------------------------------------------------------------------------
Points == {"idle", "prepare", "create", "created", "writePrepared", "active",
           "installation", "reverify", "execute", "wait", "attest", "writeExecuted",
           "role", "policies", "receipt", "operate", "targets", "exact", "writeRetirement"}
Operations == {PutBoundary, DeletePolicy, TagRole}
RunStates == States \cup {"none"}

Runs ==
    [pc : Points, recovering : BOOLEAN, saw : SUBSET Attributes,
     phase : {"gate", "start", "await", "final"}, state : RunStates,
     start : RunStates, performed : Seq(Operations), expected : RunStates,
     attempts : 0 .. MaxAttempts]

(* Type invariant of the cloud, the receipts and the runs. *)
TypeOK ==
    /\ iam \in SUBSET Attributes
    /\ vis \in SUBSET iam
    /\ changeSet \in {"none", "AVAILABLE", "EXECUTE_IN_PROGRESS", "EXECUTE_COMPLETE",
                      "EXECUTE_FAILED"}
    /\ prepared \in BOOLEAN
    /\ executed \in {"none", "mutated", "recovered"}
    /\ retirement \in [start : RunStates, performed : Seq(Operations)]
    /\ runs \in [Runners -> Runs]
    /\ crashes \in 0 .. MaxCrashes

(* "Retirement performs deny-all boundary -> sole policy deletion ->        *)
(* retired tag": whatever stale state a run acts on, the provisioner is     *)
(* never without its policy and without the boundary, never marked retired  *)
(* before both, and nothing is taken away before the installation is        *)
(* attested, while a lost executed receipt can still be reconstructed.      *)
RestrictionsAreOrdered ==
    /\ "tags" \in iam => "stripped" \in iam
    /\ "stripped" \in iam => "boundary" \in iam
    /\ "boundary" \in iam => executed # "none"

(* A receipt on disk is true of the cloud, although it was written from     *)
(* reads that may have been stale, by a run that others overtook.           *)
AccessReceiptsAreTrue ==
    /\ prepared => changeSet # "none"
    /\ executed # "none" => StackComplete /\ Targets \subseteq iam
    /\ retirement # NoReceipt => iam = Attributes

(* A run that reaches the end of its retirement has performed exactly what  *)
(* its starting state called for: the last check never discards a finished  *)
(* retirement.                                                              *)
RetirementIsAccountedFor ==
    \A r \in Runners :
        At(r, "writeRetirement") => runs[r].performed = Remaining(runs[r].start)

(* Retirement by runs that overtake each other on stale reads is orderly:   *)
(* restrictions come in order, receipts are true, runs account for what     *)
(* they did.                                                                *)
RetirementIsOrderly ==
    /\ RestrictionsAreOrdered
    /\ AccessReceiptsAreTrue
    /\ RetirementIsAccountedFor

Stage ==
    IF "tags" \in iam THEN 7 ELSE IF "stripped" \in iam THEN 6 ELSE IF "boundary" \in iam THEN 5
    ELSE IF executed # "none" THEN 4 ELSE IF StackComplete THEN 3
    ELSE IF changeSet \in {"EXECUTE_IN_PROGRESS", "EXECUTE_FAILED"} THEN 2
    ELSE IF prepared THEN 1 ELSE 0

Lifecycle == INSTANCE SeedLifecycle WITH stage <- Stage

(* Runs that overlap, stop and start over move the account through the      *)
(* promised stages, one at a time and never back.                           *)
RefinesLifecycle == Lifecycle!LSpec

(* "or reconstructs the receipt read-only when that exact execution already *)
(* completed": an installation always gets its receipt in the end.          *)
InstallationIsReceipted == StackComplete ~> executed # "none"

(* "resumes after interruption without undoing a completed restriction":    *)
(* once installation is attested, the provisioner is retired and a receipt  *)
(* says so.                                                                 *)
ProvisionerIsRetired == executed # "none" ~> retirement # NoReceipt

(* Running the modes again after any interruption completes the access      *)
(* lifecycle.                                                               *)
SeedCompletes == InstallationIsReceipted /\ ProvisionerIsRetired
=============================================================================

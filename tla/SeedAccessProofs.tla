-------------------------- MODULE SeedAccessProofs --------------------------
(***************************************************************************)
(* Proofs about SeedAccess, for any number of runs, attempts and crashes.  *)
(* A read may be stale, but what it shows as done was done, and nothing is *)
(* ever undone: the inductive invariant says of each run that what it has  *)
(* observed and what it is about to rely on is true of the cloud.          *)
(***************************************************************************)
EXTENDS SeedAccess, Integers, SequenceTheorems, TLAPS

(* The operations of a run, and what is left to do at the point it is. *)
Accounted(run) ==
    /\ run.phase = "gate" =>
          /\ run.pc \notin {"operate", "targets", "exact", "writeRetirement"}
          /\ run.performed = << >>
    /\ run.phase = "start" =>
          /\ run.pc \in {"role", "policies", "operate"}
          /\ run.pc # "operate" => run.performed = << >>
    /\ run.pc = "operate" =>
          /\ run.phase = "start"
          /\ run.state \in {"active", "bounded", "stripped"}
          /\ run.start \in States
          /\ run.performed \o Remaining(run.state) = Remaining(run.start)
    /\ run.phase = "await" =>
          /\ run.pc \in {"role", "policies"}
          /\ run.start \in States
          /\ run.performed \o Remaining(run.expected) = Remaining(run.start)
    /\ run.phase = "final" =>
          /\ run.pc \in {"targets", "role", "policies", "exact", "writeRetirement"}
          /\ run.performed = Remaining(run.start)
          /\ iam = Attributes

(* What a run has seen, and what the point it is at relies on. *)
Observed(run) ==
    /\ run.pc \in {"created", "writePrepared"} => changeSet # "none"
    /\ run.pc = "execute" => prepared
    /\ run.pc = "writeExecuted" => StackComplete
    /\ run.saw \subseteq iam
    /\ run.phase # "gate" => executed # "none"
    /\ run.state = "bounded" => "boundary" \in iam
    /\ run.state = "stripped" => "stripped" \in iam

RunOK(run) == Accounted(run) /\ Observed(run)

CloudOK ==
    /\ "boundary" \in iam => "usage" \in iam
    /\ changeSet \notin {"none", "AVAILABLE"} => prepared
    /\ StackComplete => Targets \subseteq iam

IInv ==
    /\ TypeOK
    /\ CloudOK
    /\ RestrictionsAreOrdered
    /\ AccessReceiptsAreTrue
    /\ \A r \in Runners : RunOK(runs[r])

(* Nothing that was true of the cloud or of the files ceases to be. *)
Grows ==
    /\ iam \subseteq iam'
    /\ iam' \subseteq Attributes
    /\ changeSet # "none" => changeSet' # "none"
    /\ StackComplete => StackComplete'
    /\ prepared => prepared'
    /\ executed # "none" => executed' # "none"

-----------------------------------------------------------------------------
(* Concatenations of short sequences, written out. *)
LEMMA OneAndTwo ==
    ASSUME NEW S, NEW a \in S, NEW b \in S, NEW c \in S
    PROVE  <<a>> \o <<b, c>> = <<a, b, c>>
<1> DEFINE s == <<a>>  t == <<b, c>>  u == <<a, b, c>>  w == s \o t
<1>1. /\ s \in Seq(S) /\ t \in Seq(S) /\ u \in Seq(S)
      /\ Len(s) = 1 /\ Len(t) = 2 /\ Len(u) = 3
      /\ s[1] = a /\ t[1] = b /\ t[2] = c
      /\ u[1] = a /\ u[2] = b /\ u[3] = c
  OBVIOUS
<1> HIDE DEF s, t, u
<1>2. /\ w \in Seq(S) /\ Len(w) = Len(s) + Len(t)
      /\ \A i \in 1 .. Len(s) + Len(t) : w[i] = IF i <= Len(s) THEN s[i] ELSE t[i - Len(s)]
  BY <1>1, ConcatProperties
<1> HIDE DEF w
<1>3. Len(w) = 3 /\ w[1] = a /\ w[2] = b /\ w[3] = c
  BY <1>1, <1>2
<1>4. \A i \in 1 .. 3 : w[i] = u[i]
  BY <1>1, <1>3
<1>5. w = u
  BY <1>1, <1>2, <1>3, <1>4, SeqEqual
<1> QED
  BY <1>5 DEF s, t, u, w

LEMMA OneAndOne ==
    ASSUME NEW S, NEW a \in S, NEW b \in S
    PROVE  <<a>> \o <<b>> = <<a, b>>
<1> DEFINE s == <<a>>  t == <<b>>  u == <<a, b>>  w == s \o t
<1>1. /\ s \in Seq(S) /\ t \in Seq(S) /\ u \in Seq(S)
      /\ Len(s) = 1 /\ Len(t) = 1 /\ Len(u) = 2
      /\ s[1] = a /\ t[1] = b
      /\ u[1] = a /\ u[2] = b
  OBVIOUS
<1> HIDE DEF s, t, u
<1>2. /\ w \in Seq(S) /\ Len(w) = Len(s) + Len(t)
      /\ \A i \in 1 .. Len(s) + Len(t) : w[i] = IF i <= Len(s) THEN s[i] ELSE t[i - Len(s)]
  BY <1>1, ConcatProperties
<1> HIDE DEF w
<1>3. Len(w) = 2 /\ w[1] = a /\ w[2] = b
  BY <1>1, <1>2
<1>4. \A i \in 1 .. 2 : w[i] = u[i]
  BY <1>1, <1>3
<1>5. w = u
  BY <1>1, <1>2, <1>3, <1>4, SeqEqual
<1> QED
  BY <1>5 DEF s, t, u, w

(* What is left to do is the next operation and what is left after it. *)
LEMMA RemainingSteps ==
    /\ \A s : Remaining(s) \in Seq(Operations)
    /\ Remaining("active") = <<PutBoundary>> \o Remaining("bounded")
    /\ Remaining("bounded") = <<DeletePolicy>> \o Remaining("stripped")
    /\ Remaining("stripped") = <<TagRole>> \o Remaining("retired")
    /\ Remaining("retired") = << >>
<1>1. PutBoundary \in Operations /\ DeletePolicy \in Operations /\ TagRole \in Operations
  BY DEF Operations
<1>2. /\ Remaining("active") = <<PutBoundary, DeletePolicy, TagRole>>
      /\ Remaining("bounded") = <<DeletePolicy, TagRole>>
      /\ Remaining("stripped") = <<TagRole>>
      /\ Remaining("retired") = << >>
  BY DEF Remaining
<1>3. ASSUME NEW s PROVE Remaining(s) \in Seq(Operations)
  <2>1. /\ <<PutBoundary, DeletePolicy, TagRole>> \in Seq(Operations)
        /\ <<DeletePolicy, TagRole>> \in Seq(Operations)
        /\ <<TagRole>> \in Seq(Operations)
        /\ << >> \in Seq(Operations)
    BY <1>1
  <2> QED
    BY <2>1 DEF Remaining
<1>4. <<PutBoundary>> \o <<DeletePolicy, TagRole>> = <<PutBoundary, DeletePolicy, TagRole>>
  BY <1>1, OneAndTwo
<1>5. <<DeletePolicy>> \o <<TagRole>> = <<DeletePolicy, TagRole>>
  BY <1>1, OneAndOne
<1>6. <<TagRole>> \o << >> = <<TagRole>>
  BY <1>1, ConcatEmptySeq
<1> QED
  BY <1>2, <1>3, <1>4, <1>5, <1>6

(* Recording an operation keeps the account. *)
LEMMA AppendAccount ==
    ASSUME NEW p \in Seq(Operations), NEW op \in Operations, NEW t \in Seq(Operations)
    PROVE  /\ Append(p, op) \o t = p \o (<<op>> \o t)
           /\ Append(p, op) \in Seq(Operations)
           /\ p \o << >> = p
           /\ << >> \o p = p
<1>1. Append(p, op) = p \o <<op>>
  BY AppendIsConcat
<1>2. <<op>> \in Seq(Operations)
  OBVIOUS
<1>3. (p \o <<op>>) \o t = p \o (<<op>> \o t)
  BY <1>2, ConcatAssociative
<1> QED
  BY <1>1, <1>3, ConcatEmptySeq, AppendProperties

LEMMA InitInv == Init => IInv
<1> SUFFICES ASSUME Init PROVE IInv
  OBVIOUS
<1>1. TypeOK
  <2>1. Idle \in Runs
    BY SeedAssumption DEF Idle, Runs, Points, RunStates
  <2>2. NoReceipt \in [start : RunStates, performed : Seq(Operations)]
    BY DEF NoReceipt, RunStates
  <2>3. runs \in [Runners -> Runs]
    BY <2>1 DEF Init
  <2>4. crashes \in 0 .. MaxCrashes
    BY SeedAssumption DEF Init
  <2> QED
    BY <2>2, <2>3, <2>4 DEF Init, TypeOK
<1>2. CloudOK /\ RestrictionsAreOrdered /\ AccessReceiptsAreTrue
  BY DEF Init, CloudOK, RestrictionsAreOrdered, AccessReceiptsAreTrue, StackComplete, Attributes, Targets
<1>3. ASSUME NEW r \in Runners PROVE RunOK(runs[r])
  BY DEF Init, Idle, RunOK, Accounted, Observed
<1> QED
  BY <1>1, <1>2, <1>3 DEF IInv

-----------------------------------------------------------------------------
(* What a run relies on stays true whatever the others do. *)
LEMMA RunsKeep ==
    ASSUME Grows, NEW run, RunOK(run)
    PROVE  RunOK(run)'
BY DEF Grows, RunOK, Accounted, Observed, StackComplete, Attributes

(* One run moves on and the others rely on what they relied on. *)
LEMMA RunsUpdated ==
    ASSUME Grows, NEW r \in Runners, NEW n, RunOK(n)',
           runs \in [Runners -> Runs], runs' = [runs EXCEPT ![r] = n],
           \A q \in Runners : RunOK(runs[q])
    PROVE  \A q \in Runners : RunOK(runs[q])'
<1> SUFFICES ASSUME NEW q \in Runners PROVE RunOK(runs[q])'
  OBVIOUS
<1>1. CASE q = r
  <2>1. runs'[q] = n
    BY <1>1
  <2> QED
    BY <2>1 DEF RunOK, Accounted, Observed
<1>2. CASE q # r
  <2>1. PICK m : m = runs[q]
    OBVIOUS
  <2>2. RunOK(m)
    BY <2>1 DEF RunOK, Accounted, Observed
  <2>3. RunOK(m)'
    BY <2>2, RunsKeep
  <2>4. runs'[q] = m
    BY <1>2, <2>1
  <2> QED
    BY <2>3, <2>4 DEF RunOK, Accounted, Observed
<1> QED
  BY <1>1, <1>2

(* A step of a run that only changes its own record. *)
LEMMA RunStep ==
    ASSUME IInv, NEW r \in Runners, NEW n \in Runs, RunOK(n),
           runs' = [runs EXCEPT ![r] = n],
           UNCHANGED <<iam, vis, changeSet, prepared, executed, retirement, crashes>>
    PROVE  IInv'
<1>1. TypeOK'
  BY DEF IInv, TypeOK
<1>2. CloudOK' /\ RestrictionsAreOrdered' /\ AccessReceiptsAreTrue'
  BY DEF IInv, CloudOK, RestrictionsAreOrdered, AccessReceiptsAreTrue, StackComplete
<1>3. Grows
  BY DEF IInv, TypeOK, Grows, StackComplete
<1>4. RunOK(n)'
  BY <1>3, RunsKeep
<1>5. \A q \in Runners : RunOK(runs[q])'
  BY <1>3, <1>4, RunsUpdated DEF IInv, TypeOK
<1> QED
  BY <1>1, <1>2, <1>5 DEF IInv

LEMMA EndStep ==
    ASSUME IInv, NEW r \in Runners, End(r),
           UNCHANGED <<iam, vis, changeSet, prepared, executed, retirement, crashes>>
    PROVE  IInv'
<1>1. Idle \in Runs /\ RunOK(Idle)
  BY SeedAssumption DEF Idle, Runs, Points, RunStates, RunOK, Accounted, Observed
<1> QED
  BY <1>1, RunStep DEF End

LEMMA GotoStep ==
    ASSUME IInv, NEW r \in Runners, NEW pc \in Points, Goto(r, pc),
           RunOK([runs[r] EXCEPT !.pc = pc]),
           UNCHANGED <<iam, vis, changeSet, prepared, executed, retirement, crashes>>
    PROVE  IInv'
<1>1. [runs[r] EXCEPT !.pc = pc] \in Runs
  BY DEF IInv, TypeOK, Runs
<1>2. runs' = [runs EXCEPT ![r] = [runs[r] EXCEPT !.pc = pc]]
  BY DEF IInv, TypeOK, Goto
<1> QED
  BY <1>1, <1>2, RunStep

LEMMA RetryStep ==
    ASSUME IInv, NEW r \in Runners, Retry(r),
           UNCHANGED <<iam, vis, changeSet, prepared, executed, retirement, crashes>>
    PROVE  IInv'
<1>1. CASE End(r)
  BY <1>1, EndStep
<1>2. CASE ~End(r)
  <2> DEFINE n == [runs[r] EXCEPT !.attempts = @ + 1, !.saw = {},
                                  !.pc = IF runs[r].phase = "final" THEN "targets" ELSE "role"]
  <2>1. /\ runs[r].phase \in {"await", "final"}
        /\ runs[r].attempts + 1 < MaxAttempts
        /\ runs' = [runs EXCEPT ![r] = n]
    BY <1>2 DEF IInv, TypeOK, Retry
  <2>2. n \in Runs
    <3>1. runs[r] \in Runs
      BY DEF IInv, TypeOK
    <3>2. runs[r].attempts + 1 \in 0 .. MaxAttempts
      BY <2>1, <3>1, SeedAssumption DEF Runs
    <3>3. {} \in SUBSET Attributes
      OBVIOUS
    <3> QED
      BY <3>1, <3>2, <3>3 DEF Runs, Points
  <2>3. RunOK(n)
    BY <2>1 DEF IInv, TypeOK, Runs, RunOK, Accounted, Observed
  <2> HIDE DEF n
  <2> QED
    BY <2>1, <2>2, <2>3, RunStep
<1> QED
  BY <1>1, <1>2

-----------------------------------------------------------------------------
(* Before retirement proper a run has performed nothing. *)
GatePoints == {"idle", "prepare", "create", "created", "writePrepared", "active",
               "installation", "reverify", "execute", "wait", "attest", "writeExecuted"}

(* What the point a run goes to relies on. *)
PointOK(pc) ==
    /\ pc \in {"created", "writePrepared"} => changeSet # "none"
    /\ pc = "execute" => prepared
    /\ pc = "writeExecuted" => StackComplete

LEMMA GateMoves ==
    ASSUME NEW m \in Runs, RunOK(m), m.pc \in GatePoints,
           NEW pc \in GatePoints \cup {"role"}, PointOK(pc)
    PROVE  /\ [m EXCEPT !.pc = pc] \in Runs
           /\ RunOK([m EXCEPT !.pc = pc])
<1> DEFINE n == [m EXCEPT !.pc = pc]
<1>1. m.phase = "gate"
  BY DEF Runs, RunOK, Accounted, GatePoints
<1>2. /\ n \in Runs
      /\ n.pc = pc /\ n.phase = m.phase /\ n.saw = m.saw /\ n.state = m.state
      /\ n.performed = m.performed /\ n.start = m.start /\ n.expected = m.expected
  BY DEF Runs, Points, GatePoints
<1> HIDE DEF n
<1>3. Accounted(n)
  BY <1>1, <1>2 DEF RunOK, Accounted, GatePoints
<1>4. Observed(n)
  BY <1>1, <1>2 DEF RunOK, Observed, PointOK
<1>5. RunOK(n)
  BY <1>3, <1>4 DEF RunOK
<1> QED
  BY <1>2, <1>5 DEF n

LEMMA GateStep ==
    ASSUME IInv, NEW r \in Runners, runs[r].pc \in GatePoints,
           NEW pc \in GatePoints \cup {"role"}, PointOK(pc), Goto(r, pc),
           UNCHANGED <<iam, vis, changeSet, prepared, executed, retirement, crashes>>
    PROVE  IInv'
<1>1. runs[r] \in Runs /\ RunOK(runs[r])
  BY DEF IInv, TypeOK
<1>2. RunOK([runs[r] EXCEPT !.pc = pc])
  BY <1>1, GateMoves
<1> QED
  BY <1>2, GotoStep DEF Points, GatePoints

(* The steps of a run, one lemma for each mode. *)
LEMMA StartInv ==
    ASSUME IInv, NEW r \in Runners, Start(r)
    PROVE  IInv'
<1>1. PICK pc \in {"prepare", "active", "role"} : Goto(r, pc)
  BY DEF Start
<1> QED
  BY <1>1, GateStep DEF Start, At, files, GatePoints, PointOK

LEMMA PrepareInv ==
    ASSUME IInv, NEW r \in Runners, Prepare(r)
    PROVE  IInv'
<1>1. CASE AttestFoundation(r)
  <2>1. CASE End(r)
    BY <1>1, <2>1, EndStep DEF AttestFoundation, files
  <2>2. CASE Goto(r, "create")
    BY <1>1, <2>2, GateStep DEF AttestFoundation, At, files, GatePoints, PointOK
  <2> QED
    BY <1>1, <2>1, <2>2 DEF AttestFoundation
<1>2. CASE CreateChangeSet(r) /\ ~Goto(r, "created")
  <2>1. End(r) /\ UNCHANGED <<iam, vis, changeSet, prepared, executed, retirement, crashes>>
    BY <1>2 DEF CreateChangeSet, files
  <2> QED
    BY <2>1, EndStep
<1>5. CASE CreateChangeSet(r) /\ Goto(r, "created")
  <2>1. PICK n : n = [runs[r] EXCEPT !.pc = "created"]
    OBVIOUS
  <2>2. runs[r] \in Runs /\ RunOK(runs[r])
    BY DEF IInv, TypeOK
  <2>3. runs' = [runs EXCEPT ![r] = n]
    BY <1>5, <2>1 DEF CreateChangeSet, Goto, IInv, TypeOK
  <2>4. /\ n \in Runs
        /\ n.pc = "created" /\ n.phase = runs[r].phase /\ n.saw = runs[r].saw
        /\ n.state = runs[r].state /\ n.performed = runs[r].performed
        /\ n.start = runs[r].start /\ n.expected = runs[r].expected
    BY <2>1, <2>2 DEF Runs, Points
  <2>5. runs[r].phase = "gate"
    BY <1>5, <2>2 DEF CreateChangeSet, At, Runs, RunOK, Accounted
  <2>6. TypeOK'
    BY <1>5, <2>3, <2>4 DEF CreateChangeSet, files, IInv, TypeOK
  <2>7. CloudOK' /\ RestrictionsAreOrdered' /\ AccessReceiptsAreTrue'
    BY <1>5 DEF CreateChangeSet, files, IInv, CloudOK, RestrictionsAreOrdered, AccessReceiptsAreTrue,
                StackComplete
  <2>8. Grows
    BY <1>5 DEF CreateChangeSet, files, IInv, TypeOK, Grows, StackComplete
  <2>9. RunOK(n)'
    <3>1. Accounted(n)'
      BY <2>2, <2>4, <2>5 DEF RunOK, Accounted
    <3>2. Observed(n)'
      BY <1>5, <2>2, <2>4, <2>5 DEF CreateChangeSet, files, RunOK, Observed
    <3> QED
      BY <3>1, <3>2 DEF RunOK
  <2>10. \A q \in Runners : RunOK(runs[q])'
    BY <2>3, <2>8, <2>9, RunsUpdated DEF IInv, TypeOK
  <2> QED
    BY <2>6, <2>7, <2>10 DEF IInv
<1>3. CASE ReverifyPrepared(r)
  <2>1. CASE End(r)
    BY <1>3, <2>1, EndStep DEF ReverifyPrepared, files
  <2>2. CASE changeSet = "AVAILABLE" /\ Goto(r, "writePrepared")
    BY <1>3, <2>2, GateStep DEF ReverifyPrepared, At, files, GatePoints, PointOK
  <2> QED
    BY <1>3, <2>1, <2>2 DEF ReverifyPrepared
<1>4. CASE WritePrepared(r)
  <2>1. Idle \in Runs /\ RunOK(Idle)
    BY SeedAssumption DEF Idle, Runs, Points, RunStates, RunOK, Accounted, Observed
  <2>2. runs' = [runs EXCEPT ![r] = Idle]
    BY <1>4 DEF WritePrepared, End
  <2>3. TypeOK'
    BY <1>4, <2>1, <2>2 DEF WritePrepared, IInv, TypeOK
  <2>4. changeSet # "none"
    BY <1>4 DEF WritePrepared, At, IInv, RunOK, Observed
  <2>5. CloudOK' /\ RestrictionsAreOrdered' /\ AccessReceiptsAreTrue'
    BY <1>4, <2>4 DEF WritePrepared, IInv, CloudOK, RestrictionsAreOrdered, AccessReceiptsAreTrue,
                      StackComplete
  <2>6. Grows
    BY <1>4 DEF WritePrepared, IInv, TypeOK, Grows, StackComplete
  <2>7. RunOK(Idle)'
    BY <2>1, <2>6, RunsKeep
  <2>8. \A q \in Runners : RunOK(runs[q])'
    BY <2>2, <2>6, <2>7, RunsUpdated DEF IInv, TypeOK
  <2> QED
    BY <2>3, <2>5, <2>8 DEF IInv
<1> QED
  BY <1>1, <1>2, <1>3, <1>4, <1>5 DEF Prepare

LEMMA ExecuteInv ==
    ASSUME IInv, NEW r \in Runners, Execute(r)
    PROVE  IInv'
<1>0. runs[r] \in Runs /\ RunOK(runs[r])
  BY DEF IInv, TypeOK
<1>1. CASE AttestActive(r)
  <2>1. CASE End(r)
    BY <1>1, <2>1, EndStep DEF AttestActive, files
  <2>2. CASE Goto(r, "installation")
    BY <1>1, <2>2, GateStep DEF AttestActive, At, files, GatePoints, PointOK
  <2> QED
    BY <1>1, <2>1, <2>2 DEF AttestActive
<1>2. CASE InstallationProgress(r)
  <2>1. CASE End(r)
    BY <1>2, <2>1, EndStep DEF InstallationProgress, files
  <2>2. CASE Goto(r, "reverify")
    BY <1>2, <2>2, GateStep DEF InstallationProgress, At, files, GatePoints, PointOK
  <2>3. CASE runs' = [runs EXCEPT ![r].pc = "reverify", ![r].recovering = TRUE]
    <3>1. PICK n : n = [runs[r] EXCEPT !.pc = "reverify", !.recovering = TRUE]
      OBVIOUS
    <3>2. /\ n \in Runs
          /\ n.pc = "reverify" /\ n.phase = runs[r].phase /\ n.saw = runs[r].saw
          /\ n.state = runs[r].state /\ n.performed = runs[r].performed
          /\ n.start = runs[r].start /\ n.expected = runs[r].expected
      BY <1>0, <3>1 DEF Runs, Points
    <3>3. runs[r].phase = "gate"
      BY <1>0, <1>2 DEF InstallationProgress, At, Runs, RunOK, Accounted
    <3>4. RunOK(n)
      BY <1>0, <3>2, <3>3 DEF RunOK, Accounted, Observed
    <3>5. runs' = [runs EXCEPT ![r] = n]
      BY <2>3, <3>1 DEF IInv, TypeOK
    <3> QED
      BY <1>2, <3>2, <3>4, <3>5, RunStep DEF InstallationProgress, files
  <2> QED
    BY <1>2, <2>1, <2>2, <2>3 DEF InstallationProgress
<1>3. CASE Reverify(r)
  <2>1. CASE End(r)
    BY <1>3, <2>1, EndStep DEF Reverify, files
  <2>2. CASE Goto(r, "attest")
    BY <1>3, <2>2, GateStep DEF Reverify, At, files, GatePoints, PointOK
  <2>3. CASE prepared /\ Goto(r, "execute")
    BY <1>3, <2>3, GateStep DEF Reverify, At, files, GatePoints, PointOK
  <2> QED
    BY <1>3, <2>1, <2>2, <2>3 DEF Reverify
<1>4. CASE ExecuteChangeSet(r)
  <2>1. CASE UNCHANGED changeSet /\ End(r)
    BY <1>4, <2>1, EndStep DEF ExecuteChangeSet, files
  <2>2. CASE UNCHANGED changeSet /\ Goto(r, "wait")
    BY <1>4, <2>2, GateStep DEF ExecuteChangeSet, At, files, GatePoints, PointOK
  <2>3. CASE /\ changeSet = "AVAILABLE"
             /\ changeSet' = "EXECUTE_IN_PROGRESS"
             /\ Goto(r, "wait")
    <3>1. PICK n : n = [runs[r] EXCEPT !.pc = "wait"]
      OBVIOUS
    <3>2. n \in Runs /\ RunOK(n)
      BY <1>0, <1>4, <3>1, GateMoves DEF ExecuteChangeSet, At, GatePoints, PointOK
    <3>3. runs' = [runs EXCEPT ![r] = n]
      BY <2>3, <3>1 DEF Goto, IInv, TypeOK
    <3>4. prepared
      BY <1>0, <1>4 DEF ExecuteChangeSet, At, RunOK, Observed
    <3>5. TypeOK'
      BY <1>4, <2>3, <3>2, <3>3 DEF ExecuteChangeSet, files, IInv, TypeOK
    <3>6. CloudOK' /\ RestrictionsAreOrdered' /\ AccessReceiptsAreTrue'
      BY <1>4, <2>3, <3>4 DEF ExecuteChangeSet, files, IInv, CloudOK, RestrictionsAreOrdered,
                              AccessReceiptsAreTrue, StackComplete
    <3>7. Grows
      BY <1>4, <2>3 DEF ExecuteChangeSet, files, IInv, TypeOK, Grows, StackComplete
    <3>8. RunOK(n)'
      BY <3>2, <3>7, RunsKeep
    <3>9. \A q \in Runners : RunOK(runs[q])'
      BY <3>3, <3>7, <3>8, RunsUpdated DEF IInv, TypeOK
    <3> QED
      BY <3>5, <3>6, <3>9 DEF IInv
  <2> QED
    BY <1>4, <2>1, <2>2, <2>3 DEF ExecuteChangeSet
<1>5. CASE WaitForStack(r)
  <2>1. CASE End(r)
    BY <1>5, <2>1, EndStep DEF WaitForStack, files
  <2>2. CASE Goto(r, "attest")
    BY <1>5, <2>2, GateStep DEF WaitForStack, At, files, GatePoints, PointOK
  <2> QED
    BY <1>5, <2>1, <2>2 DEF WaitForStack
<1>6. CASE AttestDeployment(r)
  <2>1. CASE End(r)
    BY <1>6, <2>1, EndStep DEF AttestDeployment, files
  <2>2. CASE StackComplete /\ Goto(r, "writeExecuted")
    BY <1>6, <2>2, GateStep DEF AttestDeployment, At, files, GatePoints, PointOK
  <2> QED
    BY <1>6, <2>1, <2>2 DEF AttestDeployment
<1>7. CASE WriteExecuted(r)
  <2>1. Idle \in Runs /\ RunOK(Idle)
    BY SeedAssumption DEF Idle, Runs, Points, RunStates, RunOK, Accounted, Observed
  <2>2. runs' = [runs EXCEPT ![r] = Idle]
    BY <1>7 DEF WriteExecuted, End
  <2>3. StackComplete
    BY <1>0, <1>7 DEF WriteExecuted, At, RunOK, Observed
  <2>4. executed' \in {"mutated", "recovered"}
    BY <1>7 DEF WriteExecuted
  <2>5. TypeOK'
    BY <1>7, <2>1, <2>2, <2>4 DEF WriteExecuted, IInv, TypeOK
  <2>6. CloudOK' /\ RestrictionsAreOrdered' /\ AccessReceiptsAreTrue'
    BY <1>7, <2>3, <2>4 DEF WriteExecuted, IInv, CloudOK, RestrictionsAreOrdered,
                            AccessReceiptsAreTrue, StackComplete
  <2>7. Grows
    BY <1>7, <2>4 DEF WriteExecuted, IInv, TypeOK, Grows, StackComplete
  <2>8. RunOK(Idle)'
    BY <2>1, <2>7, RunsKeep
  <2>9. \A q \in Runners : RunOK(runs[q])'
    BY <2>2, <2>7, <2>8, RunsUpdated DEF IInv, TypeOK
  <2> QED
    BY <2>5, <2>6, <2>9 DEF IInv
<1> QED
  BY <1>1, <1>2, <1>3, <1>4, <1>5, <1>6, <1>7 DEF Execute

-----------------------------------------------------------------------------
(* A state that was observed tells what was written. *)
LEMMA ObservedState ==
    ASSUME NEW o \in SUBSET Attributes, o \subseteq iam
    PROVE  LET state == RetirementState(o)
           IN  /\ state \in States \cup {"inexact"}
               /\ state = "bounded" => "boundary" \in iam
               /\ state = "stripped" => "stripped" \in iam
               /\ state = "retired" => Attributes \ Targets \subseteq iam
BY DEF RetirementState, States

(* The loop of a retirement run goes on from a state that was observed. *)
LEMMA ContinueStep ==
    ASSUME IInv, NEW r \in Runners, NEW start \in States, NEW state \in States,
           runs[r].phase \in {"start", "await"},
           runs[r].performed \o Remaining(state) = Remaining(start),
           state = "bounded" => "boundary" \in iam,
           state = "stripped" => "stripped" \in iam,
           state = "retired" => Attributes \ Targets \subseteq iam,
           Continue(r, start, state),
           UNCHANGED <<iam, vis, changeSet, prepared, executed, retirement, crashes>>
    PROVE  IInv'
<1>0. runs[r] \in Runs /\ RunOK(runs[r])
  BY DEF IInv, TypeOK
<1>1. PICK n : n = [Idle EXCEPT !.pc = IF state = "retired" THEN "targets" ELSE "operate",
                     !.phase = IF state = "retired" THEN "final" ELSE "start",
                     !.state = state, !.start = start, !.performed = runs[r].performed]
  OBVIOUS
<1>2. runs' = [runs EXCEPT ![r] = n]
  BY <1>1 DEF Continue
<1>3. /\ n \in Runs
      /\ n.pc = IF state = "retired" THEN "targets" ELSE "operate"
      /\ n.phase = IF state = "retired" THEN "final" ELSE "start"
      /\ n.state = state /\ n.start = start /\ n.performed = runs[r].performed
      /\ n.saw = {}
  <2> DEFINE pc == IF state = "retired" THEN "targets" ELSE "operate"
             phase == IF state = "retired" THEN "final" ELSE "start"
  <2>1. Idle \in Runs /\ Idle.saw = {}
    BY SeedAssumption DEF Idle, Runs, Points, RunStates
  <2>2. /\ pc \in Points /\ phase \in {"gate", "start", "await", "final"}
        /\ state \in RunStates /\ start \in RunStates
        /\ runs[r].performed \in Seq(Operations)
    BY <1>0 DEF Runs, Points, RunStates
  <2>3. n = [Idle EXCEPT !.pc = pc, !.phase = phase, !.state = state, !.start = start,
                         !.performed = runs[r].performed]
    BY <1>1
  <2> HIDE DEF pc, phase
  <2>4. /\ n \in Runs /\ n.pc = pc /\ n.phase = phase /\ n.state = state
        /\ n.start = start /\ n.performed = runs[r].performed /\ n.saw = {}
    BY <2>1, <2>2, <2>3 DEF Runs
  <2> QED
    BY <2>4 DEF pc, phase
<1>4. executed # "none" /\ Targets \subseteq iam
  BY <1>0 DEF RunOK, Observed, IInv, AccessReceiptsAreTrue
<1>5. state = "retired" => iam = Attributes /\ n.performed = Remaining(start)
  <2>1. runs[r].performed \in Seq(Operations)
    BY <1>0 DEF Runs
  <2>2. runs[r].performed \o << >> = runs[r].performed
    BY <2>1, ConcatEmptySeq
  <2>3. state = "retired" => Attributes \subseteq iam
    BY <1>4
  <2> QED
    BY <1>3, <2>2, <2>3, RemainingSteps DEF IInv, TypeOK
<1>6. Accounted(n)
  BY <1>3, <1>5 DEF Accounted, States
<1>7. Observed(n)
  BY <1>3, <1>4 DEF Observed
<1> QED
  BY <1>2, <1>3, <1>6, <1>7, RunStep DEF RunOK

LEMMA ReadPoliciesInv ==
    ASSUME IInv, NEW r \in Runners, ReadPolicies(r)
    PROVE  IInv'
<1>0. runs[r] \in Runs /\ RunOK(runs[r])
  BY DEF IInv, TypeOK
<1>4. UNCHANGED <<iam, vis, changeSet, prepared, executed, retirement, crashes>>
  BY DEF ReadPolicies, files
<1> SUFFICES ASSUME ~Retry(r) PROVE IInv'
  BY <1>4, RetryStep
<1>1. PICK o \in Reads({"stripped"}) :
          LET state == RetirementState(runs[r].saw \cup o)
          IN  IF state = "inexact" THEN Retry(r) ELSE Progress(r, state)
  BY DEF ReadPolicies
<1>2. PICK state : state = RetirementState(runs[r].saw \cup o)
  OBVIOUS
<1>3. /\ state \in States \cup {"inexact"}
      /\ state = "bounded" => "boundary" \in iam
      /\ state = "stripped" => "stripped" \in iam
      /\ state = "retired" => Attributes \ Targets \subseteq iam
  <2>1. runs[r].saw \cup o \in SUBSET Attributes /\ runs[r].saw \cup o \subseteq iam
    BY <1>0 DEF Runs, RunOK, Observed, Reads, Attributes
  <2> QED
    BY <1>2, <2>1, ObservedState
<1>6. state # "inexact" /\ Progress(r, state)
  BY <1>1, <1>2
<1> QED
  <2>1. state \in States
    BY <1>3, <1>6
  <2>2. CASE runs[r].phase = "gate"
    <3>1. Goto(r, "receipt")
      BY <1>6, <2>2 DEF Progress
    <3>2. PICK n : n = [runs[r] EXCEPT !.pc = "receipt"]
      OBVIOUS
    <3>3. /\ n.pc = "receipt" /\ n.phase = runs[r].phase /\ n.saw = runs[r].saw
          /\ n.state = runs[r].state /\ n.performed = runs[r].performed
      BY <1>0, <3>2 DEF Runs
    <3>4. RunOK(n)
      BY <1>0, <2>2, <3>3 DEF RunOK, Accounted, Observed
    <3> QED
      BY <1>4, <3>1, <3>2, <3>4, GotoStep DEF Points
  <2>3. CASE runs[r].phase = "start"
    <3>1. Continue(r, state, state)
      BY <1>6, <2>3 DEF Progress
    <3>2. runs[r].performed \o Remaining(state) = Remaining(state)
      <4>1. runs[r].performed = << >>
        BY <1>0, <2>3 DEF ReadPolicies, At, RunOK, Accounted
      <4>2. Remaining(state) \in Seq(Operations)
        BY RemainingSteps
      <4>3. << >> \o Remaining(state) = Remaining(state)
        BY <4>2, ConcatEmptySeq
      <4> QED
        BY <4>1, <4>3
    <3> QED
      BY <1>3, <1>4, <2>1, <2>3, <3>1, <3>2, ContinueStep
  <2>4. CASE runs[r].phase = "await"
    <3>1. state = runs[r].expected /\ Continue(r, runs[r].start, state)
      BY <1>6, <2>4 DEF Progress
    <3>2. runs[r].performed \o Remaining(state) = Remaining(runs[r].start)
      BY <1>0, <2>4, <3>1 DEF RunOK, Accounted
    <3>3. runs[r].start \in States
      BY <1>0, <2>4 DEF RunOK, Accounted
    <3> QED
      BY <1>3, <1>4, <2>1, <2>4, <3>1, <3>2, <3>3, ContinueStep
  <2>5. CASE runs[r].phase = "final"
    <3>1. Goto(r, "exact")
      BY <1>6, <2>5 DEF Progress
    <3>2. PICK n : n = [runs[r] EXCEPT !.pc = "exact"]
      OBVIOUS
    <3>3. /\ n.pc = "exact" /\ n.phase = runs[r].phase /\ n.saw = runs[r].saw
          /\ n.state = runs[r].state /\ n.performed = runs[r].performed
          /\ n.start = runs[r].start
      BY <1>0, <3>2 DEF Runs
    <3>4. RunOK(n)
      BY <1>0, <2>5, <3>3 DEF RunOK, Accounted, Observed
    <3> QED
      BY <1>4, <3>1, <3>2, <3>4, GotoStep DEF Points
  <2> QED
    BY <1>0, <2>2, <2>3, <2>4, <2>5 DEF Runs

LEMMA ReadRoleInv ==
    ASSUME IInv, NEW r \in Runners, ReadRole(r)
    PROVE  IInv'
<1>0. runs[r] \in Runs /\ RunOK(runs[r])
  BY DEF IInv, TypeOK
<1>1. CASE Retry(r)
  BY <1>1, RetryStep DEF ReadRole, files
<1>2. ASSUME NEW o \in Reads({"boundary", "tags", "usage"}),
             runs' = [runs EXCEPT ![r].pc = "policies", ![r].saw = o]
      PROVE  IInv'
  <2>1. PICK n : n = [runs[r] EXCEPT !.pc = "policies", !.saw = o]
    OBVIOUS
  <2>2. o \in SUBSET Attributes /\ o \subseteq iam
    BY DEF Reads, Attributes
  <2>3. /\ n \in Runs
        /\ n.pc = "policies" /\ n.phase = runs[r].phase /\ n.saw = o
        /\ n.state = runs[r].state /\ n.performed = runs[r].performed
        /\ n.start = runs[r].start /\ n.expected = runs[r].expected
    BY <1>0, <2>1, <2>2 DEF Runs, Points
  <2>4. runs' = [runs EXCEPT ![r] = n]
    BY <1>2, <2>1 DEF IInv, TypeOK
  <2>5. RunOK(n)
    BY <1>0, <2>2, <2>3 DEF ReadRole, At, RunOK, Accounted, Observed
  <2> QED
    BY <2>3, <2>4, <2>5, RunStep DEF ReadRole, files
<1> QED
  BY <1>1, <1>2 DEF ReadRole

(* A step of a run that changes the cloud as well as its own record. *)
LEMMA OperationStep ==
    ASSUME IInv, NEW r \in Runners, NEW n \in Runs, runs' = [runs EXCEPT ![r] = n],
           RunOK(n)', iam \subseteq iam', iam' \subseteq Attributes,
           CloudOK', RestrictionsAreOrdered', AccessReceiptsAreTrue',
           UNCHANGED <<vis, changeSet, prepared, executed, retirement, crashes>>
    PROVE  IInv'
<1>1. TypeOK'
  BY DEF IInv, TypeOK
<1>2. Grows
  BY DEF Grows, StackComplete
<1>3. \A q \in Runners : RunOK(runs[q])'
  BY <1>2, RunsUpdated DEF IInv, TypeOK
<1> QED
  BY <1>1, <1>3 DEF IInv

LEMMA PerformNextInv ==
    ASSUME IInv, NEW r \in Runners, PerformNext(r)
    PROVE  IInv'
<1>0. runs[r] \in Runs /\ RunOK(runs[r])
  BY DEF IInv, TypeOK
<1>1. /\ runs[r].phase = "start"
      /\ runs[r].start \in States
      /\ runs[r].performed \o Remaining(runs[r].state) = Remaining(runs[r].start)
      /\ executed # "none"
      /\ runs[r].performed \in Seq(Operations)
  BY <1>0 DEF PerformNext, At, Runs, RunOK, Accounted, Observed
<1>2. ASSUME NEW op \in Operations, NEW expected \in States, Performed(r, op, expected),
             Remaining(runs[r].state) = <<op>> \o Remaining(expected), iam \subseteq iam',
             UNCHANGED <<changeSet, prepared, executed>>
      PROVE  \E n \in Runs : runs' = [runs EXCEPT ![r] = n] /\ RunOK(n)'
  <2>1. PICK n : n = [runs[r] EXCEPT !.performed = Append(@, op), !.expected = expected,
                         !.state = "none", !.pc = "role", !.phase = "await"]
    OBVIOUS
  <2>2. runs' = [runs EXCEPT ![r] = n]
    BY <1>2, <2>1 DEF Performed, IInv, TypeOK
  <2>3. /\ Append(runs[r].performed, op) \in Seq(Operations)
        /\ Append(runs[r].performed, op) \o Remaining(expected)
             = runs[r].performed \o (<<op>> \o Remaining(expected))
    <3>1. PICK done : done = runs[r].performed
      OBVIOUS
    <3>2. PICK left : left = Remaining(expected)
      OBVIOUS
    <3>3. done \in Seq(Operations) /\ left \in Seq(Operations)
      BY <1>1, <3>1, <3>2, RemainingSteps
    <3>4. /\ Append(done, op) \in Seq(Operations)
          /\ Append(done, op) \o left = done \o (<<op>> \o left)
      BY <3>3, AppendAccount
    <3> QED
      BY <3>1, <3>2, <3>4
  <2>4. /\ n \in Runs
        /\ n.pc = "role" /\ n.phase = "await" /\ n.state = "none" /\ n.expected = expected
        /\ n.performed = Append(runs[r].performed, op) /\ n.start = runs[r].start
        /\ n.saw = runs[r].saw
    BY <1>0, <2>1, <2>3 DEF Runs, Points, RunStates
  <2>5. Accounted(n)'
    <3>1. n.performed \o Remaining(expected) = Remaining(n.start)
      BY <1>1, <1>2, <2>3, <2>4
    <3> QED
      BY <1>1, <2>4, <3>1 DEF Accounted
  <2>6. Observed(n)'
    BY <1>0, <1>1, <1>2, <2>4 DEF RunOK, Observed
  <2> QED
    BY <2>2, <2>4, <2>5, <2>6 DEF RunOK
<1>3. UNCHANGED <<vis, changeSet, prepared, executed, retirement, crashes>>
  BY DEF PerformNext, files
<1>4. StackComplete /\ Targets \subseteq iam /\ iam \subseteq Attributes
  BY <1>1 DEF IInv, TypeOK, AccessReceiptsAreTrue
<1>5. CASE /\ runs[r].state = "active"
           /\ iam' = iam \cup {"boundary", "usage"}
           /\ Performed(r, PutBoundary, "bounded")
  <2>1. PICK n \in Runs : runs' = [runs EXCEPT ![r] = n] /\ RunOK(n)'
    BY <1>2, <1>3, <1>5, RemainingSteps DEF Operations, States
  <2>2. iam \subseteq iam' /\ iam' \subseteq Attributes
    BY <1>4, <1>5 DEF Attributes
  <2>3. CloudOK' /\ RestrictionsAreOrdered' /\ AccessReceiptsAreTrue'
    BY <1>1, <1>3, <1>4, <1>5, <2>2
       DEF IInv, CloudOK, RestrictionsAreOrdered, AccessReceiptsAreTrue, StackComplete
  <2> QED
    BY <1>3, <2>1, <2>2, <2>3, OperationStep
<1>6. CASE /\ runs[r].state = "bounded"
           /\ iam' = iam \cup {"stripped"}
           /\ Performed(r, DeletePolicy, "stripped")
  <2>1. PICK n \in Runs : runs' = [runs EXCEPT ![r] = n] /\ RunOK(n)'
    BY <1>2, <1>3, <1>6, RemainingSteps DEF Operations, States
  <2>2. iam \subseteq iam' /\ iam' \subseteq Attributes
    BY <1>4, <1>6 DEF Attributes
  <2>3. "boundary" \in iam
    BY <1>0, <1>6 DEF RunOK, Observed
  <2>4. CloudOK' /\ RestrictionsAreOrdered' /\ AccessReceiptsAreTrue'
    BY <1>1, <1>3, <1>4, <1>6, <2>2, <2>3
       DEF IInv, CloudOK, RestrictionsAreOrdered, AccessReceiptsAreTrue, StackComplete
  <2> QED
    BY <1>3, <2>1, <2>2, <2>4, OperationStep
<1>7. CASE runs[r].state = "bounded" /\ "stripped" \in iam /\ iam' = iam \cup {"stripped"}
           /\ End(r)
  <2>1. iam' = iam
    BY <1>7
  <2> QED
    BY <1>3, <1>7, <2>1, EndStep
<1>8. CASE /\ runs[r].state = "stripped"
           /\ iam' = iam \cup {"tags"}
           /\ Performed(r, TagRole, "retired")
  <2>1. PICK n \in Runs : runs' = [runs EXCEPT ![r] = n] /\ RunOK(n)'
    BY <1>2, <1>3, <1>8, RemainingSteps DEF Operations, States
  <2>2. iam \subseteq iam' /\ iam' \subseteq Attributes
    BY <1>4, <1>8 DEF Attributes
  <2>3. "stripped" \in iam
    BY <1>0, <1>8 DEF RunOK, Observed
  <2>4. CloudOK' /\ RestrictionsAreOrdered' /\ AccessReceiptsAreTrue'
    BY <1>1, <1>3, <1>4, <1>8, <2>2, <2>3
       DEF IInv, CloudOK, RestrictionsAreOrdered, AccessReceiptsAreTrue, StackComplete
  <2> QED
    BY <1>3, <2>1, <2>2, <2>4, OperationStep
<1> QED
  BY <1>5, <1>6, <1>7, <1>8 DEF PerformNext

LEMMA RetireInv ==
    ASSUME IInv, NEW r \in Runners, Retire(r)
    PROVE  IInv'
<1>0. runs[r] \in Runs /\ RunOK(runs[r])
  BY DEF IInv, TypeOK
<1>1. CASE ReadRole(r) \/ ReadPolicies(r) \/ PerformNext(r)
  BY <1>1, ReadRoleInv, ReadPoliciesInv, PerformNextInv
<1>2. CASE ReadExecuted(r)
  <2>1. CASE End(r)
    BY <1>2, <2>1, EndStep DEF ReadExecuted, files
  <2>2. CASE /\ executed # "none"
             /\ runs' = [runs EXCEPT ![r] = [Idle EXCEPT !.pc = "role", !.phase = "start"]]
    <3>1. PICK n : n = [Idle EXCEPT !.pc = "role", !.phase = "start"]
      OBVIOUS
    <3>2. /\ n \in Runs
          /\ n.pc = "role" /\ n.phase = "start" /\ n.saw = {} /\ n.state = "none"
          /\ n.performed = << >>
      <4>1. /\ Idle \in Runs /\ Idle.saw = {} /\ Idle.state = "none"
            /\ Idle.performed = << >>
        BY SeedAssumption DEF Idle, Runs, Points, RunStates
      <4> QED
        BY <3>1, <4>1 DEF Runs, Points
    <3>3. RunOK(n)
      BY <2>2, <3>2 DEF RunOK, Accounted, Observed
    <3> QED
      BY <1>2, <2>2, <3>1, <3>2, <3>3, RunStep DEF ReadExecuted, files
  <2> QED
    BY <1>2, <2>1, <2>2 DEF ReadExecuted
<1>3. ASSUME runs[r].phase = "final", NEW pc \in {"role", "writeRetirement"}, Goto(r, pc),
             UNCHANGED <<iam, vis, changeSet, prepared, executed, retirement, crashes>>
      PROVE  IInv'
  <2>1. PICK n : n = [runs[r] EXCEPT !.pc = pc]
    OBVIOUS
  <2>2. /\ n.pc = pc /\ n.phase = runs[r].phase /\ n.saw = runs[r].saw
        /\ n.state = runs[r].state /\ n.performed = runs[r].performed
        /\ n.start = runs[r].start
    BY <1>0, <2>1 DEF Runs
  <2>3. RunOK(n)
    BY <1>0, <1>3, <2>2 DEF RunOK, Accounted, Observed
  <2> QED
    BY <1>3, <2>1, <2>3, GotoStep DEF Points
<1>4. CASE AttestTargets(r)
  <2>1. runs[r].phase = "final"
    BY <1>0, <1>4 DEF AttestTargets, At, Runs, RunOK, Accounted
  <2> QED
    BY <1>3, <1>4, <2>1, RetryStep DEF AttestTargets, files
<1>5. CASE VerifyExactRetired(r)
  <2>1. runs[r].phase = "final"
    BY <1>0, <1>5 DEF VerifyExactRetired, At, Runs, RunOK, Accounted
  <2> QED
    BY <1>3, <1>5, <2>1, RetryStep DEF VerifyExactRetired, files
<1>6. CASE WriteRetirement(r)
  <2>1. Idle \in Runs /\ RunOK(Idle)
    BY SeedAssumption DEF Idle, Runs, Points, RunStates, RunOK, Accounted, Observed
  <2>2. runs' = [runs EXCEPT ![r] = Idle]
    BY <1>6 DEF WriteRetirement, End
  <2>3. iam = Attributes
    BY <1>0, <1>6 DEF WriteRetirement, At, Runs, RunOK, Accounted
  <2>4. retirement' \in [start : RunStates, performed : Seq(Operations)]
    BY <1>0, <1>6 DEF WriteRetirement, IInv, TypeOK, Runs
  <2>5. TypeOK'
    BY <1>6, <2>1, <2>2, <2>4 DEF WriteRetirement, IInv, TypeOK
  <2>6. CloudOK' /\ RestrictionsAreOrdered' /\ AccessReceiptsAreTrue'
    BY <1>6, <2>3 DEF WriteRetirement, IInv, CloudOK, RestrictionsAreOrdered,
                      AccessReceiptsAreTrue, StackComplete
  <2>7. Grows
    BY <1>6 DEF WriteRetirement, IInv, TypeOK, Grows, StackComplete
  <2>8. RunOK(Idle)'
    BY <2>1, <2>7, RunsKeep
  <2>9. \A q \in Runners : RunOK(runs[q])'
    BY <2>2, <2>7, <2>8, RunsUpdated DEF IInv, TypeOK
  <2> QED
    BY <2>5, <2>6, <2>9 DEF IInv
<1> QED
  BY <1>1, <1>2, <1>4, <1>5, <1>6 DEF Retire

(* CloudFormation, replication and the end of a run. *)
LEMMA EnvironmentInv ==
    ASSUME IInv,
           \/ \E t \in Targets : CfnInstall(t)
           \/ CfnComplete
           \/ CfnFail
           \/ \E a \in Attributes : Converge(a)
           \/ \E r \in Runners : Crash(r)
    PROVE  IInv'
<1>1. ASSUME Grows, UNCHANGED runs PROVE \A q \in Runners : RunOK(runs[q])'
  <2> SUFFICES ASSUME NEW q \in Runners PROVE RunOK(runs[q])'
    OBVIOUS
  <2>1. PICK m : m = runs[q]
    OBVIOUS
  <2>2. RunOK(m)
    BY <2>1 DEF IInv, RunOK, Accounted, Observed
  <2>3. RunOK(m)' /\ runs'[q] = m
    BY <1>1, <2>1, <2>2, RunsKeep
  <2> QED
    BY <2>3 DEF RunOK, Accounted, Observed
<1>2. ASSUME NEW t \in Targets, CfnInstall(t) PROVE IInv'
  <2>1. TypeOK' /\ Grows
    BY <1>2 DEF CfnInstall, files, IInv, TypeOK, Grows, StackComplete, Attributes
  <2>2. CloudOK' /\ RestrictionsAreOrdered' /\ AccessReceiptsAreTrue'
    BY <1>2 DEF CfnInstall, files, IInv, CloudOK, RestrictionsAreOrdered, AccessReceiptsAreTrue,
                StackComplete, Targets, Attributes
  <2> QED
    BY <1>1, <1>2, <2>1, <2>2 DEF CfnInstall, IInv
<1>3. ASSUME CfnComplete PROVE IInv'
  <2>1. TypeOK' /\ Grows
    BY <1>3 DEF CfnComplete, files, IInv, TypeOK, Grows, StackComplete
  <2>2. CloudOK' /\ RestrictionsAreOrdered' /\ AccessReceiptsAreTrue'
    BY <1>3 DEF CfnComplete, files, IInv, CloudOK, RestrictionsAreOrdered, AccessReceiptsAreTrue,
                StackComplete
  <2> QED
    BY <1>1, <1>3, <2>1, <2>2 DEF CfnComplete, IInv
<1>4. ASSUME CfnFail PROVE IInv'
  <2>1. TypeOK' /\ Grows
    BY <1>4 DEF CfnFail, files, IInv, TypeOK, Grows, StackComplete
  <2>2. CloudOK' /\ RestrictionsAreOrdered' /\ AccessReceiptsAreTrue'
    BY <1>4 DEF CfnFail, files, IInv, CloudOK, RestrictionsAreOrdered, AccessReceiptsAreTrue,
                StackComplete
  <2> QED
    BY <1>1, <1>4, <2>1, <2>2 DEF CfnFail, IInv
<1>5. ASSUME NEW a \in Attributes, Converge(a) PROVE IInv'
  <2>1. TypeOK' /\ Grows
    BY <1>5 DEF Converge, files, IInv, TypeOK, Grows, StackComplete
  <2>2. CloudOK' /\ RestrictionsAreOrdered' /\ AccessReceiptsAreTrue'
    BY <1>5 DEF Converge, files, IInv, CloudOK, RestrictionsAreOrdered, AccessReceiptsAreTrue,
                StackComplete
  <2> QED
    BY <1>1, <1>5, <2>1, <2>2 DEF Converge, IInv
<1>6. ASSUME NEW r \in Runners, Crash(r) PROVE IInv'
  <2>1. Idle \in Runs /\ RunOK(Idle)
    BY SeedAssumption DEF Idle, Runs, Points, RunStates, RunOK, Accounted, Observed
  <2>2. runs' = [runs EXCEPT ![r] = Idle]
    BY <1>6 DEF Crash, End
  <2>3. crashes' \in 0 .. MaxCrashes
    BY <1>6, SeedAssumption DEF Crash, IInv, TypeOK
  <2>4. TypeOK'
    BY <1>6, <2>1, <2>2, <2>3 DEF Crash, files, IInv, TypeOK
  <2>5. CloudOK' /\ RestrictionsAreOrdered' /\ AccessReceiptsAreTrue'
    BY <1>6 DEF Crash, files, IInv, CloudOK, RestrictionsAreOrdered, AccessReceiptsAreTrue,
                StackComplete
  <2>6. Grows
    BY <1>6 DEF Crash, files, IInv, TypeOK, Grows, StackComplete
  <2>7. RunOK(Idle)'
    BY <2>1, <2>6, RunsKeep
  <2>8. \A q \in Runners : RunOK(runs[q])'
    BY <2>2, <2>6, <2>7, RunsUpdated DEF IInv, TypeOK
  <2> QED
    BY <2>4, <2>5, <2>8 DEF IInv
<1> QED
  BY <1>2, <1>3, <1>4, <1>5, <1>6

LEMMA NextInv == IInv /\ [Next]_vars => IInv'
<1> SUFFICES ASSUME IInv, [Next]_vars PROVE IInv'
  OBVIOUS
<1>1. CASE UNCHANGED vars
  BY <1>1 DEF vars, IInv, TypeOK, CloudOK, RestrictionsAreOrdered, AccessReceiptsAreTrue,
              RunOK, Accounted, Observed, StackComplete
<1>2. ASSUME NEW r \in Runners, Start(r) \/ Step(r) PROVE IInv'
  BY <1>2, StartInv, PrepareInv, ExecuteInv, RetireInv DEF Step
<1> QED
  BY <1>1, <1>2, EnvironmentInv DEF Next, Cloud

(* The inductive invariant holds in every reachable state. *)
THEOREM Invariant == Spec => []IInv
BY InitInv, NextInv, PTL DEF Spec

(* Type correctness. *)
THEOREM SeedTypeCorrect == Spec => []TypeOK
<1>1. IInv => TypeOK
  BY DEF IInv
<1> QED
  BY <1>1, Invariant, PTL

(* The restrictions of the provisioner come in order, after an attested     *)
(* installation, however stale the reads of the runs that apply them.       *)
THEOREM OrderedRestrictions == Spec => []RestrictionsAreOrdered
<1>1. IInv => RestrictionsAreOrdered
  BY DEF IInv
<1> QED
  BY <1>1, Invariant, PTL

(* No receipt ever claims more than was done. *)
THEOREM TrueReceipts == Spec => []AccessReceiptsAreTrue
<1>1. IInv => AccessReceiptsAreTrue
  BY DEF IInv
<1> QED
  BY <1>1, Invariant, PTL

(* The check of the operations performed never refuses a finished run. *)
THEOREM AccountedRetirement == Spec => []RetirementIsAccountedFor
<1>1. IInv => RetirementIsAccountedFor
  <2> SUFFICES ASSUME IInv, NEW r \in Runners, At(r, "writeRetirement")
               PROVE  runs[r].performed = Remaining(runs[r].start)
    BY DEF RetirementIsAccountedFor
  <2>1. runs[r] \in Runs /\ RunOK(runs[r])
    BY DEF IInv, TypeOK
  <2> QED
    BY <2>1 DEF At, Runs, RunOK, Accounted
<1> QED
  BY <1>1, Invariant, PTL

-----------------------------------------------------------------------------
(* The stage depends on four variables, and moves by one at a time. *)
LEMMA StageSame ==
    ASSUME UNCHANGED <<iam, changeSet, prepared, executed>>
    PROVE  UNCHANGED Stage
BY DEF Stage, StackComplete

LEMMA StageStep ==
    ASSUME IInv, [Next]_vars
    PROVE  UNCHANGED Stage \/ (Stage < 7 /\ Stage' = Stage + 1)
<1>1. CASE UNCHANGED <<iam, changeSet, prepared, executed>>
  BY <1>1, StageSame
<1>2. ASSUME NEW r \in Runners, CreateChangeSet(r) PROVE UNCHANGED Stage
  BY <1>2 DEF CreateChangeSet, files, Stage, StackComplete
<1>3. ASSUME NEW r \in Runners, WritePrepared(r)
      PROVE  UNCHANGED Stage \/ (Stage < 7 /\ Stage' = Stage + 1)
  BY <1>3 DEF WritePrepared, IInv, TypeOK, CloudOK, Stage, StackComplete
<1>4. ASSUME NEW r \in Runners, ExecuteChangeSet(r)
      PROVE  UNCHANGED Stage \/ (Stage < 7 /\ Stage' = Stage + 1)
  <2>1. prepared
    BY <1>4 DEF ExecuteChangeSet, At, IInv, RunOK, Observed
  <2> QED
    BY <1>4, <2>1 DEF ExecuteChangeSet, files, IInv, TypeOK, CloudOK, RestrictionsAreOrdered,
                      AccessReceiptsAreTrue, Stage, StackComplete
<1>5. ASSUME NEW r \in Runners, WriteExecuted(r)
      PROVE  UNCHANGED Stage \/ (Stage < 7 /\ Stage' = Stage + 1)
  <2>1. StackComplete
    BY <1>5 DEF WriteExecuted, At, IInv, RunOK, Observed
  <2> QED
    BY <1>5, <2>1 DEF WriteExecuted, IInv, TypeOK, Stage, StackComplete
<1>6. ASSUME NEW r \in Runners, PerformNext(r)
      PROVE  UNCHANGED Stage \/ (Stage < 7 /\ Stage' = Stage + 1)
  <2>1. runs[r] \in Runs /\ RunOK(runs[r])
    BY DEF IInv, TypeOK
  <2>2. executed # "none"
    BY <1>6, <2>1 DEF PerformNext, At, Runs, RunOK, Accounted, Observed
  <2>3. /\ runs[r].state = "bounded" => "boundary" \in iam
        /\ runs[r].state = "stripped" => "stripped" \in iam
    BY <2>1 DEF RunOK, Observed
  <2> QED
    BY <1>6, <2>2, <2>3 DEF PerformNext, files, IInv, RestrictionsAreOrdered, Stage, StackComplete
<1>7. ASSUME NEW t \in Targets, CfnInstall(t) PROVE UNCHANGED Stage
  BY <1>7 DEF CfnInstall, files, Targets, Stage, StackComplete
<1>8. ASSUME CfnComplete PROVE UNCHANGED Stage \/ (Stage < 7 /\ Stage' = Stage + 1)
  BY <1>8 DEF CfnComplete, files, IInv, TypeOK, RestrictionsAreOrdered, AccessReceiptsAreTrue,
              Stage, StackComplete
<1>9. ASSUME CfnFail PROVE UNCHANGED Stage
  BY <1>9 DEF CfnFail, files, Stage, StackComplete
<1>10. ASSUME NEW a \in Attributes, Converge(a)
       PROVE  UNCHANGED <<iam, changeSet, prepared, executed>>
  BY <1>10 DEF Converge, files
<1>11. ASSUME NEW r \in Runners, Start(r) \/ Crash(r)
       PROVE  UNCHANGED <<iam, changeSet, prepared, executed>>
  BY <1>11 DEF Start, Crash, files
<1>12. ASSUME NEW r \in Runners, Prepare(r), ~CreateChangeSet(r), ~WritePrepared(r)
       PROVE  UNCHANGED <<iam, changeSet, prepared, executed>>
  BY <1>12 DEF Prepare, AttestFoundation, ReverifyPrepared, files
<1>13. ASSUME NEW r \in Runners, Execute(r), ~ExecuteChangeSet(r), ~WriteExecuted(r)
       PROVE  UNCHANGED <<iam, changeSet, prepared, executed>>
  BY <1>13 DEF Execute, AttestActive, InstallationProgress, Reverify, WaitForStack,
               AttestDeployment, files
<1>14. ASSUME NEW r \in Runners, Retire(r), ~PerformNext(r)
       PROVE  UNCHANGED <<iam, changeSet, prepared, executed>>
  BY <1>14 DEF Retire, ReadRole, ReadPolicies, ReadExecuted, AttestTargets,
               VerifyExactRetired, WriteRetirement, files
<1> QED
  BY <1>1, <1>2, <1>3, <1>4, <1>5, <1>6, <1>7, <1>8, <1>9, <1>10, <1>11, <1>12, <1>13, <1>14
     DEF Next, Step, Cloud, vars

(* Runs that overlap, stop and start over implement the promised lifecycle. *)
THEOREM Refinement == Spec => RefinesLifecycle
<1>1. Init => Lifecycle!LInit
  BY DEF Init, Lifecycle!LInit, Lifecycle!Foundation, Stage, StackComplete
<1>2. IInv /\ [Next]_vars => [Lifecycle!LNext]_Stage
  BY StageStep DEF Lifecycle!LNext, Lifecycle!Retired
<1> QED
  BY <1>1, <1>2, Invariant, PTL DEF Spec, RefinesLifecycle, Lifecycle!LSpec

(* Overlapping runs that act on stale reads retire the provisioner in      *)
(* order, with true receipts that account for what was done.               *)
THEOREM OrderlyRetirement == Spec => []RetirementIsOrderly
<1>1. RetirementIsOrderly <=> RestrictionsAreOrdered /\ AccessReceiptsAreTrue /\ RetirementIsAccountedFor
  BY DEF RetirementIsOrderly
<1> QED
  BY <1>1, OrderedRestrictions, TrueReceipts, AccountedRetirement, PTL

=============================================================================

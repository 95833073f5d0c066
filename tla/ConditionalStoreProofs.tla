----------------------- MODULE ConditionalStoreProofs -----------------------
(***************************************************************************)
(* For any number of hosts and clients and any schedule of crashes and     *)
(* lost answers, the conditional writes make the hosts implement           *)
(* AtomicStore.                                                            *)
(***************************************************************************)
EXTENDS ConditionalStore, TLAPS

(* The inductive invariant.  RefinesAtomicStore needs it because a write   *)
(* puts the whole snapshot a host computed earlier into the store: only    *)
(* the revision tells that it is the current one with one command more.    *)
IInv == StoreTypeOK /\ WritersExtendTheirBase /\ AnswersAreTrue

(* Appending a command records it and forgets no other. *)
LEMMA AppendRecords ==
    ASSUME NEW s \in Seq(Commands), NEW c \in Commands
    PROVE  /\ Append(s, c) \in Seq(Commands)
           /\ Len(Append(s, c)) = Len(s) + 1
           /\ Recorded(c, Append(s, c))
           /\ \A d : Recorded(d, s) => Recorded(d, Append(s, c))
  BY DEF Recorded

(* A host with nothing to write differs from one that is writing. *)
LEMMA FreeIsNotWriting ==
    ASSUME NEW c, NEW b, NEW n
    PROVE  Writing(c, b, n) # Free
  <1> Free.writing # Writing(c, b, n).writing
    BY DEF Free, Writing
  <1> QED
    OBVIOUS

Answers == [command : Commands, code : {"applied", "conflict"}]

(* Answers are well formed. *)
LEMMA AnswerType ==
    ASSUME StoreTypeOK, NEW c \in Commands, NEW code \in {"applied", "conflict"}, Answer(c, code)
    PROVE  answers' \subseteq Answers
  <1> [command |-> c, code |-> code] \in Answers
    BY DEF Answers
  <1> answers \subseteq Answers
    BY DEF StoreTypeOK, Answers
  <1> QED
    BY DEF Answer

(* What a writing host holds. *)
LEMMA WritingType ==
    ASSUME StoreTypeOK, NEW h \in Hosts, hosts[h] # Free
    PROVE  /\ hosts[h].command \in Commands
           /\ hosts[h].base \in Nat
           /\ hosts[h].next \in Seq(Commands)
  BY DEF StoreTypeOK

(* The initial document satisfies the invariant. *)
LEMMA InitIInv == InitStore => IInv
  BY DEF InitStore, IInv, StoreTypeOK, WritersExtendTheirBase, AnswersAreTrue, Recorded, Free

(* Every step of a client, a host or the network preserves it. *)
LEMMA NextIInv == IInv /\ [NextStore]_storeVars => IInv'
  <1> SUFFICES ASSUME IInv, [NextStore]_storeVars
               PROVE  IInv'
    OBVIOUS
  <1> USE DEF IInv
  <1>1. ASSUME NEW c \in Commands, Observe(c)
        PROVE  IInv'
    BY <1>1 DEF Observe, StoreTypeOK, WritersExtendTheirBase, AnswersAreTrue
  <1>2. ASSUME NEW c \in Commands, Replay(c)
        PROVE  IInv'
    <2>1. StoreTypeOK'
      <3> answers' \subseteq Answers
        BY <1>2, AnswerType DEF Replay
      <3> QED
        BY <1>2 DEF Replay, StoreTypeOK, Answers
    <2>2. AnswersAreTrue'
      BY <1>2 DEF Replay, Answer, AnswersAreTrue
    <2> QED
      BY <1>2, <2>1, <2>2 DEF Replay, WritersExtendTheirBase
  <1>3. ASSUME NEW c \in Commands, RefuseStale(c)
        PROVE  IInv'
    <2>1. StoreTypeOK'
      <3> answers' \subseteq Answers
        BY <1>3, AnswerType DEF RefuseStale
      <3> QED
        BY <1>3 DEF RefuseStale, StoreTypeOK, Answers
    <2>2. AnswersAreTrue'
      BY <1>3 DEF RefuseStale, Answer, AnswersAreTrue
    <2> QED
      BY <1>3, <2>1, <2>2 DEF RefuseStale, WritersExtendTheirBase
  <1>4. ASSUME NEW c \in Commands, NEW h \in Hosts, Reduce(h, c)
        PROVE  IInv'
    <2> DEFINE w == Writing(c, storeRevision, Append(snapshot, c))
    <2>1. w \in [writing : {TRUE}, command : Commands, base : Nat, next : Seq(Commands)]
      BY AppendRecords DEF Writing, StoreTypeOK
    <2>2. /\ hosts' = [hosts EXCEPT ![h] = w]
          /\ UNCHANGED <<storeRevision, snapshot, expected, answers, acknowledged, faults>>
          /\ ~Recorded(c, snapshot)
      BY <1>4 DEF Reduce
    <2>3. w.command = c /\ w.base = storeRevision /\ w.next = Append(snapshot, c)
      BY DEF Writing
    <2> HIDE DEF w
    <2>4. StoreTypeOK'
      BY <2>1, <2>2 DEF StoreTypeOK
    <2>5. WritersExtendTheirBase'
      <3> SUFFICES ASSUME NEW g \in Hosts, hosts'[g] # Free
                   PROVE  /\ hosts'[g].base <= storeRevision
                          /\ hosts'[g].base = storeRevision =>
                                /\ ~Recorded(hosts'[g].command, snapshot)
                                /\ hosts'[g].next = Append(snapshot, hosts'[g].command)
        BY <2>2 DEF WritersExtendTheirBase
      <3>1. CASE g = h
        BY <3>1, <2>2, <2>3 DEF StoreTypeOK
      <3>2. CASE g # h
        <4> hosts'[g] = hosts[g]
          BY <3>2, <2>2 DEF StoreTypeOK
        <4> QED
          BY DEF WritersExtendTheirBase
      <3> QED
        BY <3>1, <3>2
    <2>6. AnswersAreTrue'
      BY <2>2 DEF AnswersAreTrue
    <2> QED
      BY <2>4, <2>5, <2>6
  <1>5. ASSUME NEW h \in Hosts, Write(h)
        PROVE  IInv'
    <2> DEFINE c == hosts[h].command
    <2>0. /\ hosts[h] # Free
          /\ c \in Commands
          /\ hosts[h].base \in Nat
          /\ hosts[h].next \in Seq(Commands)
          /\ hosts' = [hosts EXCEPT ![h] = Free]
          /\ UNCHANGED <<expected, acknowledged, faults>>
      BY <1>5, WritingType DEF Write
    <2>1. CASE hosts[h].base = storeRevision
      <3>1. /\ storeRevision' = storeRevision + 1
            /\ snapshot' = Append(snapshot, c)
            /\ answers' = answers \cup {[command |-> c, code |-> "applied"]}
        BY <1>5, <2>0, <2>1 DEF Write, Answer, WritersExtendTheirBase
      <3> HIDE DEF c
      <3>2. StoreTypeOK'
        <4> answers' \subseteq Answers
          BY <3>1, <2>0, AnswerType DEF Answer
        <4> hosts' \in [Hosts -> {Free} \cup
              [writing : {TRUE}, command : Commands, base : Nat, next : Seq(Commands)]]
          BY <2>0 DEF StoreTypeOK
        <4> snapshot' \in Seq(Commands)
          BY <3>1, <2>0, AppendRecords DEF StoreTypeOK
        <4> storeRevision' \in Nat
          BY <3>1 DEF StoreTypeOK
        <4> QED
          BY <2>0 DEF StoreTypeOK, Answers
      <3>3. WritersExtendTheirBase'
        <4>1. storeRevision' = Len(snapshot')
          BY <3>1, <2>0, AppendRecords DEF StoreTypeOK, WritersExtendTheirBase
        <4>2. ASSUME NEW g \in Hosts, hosts'[g] # Free
              PROVE  hosts'[g].base <= storeRevision' /\ hosts'[g].base # storeRevision'
          <5> hosts'[g] = hosts[g] /\ hosts[g] # Free
            BY <4>2, <2>0 DEF StoreTypeOK
          <5> hosts[g].base \in Nat /\ storeRevision \in Nat /\ hosts[g].base <= storeRevision
            BY WritingType DEF WritersExtendTheirBase, StoreTypeOK
          <5> QED
            BY <3>1
        <4> QED
          BY <4>1, <4>2 DEF WritersExtendTheirBase
      <3>4. AnswersAreTrue'
        BY <3>1, <2>0, AppendRecords DEF AnswersAreTrue, StoreTypeOK
      <3> QED
        BY <3>2, <3>3, <3>4
    <2>2. CASE hosts[h].base # storeRevision
      <3>1. /\ answers' = answers \cup {[command |-> c, code |-> "conflict"]}
            /\ UNCHANGED <<storeRevision, snapshot>>
        BY <1>5, <2>2 DEF Write, Answer
      <3> HIDE DEF c
      <3>2. StoreTypeOK'
        <4> answers' \subseteq Answers
          BY <3>1, <2>0, AnswerType DEF Answer
        <4> hosts' \in [Hosts -> {Free} \cup
              [writing : {TRUE}, command : Commands, base : Nat, next : Seq(Commands)]]
          BY <2>0 DEF StoreTypeOK
        <4> QED
          BY <3>1, <2>0 DEF StoreTypeOK, Answers
      <3>3. WritersExtendTheirBase'
        BY <3>1, <2>0 DEF StoreTypeOK, WritersExtendTheirBase
      <3>4. AnswersAreTrue'
        BY <3>1, <2>0 DEF AnswersAreTrue
      <3> QED
        BY <3>2, <3>3, <3>4
    <2> QED
      BY <2>1, <2>2
  <1>6. ASSUME NEW h \in Hosts, Crash(h)
        PROVE  IInv'
    <2>1. StoreTypeOK'
      <3> hosts' \in [Hosts -> {Free} \cup
            [writing : {TRUE}, command : Commands, base : Nat, next : Seq(Commands)]]
        BY <1>6 DEF Crash, StoreTypeOK
      <3> faults' \in Nat
        BY <1>6 DEF Crash, StoreTypeOK
      <3> QED
        BY <1>6 DEF Crash, StoreTypeOK
    <2>2. WritersExtendTheirBase'
      BY <1>6 DEF Crash, StoreTypeOK, WritersExtendTheirBase
    <2> QED
      BY <1>6, <2>1, <2>2 DEF Crash, AnswersAreTrue
  <1>7. ASSUME NEW a \in answers, Receive(a)
        PROVE  IInv'
    BY <1>7 DEF Receive, StoreTypeOK, WritersExtendTheirBase, AnswersAreTrue
  <1>8. ASSUME NEW a \in answers, LoseAnswer(a)
        PROVE  IInv'
    <2>1. StoreTypeOK'
      <3> faults' \in Nat
        BY <1>8 DEF LoseAnswer, StoreTypeOK
      <3> answers' \subseteq Answers
        BY <1>8 DEF LoseAnswer, StoreTypeOK, Answers
      <3> QED
        BY <1>8 DEF LoseAnswer, StoreTypeOK, Answers
    <2> QED
      BY <1>8, <2>1 DEF LoseAnswer, WritersExtendTheirBase, AnswersAreTrue
  <1>9. CASE UNCHANGED storeVars
    BY <1>9 DEF storeVars, StoreTypeOK, WritersExtendTheirBase, AnswersAreTrue
  <1> QED
    BY <1>1, <1>2, <1>3, <1>4, <1>5, <1>6, <1>7, <1>8, <1>9 DEF NextStore, Handle

(* No lost updates, for every number of hosts, clients and faults: what a  *)
(* host is about to write under the stored revision extends the stored     *)
(* snapshot (the expectedRevision checks of both reducers and the host's   *)
(* conditional write).                                                     *)
THEOREM NoLostUpdates == SpecStore => [](WritersExtendTheirBase /\ AnswersAreTrue)
  <1> QED
    BY InitIInv, NextIInv, PTL DEF SpecStore, IInv

(* The hosts implement the atomic store: every command takes effect once,  *)
(* in one step, on the state left by its predecessor, and is acknowledged  *)
(* only after that (compare-and-swap revisions with exact idempotency).    *)
THEOREM HostsImplementAtomicStore == SpecStore => RefinesAtomicStore
  <1>1. InitStore => Atomic!AInit
    BY DEF InitStore, Atomic!AInit
  <1>2. ASSUME IInv, [NextStore]_storeVars
        PROVE  [Atomic!ANext]_<<snapshot, acknowledged>>
    <2> USE DEF IInv
    <2> SUFFICES ASSUME NextStore
                 PROVE  [Atomic!ANext]_<<snapshot, acknowledged>>
      BY <1>2 DEF storeVars
    <2>1. ASSUME NEW h \in Hosts, Write(h)
          PROVE  [Atomic!ANext]_<<snapshot, acknowledged>>
      <3>1. CASE hosts[h].base # storeRevision
        BY <2>1, <3>1 DEF Write
      <3>2. CASE hosts[h].base = storeRevision
        <4> DEFINE c == hosts[h].command
        <4>1. /\ snapshot' = Append(snapshot, c)
              /\ ~Recorded(c, snapshot)
              /\ c \in Commands
              /\ UNCHANGED acknowledged
          BY <1>2, <2>1, <3>2, WritingType DEF Write, WritersExtendTheirBase
        <4>2. Atomic!Apply(c)
          BY <4>1 DEF Atomic!Apply, Atomic!IsApplied, Recorded
        <4> QED
          BY <4>1, <4>2 DEF Atomic!ANext
      <3> QED
        BY <3>1, <3>2
    <2>2. ASSUME NEW a \in answers, Receive(a)
          PROVE  [Atomic!ANext]_<<snapshot, acknowledged>>
      <3>1. CASE a.code = "applied"
        <4> a.command \in Commands /\ Recorded(a.command, snapshot)
          BY <1>2, <3>1 DEF StoreTypeOK, AnswersAreTrue
        <4> Atomic!Acknowledge(a.command)
          BY <2>2, <3>1 DEF Receive, Recorded, Atomic!Acknowledge, Atomic!IsApplied
        <4> QED
          BY DEF Atomic!ANext
      <3>2. CASE a.code # "applied"
        BY <2>2, <3>2 DEF Receive
      <3> QED
        BY <3>1, <3>2
    <2>3. CASE \E c \in Commands : Observe(c) \/ Handle(c)
      BY <2>3 DEF Observe, Handle, Replay, RefuseStale, Reduce
    <2>4. CASE \E h \in Hosts : Crash(h)
      BY <2>4 DEF Crash
    <2>5. CASE \E a \in answers : LoseAnswer(a)
      BY <2>5 DEF LoseAnswer
    <2> QED
      BY <2>1, <2>2, <2>3, <2>4, <2>5 DEF NextStore
  <1> QED
    BY <1>1, <1>2, InitIInv, NextIInv, PTL DEF SpecStore, RefinesAtomicStore, Atomic!ASpec
=============================================================================

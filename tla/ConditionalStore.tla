-------------------------- MODULE ConditionalStore --------------------------
(***************************************************************************)
(* Optimistic concurrency around the reducers of paasControlState.ts and   *)
(* resourceBroker.ts.  Both are pure: they check the caller's              *)
(* expectedRevision against the snapshot they are given and return one     *)
(* with the next revision.  The host around them is external; as the docs  *)
(* ask of it, it loads the snapshot, runs the reducer and writes what the  *)
(* reducer returned if the stored revision is still the one it loaded.     *)
(*                                                                         *)
(* Requests may reach several hosts (a client that got no answer sends its *)
(* command again), hosts crash between load and write, answers get lost.   *)
(* A snapshot is represented by the commands that led to it, a command's   *)
(* idempotency key by the command itself.  Commands the reducer would      *)
(* refuse for what they ask are left out: they are not written.            *)
(***************************************************************************)
EXTENDS Sequences, Integers, FiniteSets

CONSTANTS
    Hosts,
    Commands,     \* one client for each, which sends it until it is acknowledged
    ReplayFirst,  \* TRUE in paasControlState.ts, which looks for the idempotency record
                  \* before it compares revisions; FALSE in resourceBroker.ts
    MaxFaults     \* bound on crashes and lost answers

ASSUME StoreAssumption == ReplayFirst \in BOOLEAN /\ MaxFaults \in Nat

VARIABLES
    storeRevision, snapshot,   \* the stored document
    hosts,                \* host -> the write it is about to make
    expected,             \* command -> expectedRevision its client will send
    answers,              \* [command, code] under way to clients
    acknowledged,         \* commands whose client was told they took effect
    faults

storeVars == <<storeRevision, snapshot, hosts, expected, answers, acknowledged, faults>>

Free == [writing |-> FALSE]
Writing(c, base, next) == [writing |-> TRUE, command |-> c, base |-> base, next |-> next]

Recorded(c, s) == \E i \in 1 .. Len(s) : s[i] = c

(* A client reads the revision before it sends, and again after a conflict. *)
Observe(c) ==
    /\ c \notin acknowledged
    /\ expected' = [expected EXCEPT ![c] = storeRevision]
    /\ UNCHANGED <<storeRevision, snapshot, hosts, answers, acknowledged, faults>>

Answer(c, code) == answers' = answers \cup {[command |-> c, code |-> code]}

(* Mutant: a record is always answered with IDEMPOTENCY_CONFLICT. *)
Replay_Conflict(c) ==
    /\ Recorded(c, snapshot)
    /\ ReplayFirst \/ expected[c] = storeRevision
    /\ Answer(c, "conflict")
    /\ UNCHANGED <<storeRevision, snapshot, hosts, expected, acknowledged, faults>>

(* The reducer finds the idempotency record and answers from it. *)
Replay(c) ==
    /\ Recorded(c, snapshot)
    /\ ReplayFirst \/ expected[c] = storeRevision
    /\ Answer(c, "applied")
    /\ UNCHANGED <<storeRevision, snapshot, hosts, expected, acknowledged, faults>>

(* Mutant: the idempotency records are not consulted. *)
Reduce_NoRecord(h, c) ==
    /\ hosts[h] = Free
    /\ expected[c] = storeRevision
    /\ hosts' = [hosts EXCEPT ![h] = Writing(c, storeRevision, Append(snapshot, c))]
    /\ UNCHANGED <<storeRevision, snapshot, expected, answers, acknowledged, faults>>

(* The reducer accepts: revision as expected, no record of the command.    *)
Reduce(h, c) ==
    /\ hosts[h] = Free
    /\ ~Recorded(c, snapshot)
    /\ expected[c] = storeRevision
    /\ hosts' = [hosts EXCEPT ![h] = Writing(c, storeRevision, Append(snapshot, c))]
    /\ UNCHANGED <<storeRevision, snapshot, expected, answers, acknowledged, faults>>

(* The reducer refuses a stale expectedRevision. *)
RefuseStale(c) ==
    /\ ~(ReplayFirst /\ Recorded(c, snapshot))
    /\ expected[c] # storeRevision
    /\ Answer(c, "conflict")
    /\ UNCHANGED <<storeRevision, snapshot, hosts, expected, acknowledged, faults>>

(* Mutant: an unconditional write. *)
Write_Unconditional(h) ==
    /\ hosts[h] # Free
    /\ storeRevision' = hosts[h].base + 1
    /\ snapshot' = hosts[h].next
    /\ Answer(hosts[h].command, "applied")
    /\ hosts' = [hosts EXCEPT ![h] = Free]
    /\ UNCHANGED <<expected, acknowledged, faults>>

(* The conditional write on the declared revision. *)
Write(h) ==
    /\ hosts[h] # Free
    /\ IF hosts[h].base = storeRevision
         THEN /\ storeRevision' = storeRevision + 1
              /\ snapshot' = hosts[h].next
              /\ Answer(hosts[h].command, "applied")
         ELSE /\ Answer(hosts[h].command, "conflict")
              /\ UNCHANGED <<storeRevision, snapshot>>
    /\ hosts' = [hosts EXCEPT ![h] = Free]
    /\ UNCHANGED <<expected, acknowledged, faults>>

(* An answer arrives; one that says "applied" ends the client's retries.   *)
Receive(a) ==
    /\ answers' = answers \ {a}
    /\ acknowledged' = IF a.code = "applied" THEN acknowledged \cup {a.command}
                                             ELSE acknowledged
    /\ UNCHANGED <<storeRevision, snapshot, hosts, expected, faults>>

Crash(h) ==
    /\ faults < MaxFaults
    /\ hosts[h] # Free
    /\ hosts' = [hosts EXCEPT ![h] = Free]
    /\ faults' = faults + 1
    /\ UNCHANGED <<storeRevision, snapshot, expected, answers, acknowledged>>

LoseAnswer(a) ==
    /\ faults < MaxFaults
    /\ answers' = answers \ {a}
    /\ faults' = faults + 1
    /\ UNCHANGED <<storeRevision, snapshot, hosts, expected, acknowledged>>

InitStore ==
    /\ storeRevision = 0
    /\ snapshot = << >>
    /\ hosts = [h \in Hosts |-> Free]
    /\ expected = [c \in Commands |-> 0]
    /\ answers = {}
    /\ acknowledged = {}
    /\ faults = 0

(* A host takes a client's command, as long as the client keeps sending it. *)
Handle(c) ==
    /\ c \notin acknowledged
    /\ \/ Replay(c)
       \/ RefuseStale(c)
       \/ \E h \in Hosts : Reduce(h, c)

NextStore ==
    \/ \E c \in Commands : Observe(c) \/ Handle(c)
    \/ \E h \in Hosts : Write(h) \/ Crash(h)
    \/ \E a \in answers : Receive(a) \/ LoseAnswer(a)

SpecStore == InitStore /\ [][NextStore]_storeVars

(***************************************************************************)
(* Fairness: clients keep reading the revision and sending, hosts carry    *)
(* out their writes, the network delivers.                                 *)
(***************************************************************************)
StoreFairness ==
    /\ \A c \in Commands :
          /\ WF_storeVars(Observe(c) /\ expected[c] # storeRevision)
          /\ WF_storeVars(Handle(c) /\ expected[c] = storeRevision)
          /\ WF_storeVars(\E a \in answers : a.command = c /\ a.code = "applied" /\ Receive(a))
    /\ \A h \in Hosts : WF_storeVars(Write(h))

-----------------------------------------------------------------------------
(* Type invariant of the document, the hosts and the clients. *)
StoreTypeOK ==
    /\ storeRevision \in Nat
    /\ snapshot \in Seq(Commands)
    /\ hosts \in [Hosts -> {Free} \cup
          [writing : {TRUE}, command : Commands, base : Nat, next : Seq(Commands)]]
    /\ expected \in [Commands -> Nat]
    /\ answers \subseteq [command : Commands, code : {"applied", "conflict"}]
    /\ acknowledged \subseteq Commands
    /\ faults \in Nat

(* Compare-and-swap revisions: stale writers fail rather than overwrite    *)
(* newer state.  Whatever hosts do concurrently, the clients see the       *)
(* atomic store.                                                           *)
Atomic == INSTANCE AtomicStore WITH applied <- snapshot

RefinesAtomicStore == Atomic!ASpec

(* No lost updates: while the revision a host loaded is still the stored   *)
(* one, what it is about to write extends the stored snapshot by a command *)
(* that is not in it; the revision counts the commands that took effect.   *)
WritersExtendTheirBase ==
    /\ storeRevision = Len(snapshot)
    /\ \A h \in Hosts : hosts[h] # Free =>
          /\ hosts[h].base <= storeRevision
          /\ hosts[h].base = storeRevision =>
                /\ ~Recorded(hosts[h].command, snapshot)
                /\ hosts[h].next = Append(snapshot, hosts[h].command)

(* An answer that says "applied" is true. *)
AnswersAreTrue ==
    /\ \A a \in answers : a.code = "applied" => Recorded(a.command, snapshot)
    /\ \A c \in acknowledged : Recorded(c, snapshot)

(* Every command is acknowledged in the end, whatever crashed or was lost. *)
EveryCommandAcknowledged == \A c \in Commands : <>(c \in acknowledged)
=============================================================================

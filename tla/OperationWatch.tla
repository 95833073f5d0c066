----------------------------- MODULE OperationWatch -----------------------------
(***************************************************************************)
(* The events of infrastructure operations: workers append them to one     *)
(* chain per operation and a watcher reads them page by page, over a       *)
(* network that repeats, delays and loses answers, with cursors that       *)
(* expire.  The store of the events is not under src/; that it appends     *)
(* by compare-and-swap is what docs/infrastructure-controller-protocol.md  *)
(* asks of it (line 91).                                                   *)
(***************************************************************************)
EXTENDS InfrastructureProtocol, FiniteSets

CONSTANTS
    Subjects,           \* operation -> the claim, generation and tenant it is about
    Writers,            \* workers that append events
    Phases,             \* phases they report
    PageSize, CursorTtl,
    MaxWatchTime, MaxEvents, MaxInFlight

Watched == DOMAIN Subjects

ASSUME WatchBoundsAssumption ==
    /\ MaxPage \in Nat /\ WatchRequestParses(PageSize)
    /\ MaxWatchTime \in Nat /\ MaxEvents \in Nat /\ MaxInFlight \in Nat
    /\ CursorTtl \in Nat \ {0}
    /\ None \notin Watched

VARIABLES
    clock,
    log,         \* operation -> its events
    held,        \* writer -> the operation and the event it has read
    watcher,     \* the watched operation, the events accepted, the cursor
    pages        \* answers to the watcher in flight

watchVars == <<clock, log, held, watcher, pages>>

Idle == [operation |-> None, seen |-> 0]
Accepted == {o \in Watched : log[o] # <<>>}

InitWatch ==
    /\ clock = 1
    /\ log = [o \in Watched |-> <<>>]
    /\ held = [w \in Writers |-> Idle]
    /\ watcher = [operation |-> None, got |-> <<>>, cursor |-> NoCursor]
    /\ pages = {}

TimePasses ==
    /\ clock < MaxWatchTime
    /\ clock' = clock + 1
    /\ UNCHANGED <<log, held, watcher, pages>>

---------------------------------------------------------------------------
(* Events. *)

\* An operation begins with the event that it was accepted.
Accept(o) ==
    /\ log[o] = <<>>
    /\ log' = [log EXCEPT ![o] =
                  <<createInfrastructureOperationEvent(1, "accepted", Subjects[o], <<>>)>>]
    /\ UNCHANGED <<clock, held, watcher, pages>>

\* A worker reads the last event of an operation.
ReadLast(w, o) ==
    /\ o \in Accepted
    /\ held' = [held EXCEPT ![w] = [operation |-> o, seen |-> Len(log[o])]]
    /\ UNCHANGED <<clock, log, watcher, pages>>

\* It reports a phase for the operation it believes to work on; the store
\* appends only behind the event the worker has read.
AppendEvent(w, phase, s) ==
    LET o == held[w].operation
        n == held[w].seen
    IN /\ held[w] # Idle
       /\ n < MaxEvents
       /\ held' = [held EXCEPT ![w] = Idle]
       /\ LET before == <<log[o][n]>> IN
            /\ EventFollows(n + 1, s, before)
            /\ log' = IF Len(log[o]) = n
                        THEN [log EXCEPT ![o] =
                                Append(@, createInfrastructureOperationEvent(n + 1, phase, s, before))]
                        ELSE log
       /\ UNCHANGED <<clock, watcher, pages>>

---------------------------------------------------------------------------
(* Watching. *)

\* The client turns to another operation with nothing read of it; the cursor
\* it has of another one may still be sent.
Watch(o) ==
    /\ o \in Accepted /\ o # watcher.operation
    /\ watcher' = [watcher EXCEPT !.operation = o, !.got = <<>>,
                                  !.cursor = IF @.operation = o THEN NoCursor ELSE @]
    /\ pages' = {}
    /\ UNCHANGED <<clock, log, held>>

\* The server answers a watch request with the events from the cursor on and
\* the cursor behind them.
PageFrom(o, first) == SubSeq(log[o], first, IF first + PageSize - 1 <= Len(log[o])
                                              THEN first + PageSize - 1 ELSE Len(log[o]))

Answer ==
    LET o == watcher.operation
        first == watcher.cursor.next
        events == PageFrom(o, first)
        page == [events |-> events,
                 cursor |-> createInfrastructureOperationCursor(
                              o, first + Len(events), clock + CursorTtl)]
    IN /\ o # None
       /\ CursorVerifies(watcher.cursor, o, clock)
       /\ events # <<>>
       /\ \E kept \in SUBSET pages :
             /\ Cardinality(kept) < MaxInFlight
             /\ pages' = kept \cup {page}
       /\ UNCHANGED <<clock, log, held, watcher>>

\* A cursor that is expired or belongs to another operation is refused, and
\* the client starts over without one;
\* answers to the earlier requests are none to the new one.
StartOver ==
    /\ watcher.operation # None
    /\ ~ CursorVerifies(watcher.cursor, watcher.operation, clock)
    /\ watcher' = [watcher EXCEPT !.got = <<>>, !.cursor = NoCursor]
    /\ pages' = {}
    /\ UNCHANGED <<clock, log, held>>

LastDigest(events) == IF events = <<>> THEN NoChain ELSE Digest(events[Len(events)])

\* The client accepts a page that continues what it has.  An answer may be
\* delivered again later.
Receive(p) ==
    /\ ValidPage(p.events, Len(watcher.got) + 1, LastDigest(watcher.got))
    /\ watcher' = [watcher EXCEPT !.got = @ \o p.events, !.cursor = p.cursor]
    /\ UNCHANGED <<clock, log, held, pages>>

---------------------------------------------------------------------------
NextWatch ==
    \/ TimePasses
    \/ \E o \in Watched : Accept(o)
    \/ \E w \in Writers, o \in Watched : ReadLast(w, o)
    \/ \E w \in Writers, phase \in Phases, o \in Watched : AppendEvent(w, phase, Subjects[o])
    \/ \E o \in Watched : Watch(o)
    \/ Answer
    \/ StartOver
    \/ \E p \in pages : Receive(p)

SpecWatch == InitWatch /\ [][NextWatch]_watchVars

\* A watcher keeps asking and answers are not lost for ever.
WatchFairness ==
    /\ WF_watchVars(Answer) /\ WF_watchVars(StartOver)
    /\ SF_watchVars(\E p \in pages : Receive(p))

---------------------------------------------------------------------------
(* Properties. *)

\* Workers that race for the next sequence number leave one chain per
\* operation: without gaps, about one subject, and over once a phase is
\* terminal.
ChainIsSound ==
    \A o \in Accepted :
        /\ ValidPage(log[o], 1, NoChain)
        /\ \A i \in DOMAIN log[o] :
              log[o][i].subject = Subjects[o] /\ (Terminal(log[o][i]) => i = Len(log[o]))

\* What a watcher has accepted, over pages that are repeated, late or lost and
\* cursors that expire or belong elsewhere, is the beginning of the log of the
\* operation it watches.
WatcherHoldsPrefix ==
    watcher.operation # None => IsPrefix(watcher.got, log[watcher.operation])

\* The order of events survives races of writers and faults of delivery.
WatchIsSound == ChainIsSound /\ WatcherHoldsPrefix

\* A watcher that stays with an operation sees its end.
WatcherCatchesUp ==
    \A o \in Watched :
        (watcher.operation = o /\ \E i \in DOMAIN log[o] : Terminal(log[o][i]))
          ~> (watcher.operation # o \/ watcher.got = log[o])
=============================================================================

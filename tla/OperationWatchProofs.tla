------------------------- MODULE OperationWatchProofs -------------------------
(***************************************************************************)
(* For any number of operations, writers and events, any size of a page    *)
(* and any loss, repetition and delay of answers, the events of an         *)
(* operation are one chain and a watcher holds a beginning of it.          *)
(***************************************************************************)
EXTENDS OperationWatch, SequenceTheorems, TLAPS

SomePhase == Phases \cup {"accepted"}
SomeSubject == {Subjects[o] : o \in Watched}
Contents == [sequence : Nat, phase : SomePhase, subject : SomeSubject]
Event == [sequence : Nat, phase : SomePhase, subject : SomeSubject,
          reasons : SUBSET {"INTERNAL"}, previous : Seq(Contents)]
Cursor == [operation : Watched \cup {None}, next : Nat \ {0}, expires : Nat]

WatchTypeOK ==
    /\ clock \in Nat
    /\ log \in [Watched -> Seq(Event)]
    /\ held \in [Writers -> [operation : Watched \cup {None}, seen : Nat]]
    /\ watcher \in [operation : Watched \cup {None}, got : Seq(Event), cursor : Cursor]
    /\ pages \subseteq [events : Seq(Event), cursor : Cursor]

\* Event i of the log of an operation continues the chain that ends before it.
Linked(o, i) ==
    LET e == log[o][i]
    IN /\ EventParses(e)
       /\ e.sequence = i
       /\ e.subject = Subjects[o]
       /\ e.previous = IF i = 1 THEN NoChain ELSE Digest(log[o][i - 1])
       /\ Terminal(e) => i = Len(log[o])

LogsLinked == \A o \in Watched : \A i \in 1 .. Len(log[o]) : Linked(o, i)

\* A writer has read an event that is still in the log.
WritersHaveRead ==
    \A w \in Writers :
        \/ held[w] = Idle
        \/ /\ held[w].operation \in Watched
           /\ held[w].seen \in 1 .. Len(log[held[w].operation])

\* An event is where its sequence number says.
InLog(e, o) == e.sequence \in 1 .. Len(log[o]) /\ e = log[o][e.sequence]

\* What is in flight was read from the log of the operation being watched.
PagesFromLog ==
    \A p \in pages :
        /\ watcher.operation \in Watched
        /\ \A i \in 1 .. Len(p.events) : InLog(p.events[i], watcher.operation)

GotFromLog ==
    watcher.operation # None =>
        /\ Len(watcher.got) <= Len(log[watcher.operation])
        /\ \A i \in 1 .. Len(watcher.got) : watcher.got[i] = log[watcher.operation][i]

(* The inductive invariant.  WatchIsSound says nothing of what writers and *)
(* the network hold; a stale read or a late page could break it, were they *)
(* not tied to the log as it was.                                          *)
IInv == WatchTypeOK /\ LogsLinked /\ WritersHaveRead /\ PagesFromLog /\ GotFromLog

(* The digest of an event is a chain. *)
LEMMA DigestType ==
    ASSUME NEW e \in Event
    PROVE  Digest(e) \in Seq(Contents)
  <1>1. [sequence |-> e.sequence, phase |-> e.phase, subject |-> e.subject] \in Contents
    BY DEF Event, Contents
  <1>2. e.previous \in Seq(Contents)
    BY DEF Event
  <1> QED
    BY <1>1, <1>2 DEF Digest

(* The first event of an operation is an event like the others. *)
LEMMA FirstEvent ==
    ASSUME NEW o \in Watched
    PROVE  LET e == createInfrastructureOperationEvent(1, "accepted", Subjects[o], <<>>)
           IN /\ e \in Event
              /\ EventParses(e) /\ ~ Terminal(e)
              /\ e.sequence = 1 /\ e.subject = Subjects[o] /\ e.previous = NoChain
  <1> DEFINE e == createInfrastructureOperationEvent(1, "accepted", Subjects[o], <<>>)
  <1>1. e = [sequence |-> 1, phase |-> "accepted", subject |-> Subjects[o],
             reasons |-> {}, previous |-> NoChain]
    BY DEF createInfrastructureOperationEvent
  <1>2. NoChain \in Seq(Contents)
    BY DEF NoChain
  <1>3. e \in Event
    BY <1>1, <1>2 DEF Event, SomePhase, SomeSubject
  <1> QED
    BY <1>1, <1>3 DEF EventParses, Terminal, TerminalPhases

(* So is every later one. *)
LEMMA LaterEvent ==
    ASSUME NEW n \in Nat, NEW phase \in Phases, NEW s \in SomeSubject, NEW b \in Event
    PROVE  LET e == createInfrastructureOperationEvent(n + 1, phase, s, <<b>>)
           IN /\ e \in Event
              /\ EventParses(e)
              /\ e.sequence = n + 1 /\ e.subject = s /\ e.previous = Digest(b)
  <1> DEFINE e == createInfrastructureOperationEvent(n + 1, phase, s, <<b>>)
             why == IF phase = "failed" THEN {"INTERNAL"} ELSE {}
  <1>1. e = [sequence |-> n + 1, phase |-> phase, subject |-> s,
             reasons |-> why, previous |-> Digest(b)]
    BY DEF createInfrastructureOperationEvent
  <1>2. why \in SUBSET {"INTERNAL"} /\ (phase = "failed") = (why # {})
    OBVIOUS
  <1> HIDE DEF why
  <1>3. e \in Event
    <2>1. Digest(b) \in Seq(Contents) /\ n + 1 \in Nat /\ phase \in SomePhase
      BY DigestType DEF SomePhase
    <2> HIDE DEF e
    <2> QED
      BY <1>1, <1>2, <2>1 DEF Event
  <1>4. e.sequence = n + 1 /\ e.phase = phase /\ e.subject = s /\ e.reasons = why
          /\ e.previous = Digest(b)
    BY <1>1
  <1>5. EventParses(e)
    <2> HIDE DEF e
    <2> QED
      BY <1>2, <1>4 DEF EventParses
  <1> QED
    BY <1>3, <1>4, <1>5

(* A log that grows keeps everything that was tied to it. *)
LEMMA GrowthKeeps ==
    ASSUME IInv, NEW o \in Watched, NEW e \in Event,
           log' = [log EXCEPT ![o] = Append(log[o], e)],
           UNCHANGED <<watcher, pages>>
    PROVE  /\ log' \in [Watched -> Seq(Event)]
           /\ \A p \in Watched : /\ Len(log[p]) <= Len(log'[p])
                                 /\ \A i \in 1 .. Len(log[p]) : log'[p][i] = log[p][i]
           /\ PagesFromLog' /\ GotFromLog'
  <1>1. log \in [Watched -> Seq(Event)]
    BY DEF IInv, WatchTypeOK
  <1>2. log' \in [Watched -> Seq(Event)]
    BY <1>1
  <1>3. \A p \in Watched : /\ Len(log[p]) <= Len(log'[p])
                           /\ \A i \in 1 .. Len(log[p]) : log'[p][i] = log[p][i]
    BY <1>1
  <1>4. \A p \in Watched : Len(log[p]) \in Nat /\ Len(log'[p]) \in Nat
    BY <1>1, <1>2
  <1>5. \A f, p : p \in Watched /\ InLog(f, p) => InLog(f, p)'
    BY <1>3, <1>4 DEF InLog
  <1>6. PagesFromLog'
    BY <1>5 DEF IInv, PagesFromLog
  <1>7. watcher.operation # None => watcher.operation \in Watched
    BY DEF IInv, WatchTypeOK
  <1>8. Len(watcher.got) \in Nat
    BY DEF IInv, WatchTypeOK
  <1>9. GotFromLog'
    BY <1>3, <1>4, <1>7, <1>8 DEF IInv, GotFromLog
  <1> QED
    BY <1>2, <1>3, <1>6, <1>9

-----------------------------------------------------------------------------
(* Events *)

(* The first event starts a chain; nobody can have read the log before. *)
LEMMA AcceptStep ==
    ASSUME IInv, NEW o \in Watched, Accept(o)
    PROVE  IInv'
  <1> DEFINE e == createInfrastructureOperationEvent(1, "accepted", Subjects[o], <<>>)
  <1>1. /\ e \in Event /\ EventParses(e) /\ ~ Terminal(e)
        /\ e.sequence = 1 /\ e.subject = Subjects[o] /\ e.previous = NoChain
    BY FirstEvent
  <1> HIDE DEF e
  <1>2. log \in [Watched -> Seq(Event)] /\ log[o] = <<>> /\ log' = [log EXCEPT ![o] = <<e>>]
    BY DEF IInv, WatchTypeOK, Accept, e
  <1>3. log' = [log EXCEPT ![o] = Append(log[o], e)]
    BY <1>2
  <1>4. UNCHANGED <<clock, held, watcher, pages>>
    BY DEF Accept
  <1>5. /\ log' \in [Watched -> Seq(Event)] /\ PagesFromLog' /\ GotFromLog'
        /\ \A p \in Watched : /\ Len(log[p]) <= Len(log'[p])
                              /\ \A i \in 1 .. Len(log[p]) : log'[p][i] = log[p][i]
    BY <1>1, <1>3, <1>4, GrowthKeeps
  <1>6. WatchTypeOK'
    BY <1>4, <1>5 DEF IInv, WatchTypeOK
  <1>7. LogsLinked'
    <2> SUFFICES ASSUME NEW p \in Watched, NEW i \in 1 .. Len(log'[p])
                 PROVE  Linked(p, i)'
      BY DEF LogsLinked
    <2>1. CASE p = o
      <3>1. log'[o] = <<e>> /\ i = 1
        BY <1>2, <2>1
      <3> QED
        BY <1>1, <2>1, <3>1 DEF Linked, EventParses, Terminal
    <2>2. CASE p # o
      <3>1. log'[p] = log[p]
        BY <1>2, <2>2
      <3>2. Linked(p, i)
        BY <3>1 DEF IInv, LogsLinked
      <3> QED
        BY <3>1, <3>2 DEF Linked
    <2> QED
      BY <2>1, <2>2
  <1>8. WritersHaveRead'
    <2>1. \A p \in Watched : Len(log[p]) \in Nat /\ Len(log'[p]) \in Nat
      BY <1>2, <1>5
    <2> QED
      BY <1>4, <1>5, <2>1 DEF IInv, WritersHaveRead
  <1> QED
    BY <1>5, <1>6, <1>7, <1>8 DEF IInv

(* A writer reads an event that is there. *)
LEMMA ReadLastStep ==
    ASSUME IInv, NEW w \in Writers, NEW o \in Watched, ReadLast(w, o)
    PROVE  IInv'
  <1>1. log[o] \in Seq(Event) /\ log[o] # <<>>
    BY DEF IInv, WatchTypeOK, ReadLast, Accepted
  <1>2. Len(log[o]) \in Nat \ {0}
    BY <1>1
  <1>3. PICK h : h = [operation |-> o, seen |-> Len(log[o])]
    OBVIOUS
  <1>4. h \in [operation : Watched \cup {None}, seen : Nat]
        /\ h.operation = o /\ h.seen = Len(log[o])
    BY <1>2, <1>3
  <1>5. held' = [held EXCEPT ![w] = h] /\ UNCHANGED <<clock, log, watcher, pages>>
    BY <1>3 DEF ReadLast
  <1>6. WatchTypeOK'
    BY <1>4, <1>5 DEF IInv, WatchTypeOK
  <1>7. WritersHaveRead'
    BY <1>2, <1>4, <1>5 DEF IInv, WatchTypeOK, WritersHaveRead
  <1>8. LogsLinked' /\ PagesFromLog' /\ GotFromLog'
    BY <1>5 DEF IInv, LogsLinked, Linked, PagesFromLog, GotFromLog, InLog
  <1> QED
    BY <1>6, <1>7, <1>8 DEF IInv

(* A writer that is not too late continues the chain, another changes nothing. *)
LEMMA AppendEventStep ==
    ASSUME IInv, NEW w \in Writers, NEW phase \in Phases, NEW s \in SomeSubject,
           AppendEvent(w, phase, s)
    PROVE  IInv'
  <1>0. PICK o \in Watched, n \in Nat : o = held[w].operation /\ n = held[w].seen
    BY DEF IInv, WatchTypeOK, WritersHaveRead, AppendEvent
  <1> DEFINE b == log[o][n]
             e == createInfrastructureOperationEvent(n + 1, phase, s, <<b>>)
  <1>1. /\ n \in 1 .. Len(log[o]) /\ log[o] \in Seq(Event)
        /\ log \in [Watched -> Seq(Event)]
    BY <1>0 DEF IInv, WatchTypeOK, WritersHaveRead, AppendEvent
  <1>2. n \in Nat /\ n >= 1 /\ n <= Len(log[o]) /\ Len(log[o]) \in Nat
    BY <1>1
  <1>3. b \in Event /\ Linked(o, n)
    BY <1>1 DEF IInv, LogsLinked
  <1>4. /\ e \in Event /\ EventParses(e)
        /\ e.sequence = n + 1 /\ e.subject = s /\ e.previous = Digest(b)
    BY <1>2, <1>3, LaterEvent
  <1>5. /\ held' = [held EXCEPT ![w] = Idle]
        /\ EventFollows(n + 1, s, <<b>>)
        /\ log' = IF Len(log[o]) = n THEN [log EXCEPT ![o] = Append(log[o], e)] ELSE log
        /\ UNCHANGED <<clock, watcher, pages>>
    BY <1>0 DEF AppendEvent
  <1>6. b.subject = s /\ ~ Terminal(b) /\ b.subject = Subjects[o]
    BY <1>2, <1>3, <1>5 DEF EventFollows, Linked
  <1>7. Idle \in [operation : Watched \cup {None}, seen : Nat]
    BY DEF Idle
  <1> HIDE DEF e, b
  <1>8. CASE Len(log[o]) = n
    <2>1. log' = [log EXCEPT ![o] = Append(log[o], e)]
      BY <1>5, <1>8
    <2>2. /\ log' \in [Watched -> Seq(Event)] /\ PagesFromLog' /\ GotFromLog'
          /\ \A p \in Watched : /\ Len(log[p]) <= Len(log'[p])
                                /\ \A i \in 1 .. Len(log[p]) : log'[p][i] = log[p][i]
      BY <1>4, <1>5, <2>1, GrowthKeeps
    <2>3. WatchTypeOK'
      BY <1>5, <1>7, <2>2 DEF IInv, WatchTypeOK
    <2>4. \A p \in Watched : Len(log[p]) \in Nat /\ Len(log'[p]) \in Nat
      BY <1>1, <2>2
    <2>5. WritersHaveRead'
      BY <1>5, <2>2, <2>4 DEF IInv, WatchTypeOK, WritersHaveRead
    <2>6. LogsLinked'
      <3> SUFFICES ASSUME NEW p \in Watched, NEW i \in 1 .. Len(log'[p])
                   PROVE  Linked(p, i)'
        BY DEF LogsLinked
      <3>1. CASE p # o
        <4>1. log'[p] = log[p]
          BY <1>1, <2>1, <3>1
        <4>2. Linked(p, i)
          BY <4>1 DEF IInv, LogsLinked
        <4> QED
          BY <4>1, <4>2 DEF Linked
      <3>2. CASE p = o /\ i # n + 1
        <4>1. Len(log'[o]) = n + 1 /\ i \in 1 .. n
          BY <1>1, <1>2, <1>8, <2>1, <3>2
        <4>2. log'[o][i] = log[o][i]
          BY <1>8, <2>2, <4>1, <1>1
        <4>3. i # 1 => log'[o][i - 1] = log[o][i - 1]
          <5>1. i # 1 => i - 1 \in 1 .. Len(log[o])
            BY <1>8, <4>1
          <5> QED
            BY <2>2, <5>1
        <4>4. Linked(o, i)
          BY <1>1, <1>8, <4>1 DEF IInv, LogsLinked
        <4>5. ~ Terminal(log[o][i])
          BY <1>6, <1>8, <4>4 DEF Linked, b
        <4>6. (IF i = 1 THEN NoChain ELSE Digest(log'[o][i - 1]))
                = (IF i = 1 THEN NoChain ELSE Digest(log[o][i - 1]))
          BY <4>3
        <4>7. Linked(o, i)'
          BY <4>2, <4>4, <4>5, <4>6 DEF Linked
        <4> QED
          BY <3>2, <4>7
      <3>3. CASE p = o /\ i = n + 1
        <4>1. log'[o][n + 1] = e /\ Len(log'[o]) = n + 1
          BY <1>1, <1>2, <1>8, <2>1
        <4>2. log'[o][(n + 1) - 1] = b /\ n + 1 # 1
          <5>1. (n + 1) - 1 = n /\ n \in 1 .. Len(log[o])
            BY <1>1, <1>2
          <5> QED
            BY <1>2, <2>2, <5>1 DEF b
        <4>3. e.previous = IF n + 1 = 1 THEN NoChain ELSE Digest(log'[o][(n + 1) - 1])
          BY <1>4, <4>2
        <4>4. Linked(o, n + 1)'
          BY <1>4, <1>6, <4>1, <4>3 DEF Linked
        <4> QED
          BY <3>3, <4>4
      <3> QED
        BY <3>1, <3>2, <3>3
    <2> QED
      BY <2>2, <2>3, <2>5, <2>6 DEF IInv
  <1>9. CASE Len(log[o]) # n
    <2>1. log' = log
      BY <1>5, <1>9
    <2>2. WatchTypeOK'
      BY <1>5, <1>7, <2>1 DEF IInv, WatchTypeOK
    <2>3. WritersHaveRead'
      BY <1>5, <2>1 DEF IInv, WatchTypeOK, WritersHaveRead
    <2> QED
      BY <1>5, <2>1, <2>2, <2>3
      DEF IInv, LogsLinked, Linked, PagesFromLog, GotFromLog, InLog
  <1> QED
    BY <1>8, <1>9

-----------------------------------------------------------------------------
(* Watching *)

Watcher == [operation : Watched \cup {None}, got : Seq(Event), cursor : Cursor]

(* A change of what the watcher has and of its cursor. *)
LEMMA WatcherChanges ==
    ASSUME WatchTypeOK, NEW o \in Watched, NEW g \in Seq(Event), NEW c \in Cursor,
           \/ watcher' = [watcher EXCEPT !.operation = o, !.got = g, !.cursor = c]
           \/ o = watcher.operation /\ watcher' = [watcher EXCEPT !.got = g, !.cursor = c]
    PROVE  watcher' \in Watcher /\ watcher'.operation = o /\ watcher'.got = g
  <1>1. watcher \in Watcher
    BY DEF WatchTypeOK, Watcher
  <1>2. watcher' = [operation |-> o, got |-> g, cursor |-> c]
    BY <1>1 DEF Watcher
  <1> QED
    BY <1>2 DEF Watcher

(* A watcher that turns to another operation has nothing of it yet. *)
LEMMA WatchStep ==
    ASSUME IInv, NEW o \in Watched, Watch(o)
    PROVE  IInv'
  <1>1. PICK c : c = IF watcher.cursor.operation = o THEN NoCursor ELSE watcher.cursor
    OBVIOUS
  <1>2. NoCursor \in Cursor
    BY DEF NoCursor, Cursor
  <1>3. c \in Cursor
    BY <1>1, <1>2 DEF IInv, WatchTypeOK
  <1>4. watcher' = [watcher EXCEPT !.operation = o, !.got = <<>>, !.cursor = c]
        /\ pages' = {} /\ UNCHANGED <<clock, log, held>>
    BY <1>1 DEF Watch
  <1>5. watcher' \in Watcher /\ watcher'.operation = o /\ watcher'.got = <<>>
    BY <1>3, <1>4, EmptySeq, WatcherChanges DEF IInv
  <1>6. WatchTypeOK'
    BY <1>4, <1>5 DEF IInv, WatchTypeOK, Watcher
  <1>7. GotFromLog'
    <2>1. Len(log[o]) \in Nat /\ Len(<<>>) = 0
      BY DEF IInv, WatchTypeOK
    <2> QED
      BY <1>4, <1>5, <2>1 DEF GotFromLog
  <1> QED
    BY <1>4, <1>6, <1>7 DEF IInv, LogsLinked, Linked, WritersHaveRead, PagesFromLog

(* A part of a sequence of events. *)
LEMMA SliceOfSeq ==
    ASSUME NEW s \in Seq(Event), NEW m \in Nat \ {0}, NEW n \in Nat, n <= Len(s)
    PROVE  /\ SubSeq(s, m, n) \in Seq(Event)
           /\ Len(SubSeq(s, m, n)) = IF m <= n THEN n - m + 1 ELSE 0
           /\ \A i \in 1 .. (n - m + 1) : SubSeq(s, m, n)[i] = s[m + i - 1]
  <1>1. m \in Int /\ n \in Int
    OBVIOUS
  <1>2. \A i \in m .. n : s[i] \in Event
    <2> TAKE i \in m .. n
    <2>1. i \in 1 .. Len(s)
      BY LenProperties
    <2> QED
      BY <2>1, ElementOfSeq
  <1> QED
    BY <1>1, <1>2, SubSeqProperties

(* A page holds events of the log, each at its place. *)
LEMMA PageOfLog ==
    ASSUME IInv, NEW o \in Watched, NEW first \in Nat \ {0}
    PROVE  /\ PageFrom(o, first) \in Seq(Event)
           /\ \A i \in 1 .. Len(PageFrom(o, first)) : InLog(PageFrom(o, first)[i], o)
  <1>1. PageSize \in Nat \ {0}
    BY WatchBoundsAssumption DEF WatchRequestParses
  <1>2. log[o] \in Seq(Event) /\ Len(log[o]) \in Nat
    BY DEF IInv, WatchTypeOK
  <1>3. PICK last : last = IF first + PageSize - 1 <= Len(log[o])
                             THEN first + PageSize - 1 ELSE Len(log[o])
    OBVIOUS
  <1>4. last \in Nat /\ last <= Len(log[o]) /\ PageFrom(o, first) = SubSeq(log[o], first, last)
    BY <1>1, <1>2, <1>3 DEF PageFrom
  <1>5. /\ PageFrom(o, first) \in Seq(Event)
        /\ Len(PageFrom(o, first)) = IF first <= last THEN last - first + 1 ELSE 0
        /\ \A i \in 1 .. (last - first + 1) : PageFrom(o, first)[i] = log[o][first + i - 1]
    BY <1>2, <1>4, SliceOfSeq
  <1>6. ASSUME NEW i \in 1 .. Len(PageFrom(o, first))
        PROVE  InLog(PageFrom(o, first)[i], o)
    <2>1. /\ PageFrom(o, first)[i] = log[o][first + i - 1]
          /\ first + i - 1 \in 1 .. Len(log[o])
      BY <1>2, <1>4, <1>5
    <2>2. log[o][first + i - 1].sequence = first + i - 1
      BY <2>1 DEF IInv, LogsLinked, Linked
    <2> QED
      BY <2>1, <2>2 DEF InLog
  <1> QED
    BY <1>5, <1>6

(* An answer is a page of the log, wherever the cursor points. *)
LEMMA AnswerStep ==
    ASSUME IInv, Answer
    PROVE  IInv'
  <1>1. PICK o \in Watched, first \in Nat \ {0} :
            o = watcher.operation /\ first = watcher.cursor.next
    BY DEF IInv, WatchTypeOK, Answer, Cursor
  <1>2. PICK events \in Seq(Event) :
            /\ events = PageFrom(o, first)
            /\ \A i \in 1 .. Len(events) : InLog(events[i], o)
    BY PageOfLog
  <1>3. PICK c : c = createInfrastructureOperationCursor(o, first + Len(events), clock + CursorTtl)
    OBVIOUS
  <1>4. c \in Cursor
    BY <1>2, <1>3, WatchBoundsAssumption
    DEF createInfrastructureOperationCursor, Cursor, IInv, WatchTypeOK
  <1>5. PICK page : page = [events |-> events, cursor |-> c]
    OBVIOUS
  <1>6. page \in [events : Seq(Event), cursor : Cursor] /\ page.events = events
    BY <1>4, <1>5
  <1>7. PICK kept \in SUBSET pages : pages' = kept \cup {page}
    BY <1>1, <1>2, <1>3, <1>5 DEF Answer
  <1>8. UNCHANGED <<clock, log, held, watcher>>
    BY DEF Answer
  <1>9. WatchTypeOK'
    BY <1>6, <1>7, <1>8 DEF IInv, WatchTypeOK
  <1>10. PagesFromLog'
    BY <1>1, <1>2, <1>6, <1>7, <1>8 DEF IInv, PagesFromLog, InLog
  <1> QED
    BY <1>8, <1>9, <1>10 DEF IInv, LogsLinked, Linked, WritersHaveRead, GotFromLog

(* Starting over leaves nothing that could be wrong. *)
LEMMA StartOverStep ==
    ASSUME IInv, StartOver
    PROVE  IInv'
  <1>1. NoCursor \in Cursor
    BY DEF NoCursor, Cursor
  <1>2. /\ watcher' = [watcher EXCEPT !.got = <<>>, !.cursor = NoCursor]
        /\ pages' = {} /\ UNCHANGED <<clock, log, held>>
        /\ watcher.operation \in Watched
    BY DEF StartOver, IInv, WatchTypeOK
  <1>3. watcher' \in Watcher /\ watcher'.operation = watcher.operation /\ watcher'.got = <<>>
    BY <1>1, <1>2, EmptySeq, WatcherChanges DEF IInv
  <1>4. WatchTypeOK'
    BY <1>2, <1>3 DEF IInv, WatchTypeOK, Watcher
  <1>5. GotFromLog'
    <2>1. Len(log[watcher.operation]) \in Nat /\ Len(<<>>) = 0
      BY <1>2 DEF IInv, WatchTypeOK
    <2> QED
      BY <1>2, <1>3, <2>1 DEF GotFromLog
  <1> QED
    BY <1>2, <1>4, <1>5 DEF IInv, LogsLinked, Linked, WritersHaveRead, PagesFromLog

(* A page that continues what the watcher has comes from behind it: its    *)
(* sequence numbers are the places of its events in the log.               *)
LEMMA ReceiveStep ==
    ASSUME IInv, NEW p \in pages, Receive(p)
    PROVE  IInv'
  <1>1. PICK o \in Watched : o = watcher.operation
    BY DEF IInv, PagesFromLog
  <1>2. /\ p.events \in Seq(Event) /\ p.cursor \in Cursor /\ watcher.got \in Seq(Event)
        /\ log[o] \in Seq(Event)
    BY DEF IInv, WatchTypeOK
  <1>3. PICK all \in Seq(Event) : all = watcher.got \o p.events
    BY <1>2, ConcatProperties
  <1>4. /\ watcher' = [watcher EXCEPT !.got = all, !.cursor = p.cursor]
        /\ UNCHANGED <<clock, log, held, pages>>
    BY <1>3 DEF Receive
  <1>5. watcher' \in Watcher /\ watcher'.operation = o /\ watcher'.got = all
    BY <1>1, <1>2, <1>4, WatcherChanges DEF IInv
  <1>6. PICK g \in Nat, k \in Nat \ {0} : g = Len(watcher.got) /\ k = Len(p.events)
    <2>1. p.events # <<>>
      BY DEF Receive, ValidPage
    <2>2. Len(watcher.got) \in Nat /\ Len(p.events) \in Nat \ {0}
      BY <1>2, <2>1, EmptySeq, LenProperties
    <2> QED
      BY <2>2
  <1>7. \A i \in 1 .. k : p.events[i].sequence = g + i /\ InLog(p.events[i], o)
    <2> TAKE i \in 1 .. k
    <2>1. p.events[i].sequence = (g + 1) + i - 1
      BY <1>2, <1>6 DEF Receive, ValidPage
    <2>2. InLog(p.events[i], o)
      BY <1>1, <1>6 DEF IInv, PagesFromLog
    <2> QED
      BY <2>1, <2>2
  <1>8. \A i \in 1 .. k : g + i <= Len(log[o]) /\ p.events[i] = log[o][g + i]
    <2> TAKE i \in 1 .. k
    <2>1. g + i \in 1 .. Len(log[o]) /\ p.events[i] = log[o][g + i]
      BY <1>7 DEF InLog
    <2>2. Len(log[o]) \in Nat
      BY <1>2
    <2> QED
      BY <2>1, <2>2
  <1>9. Len(all) = g + k
    BY <1>2, <1>3, <1>6
  <1>10. \A i \in 1 .. Len(all) : all[i] = IF i <= g THEN watcher.got[i] ELSE p.events[i - g]
    BY <1>2, <1>3, <1>6
  <1>11. \A i \in 1 .. g : watcher.got[i] = log[o][i]
    BY <1>1, <1>6, WatchBoundsAssumption DEF IInv, GotFromLog
  <1>12. \A i \in 1 .. Len(all) : all[i] = log[o][i]
    <2> TAKE i \in 1 .. Len(all)
    <2>1. CASE i <= g
      BY <1>9, <1>10, <1>11, <2>1
    <2>2. CASE ~ (i <= g)
      <3>1. i - g \in 1 .. k /\ g + (i - g) = i
        BY <1>9, <2>2
      <3> QED
        BY <1>8, <1>10, <2>2, <3>1
    <2> QED
      BY <2>1, <2>2
  <1>13. Len(all) <= Len(log[o])
    BY <1>8, <1>9
  <1>14. WatchTypeOK'
    BY <1>4, <1>5 DEF IInv, WatchTypeOK, Watcher
  <1>15. GotFromLog'
    BY <1>4, <1>5, <1>12, <1>13 DEF GotFromLog
  <1>16. PagesFromLog'
    BY <1>1, <1>4, <1>5 DEF IInv, PagesFromLog, InLog
  <1> QED
    BY <1>4, <1>14, <1>15, <1>16 DEF IInv, LogsLinked, Linked, WritersHaveRead

-----------------------------------------------------------------------------
(* The theorem *)

(* The invariant holds at first, when there are no events. *)
LEMMA InitWatchIInv == InitWatch => IInv
  <1> SUFFICES ASSUME InitWatch PROVE IInv
    OBVIOUS
  <1>1. watcher = [operation |-> None, got |-> <<>>, cursor |-> NoCursor]
    BY DEF InitWatch
  <1>2. NoCursor \in Cursor /\ <<>> \in Seq(Event)
    BY EmptySeq DEF NoCursor, Cursor
  <1>3. Idle \in [operation : Watched \cup {None}, seen : Nat]
    BY DEF Idle
  <1>4. WatchTypeOK
    BY <1>1, <1>2, <1>3 DEF InitWatch, WatchTypeOK
  <1>5. LogsLinked
    BY DEF InitWatch, LogsLinked
  <1>6. GotFromLog
    BY <1>1 DEF GotFromLog
  <1> QED
    BY <1>4, <1>5, <1>6 DEF InitWatch, IInv, WritersHaveRead, PagesFromLog

(* Every step keeps the invariant. *)
LEMMA NextWatchIInv == IInv /\ [NextWatch]_watchVars => IInv'
  <1> SUFFICES ASSUME IInv, [NextWatch]_watchVars PROVE IInv'
    OBVIOUS
  <1>1. CASE TimePasses
    BY <1>1 DEF TimePasses, IInv, WatchTypeOK, LogsLinked, Linked, WritersHaveRead, PagesFromLog,
                GotFromLog, InLog
  <1>2. CASE UNCHANGED watchVars
    BY <1>2 DEF watchVars, IInv, WatchTypeOK, LogsLinked, Linked, WritersHaveRead, PagesFromLog,
                GotFromLog, InLog
  <1>3. ASSUME NEW w \in Writers, NEW phase \in Phases, NEW o \in Watched,
               AppendEvent(w, phase, Subjects[o])
        PROVE  IInv'
    BY <1>3, AppendEventStep DEF SomeSubject
  <1> QED
    BY <1>1, <1>2, <1>3, AcceptStep, ReadLastStep, WatchStep, AnswerStep, StartOverStep, ReceiveStep
    DEF NextWatch

(* The invariant holds what WatchIsSound says. *)
LEMMA IInvImplies == IInv => WatchIsSound
  <1> SUFFICES ASSUME IInv PROVE WatchIsSound
    OBVIOUS
  <1>1. ChainIsSound
    <2> SUFFICES ASSUME NEW o \in Accepted
                 PROVE  /\ ValidPage(log[o], 1, NoChain)
                        /\ \A i \in DOMAIN log[o] :
                              /\ log[o][i].subject = Subjects[o]
                              /\ Terminal(log[o][i]) => i = Len(log[o])
      BY DEF ChainIsSound
    <2>1. o \in Watched /\ log[o] \in Seq(Event) /\ log[o] # <<>>
      BY DEF Accepted, IInv, WatchTypeOK
    <2>2. DOMAIN log[o] = 1 .. Len(log[o]) /\ Len(log[o]) \in Nat
      BY <2>1
    <2>3. \A i \in 1 .. Len(log[o]) : Linked(o, i)
      BY <2>1 DEF IInv, LogsLinked
    <2>4. ASSUME NEW i \in 1 .. Len(log[o])
          PROVE  /\ EventParses(log[o][i])
                 /\ log[o][i].sequence = 1 + i - 1
                 /\ log[o][i].previous = IF i = 1 THEN NoChain ELSE Digest(log[o][i - 1])
                 /\ i > 1 => /\ ~ Terminal(log[o][i - 1])
                             /\ log[o][i].subject = log[o][i - 1].subject
      <3>1. Linked(o, i)
        BY <2>3
      <3>2. i > 1 => i - 1 \in 1 .. Len(log[o]) /\ i - 1 # Len(log[o])
        BY <2>2
      <3>3. i > 1 => Linked(o, i - 1)
        BY <2>3, <3>2
      <3>4. i > 1 => /\ ~ Terminal(log[o][i - 1])
                     /\ log[o][i].subject = log[o][i - 1].subject
        BY <3>1, <3>2, <3>3 DEF Linked
      <3>5. 1 + i - 1 = i
        OBVIOUS
      <3> QED
        BY <3>1, <3>4, <3>5 DEF Linked
    <2>5. ValidPage(log[o], 1, NoChain)
      BY <2>1, <2>2, <2>4 DEF ValidPage
    <2> QED
      BY <2>2, <2>3, <2>5 DEF Linked
  <1>2. WatcherHoldsPrefix
    <2> SUFFICES ASSUME watcher.operation # None
                 PROVE  IsPrefix(watcher.got, log[watcher.operation])
      BY DEF WatcherHoldsPrefix
    <2>1. PICK s \in Seq(Event), t \in Seq(Event) : s = watcher.got /\ t = log[watcher.operation]
      BY DEF IInv, WatchTypeOK
    <2>2. Len(s) <= Len(t) /\ \A i \in 1 .. Len(s) : s[i] = t[i]
      BY <2>1 DEF IInv, GotFromLog
    <2>3. Len(s) \in Nat /\ Len(t) \in Nat
      BY LenProperties
    <2>4. \A i \in 1 .. Len(s) : s[i] \in Event /\ t[i] \in Event
      BY <2>2, ElementOfSeq
    <2>5. /\ SubSeq(s, 1, Len(s)) \in Seq(Event) /\ Len(SubSeq(s, 1, Len(s))) = Len(s)
          /\ \A i \in 1 .. Len(s) : SubSeq(s, 1, Len(s))[i] = s[i]
      BY <2>3
    <2>6. /\ SubSeq(t, 1, Len(s)) \in Seq(Event) /\ Len(SubSeq(t, 1, Len(s))) = Len(s)
          /\ \A i \in 1 .. Len(s) : SubSeq(t, 1, Len(s))[i] = t[i]
      BY <2>2, <2>3
    <2>7. SubSeq(s, 1, Len(s)) = SubSeq(t, 1, Len(s))
      <3>1. PICK a \in Seq(Event), b \in Seq(Event) :
                a = SubSeq(s, 1, Len(s)) /\ b = SubSeq(t, 1, Len(s))
        BY <2>5, <2>6
      <3>2. Len(a) = Len(b) /\ \A i \in 1 .. Len(a) : a[i] = b[i]
        BY <2>2, <2>5, <2>6, <3>1
      <3> QED
        BY <3>1, <3>2, SeqEqual
    <2> QED
      BY <2>1, <2>2, <2>7 DEF IsPrefix
  <1> QED
    BY <1>1, <1>2 DEF WatchIsSound

(* Whatever writers race for (createInfrastructureOperationEvent behind a  *)
(* compare-and-swap) and whatever pages arrive late, twice or never, the   *)
(* events of an operation are one chain about one subject that ends at a   *)
(* terminal phase, and what a watcher has accepted with                    *)
(* validateInfrastructureOperationEvents is a beginning of that chain.     *)
THEOREM EventsStayInOrder == SpecWatch => []WatchIsSound
  <1>1. SpecWatch => []IInv
    BY InitWatchIInv, NextWatchIInv, PTL DEF SpecWatch
  <1> QED
    BY <1>1, IInvImplies, PTL

=============================================================================

------------------------- MODULE InfrastructureProtocol -------------------------
(***************************************************************************)
(* The messages of the infrastructure controller protocol                  *)
(* (src/src/core/infrastructureControllerProtocol.ts): negotiation of a    *)
(* version, operation requests and responses, the hash chain of operation  *)
(* events and the cursors of a resumable watch.  A digest is the sequence  *)
(* of contents it covers, so two digests are equal exactly when the chains *)
(* are; a cursor is its payload, which only the server can sign.           *)
(***************************************************************************)
EXTENDS Integers, Sequences, SequencesExt

\* null of a version, an operation, a retry delay, a digest and a cursor
None == "null"
NoDelay == 0
NoChain == <<>>

\* The longest delay a response may ask for, and the longest page.
CONSTANTS MaxRetryAfter, MaxPage

RetryableReasons == {"DEADLINE_EXCEEDED", "CURSOR_EXPIRED", "PROVIDER_UNAVAILABLE", "INTERNAL"}

---------------------------------------------------------------------------
(* Version negotiation. *)

\* validateDeprecation
DeprecationValid(d, versions) ==
    /\ d.replacement \in ToSet(versions)
    /\ d.version # d.replacement
    /\ d.sunset > 0

versionResponse(selected, reasons, deprecations) ==
    [compatible |-> selected # None, selected |-> selected, reasons |-> reasons,
     deprecations |-> deprecations]

First(positions) == CHOOSE i \in positions : \A j \in positions : i <= j

MutualVersions(offer, policy) == {i \in DOMAIN policy.versions : policy.versions[i] \in offer.versions}

\* Variant: the server's last mutual version is taken.
SelectedVersion_Last(offer, policy) ==
    LET mutual == MutualVersions(offer, policy)
    IN IF mutual = {} THEN None
       ELSE policy.versions[CHOOSE i \in mutual : \A j \in mutual : j <= i]

\* The server's first mutual version or nothing.
SelectedVersion(offer, policy) ==
    LET mutual == MutualVersions(offer, policy)
    IN IF mutual = {} THEN None ELSE policy.versions[First(mutual)]

\* The first deprecation of this version, if there is one.
DeprecationOf(version, policy) ==
    LET of == {i \in DOMAIN policy.deprecations : policy.deprecations[i].version = version}
    IN IF of = {} THEN {} ELSE {policy.deprecations[First(of)]}

\* The server answers: its versions are well-formed and none is repeated,
\* and the deprecation it looks up, if it comes to that, is valid.
NegotiationAnswers(offer, policy) ==
    LET selected == SelectedVersion(offer, policy)
    IN /\ policy.versions # <<>> /\ None \notin ToSet(policy.versions)
       /\ \A i, j \in DOMAIN policy.versions : policy.versions[i] = policy.versions[j] => i = j
       /\ selected # None /\ offer.features \subseteq policy.features =>
              \A d \in DeprecationOf(selected, policy) : DeprecationValid(d, policy.versions)

\* negotiateInfrastructureControllerVersion: the sunset is looked up for the
\* selected version alone.
Negotiated(offer, policy, now) ==
    LET selected == SelectedVersion(offer, policy)
        deprecation == DeprecationOf(selected, policy)
    IN IF selected = None THEN versionResponse(None, {"UNSUPPORTED_VERSION"}, {})
       ELSE IF ~ offer.features \subseteq policy.features
            THEN versionResponse(None, {"REQUIRED_FEATURE_UNAVAILABLE"}, {})
       ELSE IF \E d \in deprecation : d.sunset <= now
            THEN versionResponse(None, {"VERSION_SUNSET"}, deprecation)
       ELSE versionResponse(selected,
                            IF deprecation = {} THEN {} ELSE {"DEPRECATED_VERSION"}, deprecation)

\* parseInfrastructureControllerVersionResponse, as the client reads the answer
VersionResponseParses(a, policy) ==
    /\ a.compatible = (a.selected # None)
    /\ a.selected # None => a.selected \in ToSet(policy.versions)
    /\ ~ a.compatible => a.reasons # {}
    /\ \A d \in a.deprecations :
          /\ DeprecationValid(d, policy.versions)
          /\ a.compatible => a.selected = d.version
          /\ a.reasons \cap {"DEPRECATED_VERSION", "VERSION_SUNSET"} # {}

---------------------------------------------------------------------------
(* Operation requests and responses. *)

\* parseInfrastructureOperationRequest: what is present follows from the
\* operation.
OperationRequestParses(operation, plan, approvals, key) ==
    /\ (operation \in {"reconcile", "delete"}) = (plan # None)
    /\ operation \notin {"reconcile", "delete"} => approvals = {}
    /\ (operation \in {"reconcile", "cancel", "delete"}) = (key # None)

acceptInfrastructureOperation(operation) ==
    [outcome |-> "accepted", operation |-> operation, reasons |-> {}, retryAfter |-> NoDelay]

\* rejectInfrastructureOperation: a delay goes with a retryable reason only.
RejectAllowed(reasons, retryAfter) ==
    /\ reasons # {}
    /\ retryAfter # NoDelay => retryAfter >= 1 /\ reasons \cap RetryableReasons # {}

rejectInfrastructureOperation(reasons, retryAfter) ==
    [outcome |-> "rejected", operation |-> None, reasons |-> reasons, retryAfter |-> retryAfter]

\* parseInfrastructureOperationResponse
OperationResponseParses(a) ==
    /\ a.retryAfter <= MaxRetryAfter
    /\ \/ /\ a.outcome = "accepted"
          /\ a.operation # None /\ a.reasons = {} /\ a.retryAfter = NoDelay
       \/ /\ a.outcome = "rejected"
          /\ a.operation = None /\ a.reasons # {}
          /\ a.retryAfter # NoDelay => a.reasons \cap RetryableReasons # {}

---------------------------------------------------------------------------
(* Operation events. *)

TerminalPhases == {"succeeded", "failed", "cancelled"}
Terminal(e) == e.phase \in TerminalPhases

\* The digest of an event covers its contents and the digest before it.
Digest(e) == Append(e.previous, [sequence |-> e.sequence, phase |-> e.phase, subject |-> e.subject])

\* createInfrastructureOperationEvent: the checks on the event before it, a
\* one-element sequence, or none for the first event.
EventFollows(sequence, subject, before) ==
    /\ sequence = 1 => before = <<>>
    /\ sequence > 1 =>
          /\ before # <<>> /\ before[1].sequence = sequence - 1
          /\ before[1].subject = subject
          /\ ~ Terminal(before[1])

createInfrastructureOperationEvent(sequence, phase, subject, before) ==
    [sequence |-> sequence, phase |-> phase, subject |-> subject,
     reasons |-> IF phase = "failed" THEN {"INTERNAL"} ELSE {},
     previous |-> IF before = <<>> THEN NoChain ELSE Digest(before[1])]

\* parseOperationEvent
EventParses(e) ==
    /\ e.sequence > 0
    /\ (e.phase = "failed") = (e.reasons # {})

\* Variant: the beginning of the page is not tied to what came before it.
ValidPage_Unanchored(events, first, digest) ==
    /\ events # <<>>
    /\ \A i \in DOMAIN events :
          /\ EventParses(events[i])
          /\ i > 1 => /\ events[i].sequence = events[i - 1].sequence + 1
                      /\ events[i].previous = Digest(events[i - 1])
                      /\ ~ Terminal(events[i - 1])
                      /\ events[i].subject = events[i - 1].subject

\* validateInfrastructureOperationEvents: a page continues a chain that ended
\* before sequence number first with the given digest.
ValidPage(events, first, digest) ==
    /\ events # <<>>
    /\ \A i \in DOMAIN events :
          /\ EventParses(events[i])
          /\ events[i].sequence = first + i - 1
          /\ events[i].previous = IF i = 1 THEN digest ELSE Digest(events[i - 1])
          /\ i > 1 => /\ ~ Terminal(events[i - 1])
                      /\ events[i].subject = events[i - 1].subject

---------------------------------------------------------------------------
(* Watch cursors. *)

NoCursor == [operation |-> None, next |-> 1, expires |-> 0]

\* parseInfrastructureOperationWatchRequest
WatchRequestParses(maxEvents) == maxEvents \in 1 .. MaxPage

\* Variant: the cursor skips an event.
createInfrastructureOperationCursor_Skips(operation, next, expires) ==
    [operation |-> operation, next |-> next + 1, expires |-> expires]

createInfrastructureOperationCursor(operation, next, expires) ==
    [operation |-> operation, next |-> next, expires |-> expires]

\* verifyInfrastructureOperationCursor: bound to its operation and not expired;
\* a watch without a cursor begins at the first event.
CursorVerifies(cursor, operation, now) ==
    \/ cursor = NoCursor
    \/ cursor.operation = operation /\ cursor.expires > now
=============================================================================

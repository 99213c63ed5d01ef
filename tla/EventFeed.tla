----------------------------- MODULE EventFeed ------------------------------
(***************************************************************************)
(* The event signal (internal/outbox/signal.go) and its two readers: the   *)
(* event feed, which clients page through with a cursor, and the endpoint  *)
(* that waits for the outcome of a download (internal/nativeapi).  A       *)
(* reader that finds nothing parks on a channel which the next Notify      *)
(* closes; the database stays the authority.                               *)
(*                                                                         *)
(* Timers are not modelled: a parked request may time out at any moment.   *)
(***************************************************************************)
EXTENDS Naturals, Sequences, FiniteSets

CONSTANTS
  Clients,          \* of the event feed
  Waiters,          \* requests for the outcome of one download
  Latest,           \* the literal cursor "latest"
  limit,            \* items per page
  MaxEvents,        \* bound: events committed
  MaxNotifications  \* bound: mutations that notify, with an event or without

ASSUME EventFeedAssumption ==
  /\ limit \in Nat \ {0}
  /\ MaxEvents \in Nat /\ MaxNotifications \in Nat
  /\ Latest \notin Nat
  /\ Clients \intersect Waiters = {}

VARIABLES
  domainEvents, \* sequence -> whether the clients' filter selects the event
  terminal,     \* whether the awaited download has an outcome
  unnotified,   \* transactions committed whose Notify is still to come
  signal,       \* channels closed so far: a snapshot is the number of the open one
  request,      \* the request of each client and waiter, as its handler sees it
  cursor,       \* the cursor each client will send next
  start,        \* history: where each client's feed begins
  received      \* history: the sequences each client has received

vars == <<domainEvents, terminal, unnotified, signal, request, cursor, start, received>>

Sequences == 0..MaxEvents
Cursors == 0..(MaxEvents + 1) \union {Latest}
Channels == 0..MaxNotifications

Idle == [at |-> "idle"]

FeedRequest ==
  [at : {"snapshot"}, cursor : Cursors, checked : BOOLEAN, wait : BOOLEAN]
  \union [at : {"highwater"}, cursor : Cursors, checked : BOOLEAN, wait : BOOLEAN,
          snapshot : Channels]
  \union [at : {"list"}, cursor : Sequences, checked : {TRUE}, wait : BOOLEAN,
          snapshot : Channels, highWater : Sequences]
  \union [at : {"parked"}, cursor : Sequences, checked : {TRUE}, wait : {TRUE},
          snapshot : Channels]
  \union [at : {"finalHighwater"}, cursor : Sequences]
  \union [at : {"finalList"}, cursor : Sequences, highWater : Sequences]
  \union [at : {"answered"}, items : Seq(Sequences), next : Sequences, cursor : Sequences]

WaitRequest ==
  [at : {"snapshot", "finalRead"}] \union [at : {"read", "parked"}, snapshot : Channels]

TypeOK ==
  /\ domainEvents \in Seq(BOOLEAN) /\ Len(domainEvents) <= MaxEvents
  /\ terminal \in BOOLEAN
  /\ unnotified \in Channels /\ signal \in Channels
  /\ \A c \in Clients : request[c] \in {Idle} \union FeedRequest
  /\ \A w \in Waiters : request[w] \in {Idle} \union WaitRequest
  /\ cursor \in [Clients -> Cursors]
  /\ start \in [Clients -> Cursors]
  /\ \A c \in Clients : received[c] \in Seq(Sequences)

\* Clients come with the cursor of an earlier visit, which may be ahead of the
\* table, or ask for what is new.
Init ==
  /\ domainEvents = <<>>
  /\ terminal = FALSE
  /\ unnotified = 0 /\ signal = 0
  /\ request = [r \in Clients \union Waiters |-> Idle]
  /\ cursor \in [Clients -> {0, 1, Latest}]
  /\ start = cursor
  /\ received = [c \in Clients |-> <<>>]

-----------------------------------------------------------------------------
(* Publishers: a transaction commits, then notifies                        *)

LatestEventSequence == Len(domainEvents)

MayNotify == signal + unnotified < MaxNotifications

\* A completed or failed download has an outcome; other events may end or
\* reopen the awaited one, or concern another.
commitEventTx(selected, outcome) ==
  /\ Len(domainEvents) < MaxEvents /\ MayNotify
  /\ selected => outcome \/ outcome = terminal
  /\ domainEvents' = Append(domainEvents, selected)
  /\ terminal' = outcome
  /\ unnotified' = unnotified + 1
  /\ UNCHANGED <<signal, request, cursor, start, received>>

commitMutationTx ==
  /\ MayNotify
  /\ unnotified' = unnotified + 1
  /\ UNCHANGED <<domainEvents, terminal, signal, request, cursor, start, received>>

Notify ==
  /\ unnotified > 0
  /\ unnotified' = unnotified - 1
  /\ signal' = signal + 1
  /\ UNCHANGED <<domainEvents, terminal, request, cursor, start, received>>

-----------------------------------------------------------------------------
(* serveEvents                                                             *)

Server == <<domainEvents, terminal, unnotified, signal, cursor, start, received>>

Become(r, req) == request' = [request EXCEPT ![r] = req] /\ UNCHANGED Server

BeginEvents(c, wait) ==
  /\ request[c] = Idle
  /\ Become(c, [at |-> "snapshot", cursor |-> cursor[c], checked |-> FALSE,
                wait |-> wait])

SnapshotEvents(c) ==
  LET q == request[c]
  IN  /\ q.at = "snapshot"
      /\ Become(c, [at |-> "highwater", cursor |-> q.cursor, checked |-> q.checked,
                    wait |-> q.wait, snapshot |-> signal])

\* A plausible slip: the literal cursor reaches the scan.
UnresolvedCursor(q) == q.cursor

ResolvedCursor(q) == IF q.cursor = Latest THEN LatestEventSequence ELSE q.cursor

\* A cursor beyond the first high-water mark is refused.
ReadHighWater(c) ==
  LET q == request[c]
      from == ResolvedCursor(q)
      refused == q.cursor # Latest /\ ~q.checked /\ from > LatestEventSequence
  IN  /\ q.at = "highwater"
      /\ \/ refused /\ Become(c, Idle)
         \/ ~refused
            /\ Become(c, [at |-> "list", cursor |-> from, checked |-> TRUE, wait |-> q.wait,
                          snapshot |-> q.snapshot, highWater |-> LatestEventSequence])

Rank(S, n) == Cardinality({m \in S : m <= n})

\* The numbers of a finite set from the least to the greatest.
InOrder(S) == [i \in 1..Cardinality(S) |-> CHOOSE n \in S : Rank(S, n) = i]

\* Every selected event after the cursor, up to the high-water mark, in order.
Selected(after, through) == {n \in (after + 1)..through : domainEvents[n]}

ListDownloadEvents(after, through) == InOrder(Selected(after, through))

\* A plausible slip: the high-water mark is handed out with every page.
NextAfterAnyPage(events, highWater) == highWater

NextCursor(events, highWater) ==
  IF Len(events) > limit THEN events[limit] ELSE highWater

writeEvents(c, events, after, highWater) ==
  Become(c, [at |-> "answered", cursor |-> after, next |-> NextCursor(events, highWater),
             items |-> SubSeq(events, 1, IF Len(events) > limit THEN limit ELSE Len(events))])

\* A plausible slip: the channel is taken when the handler goes to sleep.
LateChannel(q) == signal

Channel(q) == q.snapshot

\* A plausible slip: the cursor moves past events that came after the scan.
ScannedToNow(q) == LatestEventSequence

Scanned(q) == q.highWater

\* An empty page parks a request that waits, with the cursor moved past what
\* was scanned.
ListEvents(c) ==
  LET q == request[c]
      events == ListDownloadEvents(q.cursor, q.highWater)
  IN  /\ q.at = "list"
      /\ \/ events = <<>> /\ q.wait
            /\ Become(c, [at |-> "parked", cursor |-> Scanned(q), checked |-> TRUE, wait |-> TRUE,
                          snapshot |-> Channel(q)])
         \/ (events # <<>> \/ ~q.wait)
            /\ writeEvents(c, events, q.cursor, q.highWater)

Woken(r) == request[r].at = "parked" /\ request[r].snapshot # signal

WakeEvents(c) ==
  LET q == request[c]
  IN  /\ Woken(c)
      /\ Become(c, [at |-> "snapshot", cursor |-> q.cursor, checked |-> TRUE, wait |-> TRUE])

\* The deadline passes, or the generation that serves the request is retired.
DeadlineEvents(c) ==
  request[c].at = "parked" /\ Become(c, [at |-> "finalHighwater", cursor |-> request[c].cursor])

\* finalEventsScan
FinalHighWater(c) ==
  /\ request[c].at = "finalHighwater"
  /\ Become(c, [at |-> "finalList", cursor |-> request[c].cursor, highWater |-> LatestEventSequence])

FinalList(c) ==
  LET q == request[c]
  IN  /\ q.at = "finalList"
      /\ writeEvents(c, ListDownloadEvents(q.cursor, q.highWater), q.cursor, q.highWater)

\* The client takes the page and remembers its next_cursor.
ReceiveEvents(c) ==
  LET q == request[c]
  IN  /\ q.at = "answered"
      /\ received' = [received EXCEPT ![c] = @ \o q.items]
      /\ cursor' = [cursor EXCEPT ![c] = q.next]
      /\ start' = [start EXCEPT ![c] = IF @ = Latest THEN q.cursor ELSE @]
      /\ request' = [request EXCEPT ![c] = Idle]
      /\ UNCHANGED <<domainEvents, terminal, unnotified, signal>>

-----------------------------------------------------------------------------
(* serveDownloadWait                                                       *)

BeginWait(w) == request[w] = Idle /\ Become(w, [at |-> "snapshot"])

SnapshotWait(w) ==
  /\ request[w].at = "snapshot"
  /\ Become(w, [at |-> "read", snapshot |-> signal])

ReadDownload(w) ==
  LET q == request[w]
  IN  /\ q.at = "read"
      /\ \/ terminal /\ Become(w, Idle)
         \/ ~terminal /\ Become(w, [at |-> "parked", snapshot |-> Channel(q)])

WakeWait(w) == Woken(w) /\ Become(w, [at |-> "snapshot"])

DeadlineWait(w) == request[w].at = "parked" /\ Become(w, [at |-> "finalRead"])

finalRead(w) == request[w].at = "finalRead" /\ Become(w, Idle)

-----------------------------------------------------------------------------
\* A connection breaks, or a statement fails: the request ends without an answer.
Lose(r) == request[r] # Idle /\ Become(r, Idle)

\* The process stops and starts again: only the database remains.
Restart ==
  /\ unnotified' = 0
  /\ request' = [r \in DOMAIN request |-> Idle]
  /\ UNCHANGED <<domainEvents, terminal, signal, cursor, start, received>>

Reader(c) ==
  \/ SnapshotEvents(c) \/ ReadHighWater(c) \/ ListEvents(c) \/ WakeEvents(c)
  \/ FinalHighWater(c) \/ FinalList(c)

Waiter(w) ==
  SnapshotWait(w) \/ ReadDownload(w) \/ WakeWait(w) \/ finalRead(w)

Next ==
  \/ \E selected, outcome \in BOOLEAN : commitEventTx(selected, outcome)
  \/ commitMutationTx \/ Notify \/ Restart
  \/ \E c \in Clients, wait \in BOOLEAN : BeginEvents(c, wait)
  \/ \E c \in Clients : Reader(c) \/ DeadlineEvents(c) \/ ReceiveEvents(c)
  \/ \E w \in Waiters : BeginWait(w) \/ Waiter(w) \/ DeadlineWait(w)
  \/ \E r \in Clients \union Waiters : Lose(r)

Spec == Init /\ [][Next]_vars

\* Clients poll on, handlers run on, and connections that break again and again
\* do not always break at the same point. Nothing is assumed of deadlines
\* or restarts.
Fairness ==
  /\ WF_vars(Notify)
  /\ \A c \in Clients :
       /\ WF_vars(\E wait \in BOOLEAN : BeginEvents(c, wait))
       /\ WF_vars(Reader(c))
       /\ SF_vars(SnapshotEvents(c)) /\ SF_vars(ReadHighWater(c))
       /\ SF_vars(ListEvents(c)) /\ SF_vars(ReceiveEvents(c))
  /\ \A w \in Waiters : WF_vars(Waiter(w))

FairSpec == Spec /\ Fairness

-----------------------------------------------------------------------------
(* Properties                                                              *)

\* Whatever is lost, repeated, retired or committed meanwhile, the pages a client
\* has taken hold exactly the selected events between where its feed began and
\* its cursor, each once and in order.
FeedExact ==
  \A c \in Clients :
    received[c] = IF start[c] \in Nat /\ cursor[c] >= start[c] /\ cursor[c] <= LatestEventSequence
                  THEN ListDownloadEvents(start[c], cursor[c]) ELSE <<>>

Missing(r) ==
  IF r \in Clients THEN ListDownloadEvents(request[r].cursor, LatestEventSequence) # <<>> ELSE terminal

\* No request sleeps through what it waits for: if that is in the database while
\* it is parked, its channel is closed or about to be.
NoSleepThroughCommit ==
  \A r \in Clients \union Waiters :
    request[r].at = "parked" /\ Missing(r) => Woken(r) \/ unnotified > 0

\* A client that keeps polling gets every selected event, deadlines or not.
FeedCatchesUp ==
  \A c \in Clients :
    <>[](start[c] \in Nat /\ start[c] <= LatestEventSequence
           => ListDownloadEvents(cursor[c], LatestEventSequence) = <<>>)
=============================================================================

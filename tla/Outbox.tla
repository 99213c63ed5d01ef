------------------------------- MODULE Outbox -------------------------------
(***************************************************************************)
(* The event outbox (internal/store/repository_outbox.go) and the webhook  *)
(* dispatcher (internal/webhook): one delivery row per event and           *)
(* subscribed endpoint, claimed under a lease by one of several workers,   *)
(* posted without a transaction, and committed by a compare-and-swap.      *)
(*                                                                         *)
(* Time is abstract: a row is due or not, its lease runs or has lapsed.    *)
(* Rows of one endpoint are ordered by (created_at, id), which is the      *)
(* order of their events as long as the wall clock does not step back.     *)
(***************************************************************************)
EXTENDS Naturals, Sequences

CONSTANTS
  Endpoints, Downloads, Workers,
  Subscribable, \* endpointEventTypes: "completed" and "failed", or one of them
  NoClaim,      \* lease_owner and lease_until are NULL
  MaxEvents,    \* bound: events emitted
  MaxAttempts,  \* the attempt by which the 24-hour window has passed for certain
  MaxFaults,    \* bound: crashes, late and failed commits
  MaxReplays    \* bound: dead deliveries reopened by the operator

ASSUME OutboxAssumption ==
  /\ NoClaim \notin Workers
  /\ Subscribable \subseteq {"completed", "failed"}
  /\ Endpoints \intersect Downloads = {}
  /\ MaxEvents \in Nat /\ MaxFaults \in Nat /\ MaxReplays \in Nat
  /\ MaxAttempts \in Nat /\ MaxAttempts > 1

\* webhook.test is addressed to one endpoint and cannot be subscribed to.
EventTypes == Subscribable \union {"test"}

\* Aggregates: a download, or for a test event the endpoint itself.
Aggregates == Downloads \union Endpoints
Keys == (1..MaxEvents) \X Endpoints \X Aggregates
EndpointOf(k) == k[2]
Lane(k) == <<k[2], k[3]>>

VARIABLES
  events,      \* domain_events that fan out: their types, in sequence order
  endpoint,    \* webhook_endpoints with their webhook_subscriptions
  row,         \* webhook_deliveries
  worker,      \* what each dispatcher worker is doing
  received,    \* history: deliveries whose POST has reached the receiver
  replayed,    \* history: deliveries an operator has replayed
  faults, replays

vars == <<events, endpoint, row, worker, received, replayed, faults, replays>>

Statuses == {"pending", "delivering", "succeeded", "dead", "cancelled"}

\* The attempts of a settled row are never read again and kept as 0.
\* "none" and "pruned" stand for rows that are not in the table; claim is the
\* worker whose claim carries the row's current row_version.
Row == [status : Statuses \union {"none", "pruned"},
        was : {"none", "succeeded", "cancelled"}, \* history: status before pruning
        attempts : 0..MaxAttempts,
        due : BOOLEAN,
        lease : {"none", "live", "lapsed"},
        claim : Workers \union {NoClaim}]

NoRow == [status |-> "none", was |-> "none", attempts |-> 0, due |-> FALSE,
          lease |-> "none", claim |-> NoClaim]

Endpoint == [exists : BOOLEAN, enabled : BOOLEAN, deleted : BOOLEAN,
             subscribed : SUBSET Subscribable]

Results == {"succeeded", "pending", "dead"}

Worker == [at : {"idle"}]
            \union [at : {"posting"}, key : Keys, attempts : 1..MaxAttempts]
            \union [at : {"committing"}, key : Keys, result : Results]

Idle == [at |-> "idle"]

TypeOK ==
  /\ events \in Seq(EventTypes) /\ Len(events) <= MaxEvents
  /\ endpoint \in [Endpoints -> Endpoint]
  /\ row \in [Keys -> Row]
  /\ worker \in [Workers -> Worker]
  /\ received \in SUBSET Keys
  /\ replayed \in SUBSET Keys
  /\ faults \in 0..MaxFaults
  /\ replays \in 0..MaxReplays

Init ==
  /\ events = <<>>
  /\ endpoint = [e \in Endpoints |->
       [exists |-> FALSE, enabled |-> FALSE, deleted |-> FALSE, subscribed |-> {}]]
  /\ row = [k \in Keys |-> NoRow]
  /\ worker = [w \in Workers |-> Idle]
  /\ received = {}
  /\ replayed = {}
  /\ faults = 0
  /\ replays = 0

-----------------------------------------------------------------------------
(* Endpoints, as the operator changes them                                 *)

Listed(e) == endpoint[e].exists /\ ~endpoint[e].deleted
Active(e) == Listed(e) /\ endpoint[e].enabled

CreateWebhookEndpoint(e, enabled, subscribed) ==
  /\ ~endpoint[e].exists
  /\ endpoint' = [endpoint EXCEPT ![e] =
       [exists |-> TRUE, enabled |-> enabled, deleted |-> FALSE, subscribed |-> subscribed]]
  /\ UNCHANGED <<events, row, worker, received, replayed, faults, replays>>

\* A plausible slip: the row is cancelled by a status its table does not know.
MisspeltCancelledRow == [NoRow EXCEPT !.status = "canceled"]

CancelledRow == [NoRow EXCEPT !.status = "cancelled"]

\* A plausible slip: deleting an endpoint cancels what is being delivered, too.
CancelEveryEndpointDelivery(e) ==
  row' = [k \in Keys |->
    IF EndpointOf(k) = e /\ row[k].status \in {"pending", "delivering", "dead"}
    THEN CancelledRow ELSE row[k]]

\* Both cancellations leave rows alone that a worker is delivering.
CancelEndpointDeliveries(e) ==
  row' = [k \in Keys |->
    IF EndpointOf(k) = e /\ row[k].status \in {"pending", "dead"}
    THEN CancelledRow ELSE row[k]]

CancelSubscriptionDeliveries(e, types) ==
  row' = [k \in Keys |->
    IF /\ EndpointOf(k) = e /\ row[k].status \in {"pending", "dead"}
       /\ events[k[1]] \in types
    THEN CancelledRow ELSE row[k]]

\* Returns the removed types.
reconcileSubscriptions(e, wanted) == endpoint[e].subscribed \ wanted

UpdateWebhookEndpoint(e, enabled, subscribed) ==
  /\ Listed(e)
  /\ endpoint' = [endpoint EXCEPT ![e].enabled = enabled, ![e].subscribed = subscribed]
  /\ CancelSubscriptionDeliveries(e, reconcileSubscriptions(e, subscribed))
  /\ UNCHANGED <<events, worker, received, replayed, faults, replays>>

\* Disabling only stops claims.
SetWebhookEndpointEnabled(e, enabled) ==
  /\ Listed(e)
  /\ endpoint' = [endpoint EXCEPT ![e].enabled = enabled]
  /\ UNCHANGED <<events, row, worker, received, replayed, faults, replays>>

DeleteWebhookEndpoint(e) ==
  /\ Listed(e)
  /\ endpoint' = [endpoint EXCEPT ![e].enabled = FALSE, ![e].deleted = TRUE]
  /\ CancelEndpointDeliveries(e)
  /\ UNCHANGED <<events, worker, received, replayed, faults, replays>>

-----------------------------------------------------------------------------
(* Events                                                                  *)

PendingRow == [NoRow EXCEPT !.status = "pending", !.due = TRUE]

ListSubscribedEndpoints(type) == {e \in Endpoints : Active(e) /\ type \in endpoint[e].subscribed}

InsertEvent(type, targets, aggregate) ==
  LET n == Len(events) + 1
  IN  /\ n <= MaxEvents
      /\ events' = Append(events, type)
      /\ row' = [k \in Keys |->
           IF k \in {n} \X targets \X {aggregate} THEN PendingRow ELSE row[k]]
      /\ UNCHANGED <<endpoint, worker, received, replayed, faults, replays>>

\* In the transaction of the commit or intent that completes or fails d.
emitDownloadEvent(type, d) == InsertEvent(type, ListSubscribedEndpoints(type), d)

\* Works on disabled endpoints and asks no subscription.
EnqueueTestDelivery(e) == Listed(e) /\ InsertEvent("test", {e}, e)

\* Only while the endpoint is enabled; the row keeps its place in the order.
ReplayWebhookDelivery(k) ==
  /\ row[k].status = "dead"
  /\ Active(EndpointOf(k))
  /\ replays < MaxReplays
  /\ row' = [row EXCEPT ![k] = PendingRow]
  /\ replayed' = replayed \union {k}
  /\ replays' = replays + 1
  /\ UNCHANGED <<events, endpoint, worker, received, faults>>

\* After 90 days, which may pass at any moment.
PruneWebhookDeliveries(k) ==
  /\ row[k].status \in {"succeeded", "cancelled"}
  /\ row' = [row EXCEPT ![k].status = "pruned", ![k].was = row[k].status]
  /\ UNCHANGED <<events, endpoint, worker, received, replayed, faults, replays>>

-----------------------------------------------------------------------------
(* Dispatcher workers                                                      *)

Unfinished(k) == row[k].status \in {"pending", "delivering"}

\* A plausible slip: only pending rows hold up the ones behind them.
BlockedByPending(k) ==
  \E j \in Keys : Lane(j) = Lane(k) /\ j[1] < k[1] /\ row[j].status = "pending"

\* An earlier unfinished row of the same endpoint and aggregate.
Blocked(k) == \E j \in Keys : Lane(j) = Lane(k) /\ j[1] < k[1] /\ Unfinished(j)

\* Plausible slips: the lease is not looked at; a claim that was lost in a crash
\* is not taken over.
ClaimableUnderLease(k) == Unfinished(k) /\ row[k].due /\ Active(EndpointOf(k)) /\ ~Blocked(k)

ClaimablePending(k) == row[k].status = "pending" /\ row[k].due /\ Active(EndpointOf(k)) /\ ~Blocked(k)

Claimable(k) ==
  /\ Unfinished(k)
  /\ row[k].due
  /\ row[k].lease # "live"
  /\ Active(EndpointOf(k))
  /\ ~Blocked(k)

\* The earliest due row is one of the claimable ones.
ClaimWebhookDue(w) ==
  /\ worker[w].at = "idle"
  /\ \E k \in Keys :
       LET attempt == IF row[k].attempts < MaxAttempts THEN row[k].attempts + 1 ELSE MaxAttempts
       IN  /\ Claimable(k)
           /\ row' = [row EXCEPT ![k].status = "delivering", ![k].lease = "live",
                                 ![k].claim = w, ![k].attempts = attempt]
           /\ worker' = [worker EXCEPT ![w] =
                [at |-> "posting", key |-> k, attempts |-> attempt]]
  /\ UNCHANGED <<events, endpoint, received, replayed, faults, replays>>

\* The first attempt is far from the end of the window, the last one past it.
failureResult(attempts) ==
  (IF attempts < MaxAttempts THEN {"pending"} ELSE {}) \union (IF attempts > 1 THEN {"dead"} ELSE {})

\* A POST reaches its receiver; whether the answer comes back is another matter.
arrive(w) ==
  /\ worker[w].at = "posting"
  /\ received' = received \union {worker[w].key}
  /\ UNCHANGED <<events, endpoint, row, worker, replayed, faults, replays>>

\* The answer, or its absence: a failure says nothing about whether the receiver
\* got the event.
deliver(w) ==
  /\ worker[w].at = "posting"
  /\ \E result \in failureResult(worker[w].attempts) \union {"succeeded"} :
       /\ result = "succeeded" => worker[w].key \in received
       /\ worker' = [worker EXCEPT ![w] = [at |-> "committing", key |-> worker[w].key, result |-> result]]
  /\ UNCHANGED <<events, endpoint, row, received, replayed, faults, replays>>

\* The compare-and-swap on status and row_version.  The owner is one string for
\* all workers of the process and tells nothing apart.
ClaimCurrent(w, k) == row[k].status = "delivering" /\ row[k].claim = w

CommittedRow(k, result) ==
  IF endpoint[EndpointOf(k)].deleted THEN CancelledRow
  ELSE [NoRow EXCEPT !.status = result,
                     !.attempts = IF result = "pending" THEN row[k].attempts ELSE 0]

\* A lost claim leaves the row alone.
CommitWebhookClaim(w) ==
  /\ worker[w].at = "committing"
  /\ LET k == worker[w].key
     IN  row' = IF ClaimCurrent(w, k)
                THEN [row EXCEPT ![k] = CommittedRow(k, worker[w].result)] ELSE row
  /\ worker' = [worker EXCEPT ![w] = Idle]
  /\ UNCHANGED <<events, endpoint, received, replayed, faults, replays>>

-----------------------------------------------------------------------------
(* Time and faults                                                         *)

\* next_attempt_at passes.
ComesDue(k) ==
  /\ row[k].status = "pending" /\ ~row[k].due
  /\ row' = [row EXCEPT ![k].due = TRUE]
  /\ UNCHANGED <<events, endpoint, worker, received, replayed, faults, replays>>

\* A lease outlives the POST it was taken for: it exceeds the request timeout by
\* more than leaseCommitMargin, and a commit that takes longer is a fault.
LeaseLapses(k) ==
  /\ row[k].lease = "live"
  /\ \A w \in Workers : worker[w].at # "idle" /\ worker[w].key = k => ~ClaimCurrent(w, k)
  /\ row' = [row EXCEPT ![k].lease = "lapsed"]
  /\ UNCHANGED <<events, endpoint, worker, received, replayed, faults, replays>>

SlowCommit(w) ==
  /\ worker[w].at = "committing"
  /\ ClaimCurrent(w, worker[w].key)
  /\ row[worker[w].key].lease = "live"
  /\ faults < MaxFaults
  /\ faults' = faults + 1
  /\ row' = [row EXCEPT ![worker[w].key].lease = "lapsed"]
  /\ UNCHANGED <<events, endpoint, worker, received, replayed, replays>>

\* The transaction fails, and the worker backs off without its claim.
CommitFails(w) ==
  /\ worker[w].at = "committing"
  /\ faults < MaxFaults
  /\ faults' = faults + 1
  /\ worker' = [worker EXCEPT ![w] = Idle]
  /\ UNCHANGED <<events, endpoint, row, received, replayed, replays>>

\* The process dies, or is shut down and leaves its claims to expire.
Crash ==
  /\ faults < MaxFaults
  /\ faults' = faults + 1
  /\ worker' = [w \in Workers |-> Idle]
  /\ UNCHANGED <<events, endpoint, row, received, replayed, replays>>

-----------------------------------------------------------------------------
Operator ==
  \/ \E e \in Endpoints, enabled \in BOOLEAN, subscribed \in SUBSET Subscribable :
       CreateWebhookEndpoint(e, enabled, subscribed) \/ UpdateWebhookEndpoint(e, enabled, subscribed)
  \/ \E e \in Endpoints, enabled \in BOOLEAN : SetWebhookEndpointEnabled(e, enabled)
  \/ \E e \in Endpoints : DeleteWebhookEndpoint(e) \/ EnqueueTestDelivery(e)
  \/ \E k \in Keys : ReplayWebhookDelivery(k)

Dispatcher == \E w \in Workers : ClaimWebhookDue(w) \/ arrive(w) \/ deliver(w) \/ CommitWebhookClaim(w)

Next ==
  \/ Operator
  \/ \E type \in Subscribable, d \in Downloads : emitDownloadEvent(type, d)
  \/ Dispatcher
  \/ \E k \in Keys : PruneWebhookDeliveries(k) \/ ComesDue(k) \/ LeaseLapses(k)
  \/ \E w \in Workers : SlowCommit(w) \/ CommitFails(w)
  \/ Crash

\* Workers poll at least every second (outbox.MaxIdlePoll) and a POST and a
\* commit end; time passes.  Nobody owes an event, a crash or an intent.
Fairness ==
  /\ \A w \in Workers : WF_vars(ClaimWebhookDue(w)) /\ WF_vars(deliver(w)) /\ WF_vars(CommitWebhookClaim(w))
  /\ \A k \in Keys : WF_vars(ComesDue(k)) /\ WF_vars(LeaseLapses(k))

Spec == Init /\ [][Next]_vars /\ Fairness

-----------------------------------------------------------------------------
(* Properties                                                              *)

\* What the outbox promises: the refinement of Mailbox.
letterOf(r) ==
  IF r.status = "none" THEN "unwritten"
  ELSE IF r.status \in {"pending", "delivering"} THEN "open"
  ELSE IF r.status = "dead" THEN "givenUp"
  ELSE IF r.status = "succeeded" \/ r.was = "succeeded" THEN "acknowledged"
  ELSE "withdrawn"

Promise == INSTANCE Mailbox WITH
  Letters <- Keys,
  letter <- [k \in Keys |-> letterOf(row[k])],
  handed <- received,
  reopened <- replayed

\* Every step of outbox and dispatcher, lease expiry and crashes included, is
\* one a mailbox allows: deliveries of one download reach an endpoint in order,
\* none arrives after it was given up or withdrawn, and one is recorded as
\* succeeded only after it arrived.
KeepsPromise == Promise!Spec

\* No two POSTs to one endpoint about one download are in flight together,
\* unless the operator replayed the earlier of them.
OnePostPerLane ==
  \A v, w \in Workers :
    /\ v # w /\ worker[v].at = "posting" /\ worker[w].at = "posting"
    /\ Lane(worker[v].key) = Lane(worker[w].key)
    => \E k \in {worker[v].key, worker[w].key} : k \in replayed

\* While a POST is in flight its row is 'delivering' under the very claim it was
\* sent for: no operator, expiry or other worker takes it away, so nothing
\* arrives after its row was finished.
PostsAreCurrent ==
  \A w \in Workers : worker[w].at = "posting" => ClaimCurrent(w, worker[w].key)

\* A delivery of an enabled endpoint is eventually acknowledged, given up or
\* withdrawn, whatever happens to the workers.
DeliverySettles == \A k \in Keys : Unfinished(k) ~> ~Unfinished(k) \/ ~Active(EndpointOf(k))
=============================================================================

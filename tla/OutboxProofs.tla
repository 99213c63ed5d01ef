---------------------------- MODULE OutboxProofs ----------------------------
(***************************************************************************)
(* What Outbox guarantees for any number of endpoints, downloads, events,  *)
(* workers, attempts, faults and replays, up to and including that it      *)
(* implements Mailbox.                                                     *)
(*                                                                         *)
(* Everything rests on the lease: while a POST is in flight its lease is   *)
(* live, so no other worker claims the row, and the row is 'delivering',   *)
(* so no operator takes it away.                                           *)
(***************************************************************************)
EXTENDS Outbox, TLAPS

-----------------------------------------------------------------------------
(* The invariants                                                            *)

\* Only events that were emitted have rows.
RowsWritten == \A k \in Keys : row[k].status # "none" => k[1] <= Len(events)

\* A row remembers how it ended only once it has been pruned.
RowsPruned ==
  \A k \in Keys :
    row[k].was \in (IF row[k].status = "pruned" THEN {"succeeded", "cancelled"} ELSE {"none"})

\* A POST in flight holds a live lease on its row, under the claim it was sent for.
PostsHold ==
  \A w \in Workers : worker[w].at = "posting" =>
    ClaimCurrent(w, worker[w].key) /\ row[worker[w].key].lease = "live"

\* The rows in front of a delivery that is being posted are finished, but for
\* those an operator has replayed.
LaneClear ==
  \A w \in Workers : worker[w].at = "posting" =>
    \A j \in Keys : Lane(j) = Lane(worker[w].key) /\ j[1] < worker[w].key[1] /\ Unfinished(j)
      => j \in replayed

\* Success is only ever reported of a delivery that has arrived.
SuccessArrived ==
  \A w \in Workers :
    worker[w].at = "committing" /\ worker[w].result = "succeeded" => worker[w].key \in received

Inv == TypeOK /\ RowsWritten /\ RowsPruned /\ PostsHold /\ LaneClear /\ SuccessArrived

-----------------------------------------------------------------------------
(* Keys and rows                                                             *)

\* A key names an event, an endpoint and an aggregate, and is told by them.
LEMMA KeyShape ==
  /\ \A k \in Keys : /\ k[1] \in 1..MaxEvents /\ k[2] \in Endpoints /\ k[3] \in Aggregates
                     /\ k = <<k[1], k[2], k[3]>>
  /\ \A j, k \in Keys : Lane(j) = Lane(k) /\ j[1] = k[1] => j = k
  /\ \A n \in 1..MaxEvents, e \in Endpoints, a \in Aggregates : <<n, e, a>> \in Keys
  BY DEF Keys, Lane

\* What a worker is doing says which fields it has.
LEMMA WorkerShape ==
  ASSUME NEW r \in Worker
  PROVE  /\ r.at \in {"idle", "posting", "committing"}
         /\ r.at = "idle" => r = Idle
         /\ r.at = "posting" => r.key \in Keys /\ r.attempts \in 1..MaxAttempts
         /\ r.at = "committing" => r.key \in Keys /\ r.result \in Results
<1>1. CASE r \in [at : {"idle"}]  BY <1>1 DEF Idle
<1>2. CASE r \in [at : {"posting"}, key : Keys, attempts : 1..MaxAttempts]  BY <1>2
<1>3. CASE r \in [at : {"committing"}, key : Keys, result : Results]  BY <1>3
<1> QED  BY <1>1, <1>2, <1>3 DEF Worker

\* The rows that the store inserts, commits or cancels.
LEMMA RowsMade ==
  /\ NoRow \in Row /\ CancelledRow \in Row /\ PendingRow \in Row
  /\ NoRow.status = "none" /\ NoRow.was = "none" /\ NoRow.claim = NoClaim
  /\ CancelledRow.status = "cancelled" /\ CancelledRow.was = "none"
  /\ PendingRow.status = "pending" /\ PendingRow.was = "none"
<1>1. NoRow \in Row /\ NoRow.status = "none" /\ NoRow.was = "none" /\ NoRow.claim = NoClaim
  BY OutboxAssumption DEF NoRow, Row, Statuses
<1>2. CancelledRow \in Row /\ CancelledRow.status = "cancelled" /\ CancelledRow.was = "none"
  BY <1>1 DEF CancelledRow, Row, Statuses
<1>3. PendingRow \in Row /\ PendingRow.status = "pending" /\ PendingRow.was = "none"
  BY <1>1 DEF PendingRow, Row, Statuses
<1> QED  BY <1>1, <1>2, <1>3

\* A commit leaves the worker's result, or a cancelled row if the endpoint is gone.
LEMMA CommittedRowShape ==
  ASSUME NEW k \in Keys, NEW result \in Results, row[k] \in Row
  PROVE  LET r == CommittedRow(k, result) IN
         /\ r \in Row /\ r.was = "none"
         /\ r.status = IF endpoint[EndpointOf(k)].deleted THEN "cancelled" ELSE result
<1> DEFINE n == IF result = "pending" THEN row[k].attempts ELSE 0
           r1 == [NoRow EXCEPT !.status = result]
           r2 == [r1 EXCEPT !.attempts = n]
<1>1. n \in 0..MaxAttempts
  BY OutboxAssumption DEF Row
<1> HIDE DEF n
<1>2. result \in Statuses
  BY DEF Results, Statuses
<1>3. r1 \in Row /\ r1.was = "none" /\ r1.status = result
  BY <1>2, RowsMade DEF Row
<1> HIDE DEF r1
<1>4. r2 \in Row /\ r2.was = "none" /\ r2.status = result
  BY <1>1, <1>3 DEF Row
<1>5. CASE endpoint[EndpointOf(k)].deleted
  BY <1>5, RowsMade DEF CommittedRow
<1>6. CASE ~endpoint[EndpointOf(k)].deleted
  <2>1. CommittedRow(k, result) = r2
    BY <1>6, Zenon DEF CommittedRow, n, r1
  <2> QED  BY <1>4, <1>6, <2>1
<1> QED  BY <1>5, <1>6

-----------------------------------------------------------------------------
(* Types                                                                     *)

\* The two ways an event is inserted.
LEMMA Inserts ==
  /\ \A e \in Endpoints : EnqueueTestDelivery(e) => InsertEvent("test", {e}, e) /\ "test" \in EventTypes
  /\ \A type \in Subscribable, d \in Downloads : emitDownloadEvent(type, d) =>
       InsertEvent(type, ListSubscribedEndpoints(type), d) /\ type \in EventTypes
  BY DEF EnqueueTestDelivery, emitDownloadEvent, EventTypes

\* Every step keeps the types.
LEMMA TypeStep == TypeOK /\ [Next]_vars => TypeOK'
<1> SUFFICES ASSUME TypeOK, [Next]_vars PROVE TypeOK'  OBVIOUS
<1>1. ASSUME NEW e \in Endpoints, NEW enabled \in BOOLEAN, NEW subscribed \in SUBSET Subscribable,
             CreateWebhookEndpoint(e, enabled, subscribed)
      PROVE  TypeOK'
  BY <1>1 DEF CreateWebhookEndpoint, TypeOK, Endpoint
<1>2. ASSUME NEW e \in Endpoints, NEW enabled \in BOOLEAN, NEW subscribed \in SUBSET Subscribable,
             UpdateWebhookEndpoint(e, enabled, subscribed)
      PROVE  TypeOK'
  <2>1. endpoint' \in [Endpoints -> Endpoint]
    BY <1>2 DEF UpdateWebhookEndpoint, TypeOK, Endpoint
  <2>2. row' \in [Keys -> Row]
    BY <1>2, RowsMade DEF UpdateWebhookEndpoint, CancelSubscriptionDeliveries, TypeOK
  <2> QED  BY <1>2, <2>1, <2>2 DEF UpdateWebhookEndpoint, TypeOK
<1>3. ASSUME NEW e \in Endpoints, NEW enabled \in BOOLEAN, SetWebhookEndpointEnabled(e, enabled)
      PROVE  TypeOK'
  BY <1>3 DEF SetWebhookEndpointEnabled, TypeOK, Endpoint
<1>4. ASSUME NEW e \in Endpoints, DeleteWebhookEndpoint(e) PROVE TypeOK'
  <2>1. endpoint' \in [Endpoints -> Endpoint]
    BY <1>4 DEF DeleteWebhookEndpoint, TypeOK, Endpoint
  <2>2. row' \in [Keys -> Row]
    BY <1>4, RowsMade DEF DeleteWebhookEndpoint, CancelEndpointDeliveries, TypeOK
  <2> QED  BY <1>4, <2>1, <2>2 DEF DeleteWebhookEndpoint, TypeOK
<1>5. ASSUME NEW type \in EventTypes, NEW targets, NEW a, InsertEvent(type, targets, a)
      PROVE  TypeOK'
  <2>1. events' \in Seq(EventTypes) /\ Len(events') <= MaxEvents
    BY <1>5, OutboxAssumption DEF InsertEvent, TypeOK
  <2>2. row' \in [Keys -> Row]
    BY <1>5, RowsMade DEF InsertEvent, TypeOK
  <2> QED  BY <1>5, <2>1, <2>2 DEF InsertEvent, TypeOK
<1>6. ASSUME NEW k \in Keys, ReplayWebhookDelivery(k) PROVE TypeOK'
  BY <1>6, RowsMade, OutboxAssumption DEF ReplayWebhookDelivery, TypeOK
<1>7. ASSUME NEW k \in Keys, PruneWebhookDeliveries(k) PROVE TypeOK'
  <2>1. [row[k] EXCEPT !.status = "pruned", !.was = row[k].status] \in Row
    BY <1>7 DEF PruneWebhookDeliveries, TypeOK, Row, Statuses
  <2>2. row' = [row EXCEPT ![k] = [row[k] EXCEPT !.status = "pruned", !.was = row[k].status]]
    BY <1>7 DEF PruneWebhookDeliveries, TypeOK
  <2>3. row' \in [Keys -> Row]  BY <2>1, <2>2 DEF TypeOK
  <2> QED  BY <1>7, <2>3 DEF PruneWebhookDeliveries, TypeOK
<1>8. ASSUME NEW w \in Workers, ClaimWebhookDue(w) PROVE TypeOK'
  <2> DEFINE attempt(k) == IF row[k].attempts < MaxAttempts THEN row[k].attempts + 1 ELSE MaxAttempts
  <2>1. PICK k \in Keys :
          /\ row' = [row EXCEPT ![k].status = "delivering", ![k].lease = "live",
                                ![k].claim = w, ![k].attempts = attempt(k)]
          /\ worker' = [worker EXCEPT ![w] = [at |-> "posting", key |-> k, attempts |-> attempt(k)]]
    BY <1>8 DEF ClaimWebhookDue
  <2>2. attempt(k) \in 1..MaxAttempts
    BY OutboxAssumption DEF TypeOK, Row
  <2> HIDE DEF attempt
  <2> DEFINE r1 == [row EXCEPT ![k].status = "delivering"]
             r2 == [r1 EXCEPT ![k].lease = "live"]
             r3 == [r2 EXCEPT ![k].claim = w]
             r4 == [r3 EXCEPT ![k].attempts = attempt(k)]
  <2> HIDE DEF r1, r2, r3, r4
  <2>a. r1 \in [Keys -> Row]  BY DEF TypeOK, Row, Statuses, r1
  <2>b. r2 \in [Keys -> Row]  BY <2>a DEF Row, r2
  <2>c. r3 \in [Keys -> Row]  BY <2>b DEF Row, r3
  <2>d. r4 \in [Keys -> Row]  BY <2>c, <2>2 DEF Row, r4
  <2>e. row' = r4  BY <2>1, Zenon DEF r1, r2, r3, r4
  <2>3. row' \in [Keys -> Row]  BY <2>d, <2>e
  <2>4. worker' \in [Workers -> Worker]  BY <2>1, <2>2 DEF TypeOK, Worker
  <2> QED  BY <1>8, <2>3, <2>4 DEF ClaimWebhookDue, TypeOK
<1>9. ASSUME NEW w \in Workers, arrive(w) PROVE TypeOK'
  BY <1>9, WorkerShape DEF arrive, TypeOK
<1>10. ASSUME NEW w \in Workers, deliver(w) PROVE TypeOK'
  <2>1. worker[w].key \in Keys  BY <1>10, WorkerShape DEF deliver, TypeOK
  <2>2. PICK result \in failureResult(worker[w].attempts) \cup {"succeeded"} :
          worker' = [worker EXCEPT ![w] = [at |-> "committing", key |-> worker[w].key, result |-> result]]
    BY <1>10 DEF deliver
  <2>3. result \in Results  BY DEF failureResult, Results
  <2>4. worker' \in [Workers -> Worker]  BY <2>1, <2>2, <2>3 DEF TypeOK, Worker
  <2> QED  BY <1>10, <2>4 DEF deliver, TypeOK
<1>11. ASSUME NEW w \in Workers, CommitWebhookClaim(w) PROVE TypeOK'
  <2>1. worker[w].key \in Keys /\ worker[w].result \in Results
    BY <1>11, WorkerShape DEF CommitWebhookClaim, TypeOK
  <2>2. CommittedRow(worker[w].key, worker[w].result) \in Row
    BY <2>1, CommittedRowShape DEF TypeOK
  <2>3. row' \in [Keys -> Row]
    BY <1>11, <2>1, <2>2 DEF CommitWebhookClaim, TypeOK
  <2> QED  BY <1>11, <2>3 DEF CommitWebhookClaim, TypeOK, Worker, Idle
<1>12. ASSUME NEW k \in Keys, ComesDue(k) \/ LeaseLapses(k) PROVE TypeOK'
  <2>1. row' \in [Keys -> Row]
    <3>1. CASE ComesDue(k)  BY <3>1 DEF ComesDue, TypeOK, Row
    <3>2. CASE LeaseLapses(k)  BY <3>2 DEF LeaseLapses, TypeOK, Row
    <3> QED  BY <1>12, <3>1, <3>2
  <2> QED  BY <1>12, <2>1 DEF ComesDue, LeaseLapses, TypeOK
<1>13. ASSUME NEW w \in Workers, SlowCommit(w) PROVE TypeOK'
  <2>1. worker[w].key \in Keys  BY <1>13, WorkerShape DEF SlowCommit, TypeOK
  <2>2. row' \in [Keys -> Row]
    <3> DEFINE k == worker[w].key
               lapsed == [row[k] EXCEPT !.lease = "lapsed"]
    <3>0. row[k] \in Row  BY <2>1 DEF TypeOK
    <3>1. lapsed \in Row  BY <3>0 DEF Row
    <3>2. row' = [row EXCEPT ![k] = lapsed]  BY <1>13, Zenon DEF SlowCommit
    <3> HIDE DEF lapsed
    <3> QED  BY <3>1, <3>2 DEF TypeOK
  <2> QED  BY <1>13, <2>2, OutboxAssumption DEF SlowCommit, TypeOK
<1>14. ASSUME NEW w \in Workers, CommitFails(w) PROVE TypeOK'
  BY <1>14, OutboxAssumption DEF CommitFails, TypeOK, Worker, Idle
<1>15. CASE Crash  BY <1>15, OutboxAssumption DEF Crash, TypeOK, Worker, Idle
<1>16. CASE UNCHANGED vars  BY <1>16 DEF vars, TypeOK
<1> QED
  BY <1>1, <1>2, <1>3, <1>4, <1>5, <1>6, <1>7, <1>8, <1>9, <1>10, <1>11, <1>12, <1>13, <1>14,
     <1>15, <1>16, Inserts
     DEF Next, Operator, Dispatcher

-----------------------------------------------------------------------------
(* The invariant is inductive                                                *)

\* The facts about the state before a step that every action's proof uses.
LEMMA Typed ==
  ASSUME TypeOK
  PROVE  /\ row \in [Keys -> Row]
         /\ \A w \in Workers : worker[w] \in Worker
         /\ \A w \in Workers : worker[w].at # "idle" => worker[w].key \in Keys
         /\ Len(events) \in Nat /\ MaxEvents \in Nat
<1>1. \A w \in Workers : worker[w] \in Worker  BY DEF TypeOK
<1>2. \A w \in Workers : worker[w].at # "idle" => worker[w].key \in Keys
  BY <1>1, WorkerShape
<1> QED  BY <1>1, <1>2, OutboxAssumption DEF TypeOK

\* An empty outbox satisfies the invariant.
LEMMA InitInv == Init => Inv
<1> SUFFICES ASSUME Init PROVE Inv  OBVIOUS
<1>1. TypeOK
  BY RowsMade, OutboxAssumption DEF Init, TypeOK, Endpoint, Worker, Idle
<1>2. RowsWritten /\ RowsPruned
  BY RowsMade DEF Init, RowsWritten, RowsPruned
<1>3. PostsHold /\ LaneClear /\ SuccessArrived
  BY DEF Init, PostsHold, LaneClear, SuccessArrived, Idle
<1> QED  BY <1>1, <1>2, <1>3 DEF Inv

\* What the operator and time do to rows nobody is posting: no row that was
\* settled opens again, and one that is being delivered keeps its claim.
LEMMA QuietStepKeepsInv ==
  ASSUME Inv, TypeOK', UNCHANGED <<events, worker, received, replayed>>,
         \A k \in Keys :
           \/ row'[k] = row[k]
           \/ /\ row[k].status # "none" /\ row[k].status # "delivering"
              /\ row'[k].was \in (IF row'[k].status = "pruned" THEN {"succeeded", "cancelled"} ELSE {"none"})
              /\ row'[k].status \in {"pending", "delivering"} => Unfinished(k)
           \/ /\ row'[k].status = row[k].status /\ row'[k].was = row[k].was
              /\ row'[k].claim = row[k].claim
              /\ row'[k].lease = row[k].lease \/
                 \A w \in Workers : worker[w].at = "posting" => worker[w].key # k
  PROVE  Inv'
<1>1. RowsWritten' /\ RowsPruned'
  BY DEF Inv, RowsWritten, RowsPruned
<1>2. PostsHold'
  BY Typed DEF Inv, PostsHold, ClaimCurrent
<1>3. LaneClear'
  BY Typed DEF Inv, LaneClear, Unfinished
<1> QED  BY <1>1, <1>2, <1>3 DEF Inv, SuccessArrived

\* What the operator does to an endpoint cancels rows of its own that no worker
\* is delivering, and touches no other.
LEMMA EndpointSteps ==
  ASSUME NEW e \in Endpoints,
         \/ \E enabled \in BOOLEAN, subscribed \in SUBSET Subscribable :
              CreateWebhookEndpoint(e, enabled, subscribed) \/ UpdateWebhookEndpoint(e, enabled, subscribed)
         \/ \E enabled \in BOOLEAN : SetWebhookEndpointEnabled(e, enabled)
         \/ DeleteWebhookEndpoint(e)
  PROVE  \A k \in Keys : \/ row'[k] = row[k]
                         \/ row[k].status \in {"pending", "dead"} /\ row'[k] = CancelledRow
<1>1. ASSUME NEW enabled \in BOOLEAN, NEW subscribed \in SUBSET Subscribable,
             UpdateWebhookEndpoint(e, enabled, subscribed)
      PROVE  \A k \in Keys : \/ row'[k] = row[k]
                             \/ row[k].status \in {"pending", "dead"} /\ row'[k] = CancelledRow
  BY <1>1 DEF UpdateWebhookEndpoint, CancelSubscriptionDeliveries
<1>2. CASE DeleteWebhookEndpoint(e)
  BY <1>2 DEF DeleteWebhookEndpoint, CancelEndpointDeliveries
<1>3. CASE \/ \E enabled \in BOOLEAN, subscribed \in SUBSET Subscribable :
                CreateWebhookEndpoint(e, enabled, subscribed)
           \/ \E enabled \in BOOLEAN : SetWebhookEndpointEnabled(e, enabled)
  BY <1>3 DEF CreateWebhookEndpoint, SetWebhookEndpointEnabled
<1> QED  BY <1>1, <1>2, <1>3

\* So they keep the invariant: a delivery being posted keeps its row.
LEMMA EndpointsKeepInv ==
  ASSUME Inv, TypeOK', NEW e \in Endpoints,
         \/ \E enabled \in BOOLEAN, subscribed \in SUBSET Subscribable :
              CreateWebhookEndpoint(e, enabled, subscribed) \/ UpdateWebhookEndpoint(e, enabled, subscribed)
         \/ \E enabled \in BOOLEAN : SetWebhookEndpointEnabled(e, enabled)
         \/ DeleteWebhookEndpoint(e)
  PROVE  Inv'
<1>1. UNCHANGED <<events, worker, received, replayed>>
  BY DEF CreateWebhookEndpoint, UpdateWebhookEndpoint, SetWebhookEndpointEnabled, DeleteWebhookEndpoint
<1>2. \A k \in Keys : \/ row'[k] = row[k]
                      \/ row[k].status \in {"pending", "dead"} /\ row'[k] = CancelledRow
  BY EndpointSteps
<1> QED  BY <1>1, <1>2, RowsMade, QuietStepKeepsInv

\* A pruned row, one that comes due and a lease that lapses change no delivery
\* that is being posted: LeaseLapses waits for the worker.
LEMMA TimeKeepsInv ==
  ASSUME Inv, TypeOK', NEW k \in Keys,
         PruneWebhookDeliveries(k) \/ ComesDue(k) \/ LeaseLapses(k)
  PROVE  Inv'
<1>1. UNCHANGED <<events, worker, received, replayed>>
  BY DEF PruneWebhookDeliveries, ComesDue, LeaseLapses
<1>2. \A j \in Keys \ {k} : row'[j] = row[j]
  BY Typed DEF Inv, PruneWebhookDeliveries, ComesDue, LeaseLapses
<1>3. CASE PruneWebhookDeliveries(k)
  <2>1. row[k].status \in {"succeeded", "cancelled"} /\ row'[k].status = "pruned"
        /\ row'[k].was = row[k].status
    BY <1>3, Typed DEF PruneWebhookDeliveries, Inv, Row
  <2> QED  BY <1>1, <1>2, <2>1, QuietStepKeepsInv
<1>4. CASE ComesDue(k)
  <2>1. /\ row'[k].status = row[k].status /\ row'[k].was = row[k].was
        /\ row'[k].claim = row[k].claim /\ row'[k].lease = row[k].lease
    BY <1>4, Typed DEF ComesDue, Inv, Row
  <2> QED  BY <1>1, <1>2, <2>1, QuietStepKeepsInv
<1>5. CASE LeaseLapses(k)
  <2>1. /\ row'[k].status = row[k].status /\ row'[k].was = row[k].was
        /\ row'[k].claim = row[k].claim
    BY <1>5, Typed DEF LeaseLapses, Inv, Row
  <2>2. \A w \in Workers : worker[w].at = "posting" => worker[w].key # k
    BY <1>5 DEF LeaseLapses, Inv, PostsHold
  <2> QED  BY <1>1, <1>2, <2>1, <2>2, QuietStepKeepsInv
<1> QED  BY <1>3, <1>4, <1>5

\* A commit that outlives its lease is some other delivery than one being posted.
LEMMA SlowCommitKeepsInv ==
  ASSUME Inv, TypeOK', NEW v \in Workers, SlowCommit(v) PROVE Inv'
<1> DEFINE k == worker[v].key
<1>1. k \in Keys /\ ClaimCurrent(v, k) /\ worker[v].at = "committing"
  BY Typed DEF Inv, SlowCommit
<1>2. UNCHANGED <<events, worker, received, replayed>> /\ \A j \in Keys \ {k} : row'[j] = row[j]
  BY <1>1 DEF SlowCommit
<1>3. /\ row'[k].status = row[k].status /\ row'[k].was = row[k].was
      /\ row'[k].claim = row[k].claim
  BY <1>1, Typed DEF SlowCommit, Inv, Row
<1>4. \A w \in Workers : worker[w].at = "posting" => worker[w].key # k
  BY <1>1 DEF Inv, PostsHold, ClaimCurrent
<1> QED  BY <1>1, <1>2, <1>3, <1>4, QuietStepKeepsInv

\* A new event comes after all that have rows, in every lane.
LEMMA InsertKeepsInv ==
  ASSUME Inv, TypeOK', NEW type \in EventTypes, NEW targets, NEW a, InsertEvent(type, targets, a)
  PROVE  Inv'
<1> DEFINE n == Len(events) + 1
<1>0. /\ UNCHANGED <<worker, received, replayed>>
      /\ Len(events') = n /\ n \in Nat
      /\ \A k \in Keys : row'[k] = row[k] \/ (k[1] = n /\ row'[k] = PendingRow)
  <2>1. UNCHANGED <<worker, received, replayed>> /\ events' = Append(events, type)
    BY DEF InsertEvent
  <2>2. Len(events') = n /\ n \in Nat
    BY <2>1 DEF Inv, TypeOK
  <2>3. \A k \in {n} \X targets \X {a} : k[1] = n
    OBVIOUS
  <2>4. row' = [k \in Keys |-> IF k \in {n} \X targets \X {a} THEN PendingRow ELSE row[k]]
    BY DEF InsertEvent
  <2>5. \A k \in Keys : row'[k] = row[k] \/ (k[1] = n /\ row'[k] = PendingRow)
    BY <2>3, <2>4
  <2> QED  BY <2>1, <2>2, <2>5
<1>1. \A k \in Keys : k[1] \in Nat /\ row[k].status # "none" => k[1] < n
  BY Typed, KeyShape DEF Inv, RowsWritten
<1>2. RowsWritten' /\ RowsPruned'
  BY <1>0, <1>1, RowsMade, KeyShape DEF Inv, RowsWritten, RowsPruned
<1>3. \A w \in Workers : worker[w].at = "posting" =>
        /\ worker[w].key \in Keys /\ worker[w].key[1] < n
        /\ row'[worker[w].key] = row[worker[w].key]
  BY <1>0, <1>1, Typed, KeyShape DEF Inv, PostsHold, ClaimCurrent
<1>4. PostsHold'
  BY <1>0, <1>3 DEF Inv, PostsHold, ClaimCurrent
<1>5. LaneClear'
  <2> SUFFICES ASSUME NEW w \in Workers, worker[w].at = "posting", NEW j \in Keys,
                      Lane(j) = Lane(worker[w].key), j[1] < worker[w].key[1], Unfinished(j)'
               PROVE  j \in replayed
    BY <1>0 DEF LaneClear
  <2>1. j[1] # n  BY <1>3, KeyShape
  <2>2. Unfinished(j)  BY <1>0, <2>1 DEF Unfinished
  <2> QED  BY <2>2 DEF Inv, LaneClear
<1> QED  BY <1>0, <1>2, <1>4, <1>5 DEF Inv, SuccessArrived

\* A replayed row is the only one that becomes unfinished behind a worker's back,
\* and LaneClear excepts it.
LEMMA ReplayKeepsInv ==
  ASSUME Inv, TypeOK', NEW k \in Keys, ReplayWebhookDelivery(k) PROVE Inv'
<1>1. /\ UNCHANGED <<events, worker, received>> /\ replayed' = replayed \cup {k}
      /\ row[k].status = "dead" /\ row'[k] = PendingRow
      /\ \A j \in Keys \ {k} : row'[j] = row[j]
  BY Typed DEF Inv, ReplayWebhookDelivery
<1>2. RowsWritten' /\ RowsPruned'
  BY <1>1, RowsMade DEF Inv, RowsWritten, RowsPruned
<1>3. PostsHold'
  BY <1>1, Typed DEF Inv, PostsHold, ClaimCurrent
<1>4. LaneClear'
  BY <1>1 DEF Inv, LaneClear, Unfinished
<1> QED  BY <1>1, <1>2, <1>3, <1>4 DEF Inv, SuccessArrived

\* A claim takes a row whose lease is not live, so one nobody is posting, and
\* with no unfinished row in front of it.
LEMMA ClaimKeepsInv ==
  ASSUME Inv, TypeOK', NEW v \in Workers, ClaimWebhookDue(v) PROVE Inv'
<1> DEFINE attempt(k) == IF row[k].attempts < MaxAttempts THEN row[k].attempts + 1 ELSE MaxAttempts
<1>1. PICK k \in Keys :
        /\ Claimable(k)
        /\ row' = [row EXCEPT ![k].status = "delivering", ![k].lease = "live",
                              ![k].claim = v, ![k].attempts = attempt(k)]
        /\ worker' = [worker EXCEPT ![v] = [at |-> "posting", key |-> k, attempts |-> attempt(k)]]
  BY DEF ClaimWebhookDue
<1> HIDE DEF attempt
<1>2. /\ UNCHANGED <<events, received, replayed>>
      /\ worker[v].at = "idle" /\ worker'[v].at = "posting" /\ worker'[v].key = k
      /\ \A w \in Workers \ {v} : worker'[w] = worker[w]
      /\ \A j \in Keys \ {k} : row'[j] = row[j]
  BY <1>1 DEF ClaimWebhookDue, Inv, TypeOK
<1>3. /\ row'[k].status = "delivering" /\ row'[k].lease = "live" /\ row'[k].claim = v
      /\ row'[k].was = row[k].was
  BY <1>1, Typed DEF Inv, Row
<1>4. /\ Unfinished(k) /\ row[k].lease # "live"
      /\ \A j \in Keys : Lane(j) = Lane(k) /\ j[1] < k[1] => ~Unfinished(j)
  BY <1>1 DEF Claimable, Blocked
<1>5. RowsWritten' /\ RowsPruned'
  BY <1>2, <1>3, <1>4 DEF Inv, RowsWritten, RowsPruned, Unfinished
<1>6. PostsHold'
  <2>1. \A w \in Workers \ {v} : worker[w].at = "posting" => worker[w].key \in Keys \ {k}
    BY <1>4, Typed DEF Inv, PostsHold
  <2> QED  BY <1>2, <1>3, <2>1 DEF Inv, PostsHold, ClaimCurrent
<1>7. LaneClear'
  <2>1. \A j \in Keys : Unfinished(j)' => Unfinished(j)
    BY <1>2, <1>4 DEF Unfinished
  <2> QED  BY <1>2, <1>4, <2>1 DEF Inv, LaneClear
<1>8. SuccessArrived'  BY <1>2 DEF Inv, SuccessArrived
<1> QED  BY <1>5, <1>6, <1>7, <1>8 DEF Inv

\* The receiver and the answer leave the rows alone.
LEMMA PostKeepsInv ==
  ASSUME Inv, TypeOK', NEW v \in Workers, arrive(v) \/ deliver(v) PROVE Inv'
<1>1. CASE arrive(v)
  BY <1>1 DEF arrive, Inv, RowsWritten, RowsPruned, PostsHold, LaneClear, SuccessArrived,
              ClaimCurrent, Unfinished
<1>2. CASE deliver(v)
  <2>1. /\ UNCHANGED <<events, row, received, replayed>>
        /\ worker'[v].at = "committing" /\ worker'[v].key = worker[v].key
        /\ worker'[v].result = "succeeded" => worker[v].key \in received
        /\ \A w \in Workers \ {v} : worker'[w] = worker[w]
    BY <1>2 DEF deliver, Inv, TypeOK
  <2> QED
    BY <2>1 DEF Inv, RowsWritten, RowsPruned, PostsHold, LaneClear, SuccessArrived,
                ClaimCurrent, Unfinished
<1> QED  BY <1>1, <1>2

\* A commit that is current has the row to itself: nobody else is posting it.
LEMMA CommitKeepsInv ==
  ASSUME Inv, TypeOK', NEW v \in Workers, CommitWebhookClaim(v) PROVE Inv'
<1> DEFINE k == worker[v].key
<1>1. /\ UNCHANGED <<events, received, replayed>>
      /\ worker[v].at = "committing" /\ worker'[v].at = "idle"
      /\ \A w \in Workers \ {v} : worker'[w] = worker[w]
      /\ k \in Keys /\ worker[v].result \in Results
  BY Typed, WorkerShape DEF CommitWebhookClaim, Inv, TypeOK, Idle
<1>2. CASE ~ClaimCurrent(v, k)
  <2>1. row' = row  BY <1>2 DEF CommitWebhookClaim
  <2> QED
    BY <1>1, <2>1 DEF Inv, RowsWritten, RowsPruned, PostsHold, LaneClear, SuccessArrived,
                      ClaimCurrent, Unfinished
<1>3. CASE ClaimCurrent(v, k)
  <2>1. /\ row'[k] = CommittedRow(k, worker[v].result)
        /\ \A j \in Keys \ {k} : row'[j] = row[j]
    BY <1>1, <1>3, Typed DEF CommitWebhookClaim, Inv
  <2>2. row'[k].was = "none" /\ row'[k].status \in Results \cup {"cancelled"}
    BY <1>1, <2>1, CommittedRowShape, Typed DEF Inv
  <2>3. row[k].status = "delivering"  BY <1>3 DEF ClaimCurrent
  <2>4. RowsWritten' /\ RowsPruned'
    BY <1>1, <2>1, <2>2, <2>3 DEF Inv, RowsWritten, RowsPruned, Results
  <2>5. \A w \in Workers : worker'[w].at = "posting" =>
          w # v /\ worker[w].at = "posting" /\ worker[w].key \in Keys \ {k}
    BY <1>1, <1>3, Typed DEF Inv, PostsHold, ClaimCurrent
  <2>6. PostsHold'
    BY <1>1, <2>1, <2>5 DEF Inv, PostsHold, ClaimCurrent
  <2>7. LaneClear'
    <3>1. \A j \in Keys : Unfinished(j)' => Unfinished(j)
      BY <2>1, <2>3 DEF Unfinished
    <3> QED  BY <1>1, <2>5, <3>1 DEF Inv, LaneClear
  <2>8. SuccessArrived'  BY <1>1 DEF Inv, SuccessArrived
  <2> QED  BY <2>4, <2>6, <2>7, <2>8 DEF Inv
<1> QED  BY <1>2, <1>3

\* A worker that loses its claim in a failure or a crash leaves the row as it is.
LEMMA FaultsKeepInv ==
  ASSUME Inv, TypeOK', Crash \/ \E v \in Workers : CommitFails(v)
  PROVE  Inv'
<1>1. /\ UNCHANGED <<events, row, received, replayed>>
      /\ \A w \in Workers : worker'[w] = worker[w] \/ worker'[w].at = "idle"
  BY DEF Crash, CommitFails, Inv, TypeOK, Idle
<1> QED
  BY <1>1 DEF Inv, RowsWritten, RowsPruned, PostsHold, LaneClear, SuccessArrived,
              ClaimCurrent, Unfinished

\* The invariant is inductive: every step keeps it.
LEMMA InvStep == Inv /\ [Next]_vars => Inv'
<1> SUFFICES ASSUME Inv, [Next]_vars PROVE Inv'  OBVIOUS
<1>1. TypeOK'  BY TypeStep DEF Inv
<1>2. CASE UNCHANGED vars
  BY <1>1, <1>2 DEF vars, Inv, RowsWritten, RowsPruned, PostsHold, LaneClear, SuccessArrived,
                    ClaimCurrent, Unfinished
<1> QED
  BY <1>1, <1>2, EndpointsKeepInv, TimeKeepsInv, SlowCommitKeepsInv, InsertKeepsInv, Inserts,
     ReplayKeepsInv, ClaimKeepsInv, PostKeepsInv, CommitKeepsInv, FaultsKeepInv
     DEF Next, Operator, Dispatcher

\* Every state a run reaches satisfies the invariant.
LEMMA Invariant == Spec => []Inv
  BY InitInv, InvStep, PTL DEF Spec

-----------------------------------------------------------------------------
(* What follows for one state                                                *)

\* The types of the outbox's state.
THEOREM TypeCorrect == Spec => []TypeOK
<1>1. Inv => TypeOK  BY DEF Inv
<1> QED  BY <1>1, Invariant, PTL

\* A POST in flight is always one its worker still holds the claim for, so no
\* webhook arrives for a row that was cancelled, finished or claimed again
\* (ClaimWebhookDue's lease, the status guards of the cancellations).
THEOREM PostsAreCurrentAlways == Spec => []PostsAreCurrent
<1>1. Inv => PostsAreCurrent  BY DEF Inv, PostsHold, PostsAreCurrent
<1> QED  BY <1>1, Invariant, PTL

\* Two POSTs of one lane are in flight only if the earlier was replayed: the
\* later one was claimed when nothing in front of it was unfinished.
THEOREM LanesAreOrdered == Spec => []OnePostPerLane
<1>1. Inv => OnePostPerLane
  <2> SUFFICES ASSUME Inv, NEW v \in Workers, NEW w \in Workers, v # w,
                      worker[v].at = "posting", worker[w].at = "posting",
                      Lane(worker[v].key) = Lane(worker[w].key)
               PROVE  worker[v].key \in replayed \/ worker[w].key \in replayed
    BY DEF OnePostPerLane
  <2> DEFINE j == worker[v].key
             k == worker[w].key
  <2>1. j \in Keys /\ k \in Keys  BY Typed DEF Inv
  <2>2. ClaimCurrent(v, j) /\ ClaimCurrent(w, k)  BY DEF Inv, PostsHold
  <2>3. Unfinished(j) /\ Unfinished(k)  BY <2>2 DEF ClaimCurrent, Unfinished
  <2>4. j # k  BY <2>2 DEF ClaimCurrent
  <2>5. j[1] \in Nat /\ k[1] \in Nat /\ j[1] # k[1]
    BY <2>1, <2>4, KeyShape
  <2>6. CASE j[1] < k[1]  BY <2>1, <2>3, <2>6 DEF Inv, LaneClear
  <2>7. CASE k[1] < j[1]  BY <2>1, <2>3, <2>7 DEF Inv, LaneClear
  <2> QED  BY <2>5, <2>6, <2>7
<1> QED  BY <1>1, Invariant, PTL

-----------------------------------------------------------------------------
(* The outbox implements the mailbox                                         *)

\* What each status of a row means to the mailbox.
LEMMA LetterOf ==
  ASSUME NEW r \in Row,
         r.was \in (IF r.status = "pruned" THEN {"succeeded", "cancelled"} ELSE {"none"})
  PROVE  /\ r.status = "none" => letterOf(r) = "unwritten"
         /\ r.status \in {"pending", "delivering"} => letterOf(r) = "open"
         /\ r.status = "dead" => letterOf(r) = "givenUp"
         /\ r.status = "succeeded" => letterOf(r) = "acknowledged"
         /\ r.status = "cancelled" => letterOf(r) = "withdrawn"
         /\ r.status = "pruned" => letterOf(r) = IF r.was = "succeeded" THEN "acknowledged" ELSE "withdrawn"
         /\ letterOf(r) = "open" => r.status \in {"pending", "delivering"}
  BY DEF Row, Statuses, letterOf

\* The same for the rows of a reachable state.
LEMMA Letter ==
  ASSUME Inv, NEW k \in Keys
  PROVE  /\ row[k].status = "none" => letterOf(row[k]) = "unwritten"
         /\ Unfinished(k) => letterOf(row[k]) = "open"
         /\ row[k].status = "dead" => letterOf(row[k]) = "givenUp"
         /\ letterOf(row[k]) = "open" => Unfinished(k)
  BY LetterOf, Typed DEF Inv, RowsPruned, Unfinished

\* The rows the store makes, as letters.
LEMMA LettersMade ==
  /\ letterOf(NoRow) = "unwritten"
  /\ letterOf(PendingRow) = "open"
  /\ letterOf(CancelledRow) = "withdrawn"
  BY RowsMade, LetterOf

\* A change of rows that is a move of letters.
LEMMA MoveLetters ==
  ASSUME NEW K \in SUBSET Keys, NEW from, NEW to,
         \A k \in K : letterOf(row[k]) \in from /\ letterOf(row'[k]) = to,
         \A k \in Keys \ K : letterOf(row'[k]) = letterOf(row[k])
  PROVE  Promise!Move(K, from, to)
  BY DEF Promise!Move

\* A change of rows that the mailbox does not see.
LEMMA KeepLetters ==
  ASSUME \A k \in Keys : letterOf(row'[k]) = letterOf(row[k]), UNCHANGED <<received, replayed>>
  PROVE  UNCHANGED Promise!vars
  BY DEF Promise!vars

\* The empty outbox is the empty mailbox.
LEMMA InitPromise == Init => Promise!Init
  BY LettersMade DEF Init, Promise!Init

\* Cancelling rows withdraws letters.
LEMMA EndpointsKeepPromise ==
  ASSUME Inv, NEW e \in Endpoints,
         \/ \E enabled \in BOOLEAN, subscribed \in SUBSET Subscribable :
              CreateWebhookEndpoint(e, enabled, subscribed) \/ UpdateWebhookEndpoint(e, enabled, subscribed)
         \/ \E enabled \in BOOLEAN : SetWebhookEndpointEnabled(e, enabled)
         \/ DeleteWebhookEndpoint(e)
  PROVE  Promise!Next
<1> DEFINE K == {k \in Keys : row[k].status \in {"pending", "dead"} /\ row'[k] = CancelledRow}
<1>1. UNCHANGED <<received, replayed>>
  BY DEF CreateWebhookEndpoint, UpdateWebhookEndpoint, SetWebhookEndpointEnabled, DeleteWebhookEndpoint
<1>2. \A k \in K : letterOf(row[k]) \in {"open", "givenUp"} /\ letterOf(row'[k]) = "withdrawn"
  BY Letter, LettersMade DEF Unfinished
<1>3. \A k \in Keys \ K : row'[k] = row[k]
  BY EndpointSteps
<1>4. Promise!Move(K, {"open", "givenUp"}, "withdrawn")
  BY <1>2, <1>3, MoveLetters
<1>5. Promise!Withdraw(K)  BY <1>1, <1>4 DEF Promise!Withdraw
<1> QED  BY <1>5 DEF Promise!Next

\* An event is written to its subscribers at once, behind everything else.
LEMMA InsertKeepsPromise ==
  ASSUME Inv, NEW type \in EventTypes, NEW targets, NEW a, InsertEvent(type, targets, a)
  PROVE  Promise!Next
<1> DEFINE n == Len(events) + 1
           K == {k \in Keys : k \in {n} \X targets \X {a}}
<1>1. UNCHANGED <<received, replayed>>  BY DEF InsertEvent
<1>2. \A k \in Keys : k[1] \in Nat /\ (row[k].status # "none" => k[1] < n) /\ n \in Nat
  BY Typed, KeyShape DEF Inv, RowsWritten
<1>3. \A k \in K : k[1] = n  OBVIOUS
<1>4. \A k \in Keys : k[1] >= n => letterOf(row[k]) = "unwritten"
  BY <1>2, Letter
<1>5. \A k \in K : letterOf(row[k]) = "unwritten" /\ letterOf(row'[k]) = "open"
  BY <1>2, <1>3, <1>4, LettersMade DEF InsertEvent
<1>6. \A k \in Keys \ K : row'[k] = row[k]  BY DEF InsertEvent
<1>7. Promise!Move(K, {"unwritten"}, "open")  BY <1>5, <1>6, MoveLetters
<1>8. \A k \in K, j \in Keys : j[1] > k[1] => letterOf(row[j]) = "unwritten"
  BY <1>2, <1>3, <1>4
<1>9. Promise!Write(K)  BY <1>1, <1>7, <1>8 DEF Promise!Write
<1> QED  BY <1>9 DEF Promise!Next

\* Replaying a dead row reopens its letter.
LEMMA ReplayKeepsPromise ==
  ASSUME Inv, NEW k \in Keys, ReplayWebhookDelivery(k)
  PROVE  Promise!Next
<1>1. /\ UNCHANGED received /\ replayed' = replayed \cup {k}
      /\ row[k].status = "dead" /\ row'[k] = PendingRow
      /\ \A j \in Keys \ {k} : row'[j] = row[j]
  BY Typed DEF Inv, ReplayWebhookDelivery
<1>2. letterOf(row[k]) = "givenUp" /\ letterOf(row'[k]) = "open"
  BY <1>1, Letter, LettersMade
<1>3. Promise!Move({k}, {"givenUp"}, "open")  BY <1>1, <1>2, MoveLetters
<1>4. Promise!Reopen(k)  BY <1>1, <1>3 DEF Promise!Reopen
<1> QED  BY <1>4 DEF Promise!Next

\* A POST arrives for an open letter that none holds up.
LEMMA ArriveKeepsPromise ==
  ASSUME Inv, NEW w \in Workers, arrive(w)
  PROVE  Promise!Next
<1> DEFINE k == worker[w].key
<1>1. /\ worker[w].at = "posting" /\ k \in Keys
      /\ UNCHANGED <<row, replayed>> /\ received' = received \cup {k}
  BY Typed DEF Inv, arrive
<1>2. letterOf(row[k]) = "open"
  BY <1>1, Letter DEF Inv, PostsHold, ClaimCurrent, Unfinished
<1>3. \A j \in Promise!Ahead(k) \ replayed : letterOf(row[j]) # "open"
  BY <1>1, Letter DEF Inv, LaneClear, Lane, Promise!Ahead, Promise!SameLane
<1>4. Promise!HandOver(k)
  BY <1>1, <1>2, <1>3 DEF Promise!HandOver, Promise!Ahead
<1> QED  BY <1>1, <1>4 DEF Promise!Next

\* A commit settles the letter as the worker says, or withdraws it if the endpoint
\* went away meanwhile; a lost claim and a retry change nothing.
LEMMA CommitKeepsPromise ==
  ASSUME Inv, Inv', NEW w \in Workers, CommitWebhookClaim(w)
  PROVE  [Promise!Next]_(Promise!vars)
<1> DEFINE k == worker[w].key
           result == worker[w].result
<1>1. /\ UNCHANGED <<received, replayed>>
      /\ worker[w].at = "committing" /\ k \in Keys /\ result \in Results
  BY Typed, WorkerShape DEF CommitWebhookClaim, Inv
<1>2. CASE ~ClaimCurrent(w, k)
  BY <1>1, <1>2, KeepLetters DEF CommitWebhookClaim
<1>3. CASE ClaimCurrent(w, k)
  <2>1. /\ row'[k] = CommittedRow(k, result)
        /\ \A j \in Keys \ {k} : row'[j] = row[j]
    BY <1>1, <1>3, Typed DEF CommitWebhookClaim, Inv
  <2>2. letterOf(row[k]) = "open"
    BY <1>1, <1>3, Letter DEF ClaimCurrent, Unfinished
  <2>3. /\ row'[k] \in Row /\ row'[k].was = "none"
        /\ row'[k].status = IF endpoint[EndpointOf(k)].deleted THEN "cancelled" ELSE result
    BY <1>1, <2>1, CommittedRowShape, Typed DEF Inv
  <2>4. CASE row'[k].status = "cancelled"
    <3>1. letterOf(row'[k]) = "withdrawn"  BY <2>3, <2>4, LetterOf
    <3>2. Promise!Move({k}, {"open", "givenUp"}, "withdrawn")
      BY <1>1, <2>1, <2>2, <3>1, MoveLetters
    <3>3. Promise!Withdraw({k})  BY <1>1, <3>2 DEF Promise!Withdraw
    <3> QED  BY <1>1, <3>3 DEF Promise!Next
  <2>5. CASE row'[k].status = "succeeded"
    <3>1. letterOf(row'[k]) = "acknowledged"  BY <2>3, <2>5, LetterOf
    <3>2. Promise!Move({k}, {"open"}, "acknowledged")
      BY <1>1, <2>1, <2>2, <3>1, MoveLetters
    <3>3. result = "succeeded"  BY <2>3, <2>5
    <3>4. k \in received  BY <1>1, <3>3 DEF Inv, SuccessArrived
    <3>5. Promise!Acknowledge(k)  BY <1>1, <3>2, <3>4 DEF Promise!Acknowledge
    <3> QED  BY <1>1, <3>5 DEF Promise!Next
  <2>6. CASE row'[k].status = "dead"
    <3>1. letterOf(row'[k]) = "givenUp"  BY <2>3, <2>6, LetterOf
    <3>2. Promise!Move({k}, {"open"}, "givenUp")
      BY <1>1, <2>1, <2>2, <3>1, MoveLetters
    <3>3. Promise!GiveUp(k)  BY <1>1, <3>2 DEF Promise!GiveUp
    <3> QED  BY <1>1, <3>3 DEF Promise!Next
  <2>7. CASE row'[k].status = "pending"
    <3>1. letterOf(row'[k]) = "open"  BY <2>3, <2>7, LetterOf
    <3> QED  BY <1>1, <2>1, <2>2, <3>1, KeepLetters
  <2> QED  BY <1>1, <2>3, <2>4, <2>5, <2>6, <2>7 DEF Results
<1> QED  BY <1>2, <1>3

\* Claims, answers, leases, pruning and faults are nothing to the mailbox.
LEMMA RestKeepsPromise ==
  ASSUME Inv, Inv',
         \/ \E w \in Workers : ClaimWebhookDue(w) \/ deliver(w) \/ SlowCommit(w) \/ CommitFails(w)
         \/ \E k \in Keys : PruneWebhookDeliveries(k) \/ ComesDue(k) \/ LeaseLapses(k)
         \/ Crash
  PROVE  UNCHANGED Promise!vars
<1>1. UNCHANGED <<received, replayed>>
  BY DEF ClaimWebhookDue, deliver, SlowCommit, CommitFails, PruneWebhookDeliveries, ComesDue,
         LeaseLapses, Crash
<1>2. ASSUME NEW k \in Keys, row'[k] # row[k]
      PROVE  \/ Unfinished(k) /\ Unfinished(k)'
             \/ row'[k].status = row[k].status /\ row'[k].was = row[k].was
             \/ /\ row[k].status \in {"succeeded", "cancelled"}
                /\ row'[k].status = "pruned" /\ row'[k].was = row[k].status
  <2>1. CASE \E w \in Workers : ClaimWebhookDue(w)
    <3>1. PICK w \in Workers : ClaimWebhookDue(w)  BY <2>1
    <3> DEFINE attempt(j) == IF row[j].attempts < MaxAttempts THEN row[j].attempts + 1 ELSE MaxAttempts
    <3>2. PICK j \in Keys :
            /\ Claimable(j)
            /\ row' = [row EXCEPT ![j].status = "delivering", ![j].lease = "live",
                                  ![j].claim = w, ![j].attempts = attempt(j)]
      BY <3>1 DEF ClaimWebhookDue
    <3> HIDE DEF attempt
    <3>3. k = j /\ row'[k].status = "delivering"
      BY <1>2, <3>2, Typed DEF Inv, Row
    <3> QED  BY <3>2, <3>3 DEF Claimable, Unfinished
  <2>2. CASE \E j \in Keys : PruneWebhookDeliveries(j)
    BY <1>2, <2>2, Typed DEF PruneWebhookDeliveries, Inv, Row
  <2>3. CASE \E j \in Keys : ComesDue(j) \/ LeaseLapses(j)
    BY <1>2, <2>3, Typed DEF ComesDue, LeaseLapses, Inv, Row
  <2>4. CASE \E w \in Workers : SlowCommit(w)
    BY <1>2, <2>4, Typed DEF SlowCommit, Inv, Row
  <2>5. CASE Crash \/ \E w \in Workers : deliver(w) \/ CommitFails(w)
    BY <1>2, <2>5 DEF deliver, CommitFails, Crash
  <2> QED  BY <2>1, <2>2, <2>3, <2>4, <2>5
<1>3. \A k \in Keys : row[k] \in Row /\ row'[k] \in Row
  BY DEF Inv, TypeOK
<1>4. ASSUME NEW k \in Keys PROVE letterOf(row'[k]) = letterOf(row[k])
  <2>1. CASE Unfinished(k) /\ Unfinished(k)'
    BY <1>3, <2>1, LetterOf DEF Inv, RowsPruned, Unfinished
  <2>2. CASE row'[k].status = row[k].status /\ row'[k].was = row[k].was
    BY <2>2 DEF letterOf
  <2>3. CASE /\ row[k].status \in {"succeeded", "cancelled"}
             /\ row'[k].status = "pruned" /\ row'[k].was = row[k].status
    BY <1>3, <2>3, LetterOf DEF Inv, RowsPruned
  <2> QED  BY <1>2, <2>1, <2>2, <2>3
<1> QED  BY <1>1, <1>4, KeepLetters

\* Every step of the outbox is a step of the mailbox or none at all.
LEMMA StepPromise == Inv /\ Inv' /\ [Next]_vars => [Promise!Next]_(Promise!vars)
<1> SUFFICES ASSUME Inv, Inv', [Next]_vars PROVE [Promise!Next]_(Promise!vars)  OBVIOUS
<1>1. CASE UNCHANGED vars  BY <1>1, KeepLetters DEF vars
<1>2. ASSUME NEW w \in Workers, arrive(w) PROVE Promise!Next
  BY <1>2, ArriveKeepsPromise
<1>3. ASSUME NEW e \in Endpoints, EnqueueTestDelivery(e) PROVE Promise!Next
  BY <1>3, Inserts, InsertKeepsPromise
<1>4. ASSUME NEW type \in Subscribable, NEW d \in Downloads, emitDownloadEvent(type, d)
      PROVE  Promise!Next
  BY <1>4, Inserts, InsertKeepsPromise
<1> QED
  BY <1>1, <1>2, <1>3, <1>4, EndpointsKeepPromise, ReplayKeepsPromise, CommitKeepsPromise,
     RestKeepsPromise
     DEF Next, Operator, Dispatcher

\* The outbox, its dispatcher, crashes and lost commits included, is a mailbox:
\* in order per lane, nothing after the end of a delivery, no success without an
\* arrival (internal/store/repository_outbox.go, internal/webhook).
THEOREM OutboxIsMailbox == Spec => KeepsPromise
  BY InitPromise, StepPromise, Invariant, PTL DEF Spec, KeepsPromise, Promise!Spec
=============================================================================

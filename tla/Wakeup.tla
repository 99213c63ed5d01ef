------------------------------- MODULE Wakeup -------------------------------
(***************************************************************************)
(* How a scheduler's workers sleep and are woken: the worker loop of       *)
(* internal/reconcile/reconcile.go with the two queries it turns on,       *)
(* ClaimDue and NextDue, and the requests that make rows due and call      *)
(* Wake.  What a worker does with a row is Workflow's; here a step keeps   *)
(* the row for a while and leaves it at rest or due again.                 *)
(*                                                                         *)
(* A settings save replaces the scheduler (Runtime).  The module follows   *)
(* the scheduler in office; of a retired one it keeps the claims its       *)
(* workers may still commit, and the requests that would wake it.          *)
(*                                                                         *)
(* Times are what is left of them, so the clock needs no bound: a Tick     *)
(* brings every due time, lease and timer nearer.                          *)
(***************************************************************************)
EXTENDS Naturals, FiniteSets, FiniteSetsExt

CONSTANTS
  Rows, Workers,
  Handlers,         \* requests of the APIs that change rows
  NoWorker,
  pollInterval, leaseDuration

ASSUME WakeupAssumption ==
  /\ pollInterval \in Nat \ {0} /\ leaseDuration \in Nat \ {0}
  /\ Workers # {} /\ NoWorker \notin Workers /\ "retired" \notin Workers

Never == pollInterval + leaseDuration + 1    \* a row at rest has no next run
Dues == 0..pollInterval
Waits == 0..Max({pollInterval, leaseDuration})

VARIABLES
  row,           \* next_run_at and lease_until, and who may still commit
  worker,
  token,         \* does the wake channel hold its one token
  handler,       \* requests under way, and the rows each has changed
  unannounced    \* history: rows changed with nobody to announce them, until a worker looks

vars == <<row, worker, token, handler, unannounced>>

WorkerStates ==
  [at : {"step", "idle"}] \union [at : {"busy"}, row : Rows]
  \union [at : {"resting", "asleep", "backoff"}, until : Waits]

TypeOK ==
  /\ row \in [Rows -> [due : Dues \union {Never}, lease : 0..leaseDuration,
                       claimant : Workers \union {"retired", NoWorker}]]
  /\ worker \in [Workers -> WorkerStates]
  /\ token \in BOOLEAN
  /\ handler \in [Handlers -> [at : {"idle", "live", "stale"}, changed : SUBSET Rows]]
  /\ unannounced \subseteq Rows

Stepping == [w \in Workers |-> [at |-> "step"]]
NoRequest == [at |-> "idle", changed |-> {}]

Init ==
  /\ row \in [Rows -> [due : {0, Never}, lease : {0}, claimant : {NoWorker}]]
  /\ worker = Stepping
  /\ token = FALSE
  /\ handler = [h \in Handlers |-> NoRequest]
  /\ unannounced = {}

Nearer(t) == IF t \in {0, Never} THEN t ELSE t - 1

Tick ==
  /\ row' = [r \in Rows |-> [row[r] EXCEPT !.due = Nearer(@), !.lease = Nearer(@)]]
  /\ worker' = [w \in Workers |->
       IF worker[w].at \in {"resting", "asleep", "backoff"} THEN [worker[w] EXCEPT !.until = Nearer(@)] ELSE worker[w]]
  /\ UNCHANGED <<token, handler, unannounced>>

-----------------------------------------------------------------------------
(* A worker                                                                *)

Claimable(r) == row[r].due = 0 /\ row[r].lease = 0

Go(w, state) == worker' = [worker EXCEPT ![w] = state]

\* The row that has been due longest; how long is not kept, so any of them.
ClaimDue(w, r) ==
  /\ worker[w].at = "step" /\ Claimable(r)
  /\ row' = [row EXCEPT ![r].lease = leaseDuration, ![r].claimant = w]
  /\ Go(w, [at |-> "busy", row |-> r])
  /\ unannounced' = unannounced \ {r}
  /\ UNCHANGED <<token, handler>>

NothingDue(w) ==
  /\ worker[w].at = "step" /\ \A r \in Rows : ~Claimable(r)
  /\ Go(w, [at |-> "idle"])
  /\ UNCHANGED <<row, token, handler, unannounced>>

Released(due) == [due |-> due, lease |-> 0, claimant |-> NoWorker]

\* A claim that was lost changes nothing.
CommitClaim(w) ==
  LET r == worker[w].row
  IN  /\ worker[w].at = "busy"
      /\ IF row[r].claimant = w
         THEN \E due \in Dues \union {Never} : row' = [row EXCEPT ![r] = Released(due)]
         ELSE UNCHANGED row
      /\ Go(w, [at |-> "step"])
      /\ UNCHANGED <<token, handler, unannounced>>

Abandoned(w) == [r \in Rows |-> IF row[r].claimant = w THEN [row[r] EXCEPT !.claimant = NoWorker] ELSE row[r]]

\* The store answers a claim, a commit or NextDue with an error.
Fail(w) ==
  /\ worker[w].at \in {"step", "busy", "idle"}
  /\ Go(w, [at |-> "backoff", until |-> pollInterval])
  /\ row' = Abandoned(w)
  /\ UNCHANGED <<token, handler, unannounced>>

\* A plausible slip: rows at rest are not left out.
EffectiveDueOfAll == {Max({row[r].due, row[r].lease}) : r \in Rows}

EffectiveDue == {Max({row[r].due, row[r].lease}) : r \in {q \in Rows : row[q].due # Never}}

\* A plausible slip: a worker with nothing to wait for relies on being woken.
SleepOn(dues) == IF dues = {} THEN Never ELSE Min(dues)

WaitUntil(dues) == IF dues = {} THEN pollInterval ELSE Min(dues)

NextDue(w) ==
  /\ worker[w].at = "idle"
  /\ Go(w, [at |-> "resting", until |-> WaitUntil(EffectiveDue)])
  /\ unannounced' = {}
  /\ UNCHANGED <<row, token, handler>>

\* The timer is set for what NextDue said, whatever has changed since.
Wait(w) ==
  /\ worker[w].at = "resting"
  /\ Go(w, [worker[w] EXCEPT !.at = "asleep"])
  /\ UNCHANGED <<row, token, handler, unannounced>>

Sleeping(w) == worker[w].at \in {"asleep", "backoff"}

TakeToken(w) ==
  /\ Sleeping(w) /\ token
  /\ token' = FALSE
  /\ Go(w, [at |-> "step"])
  /\ UNCHANGED <<row, handler, unannounced>>

TimerFires(w) ==
  /\ Sleeping(w) /\ worker[w].until = 0
  /\ Go(w, [at |-> "step"])
  /\ UNCHANGED <<row, token, handler, unannounced>>

-----------------------------------------------------------------------------
(* Requests                                                                *)

BeginRequest(h) ==
  /\ handler[h].at = "idle"
  /\ handler' = [handler EXCEPT ![h].at = "live"]
  /\ UNCHANGED <<row, worker, token, unannounced>>

\* One hash after another, each in a transaction of its own: the row is due at
\* once, its version moves on, its lease stays.
ChangeRow(h, r) ==
  /\ handler[h].at # "idle" /\ r \notin handler[h].changed
  /\ row' = [row EXCEPT ![r].due = 0, ![r].claimant = NoWorker]
  /\ handler' = [handler EXCEPT ![h].changed = @ \union {r}]
  /\ unannounced' = IF handler[h].at = "stale" THEN unannounced \union {r} ELSE unannounced
  /\ UNCHANGED <<worker, token>>

\* A plausible slip: a wake-up that no worker is ready for is dropped.
Handoff == \E w \in Workers : Sleeping(w)

Buffered == TRUE

\* A request that changed a row ends with Wake, on the scheduler it was built with.
Wake(h) ==
  /\ handler[h].at # "idle"
  /\ token' = (token \/ (handler[h].at = "live" /\ handler[h].changed # {} /\ Buffered))
  /\ handler' = [handler EXCEPT ![h] = NoRequest]
  /\ UNCHANGED <<row, worker, unannounced>>

\* The next hash is refused, or the request dies: it wakes nobody.
RequestFails(h) ==
  /\ handler[h].at # "idle"
  /\ unannounced' = unannounced \union handler[h].changed
  /\ handler' = [handler EXCEPT ![h] = NoRequest]
  /\ UNCHANGED <<row, worker, token>>

-----------------------------------------------------------------------------
(* Another scheduler takes over                                            *)

RetiredClaims == {r \in Rows : row[r].claimant = "retired"}

\* Apply: new workers start before the old ones are cancelled; the next swap
\* waits for those. A restart of the process is a swap after which the old
\* workers and requests are never heard of again; the leases stay as well.
Swap ==
  /\ RetiredClaims = {}
  /\ row' = [r \in Rows |-> IF row[r].claimant \in Workers THEN [row[r] EXCEPT !.claimant = "retired"] ELSE row[r]]
  /\ worker' = Stepping
  /\ token' = FALSE
  /\ handler' = [h \in Handlers |-> IF handler[h].at = "live" THEN [handler[h] EXCEPT !.at = "stale"] ELSE handler[h]]
  /\ unannounced' = {}

\* A worker of the old scheduler commits just before it is cancelled.
RetiredCommits(r) ==
  /\ row[r].claimant = "retired"
  /\ \E due \in Dues \union {Never} : row' = [row EXCEPT ![r] = Released(due)]
  /\ unannounced' = unannounced \union {r}
  /\ UNCHANGED <<worker, token, handler>>

RetiredLeaves(r) ==
  /\ row[r].claimant = "retired"
  /\ row' = [row EXCEPT ![r].claimant = NoWorker]
  /\ UNCHANGED <<worker, token, handler, unannounced>>

-----------------------------------------------------------------------------
WorkerStep(w) ==
  \/ \E r \in Rows : ClaimDue(w, r)
  \/ NothingDue(w) \/ CommitClaim(w) \/ NextDue(w) \/ Wait(w) \/ TakeToken(w) \/ TimerFires(w)

Next ==
  \/ Tick
  \/ \E w \in Workers : WorkerStep(w) \/ Fail(w)
  \/ \E h \in Handlers : BeginRequest(h) \/ Wake(h) \/ RequestFails(h)
  \/ \E h \in Handlers, r \in Rows : ChangeRow(h, r)
  \/ Swap
  \/ \E r \in Rows : RetiredCommits(r) \/ RetiredLeaves(r)

Spec == Init /\ [][Next]_vars

\* Time passes, goroutines run, calls and timers end. The row that has been due
\* longest is claimed first, and a store that answers at all does not fail its
\* claim for ever: SF on that. Nothing is assumed of requests or swaps.
Fairness ==
  /\ WF_vars(Tick)
  /\ \A w \in Workers : WF_vars(WorkerStep(w))
  /\ \A r \in Rows : SF_vars(\E w \in Workers : ClaimDue(w, r))

FairSpec == Spec /\ Fairness

-----------------------------------------------------------------------------
(* Properties                                                              *)

\* While a row is due some worker is awake, about to wake, or backing off from an
\* error of the store, or the wake-up is still to come; the exceptions are the
\* rows whose change nobody announces (Wake, worker, wait).
NobodyOversleeps ==
  \A r \in Rows \ unannounced :
    Claimable(r) =>
      \/ token
      \/ \E w \in Workers : worker[w].at \in {"resting", "asleep"} => worker[w].until = 0
      \/ \E h \in Handlers : handler[h].at = "live" /\ r \in handler[h].changed

\* Even a change nobody announced is found, when the sleep ends: a due row is
\* claimed in the end (worker, NextDue).
DueIsClaimed == \A r \in Rows : Claimable(r) ~> ~Claimable(r)
=============================================================================

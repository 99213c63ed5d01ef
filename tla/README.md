# CD211, specified and checked

CD211 is a qBittorrent-compatible front end to CloudDrive2: it accepts a magnet
or a torrent, lets CloudDrive2 download it in the cloud, copies the result into
a local workspace, verifies it, and reports it to Sonarr and Radarr. It keeps
every download as a row of one SQLite table and drives each row through a
state machine with several workers, any of which may die at any point.

Beside that protocol run an event outbox with a webhook dispatcher, a feed that
clients poll, sessions with a login limiter, and a runtime that is swapped while
it serves.

This directory holds TLA+ modules for these parts, the TLC configurations that
check them on small instances, and TLAPS proofs of the theorems that hold for
every instance. Paths below are relative to the
repository; `reconcile.go` is `internal/reconcile/reconcile.go`,
`repository.go` is `internal/store/repository.go`.

    tlc -workers 2 -config Workflow_faults.cfg MCWorkflow
    tlc -workers 2 -config Outbox_delivery.cfg MCOutbox
    tlapm WorkflowProofs.tla        (then EffectProofs, OutboxProofs, EventFeedProofs,
                                     SessionsProofs, RuntimeProofs, WakeupProofs,
                                     FilePlanProofs)

## The system

| Component | State it keeps | Operations | What is hard about it |
|---|---|---|---|
| Domain rules (`internal/domain`) | none: states, transitions, phase prerequisites, problem codes | `CanTransition`, `RetryTarget`, `ValidateDownload` | which columns may be set together after a long history |
| Store (`internal/store`) | `downloads`: state, paths, evidence, `next_run_at`, lease, `row_version` | `ClaimDue`, `CommitClaim`, `CreateSubmission`, start, pause, cancel, delete, retry, reverify, labels | intents that land between claim and commit; intents that clear leases |
| Reconciler (`reconcile.go`) | none of its own: one claimed row per worker | `Step` = claim, one external operation, commit | crashes and overruns between the three; outcomes nobody accepts |
| CloudDrive2 client (`internal/clouddrive`) | a token; the tasks live in CloudDrive2 | ensure, inspect, cancel offline task; ensure, inspect, remove copy | calls that take effect and report a failure; tasks that disappear |
| Filesystem (`internal/fsafe`) | the local workspaces | preflight, verify, delete, file plans | partial trees, interrupted deletion, somebody else's file at a legacy destination; a plan that stops half way or runs twice |
| Submission (`internal/submission`) | none | parse, prepare paths, insert or revive a row | verified content of a deleted row is checked before the transaction that keeps it |
| Outbox and webhook dispatcher (`repository_outbox.go`, `internal/webhook`) | events, endpoints, subscriptions, deliveries with leases | fan-out, claim, POST, commit, replay, disable, delete, prune | order per aggregate; endpoints that change under an attempt in flight |
| Event signal, feed, wait endpoint (`internal/outbox`, `internal/nativeapi`) | a broadcast channel; cursors held by clients | long poll, page, final scan | a commit between the read and the wait; cursors at page ends |
| Scheduler wake-up (`reconcile.go`) | one token in a channel | `Wake`, `NextDue`, idle wait | a row becoming due while the last worker falls asleep |
| Sessions and login limiter (`internal/session`) | session rows; a bounded map of failures | create, refresh, revoke, purge; authorize | a refresh racing a revocation, an expiry or another refresh; eviction of a ban |
| Runtime manager (`cmd/cd211/runtime.go`) | the current generation; the stored settings | save, `Apply`, serve loop, `shutdown` | two generations overlapping; a swap racing shutdown; saves overtaking each other |
| HTTP surfaces (`httpapi`, `web`) | none | translate requests into the store's operations; rename completed files | a target or a path computed from an earlier read; disk first, store second; bulk requests that stop half way |

They interact in four ways. HTTP handlers change rows through short
transactions of the store. The reconciler's workers change rows through claim
and commit, and CloudDrive2 and the disk through calls made with no transaction
open. Every mutation that emits an event inserts it in its own transaction and
then notifies the signal; the dispatcher and the long polls read from there.
Handlers wake the scheduler through a channel.

What makes the parts correct:

- *rows*: every stored row can be read back, claimed and worked on; a resting
  row is neither leased nor due;
- *claims*: one worker at a time per hash; an outcome that is still current is
  accepted, one that is not changes nothing;
- *intents*: a pause or delete that was answered with success stays in force;
  cleanup leaves no task running and no file behind, and takes no file that
  CD211 did not write;
- *completion*: a completed download has its content;
- *progress*: no workflow runs for ever, no accepted cleanup is forgotten;
- *files*: a plan can be interrupted and repeated; a name shows its content, and
  content goes only where the operator excluded it or a retry copies it anew;
- *deliveries*: order per endpoint and aggregate, nothing after the end, no
  delivery forgotten;
- *feed*: no event lost or repeated between pages, or slept through;
- *wake-ups*: no worker sleeps past a due row;
- *sessions*: none comes back, none in use expires, a ban runs its time;
- *generations*: one at a time, none after the store has closed.

`PROJECT.json` lists every component with its status and every hazard at the
line where it bites.

## The modules

**`Domain`** translates `internal/domain` and the evidence rules of
`reconcile.go`: states and `Successors` (`CanTransition`), `RetryTarget`,
`ValidDownload`, and reading and writing `last_upstream_status`. A row keeps
paths and timestamps as "is it set". The status string, `prefix;base`, is two
fields: `mark` (`cancelled` or `removed`) and `upstream`. Problem codes fall
into the classes that `RetryTarget` and the deadline rule tell apart.

**`Workflow`** is the protocol. Its variables and their counterparts:

| Variable | In the code |
|---|---|
| `download` | the columns of `downloads` |
| `lease` | `lease_owner`/`lease_until`: free, in force, or past |
| `version` | `row_version`, of which only equality is ever read |
| `claim` | a worker inside `Scheduler.Step`: the `store.Claim` and the row `decide` works on |
| `retryPlan` | the targets that requests have computed by `RetryTarget` and not yet applied by `Retry` |
| `offline`, `copy` | CloudDrive2's two tasks for the hash |
| `disk` | the row's workspace, or the destination of a legacy row |
| `acked` | the last intent answered with success (a history variable) |

A worker takes `Step` in three steps. `ClaimDue` is the transaction of the same
name. Then comes one branch of `decide`, each an action of its own
(`EnsureOffline`, `PreflightLocal`, `PauseDeleteCopy`, ...) whose guard is the
branch's condition and the early returns before it, and whose effect is the
external call and the row it decides on. Then `CommitClaim`, `CommitConflict`
(the unique index refuses the destination, `Step` commits a failure) or
`CommitRefused`. `Crash` may happen between any two: it also stands for
shutdown, and for a database error, after which `Step` drops its work. Each
intent is one action with the guard of its UPDATE's WHERE clause. `Operator`,
`Cloud` and `Clock` may act between any two steps of a worker.

A call that changes CloudDrive2 may take effect and succeed, take effect and
report a failure, or fail (`MayLand`). Past the operation deadline `Step`
reschedules the row whatever was decided (`Decided`). The lease lapses only when
no worker is deciding on the row, because the operation context ends before the
lease by a margin; `SlowFilesystem` drops that for the filesystem, whose
interface takes no context.

**`Outbox`** is the outbox and the dispatcher. `row` is `webhook_deliveries`,
keyed by event, endpoint and aggregate; `claim` stands for `row_version`, as the
worker whose claim carries it. A worker claims (`ClaimWebhookDue`), posts (the
request may `arrive` any number of times while the POST lasts, and `deliver`
answers, truly or not at all), and commits by compare-and-swap. The operator
creates, updates, disables and deletes the endpoint in between. The retry window
of 24 hours is two attempts: the first never exhausts it, the last always has.
**`Mailbox`** is the promise to the receivers, with neither rows nor leases nor
workers: letters are handed over in order while they are open. `KeepsPromise` is
the refinement: `letterOf` maps a row's status to a letter's.

**`FilePlan`** is one torrent of several files, its overrides, and the disk under
them. `verifyAndRecord` (a worker) and `renameFile`/`renameFolder` (requests, on
a completed download) each apply a plan; any number of requests may be served at
once, as nothing in `httpapi` or `fsafe` keeps them apart. A request reads the row
(`Ask`), validates its plan (`Validate`), applies it and stores the names (`Store`).
`LookToStage` is the `os.Lstat` and `Stage` the `os.Rename` that follows it in a step
of its own, likewise for `Publish` and `Exclude`, in any order within a phase, since
the code walks over maps. A failed verification is retried as in
`domain.RetryTarget`: from SUBMITTING_COPY, which empties the workspace entry by entry
(`deleteEntry`, `deleteCopyWorkspace`) and copies again, or, once the deadline there
has passed (`timedOut`), by another verification. A content is named
by the file it belongs to, while the code, and every guard here, sees its size
only. Two history variables: `disturbed` counts the requests that did not run alone to
their end, and a plan is `raced` when another one was applied, or the disk changed by
another hand, during it.
`FreshNames` and `FoldersApart` are two conditions on the names an operator chooses;
the code does not check them, and the theorems say what holds where they are met.

**`Sessions`** is `internal/session`: `Get` one statement at a time for several
requests, `CreateSession` with its evictions, and the login limiter, whose
mutex makes each call a step. Its clock is a small number that stops.

**`EventFeed`** is the signal and its two readers. `signal` counts the channels
closed so far, so a snapshot is a number, and it is closed when the number is no
longer the count. A commit and its `Notify` are two steps. Each statement of
`serveEvents`, `finalEventsScan` and `serveDownloadWait` is a step. The query's
ORDER BY is `InOrder`, the function that puts the n-th smallest sequence at n.

**`Runtime`** is the process: `manager.mu` is `holder`; a save persists, takes
the lock, builds, activates and cancels (one step, as nothing that happens in
between reads more than one of their variables), and waits for the previous
generation. `main` is the serve loop and what follows it. A generation is its
phase, its settings, and how many of its workers have not left.

**`Wakeup`** is the worker loop seen from `ClaimDue`, `NextDue` and the channel:
what a step does with its row is left open. Times are what is left of them, so
the clock needs no bound. `Swap` replaces the scheduler; requests and claims of
the retired one linger. `unannounced` remembers rows whose change nobody will
announce.

The modules meet in a few places. `Outbox.emitDownloadEvent` and
`EventFeed.commitEventTx` are the transactions that `Workflow.CommitClaim` and
the intents run in; `Runtime`'s generations are the schedulers that `Wakeup`
swaps, and add workers to those of `Workflow`, under the same lease owner.
`Wakeup.DueIsClaimed` is what justifies that `Workflow` assumes `ClaimDue` fair;
`FilePlan` looks into the verification that `Workflow.Verification` takes for
one step.

**The `MC` modules** add symmetry where values are only compared, and the small
sets of files and paths. The modules named `...Proofs` hold the theorems, each about
the module it is named after; **`EffectProofs`** continues `WorkflowProofs` from the
downloads table to the tasks, the files and the operators' intents.

Definitions whose comment begins "A plausible slip" are variants of the
definition next to them. The specification does not use them; substituted for
it, each breaks the property that `PROJECT.json` pairs it with, which is how we
know that the properties say something about these lines.

## What the runs check

Nine runs hold.

- **`Workflow_faults`** (423,139 states): one worker, every intent, every
  failing answer, crashes, vanished tasks and content, a row that may be legacy
  or isolated. Stored rows stay valid (`RowsValid`); current outcomes commit
  (`NoStuckClaim`); resting rows are unleased (`QuietRowsUnleased`); cancelled
  and deleted rows leave no task running (`NoOrphanedWork`); deletion with files
  leaves nothing CD211 copied (`DeletedFilesAreGone`); a pause or delete stays in
  force (`IntentHonoured`).
- **`Workflow_workers`** (1,043,525 states): two workers race while leases lapse,
  claims are lost, and copy tasks are forgotten. `SingleOperator`;
  `NoDeleteUnderLiveCopy`, an action property; `CompletedHasContent`; a paused
  row has nothing running (`PauseStopsUpstreamWork`); and the types.
- **`Workflow_liveness`** (119,273 states): `ActiveSettles` and `CleanupSettles`
  under `FairSpec`, with a cloud that may never report an end, that may answer
  temporarily (or unauthorized, which is rescheduled alike) for ever or reject, files
  that may refuse, and any number of lost claims. An accepted cleanup is carried out or
  visibly `Blocked`, unless its
  attempts fail temporarily again and again (`Postponed`), which reschedules it without
  a count (`reconcile.go:1042`). `ForeignContentKeptButByPause` for a legacy row, with
  pauses before and after. Symmetry is off, as liveness requires. A retry may apply
  SUBMITTING_COPY from an earlier read beside the target of the row it finds.

- **`Outbox_delivery`** (290,174 states): two workers, two events, one endpoint
  with the lane of a download and its own, a crash or a late commit, a replay.
  The outbox implements `Mailbox` (`KeepsPromise`). Two POSTs of one lane never
  overlap unless one was replayed (`OnePostPerLane`); a POST in flight always has
  its row (`PostsAreCurrent`); a delivery of an enabled endpoint ends
  (`DeliverySettles`).
- **`FilePlan_fresh`** (458,591 states): two files of the same or different sizes,
  two requests beside the worker, renames and exclusions before and after completion,
  rechecks, retries that copy again, two crashes, one disturbed
  request. A plan that is interrupted or repeated converges (`PlanConverges`);
  names show their content (`NamesTellContent`); under plans that have the disk to
  themselves content disappears only by exclusion, or as a retry empties the workspace
  (`LostOnlyByExclusion`). No file is given the manifest path of the
  other, which `plan_recheck` shows to be needed; the names satisfy `FreshNames` and
  `FoldersApart`, which an assumption of `MCFilePlan` has TLC evaluate.
- **`Sessions`** (711,515 states): two requests, two sessions in a table of one,
  two addresses in a table of one. `SessionsOnlyRenewed`, `UsedSessionsLast`,
  `BansHold`.
- **`EventFeed`** (135,311 states): a client with pages of one event and a waiter,
  two events and a third notification, lost connections, restarts. `FeedExact`,
  `NoSleepThroughCommit`, and, for a client that polls on, `FeedCatchesUp`.
- **`Runtime`** (39,936 states): two saves, three generations of two workers, the
  shutdown at any moment. `OneGenerationRuns`, `StoreOutlivesWorkers`,
  `NoFalseAlarm`, `SavedIsServed`, `ShutdownEnds`.
- **`Wakeup`** (188,911 states): two rows, two workers, one request, leases, store
  errors, swaps. `NobodyOversleeps`, `DueIsClaimed`.

Three runs end in a counterexample, because the code does not do what a document,
a comment or a test of the repository says. Each is a finding in `PROJECT.json`.

- **`pause_foreign`**: pausing a legacy row between reserving the destination and
  the preflight deletes a file that was there first; delete asks for evidence of
  ownership, pause does not (`reconcile.go:565`).
- **`stale_retry`**: a retry target from an earlier read stores a phase whose
  prerequisites are missing; the row can no longer be claimed (`repository.go:831`).
- **`plan_recheck`**: two renames that form a chain are carried out once; a recheck
  of the completed download finds the one file at the manifest path of the other,
  refuses the plan, and the download ends FAILED (`fsafe/plan.go:115`).

The passing runs exclude these circumstances and a few more, all by constants or
by the wording of a property. `faults` and `workers` have `AtomicRetry`, that is,
`StaleTargets = {}`, and every run `~SlowFilesystem`. `PauseStopsUpstreamWork` is checked
without retry (`PausedMeansStopped` proves it with
retry as long as content is not lost); `ForeignContentKeptButByPause` excuses the step
that the finding is about; `CleanupSettles` excuses a cleanup that is `Postponed` for
ever; `IntentHonoured` does not speak of cancel;
`CompletedHasContent` asks of a
magnet only that something is there; `FilePlan`'s `disturbed` and `raced`, `Runtime`'s
`diverged` and `Wakeup`'s `unannounced` mark the histories a property excuses.

### Observations

Where the code does something a reader may not expect, without a run of its own:

- A retry that copies again, after the content has disappeared, keeps the first
  copy's content path, so a pause takes the new copy for finished and leaves it
  running (`reconcile.go:532`). While the content is there the preflight finds it in
  the way, and nothing is copied.
- A cancel of a row that is being paused answers success; the row ends STOPPED
  (`repository.go:949`).
- The filesystem calls take no context: one that outlives its lease leaves two
  workers on one hash (`reconcile.go:171`).
- A magnet whose copy task has vanished completes with whatever part has been
  copied (`reconcile.go:437`).
- The rename of a completed file always uses the temporary name of index 0
  (`httpapi/torrents.go:1206`). If it is interrupted, the next verification takes
  what it left for file 0's.
- A rename that read the row before it completed touches no file, and is stored
  after it (`httpapi/torrents.go:1185`): the name shows nothing until a recheck.
  The priority stored with a rename is the one read before it
  (`httpapi/torrents.go:1191`).
- A folder rename can move its files and then be refused. On disk it moves the
  selected files only, and a name that an excluded file has is free there; the store
  renames all files and finds the conflict (`httpapi/torrents.go:1719`,
  `repository_qbt_surface.go:357`). The request fails, the files have moved, and the
  names show nothing (`CHANGELOG.md:47` says that renames keep the two consistent). To
  reproduce: `FilePlan_fresh.cfg` without faults and with `Targets` of
  `0 :> {<<d, a>>, <<e, a>>} @@ 1 :> {<<d, b>>, <<e, a>>}` violates
  `NamesTellContent`: exclude file 1, rename it to `e/a`, complete, rename `d` to `e`.
- Two renames of one completed torrent at the same time may cost a file. Each uses the
  temporary name of index 0 (`httpapi/torrents.go:1206`), each looks whether it is free
  before it moves its file there (`fsafe/plan.go:140`), and nothing keeps the two
  apart: the second move replaces the first file. A rename and a recheck meet in the
  same way, as the operation that publishes has looked at its target before. To
  reproduce: `FilePlan_fresh.cfg` with `LostOnlyByExclusion` as its only property and
  without its condition on `raced` (17 states).
- A retry of a failed verification discards the workspace and copies again
  (`domain/state.go:153`, `reconcile.go:357`). After a request that went wrong, that is
  the way back to a workspace whose names are true.
- A rename onto the manifest path of an excluded file is accepted; verification
  then removes or refuses what lies there.
- Three files of one size renamed in a circle, interrupted between publications,
  are mistaken for each other, as only sizes are compared (`plan.go:84`).
- A delivery under way when its subscription ends is not cancelled; if the attempt
  fails it returns to `pending` and goes out later (`docs/design.md:955` speaks of
  pending and dead rows only). One left `delivering` by a crash when its endpoint
  is deleted stays so for good, while `outbox/outbox.go:34` says that this status
  never persists between attempts.
- `RevokeSession` of a session that a slow request found expired also removes it
  if it has been renewed meanwhile (`session/store.go:217`); the clock would have
  to pass the expiry between two readings.
- Two overlapping saves may persist in one order and be applied in the other; the
  process then runs settings that are not the stored ones until the next save or
  restart (`web/handler.go:1139`).
- A request that fails half way, or that reached a retired generation, wakes
  nobody; its rows are found when a sleep ends, which the next due time bounds,
  not `PollInterval` (`reconcile.go:1287`). One idle worker may also take the
  token and be busy while another sleeps on.

### Bounds

- *One hash.* No operation on one row reads another. The one exception is the
  unique destination index, whose conflict may happen to any legacy commit
  (`CommitConflict`).
- *One or two workers.* Two are needed for overlapping claims. A single worker
  with crashes already shows what a stale claim may do, so the run with every
  fault has one.
- *Versions.* Two more than the workers: `NextVersion` needs one that neither
  the row nor a claim has. As versions are only compared for equality, reusing a
  value nobody holds is the same as counting on.
- *Retry targets.* `StaleTargets` are the targets that retry requests may still hold from
  earlier reads, any number of them per hash: none where `AtomicRetry` is asked for,
  one in the liveness run (two were checked as well, in 376,225 states), all of them in
  `stale_retry`.
- *No counters.* Attempts, backoff and times are gone: a row is due or not, late
  or not, a lease live or lapsed. Nothing is cut off by a state constraint.
- *Outbox.* Two workers and two events of one lane make every overtaking
  possible; `MaxFaults` and `MaxReplays` are one each. Pruning is a row's end and
  needs no count.
- *FilePlan.* Two files are the least that swap, chain or collide; five paths in
  two directories allow both renames. Two requests beside the worker. `MaxCrashes` is
  two: one to leave half a plan behind, one for the attempt to mend it. `MaxDisturbed`
  is one, as what is wrong once stays wrong until the disk is copied anew; with two,
  the same properties hold in 11,330,050 states, more than a run should take.
  Some reads are one step: row and overrides in `Ask`, the `os.Lstat`s of a validation,
  those of a verification, a retry's target and its application (which `Workflow`
  separates). A folder rename stores nothing beyond the names in `Targets`.
- *Sessions.* `MaxClock` of 5 exceeds the time to live of 4 and the ban of 3, so a
  session and a ban can begin after the start and end before the clock stops.
- *EventFeed.* Pages of one event make every page a full one. `MaxEvents` and
  `MaxNotifications` stop the publishers.
- *Runtime.* `MaxGenerations` of three lets two swaps overlap a shutdown; workers
  are two where the code has four, and are counted only.
- *Wakeup.* A lease outlives a poll, as 3 minutes do 15 seconds. The clock is
  unbounded.

### Fairness

Workers loop until the process ends (`worker`, `reconcile.go:1263`) and the
process is restarted when it dies, so each worker's `Decide` and `CommitClaim`
are strongly fair: a crash may interrupt any of them, but not every one for
ever. A row that is due is claimed, since an idle worker looks again when the
next row falls due: `ClaimDue` is strongly fair per hash. Time passes, so leases
lapse and phase deadlines are reached. Nothing is assumed of CloudDrive2, of the
operator, or of the answers a call gives: a cloud may fail temporarily for ever, and
`CleanupSettles` says by `[]<>Postponed(h)` that cleanup then waits for it. Only an
operation that overruns its deadline (`Decided`) every time is left out of the
liveness run: it decides nothing, and the first phase has no deadline of its own.

Likewise in the other modules: goroutines run on, calls and timers end, and time
passes (weak fairness of a worker's, handler's or generation's next step).
Strong fairness is assumed where a step competes: `EventFeed`'s statements of a
client that polls again whenever its connection breaks; in `Runtime`, those who
wait for `manager.mu`, which Go serves in turn; in `Wakeup`, the claim of a row
that has been due longest, which a store that sometimes answers grants. In
`Outbox` the faults are counted, so weak fairness is enough: workers look again
after `outbox.MaxIdlePoll` at the latest. Nobody owes an event, a notification's
absence, a deadline, an intent, or a crash.

## What is proved

A theorem below holds for every value of the constants that satisfies its module's
assumptions (`ConstantsAssumption` and `VersionAssumption` in `Workflow`,
`OutboxAssumption` in `Outbox`, and so on, which TLC evaluates in every run) and
the hypotheses in the column "Assumes", which the theorem states itself.
Almost none of the properties is inductive: each module first names the invariant
that is, which TLC has checked on the runs' constants, and proves it action by
action; the properties follow from it.

### The downloads table: `WorkflowProofs` (1594 obligations)

| Theorem | Assumes | Says |
|---|---|---|
| `TypeCorrect` | | `Spec => []TypeOK` |
| `QuietRowsStayUnleased` | | `Spec => []QuietRowsUnleased` |
| `OneOperatorPerHash` | `~SlowFilesystem` | `Spec => []SingleOperator` |
| `StoredRowsValid` | `AtomicRetry` | `Spec => []RowsValid` |
| `CurrentOutcomesCommit` | `AtomicRetry` | `Spec => []NoStuckClaim` |

The two hypotheses are needed: the run `stale_retry` is the counterexample of one,
and a filesystem call that outlives its lease (*Observations*) of the other.
`VersionAssumption` says that a version nobody holds always exists, as it does for
a counter.

- `QuietInv`: types; a resting row is unleased and not due; a worker only decides
  on rows with work to do, and an outcome that rests is not due. The last clause
  is what makes the commit of such an outcome keep the second.
- `LeaseInv`: moreover, a deciding worker holds the live lease, and no other
  claim on the row has the row's version. An intent keeps the lease of a working
  row, and one that clears a lease finds a resting row, which `QuietInv` says has
  none. So the lease of a row somebody works on is freed by nobody else.
- `SoundInv`: moreover to `QuietInv`, each row's columns fit together (`Sound`),
  and a claim that is still current holds the row it read, or a legal successor
  of it. `RowsValid` alone would not survive a retry, whose target depends on
  `upstream`, `content` and `problem`: `Sound` says what each of them implies
  about the paths. Every write takes a version no claim holds, so a claim on a
  changed row is no longer current.

Each action is examined once: `DecideStep` shows that every branch of `decide`
yields an `Outcome`, `OperatorWrites` that every intent writes a row it may
write, `CommitWrites` that a commit writes a sound row while the claim is
current.

### Intents, tasks and files: `EffectProofs` (3532 obligations)

| Theorem | Assumes | Says |
|---|---|---|
| `IntentsStayInForce` | | `Spec => []IntentHonoured` |
| `CompletedMeansPresent` | `~SlowFilesystem`, `"content" \notin Losses` | `Spec => []CompletedHasContent` |
| `NothingLeftRunning` | `AtomicRetry`, `~SlowFilesystem` | `Spec => []NoOrphanedWork` |
| `DeletedLeavesNothing` | `AtomicRetry`, `~SlowFilesystem` | `Spec => []DeletedFilesAreGone` |
| `NoDeletionUnderCopies` | `AtomicRetry`, `~SlowFilesystem` | `Spec => NoDeleteUnderLiveCopy` |
| `PausedMeansStopped` | the same, and `"retry" \notin Intents \/ "content" \notin Losses` | `Spec => []PauseStopsUpstreamWork` |
| `ForeignContentStays` | | `Spec => ForeignContentKeptButByPause` |

`~SlowFilesystem` is what keeps a second worker from the files and the cloud while
one decides. `"content" \notin Losses` is in the nature of `CompletedHasContent`: a
completed row does not notice that somebody removes its files. That of
`PausedMeansStopped` is the first of the *Observations*. `ForeignContentStays` excuses
what the finding `pause_foreign` shows, and nothing else. `IntentsStayInForce` and
`ForeignContentStays` hold with slow filesystem calls and stale retries too.

- `IntentInv` adds to `QuietInv` that the row says what the operator was told
  (`Honoured`) and that a claim that can still be committed carries the row's
  wishes and turns no pause into a cancel (`ClaimsHonour`). `IntentHonoured`
  itself is too weak: it does not distinguish a cancel from a pause under way,
  which share a state.
- `CompletedInv`: a worker about to complete a row may, because what it verified is
  still there. It needs the lease: otherwise another worker could clear the
  workspace between verification and commit.
- `WorkInv` ties rows to the world. `Evident` is what a row's columns claim of the
  two tasks and the workspace: a known result means the offline task has ended, a
  removed mark or no destination that no copy is running, no proof of ownership
  that nothing was written. `RowsGrounded` says that every row's claims are true,
  `ClaimsGrounded` the same of every outcome that can still be committed. Between
  the two, while a worker decides, an intent may have redirected the row without
  outdating what the worker is about to do to the cloud; therefore
  `ClaimsAligned`: the worker still holds the evidence the row shows. A delete
  then starts from evidence that is still true when the late call has landed.
- `PausedInv` adds that content found once is not copied again (`Once`), which
  where a retry is possible rests on the preflight.
- `ForeignInv`: while foreign content is there, its row, every claim of that row,
  current or not, and every retry that has read it lack all that would make
  `decide` touch the destination, unless to end a pause (`HandsOff`). It needs no lease.

The branches of `decide` are examined for what they write (`DecideRespects`,
`DecideGrounds`, `DecideShifts`) and for what they do outside (`DecideTouches`), the
intents in `OperatorRow`, commits in `CommitRow`; `StepKinds` splits a step into
these.

### The outbox: `OutboxProofs` (768 obligations)

| Theorem | Says |
|---|---|
| `TypeCorrect` | `Spec => []TypeOK` |
| `PostsAreCurrentAlways` | `Spec => []PostsAreCurrent` |
| `LanesAreOrdered` | `Spec => []OnePostPerLane` |
| `OutboxIsMailbox` | `Spec => KeepsPromise` |

Everything rests on the lease of a POST in flight (`PostsHold`): nobody else claims
the row, and since it is `delivering` no operator takes it away. `LaneClear` says
what was true when it was claimed and stays so: what is in front of it in its lane
is finished or was replayed. `SuccessArrived` is what lets a late commit of a
success refine the letter's end. With the invariant, `StepPromise` shows that each
action is a step of `Mailbox` or leaves its letters alone.

### Feed and wait endpoint: `EventFeedProofs` (1247 obligations)

| Theorem | Says |
|---|---|
| `TypeCorrect` | `Spec => []TypeOK` |
| `PagesAreExact` | `Spec => []FeedExact` |
| `NobodySleepsThroughCommits` | `Spec => []NoSleepThroughCommit` |

`EventFeedAssumption` says that a client is not a waiter and that the literal cursor
is no number. The first part of the module is about `InOrder`: a set of numbers is
enumerated by rank, the enumeration is the only increasing one (`InOrderUnique`), a
prefix of it is that of the members up to a point (`InOrderPrefix`), and two
that follow each other join (`InOrderJoins`). So the pages of a client join to the
list from its start to its cursor, although each was read at a different time, by
requests of which some were lost. The invariant says what a request knows at each
statement (`ClientSound`, `WaiterSound`). Its heart is `Undisturbed`: if the channel
taken before the read is still open and no notification is owed, then what was read
is still all there is. That is why the snapshot has to come first.

### Sessions and logins: `SessionsProofs` (714 obligations)

| Theorem | Says |
|---|---|
| `TypeCorrect` | `Spec => []TypeOK` |
| `UsedSessionsStay` | `Spec => []UsedSessionsLast` |
| `GoneStaysGone` | `Spec => SessionsOnlyRenewed` |
| `BansRunTheirTime` | `Spec => BansHold` |

For any capacity, limits and times, as long as a session is refreshed before it
expires and a ban is no shorter than the window (`SessionsAssumption`, as
`session/store.go` has them). A renewal is a compare-and-swap on the expiry its request has read, and
that expiry was due (`RenewalsDue`), so it only moves forward and never revives a
session that was removed. A ban is evicted only from a full table, and an address
whose failures reached the limit is banned for the rest of its window at least
(`Counted`), so the purge before the eviction cannot have removed it.

### The process: `RuntimeProofs` (829 obligations)

From `RuntimeAssumption`: there is at least one worker and one generation, and the
two values that stand for "nothing" are not among the settings and the saves.

| Theorem | Says |
|---|---|
| `TypeCorrect` | `Spec => []TypeOK` |
| `OneRuns` | `Spec => []OneGenerationRuns` |
| `StoreClosedLast` | `Spec => []StoreOutlivesWorkers` |
| `SwapsRaiseNoAlarm` | `Spec => NoFalseAlarm` |
| `StoredSettingsRun` | `Spec => []SavedIsServed` |

The argument is about the lock. `OneGenerationRuns` speaks of the states in which
nobody holds it, so it says nothing of a swap half way; the invariant `Inv` does.
Its parts: the lock is held by the save that builds or swaps, and by nobody else
(`LockHeld`); only the current generation is running (`CurrentRuns`); a generation
that was cancelled, and only such a one, has a save or the shutdown that waits for
it (`Awaited`); one that has ended has no workers (`WorkersGone`); during a shutdown
there is no current generation and nobody takes the lock (`ShutDown`). So when the
lock is free and nothing shuts down, nobody waits, and nothing is left to be waited
for; and when the store closes every generation is unborn or closed. The serve loop
only ever asks about a generation that has ended (`ChecksEnded`), which cannot be
the current one. `SavedIsServed` needs to know where the stored settings are on
their way (`HandedOn`): with the save that waits to apply them, then with the one
that builds, then with the current generation.

### The idle workers: `WakeupProofs` (471 obligations)

| Theorem | Says |
|---|---|
| `TypeCorrect` | `Spec => []TypeOK` |
| `NobodySleepsOn` | `Spec => []NobodyOversleeps` |

There is at least one worker (`WakeupAssumption`; `reconcile.go:126` refuses fewer).
`NobodyOversleeps` is about the moment a row can be claimed; the invariant looks
ahead. `Watched`: for every row with a next run that was announced there is, now,
the token, or a worker that will look before the row can be claimed, or a request
that has changed the row and will still wake somebody. Time brings rows and timers
nearer alike, so no tick can break it.

### Files and their plans: `FilePlanProofs` (3291 obligations)

For any number of files, names and concurrent requests, any sizes, and any number of
crashes and disturbed requests, from `FilePlanAssumption`: paths are pairs, the manifest
gives no two files one path, 0 is an index, and no request is the worker.

| Theorem | Assumes | Says |
|---|---|---|
| `TypeCorrect` | | `Spec => []TypeOK` |
| `PlanInvAlways` | | `Spec => []PlanInv` |
| `KnownContentKept` | `FreshNames` | the part of `LostOnlyByExclusion` about files told apart by their sizes, disturbed or not |
| `LossOnlyByExclusion` | `FreshNames`, `FoldersApart` | `Spec => LostOnlyByExclusion` |
| `NamesShowContent` | the same | `Spec => []NamesTellContent` |
| `PlansConverge` | the same | `Spec => []PlanConverges` |
| `RechecksAccepted` | the same | `Spec => RecheckAccepts` |
| `AloneInvAlways` | the same | `Spec => [](PlanInv /\ AloneInv)` |

`FreshNames`: no file is given the manifest path of another. `FoldersApart`: a name
that two files may be given is not one that a folder rename leads to. `plan_recheck`
refutes `RecheckAccepts` without the first, and the *Observation* on a refused folder
rename refutes `NamesTellContent` without the second. `KnownContentKept` uses the first:
with it a plan never takes a path for its own that another file has been given.

- `PlanInv` holds whatever is interrupted, raced or copied again. Effective paths are
  distinct names of their files (`PathsNamed`); the worker applies the plan that its
  overrides ask for, since no path changes while it does (`WorkerHolds`); the plan of a
  rename excludes nothing and leads nowhere where it also begins (`RequestsHold`); what
  is left of a phase belongs to it (`PhasesHold`); before the copy nothing is on disk
  (`Untouched`). `Unraced` is the part about overlapping plans: one that is not raced is
  the only one applied, and what it has seen by `os.Lstat` is still so when it renames.
  Therefore it may as well look and move in one step (`UndisputedSteps`), which is how
  the rest of the proof treats it. With `FreshNames` no plan ends a move where
  another of its moves begins, so the check at `fsafe/plan.go:176` allows nothing to
  be replaced (`NothingReplaced`).
- `AloneInv` adds where each file is while no request is disturbed; then no plan is
  raced and at most one request is served. During a
  verification (`Placed`) a selected file is at its source, in its temporary file or
  at its target, in exactly one of the three, so a plan that starts again after a
  crash at any point finds every operation carried out or ready (`WorkerFinds`).
  `WorkerOn` says what the phases have achieved. For a request (`RequestOn`) the same of
  its renames, `Between`; the places of all other files stay as they were, the plan is
  still the one its request asks for, and the
  paths stored at the end are those the plan has given (`RequestOps`). When nothing is
  going on, the disk is `Settled`: the selected files, each under its name, and
  nothing else.

`NamesTellContent` alone is far from inductive: the states that matter are those in
the middle of a plan, of which it says nothing. Contents are compared by size
everywhere in these proofs, as in the code; that a file at a path is the right one of
several of one size follows from where it came from.

### Only model-checked

- Liveness (`ActiveSettles`, `CleanupSettles`, `DeliverySettles`, `FeedCatchesUp`,
  `ShutdownEnds`, `DueIsClaimed`) stays with TLC: the prover does not handle `ENABLED`.
- The three counterexamples.

Two operators of the models were written so that they can be reasoned about:
`RetryTarget` and `letterOf` are chains of conditions, since a CASE whose guards
overlap names no particular one; and the event list is `InOrder` and not a sort of the
library, which the prover cannot look into.

## What is not modelled

- Parsing, paths, symbolic links, HTTP, templates, translations, logging,
  credentials, start-up: no protocol of several steps.
- The generated gRPC client (`internal/clouddrive/pb`, some 30,000 of the
  repository's 56,000 lines of code) and the rest of the generated queries: each
  is one call, modelled where it is made. Translations and templates, forms and
  view models make up most of what remains. For that reason the share of lines
  that a definition stands for stays small.
- `SetSavePath` and `SetSavePaths` on a live row, categories and their remapping,
  path reservations: `Workflow` has one workspace per hash.
- Which event a mutation emits: `Outbox` and `EventFeed` take events as they come.
- The check of retained content as a step of its own before the revival.
- Tags, sync, and the preferences of the qBittorrent API.
- Times and sizes in `Workflow` and `Outbox`: backoff, progress, deadlines other
  than "passed or not"; a wall clock that steps back, which orders deliveries.

## Plan

1. `Workflow` extended with `SetSavePath` and with revival in two steps; the theorems
   of `EffectProofs` carried over.
2. `FilePlan` with a third file, and the refusal of a folder rename as a run.

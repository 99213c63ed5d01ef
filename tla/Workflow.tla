------------------------------ MODULE Workflow ------------------------------
(***************************************************************************)
(* The crash-safe workflow: the SQLite store's claim, commit and operator  *)
(* intents (internal/store), the reconciler's workers (internal/reconcile) *)
(* and the two systems they drive, CloudDrive2 and the local workspace.    *)
(*                                                                         *)
(* A worker takes three separate steps, as Scheduler.Step does: it claims  *)
(* a due row in one transaction, performs one external operation with no   *)
(* transaction open, and commits the outcome with a compare-and-swap.      *)
(* Operators, the cloud and the clock act between any two of them.         *)
(***************************************************************************)
EXTENDS Domain

CONSTANTS
  Hash,            \* info hashes
  Worker,          \* reconciler goroutines; they share one lease owner string
  Version,         \* row versions; only their equality is ever read
  Magnet,          \* hashes submitted as magnets: verified by shape, no manifest
  Legacy,          \* hashes that may have a row from before isolated workspaces
  Intents,         \* operator requests enabled in a model
  CloudFaults,     \* failing answers CloudDrive2 may give
  LocalFaults,     \* failing answers the filesystem may give
  StaleTargets,    \* bound: targets a retry may have computed from an earlier row
  SlowFilesystem,  \* a filesystem call may outlive the lease it runs under
  Losses           \* what may disappear behind the program's back

ASSUME ConstantsAssumption ==
  /\ Magnet \subseteq Hash /\ Legacy \subseteq Hash
  /\ CloudFaults \subseteq {"temporary", "absent", "rejected", "broken"}
  /\ LocalFaults \subseteq {"transient", "denied", "overrun"}
  /\ Losses \subseteq {"content", "copyTask", "offlineTask", "claim"}
  /\ StaleTargets \subseteq States /\ SlowFilesystem \in BOOLEAN

\* There is always a version that the row does not have and no worker holds.
ASSUME VersionAssumption ==
  \A held \in [Worker -> Version], current \in Version :
    \E v \in Version : v # current /\ \A w \in Worker : held[w] # v

VARIABLES
  download,   \* the downloads table
  lease,      \* lease_until/lease_owner: "free", "live", or "lapsed"
  version,    \* row_version
  claim,      \* what each worker is doing
  retryPlan,  \* targets that requests have computed from a row and not yet applied
  offline,    \* CloudDrive2's offline task for the hash
  copy,       \* CloudDrive2's copy task into the row's root
  disk,       \* what the row's workspace (legacy: candidate path) holds
  acked       \* the last operator intent that was answered with success

store == <<download, lease, version>>
outside == <<offline, copy, disk>>
vars == <<download, lease, version, claim, retryPlan, offline, copy, disk, acked>>

LeaseStates == {"free", "live", "lapsed"}
OfflineTasks == {"none", "active", "finished", "error"}
CopyTasks == {"none", "active", "completed", "failed"}
DiskContents == {"empty", "partial", "full", "foreign"}
AckedIntents == {"none", "pause", "cancel", "delete", "deleteFiles"}

NoDownload ==
  [state |-> "ABSENT", pauseRequested |-> FALSE, deleteFiles |-> FALSE,
   isolated |-> TRUE, result |-> FALSE, source |-> FALSE,
   destination |-> FALSE, content |-> FALSE, completed |-> FALSE,
   mark |-> "none", upstream |-> "none", problem |-> "none",
   due |-> FALSE, late |-> FALSE]

Fresh == [NoDownload EXCEPT !.state = "ACCEPTED", !.due = TRUE]
LegacyDownload == [Fresh EXCEPT !.isolated = FALSE]

\* Scheduler.Step between ClaimDue and CommitClaim: d starts as the claimed row
\* and becomes the decided one; inTime says the operation deadline is ahead.
Claim == [pc : {"deciding", "committing"}, hash : Hash, from : States,
          version : Version, inTime : BOOLEAN, d : Download]
NoClaim == [pc |-> "idle"]

Busy(w) == claim[w].pc # "idle"

\* row_version + 1: a value no reader of the row can be holding.
NextVersion(h) ==
  CHOOSE v \in Version : /\ v # version[h]
                         /\ \A w \in Worker : Busy(w) => claim[w].version # v

\* Every variable has its type: what ClaimDue reads and decide rewrites is
\* always a row of the downloads table.
TypeOK ==
  /\ download \in [Hash -> Download]
  /\ lease \in [Hash -> LeaseStates]
  /\ version \in [Hash -> Version]
  /\ claim \in [Worker -> Claim \cup {NoClaim}]
  /\ retryPlan \in [Hash -> SUBSET StaleTargets]
  /\ offline \in [Hash -> OfflineTasks]
  /\ copy \in [Hash -> CopyTasks]
  /\ disk \in [Hash -> DiskContents]
  /\ acked \in [Hash -> AckedIntents]

Init ==
  /\ download \in [Hash -> {NoDownload, LegacyDownload}]
  /\ \A h \in Hash \ Legacy : download[h] = NoDownload
  /\ lease = [h \in Hash |-> "free"]
  /\ \E v \in Version : version = [h \in Hash |-> v]
  /\ claim = [w \in Worker |-> NoClaim]
  /\ retryPlan = [h \in Hash |-> {}]
  /\ offline = [h \in Hash |-> "none"]
  /\ copy = [h \in Hash |-> "none"]
  /\ disk \in [Hash -> {"empty", "foreign"}]
  /\ \A h \in Hash : download[h].isolated => disk[h] = "empty"
  /\ acked = [h \in Hash |-> "none"]

-----------------------------------------------------------------------------
(* Operator intents: one short transaction each, guarded by the UPDATE's   *)
(* WHERE clause, always bumping row_version. Those that read the row first *)
(* as a domain.Download refuse one that ValidDownload rejects.             *)

\* The row becomes d, with whatever lease it had (freed if the UPDATE nulls it).
Mutate(h, d, leaseAfter) ==
  /\ download' = [download EXCEPT ![h] = d]
  /\ lease' = [lease EXCEPT ![h] = leaseAfter]
  /\ version' = [version EXCEPT ![h] = NextVersion(h)]

Acknowledge(h, intent) == acked' = [acked EXCEPT ![h] = intent]

\* The intent's UPDATE restarts the phase clock and makes the row due at once.
Rescheduled(d, s) == [d EXCEPT !.state = s, !.due = TRUE, !.late = FALSE]

\* A first submission, or one that finds a DELETED row and nothing to retain.
Submission(stopped) ==
  IF stopped THEN [Fresh EXCEPT !.state = "STOPPED", !.due = FALSE] ELSE Fresh

\* prepareRetainedContent: the deleted row's verified content is kept.
RetainedSubmission(d, stopped) ==
  [NoDownload EXCEPT !.state = IF stopped THEN "STOPPED" ELSE "VERIFYING_LOCAL",
                     !.due = ~stopped, !.isolated = d.isolated,
                     !.result = TRUE, !.source = TRUE, !.destination = TRUE,
                     !.content = TRUE, !.upstream = "retained"]

Insert(h, stopped) ==
  /\ "submit" \in Intents
  /\ download[h].state = "ABSENT"
  /\ Mutate(h, Submission(stopped), "free")
  /\ Acknowledge(h, "none")
  /\ UNCHANGED <<claim, retryPlan, outside>>

Verifies(h) == disk[h] = "full" \/ (h \in Magnet /\ disk[h] # "empty")

Retainable(h) ==
  LET d == download[h] IN
  ~d.deleteFiles /\ d.content /\ d.result /\ d.source /\ Verifies(h)

\* Without retained content a legacy row gets an isolated workspace, and a
\* changed save path also gives an isolated row a new, empty one.
Revive(h, stopped, samePath) ==
  /\ "submit" \in Intents
  /\ download[h].state = "DELETED"
  /\ IF samePath /\ Retainable(h)
     THEN /\ Mutate(h, RetainedSubmission(download[h], stopped), "free")
          /\ UNCHANGED disk
     ELSE /\ Mutate(h, Submission(stopped), "free")
          /\ disk' = IF samePath /\ download[h].isolated THEN disk
                     ELSE [disk EXCEPT ![h] = "empty"]
  /\ Acknowledge(h, "none")
  /\ UNCHANGED <<claim, retryPlan, offline, copy>>

StartTarget(d) ==
  IF d.result /\ (d.content \/ StatusIs(d, "copy:COMPLETED") \/ StatusIs(d, "retained"))
  THEN "VERIFYING_LOCAL"
  ELSE IF d.result THEN "SUBMITTING_COPY" ELSE "ACCEPTED"

Start(h) ==
  /\ "start" \in Intents
  /\ download[h].state = "STOPPED"
  /\ Mutate(h, [Rescheduled(download[h], StartTarget(download[h]))
                  EXCEPT !.pauseRequested = FALSE], "free")
  /\ Acknowledge(h, "none")
  /\ UNCHANGED <<claim, retryPlan, outside>>

\* A plausible slip: the pause also clears the lease of the claim it outdates.
PauseFreeingLease(h) ==
  /\ "pause" \in Intents
  /\ download[h].state \in Active
  /\ Mutate(h, [Rescheduled(download[h], "CANCEL_REQUESTED")
                  EXCEPT !.pauseRequested = TRUE], "free")
  /\ Acknowledge(h, "pause")
  /\ UNCHANGED <<claim, retryPlan, outside>>

Pause(h) ==
  /\ "pause" \in Intents
  /\ ValidDownload(download[h])
  /\ \/ /\ download[h].state \in Active
        /\ Mutate(h, [Rescheduled(download[h], "CANCEL_REQUESTED")
                        EXCEPT !.pauseRequested = TRUE], lease[h])
     \/ /\ download[h].state = "CANCEL_REQUESTED" /\ download[h].pauseRequested
        /\ UNCHANGED store
  /\ Acknowledge(h, "pause")
  /\ UNCHANGED <<claim, retryPlan, outside>>

Cancel(h) ==
  /\ "cancel" \in Intents
  /\ ValidDownload(download[h])
  /\ \/ /\ download[h].state \in Active \cup {"STOPPED"}
        /\ Mutate(h, [Rescheduled(download[h], "CANCEL_REQUESTED")
                        EXCEPT !.pauseRequested = FALSE], lease[h])
     \/ /\ download[h].state \in {"CANCEL_REQUESTED", "CANCELLED"}
        /\ UNCHANGED store
  /\ Acknowledge(h, "cancel")
  /\ UNCHANGED <<claim, retryPlan, outside>>

\* A plausible slip: the request keeps the row's old schedule.
RequestDeleteUnscheduled(h, files) ==
  LET d == download[h] IN
  /\ "delete" \in Intents
  /\ d.state \notin {"ABSENT", "DELETED", "DELETE_REQUESTED"} /\ ValidDownload(d)
  /\ Mutate(h, [d EXCEPT !.state = "DELETE_REQUESTED", !.late = FALSE,
                         !.deleteFiles = @ \/ files], lease[h])
  /\ Acknowledge(h, IF d.deleteFiles \/ files THEN "deleteFiles" ELSE "delete")
  /\ UNCHANGED <<claim, retryPlan, outside>>

\* The strongest delete-files intent wins; repeating a weaker one changes nothing.
RequestDelete(h, files) ==
  LET d == download[h] IN
  /\ "delete" \in Intents
  /\ d.state \notin {"ABSENT", "DELETED"} /\ ValidDownload(d)
  /\ IF d.state # "DELETE_REQUESTED" \/ (files /\ ~d.deleteFiles)
     THEN Mutate(h, [Rescheduled(d, "DELETE_REQUESTED")
                       EXCEPT !.pauseRequested = FALSE,
                              !.deleteFiles = d.deleteFiles \/ files], lease[h])
     ELSE UNCHANGED store
  /\ Acknowledge(h, IF d.deleteFiles \/ files THEN "deleteFiles" ELSE "delete")
  /\ UNCHANGED <<claim, retryPlan, outside>>

\* A retry request reads the row and computes its target ...
PlanRetry(h) ==
  /\ "retry" \in Intents
  /\ ValidDownload(download[h]) /\ CanRetry(download[h])
  /\ RetryTarget(download[h]) \in StaleTargets
  /\ retryPlan' = [retryPlan EXCEPT ![h] = @ \union {RetryTarget(download[h])}]
  /\ UNCHANGED <<download, lease, version, claim, outside, acked>>

\* Every retry applies the target of the row that it finds.
AtomicRetry == StaleTargets = {}

RetryTargets(h) == {RetryTarget(download[h])} \union retryPlan[h]

\* Another request may be about to apply the same target.
Applied(h, target) ==
  retryPlan' \in {retryPlan, [retryPlan EXCEPT ![h] = @ \ {target}]}

\* ... and later applies it to whatever failed row it then finds.
Retry(h) ==
  LET d == download[h] IN
  /\ "retry" \in Intents
  /\ d.state = "FAILED"
  /\ \E target \in RetryTargets(h) \cap Active :
       LET reset == target = "SUBMITTING_COPY" /\ d.problem = "conflict" IN
       /\ Mutate(h, [Rescheduled(d, target)
                       EXCEPT !.source = @ /\ ~reset,
                              !.destination = @ /\ ~reset,
                              !.problem = "none"], "free")
       /\ Applied(h, target)
  /\ Acknowledge(h, "none")
  /\ UNCHANGED <<claim, outside>>

RetryCleanup(h) ==
  LET d == download[h] IN
  /\ "retry" \in Intents
  /\ d.state \in Cleanup /\ d.problem # "none"
  /\ \E target \in RetryTargets(h) \cap Cleanup : Applied(h, target)
  /\ Mutate(h, [Rescheduled(d, d.state) EXCEPT !.problem = "none"], lease[h])
  /\ UNCHANGED <<claim, outside, acked>>

\* A plausible slip: completed_at survives the reset.
ReverifyKeepingCompletion(h) ==
  /\ "reverify" \in Intents
  /\ download[h].state = "COMPLETED"
  /\ Mutate(h, Rescheduled(download[h], "VERIFYING_LOCAL"), "free")
  /\ Acknowledge(h, "none")
  /\ UNCHANGED <<claim, retryPlan, outside>>

Reverify(h) ==
  /\ "reverify" \in Intents
  /\ download[h].state = "COMPLETED"
  /\ Mutate(h, [Rescheduled(download[h], "VERIFYING_LOCAL")
                  EXCEPT !.completed = FALSE, !.problem = "none"], "free")
  /\ Acknowledge(h, "none")
  /\ UNCHANGED <<claim, retryPlan, outside>>

\* Category, tags, name, auto-management: only the version matters here.
Relabel(h) ==
  /\ "relabel" \in Intents
  /\ download[h].state \notin {"ABSENT", "DELETED"}
  /\ Mutate(h, download[h], lease[h])
  /\ UNCHANGED <<claim, retryPlan, outside, acked>>

-----------------------------------------------------------------------------
(* The claim protocol.                                                     *)

\* ClaimDue: the WHERE clause, and the lease it writes.
ClaimDue(w, h) ==
  LET v == NextVersion(h) IN
  /\ ~Busy(w)
  /\ download[h].due /\ download[h].state \notin {"ABSENT", "COMPLETED", "FAILED", "CANCELLED", "DELETED"}
  /\ lease[h] # "live"
  /\ lease' = [lease EXCEPT ![h] = "live"]
  /\ version' = [version EXCEPT ![h] = v]
  /\ claim' = [claim EXCEPT ![w] =
       IF ValidDownload(download[h])
       THEN [pc |-> "deciding", hash |-> h, from |-> download[h].state,
             version |-> v, inTime |-> TRUE, d |-> download[h]]
       ELSE @]
  /\ UNCHANGED <<download, retryPlan, outside, acked>>

\* A plausible slip: comparing state and owner, but not row_version.
CurrentByState(w) ==
  download[claim[w].hash].state = claim[w].from /\ lease[claim[w].hash] # "free"

\* The compare half of CommitClaim's compare-and-swap.
Current(w) ==
  LET c == claim[w] IN
  /\ download[c.hash].state = c.from
  /\ lease[c.hash] # "free"
  /\ version[c.hash] = c.version

\* A plausible slip: the row's status before the clean retry is overlooked.
WorkspaceMayChangeOnce(before, after) ==
  \/ after.isolated = before.isolated
  \/ /\ after.isolated /\ ~after.content /\ before.state = "SUBMITTING_COPY"
     /\ StatusIs(after, "offline:FINISHED") /\ StatusIs(before, "offline:FINISHED")

\* validateClaimWorkspace: only the clean retry of a legacy copy may move a row
\* to an isolated workspace.
WorkspaceMayChange(before, after) ==
  \/ after.isolated = before.isolated
  \/ /\ after.isolated /\ ~after.content
     /\ before.state = "SUBMITTING_COPY"
     /\ StatusIs(after, "offline:FINISHED")
     /\ \/ StatusIs(before, "offline:FINISHED")
        \/ CopyRemovalCompleted(before) /\ before.upstream \in CopyReports

\* What CommitClaim accepts before it opens its transaction.
LegalOutcome(before, after) ==
  /\ after.state = before.state \/ CanTransition(before.state, after.state)
  /\ WorkspaceMayChange(before, after)
  /\ ValidDownload(after)

Committing(w) == Busy(w) /\ claim[w].pc = "committing"
Release(w) == claim' = [claim EXCEPT ![w] = NoClaim]

\* CommitClaim: the decided row replaces the stored one and the lease is freed.
CommitClaim(w) ==
  LET c == claim[w] IN
  /\ Committing(w) /\ Current(w) /\ LegalOutcome(download[c.hash], c.d)
  /\ Mutate(c.hash, c.d, "free")
  /\ Release(w)
  /\ UNCHANGED <<retryPlan, outside, acked>>

\* The unique index says another legacy row owns the destination: Step commits
\* a failure without it instead.
CommitConflict(w) ==
  LET c == claim[w]
      failed == [c.d EXCEPT !.destination = FALSE, !.state = "FAILED",
                            !.problem = "conflict", !.due = FALSE, !.late = FALSE] IN
  /\ Committing(w) /\ Current(w) /\ LegalOutcome(download[c.hash], c.d)
  /\ c.d.destination /\ ~c.d.isolated /\ ~download[c.hash].destination
  /\ LegalOutcome(download[c.hash], failed)
  /\ Mutate(c.hash, failed, "free")
  /\ Release(w)
  /\ UNCHANGED <<retryPlan, outside, acked>>

\* ErrClaimLost, or an outcome CommitClaim refuses: the work is forgotten and
\* the row keeps whatever lease it has until that lapses.
CommitRefused(w) ==
  /\ Committing(w)
  /\ ~(Current(w) /\ LegalOutcome(download[claim[w].hash], claim[w].d))
  /\ Release(w)
  /\ UNCHANGED <<store, retryPlan, outside, acked>>

\* The process dies, shuts down, or loses the database between two steps.
Crash(w) ==
  /\ Busy(w) /\ "claim" \in Losses
  /\ Release(w)
  /\ UNCHANGED <<store, retryPlan, outside, acked>>

-----------------------------------------------------------------------------
(* Scheduler.decide. Each operation below is one branch of it: the external *)
(* call with its effect, and the row it decides on.                         *)

\* A plausible slip: next_run_at survives.
QuietedStillDue(d, s) == [d EXCEPT !.state = s, !.problem = "none", !.late = FALSE]
Quieted(d, s) == [d EXCEPT !.state = s, !.problem = "none", !.due = FALSE, !.late = FALSE]
Advance(d, s) == [d EXCEPT !.state = s, !.problem = "none", !.due = TRUE, !.late = FALSE]
Poll(d) == [d EXCEPT !.problem = "none", !.due = TRUE]
Fail(d, p) == [Quieted(d, "FAILED") EXCEPT !.problem = p]
RetryLater(d, p) == [d EXCEPT !.problem = p, !.due = TRUE]
CleanupProblem(d, p) == [d EXCEPT !.problem = p, !.due = FALSE]

\* cloudFailure and retryObservation; a copy operation also retries when the
\* source is not there yet or the request is refused.
CloudFailure(d, fault, copyOperation) ==
  IF fault = "temporary" \/ (copyOperation /\ fault \in {"absent", "rejected"})
  THEN RetryLater(d, "other") ELSE Fail(d, "other")

CleanupFailure(d, fault) ==
  IF fault = "temporary" THEN RetryLater(d, "other") ELSE CleanupProblem(d, "other")

LocalFailure(d, fault) ==
  IF fault = "transient" THEN RetryLater(d, "unavailable") ELSE Fail(d, "local")

DeadlineProblem(d) ==
  IF d.problem = "unavailable" \/ d.state = "VERIFYING_LOCAL" THEN "local" ELSE "other"

\* Past the operation deadline Step drops whatever was decided and reschedules.
Decided(w, d) ==
  claim' = [claim EXCEPT ![w].pc = "committing", ![w].inTime = TRUE,
                         ![w].d = IF claim[w].inTime THEN d
                                  ELSE RetryLater(claim[w].d, "other")]

Deciding(w, s) ==
  Busy(w) /\ claim[w].pc = "deciding" /\ claim[w].d.state = s /\ ~claim[w].d.late

\* CloudDrive2 calls are bound to the operation deadline, filesystem calls are not.
CloudStep(w, s) == Deciding(w, s) /\ claim[w].inTime

\* The CloudDrive2 client looks a task up before it submits or removes one, so
\* that repeating a call changes nothing.
EnsuredOffline(h) == [offline EXCEPT ![h] = IF @ = "none" THEN "active" ELSE @]
EnsuredCopy(h) == [copy EXCEPT ![h] = IF @ = "none" THEN "active" ELSE @]
CancelledOffline(h) == [offline EXCEPT ![h] = "none"]
RemovedCopy(h) == [copy EXCEPT ![h] = "none"]

\* A call that reports a failure may have taken effect all the same.
MayLand(before, after) == {before, after}

\* A step that touches nothing outside the row.
RowStep(w, d) == Decided(w, d) /\ UNCHANGED <<store, retryPlan, outside, acked>>
OfflineStep(w, d) == Decided(w, d) /\ UNCHANGED <<store, retryPlan, copy, disk, acked>>
CopyStep(w, d) == Decided(w, d) /\ UNCHANGED <<store, retryPlan, offline, disk, acked>>
DiskStep(w, d) == Decided(w, d) /\ UNCHANGED <<store, retryPlan, offline, copy, acked>>

\* A plausible slip: the deadline only clears the problem.
PhaseTimeoutPolls(w) ==
  /\ Busy(w) /\ claim[w].pc = "deciding" /\ claim[w].d.late
  /\ RowStep(w, Poll(claim[w].d))

PhaseTimeout(w) ==
  LET d == claim[w].d IN
  /\ Busy(w) /\ claim[w].pc = "deciding" /\ d.late
  /\ RowStep(w, Fail(d, DeadlineProblem(d)))

\* A decision reached only after the operation deadline: any call it needed was
\* cut off before it took effect.
OperationOverran(w) ==
  /\ Busy(w) /\ claim[w].pc = "deciding" /\ ~claim[w].inTime
  /\ RowStep(w, claim[w].d)

BeginOffline(w) ==
  /\ CloudStep(w, "ACCEPTED")
  /\ RowStep(w, Advance(claim[w].d, "SUBMITTING_OFFLINE"))

\* CancelOffline, as a clean retry of a failed offline task.
RetryCancelOffline(w) ==
  LET d == claim[w].d
      gone == CancelledOffline(claim[w].hash) IN
  /\ CloudStep(w, "SUBMITTING_OFFLINE") /\ StatusIs(d, "offline:ERROR")
  /\ \/ offline' = gone /\ OfflineStep(w, Poll(SetStatus(d, "none")))
     \/ \E fault \in CloudFaults :
          offline' \in MayLand(offline, gone) /\ OfflineStep(w, CloudFailure(d, fault, FALSE))

\* What an observed offline task does to the row.
OfflineReported(d, task) ==
  CASE task = "active"   -> IF d.state = "WAITING_OFFLINE"
                            THEN Poll(SetStatus(d, "offline:ACTIVE"))
                            ELSE Advance(SetStatus(d, "offline:ACTIVE"), "WAITING_OFFLINE")
    [] task = "finished" -> [Advance(SetStatus(d, "offline:FINISHED"), "SUBMITTING_COPY")
                               EXCEPT !.result = TRUE]
    [] task = "error"    -> Fail(SetStatus(d, "offline:ERROR"), "other")

EnsureOffline(w) ==
  LET d == claim[w].d
      h == claim[w].hash
      ensured == EnsuredOffline(h) IN
  /\ CloudStep(w, "SUBMITTING_OFFLINE") /\ ~StatusIs(d, "offline:ERROR")
  /\ \/ offline' = ensured /\ OfflineStep(w, OfflineReported(d, ensured[h]))
     \/ \E fault \in CloudFaults :
          offline' \in MayLand(offline, ensured) /\ OfflineStep(w, CloudFailure(d, fault, FALSE))

InspectOffline(w) ==
  LET d == claim[w].d
      task == offline[claim[w].hash] IN
  /\ CloudStep(w, "WAITING_OFFLINE")
  /\ \/ RowStep(w, IF task = "none" THEN Poll(d) ELSE OfflineReported(d, task))
     \/ \E fault \in CloudFaults : RowStep(w, CloudFailure(d, fault, FALSE))

\* SUBMITTING_COPY is a ladder: the first rung whose condition holds is taken.
\* A row without a result never gets here, for ClaimDue cannot read it.
\* A torrent's result is inspected against its manifest, a magnet's is opaque.
ResolveCopySource(w) ==
  LET d == claim[w].d IN
  /\ CloudStep(w, "SUBMITTING_COPY") /\ d.result /\ ~d.source
  /\ \/ RowStep(w, Poll([d EXCEPT !.source = TRUE]))
     \/ /\ claim[w].hash \notin Magnet
        /\ \E fault \in CloudFaults :
             RowStep(w, IF fault = "broken" THEN Fail(d, "other")
                                            ELSE CloudFailure(d, fault, TRUE))

ReserveDestination(w) ==
  LET d == claim[w].d IN
  /\ CloudStep(w, "SUBMITTING_COPY") /\ d.source /\ ~d.destination
  /\ RowStep(w, Poll([d EXCEPT !.destination = TRUE]))

CopyRung(w) ==
  LET d == claim[w].d IN
  Deciding(w, "SUBMITTING_COPY") /\ d.result /\ d.source /\ d.destination

\* A finished copy task is left over from the attempt being retried.
LeftOver(d) == d.upstream \in {"copy:COMPLETED", "copy:FAILED"}

RetryRemoveCopy(w) ==
  LET d == claim[w].d
      gone == RemovedCopy(claim[w].hash) IN
  /\ CopyRung(w) /\ claim[w].inTime
  /\ LeftOver(d) /\ ~CopyRemovalCompleted(d)
  /\ \/ copy' = gone /\ CopyStep(w, Poll(MarkCopyRemoved(d)))
     \/ \E fault \in CloudFaults :
          copy' \in MayLand(copy, gone) /\ CopyStep(w, CloudFailure(d, fault, FALSE))

\* An interrupted deletion leaves some of what was there.
Interrupted(h) == MayLand(disk, [disk EXCEPT ![h] = IF @ = "full" THEN "partial" ELSE @])
Emptied(h) == [disk EXCEPT ![h] = "empty"]
DeleteFaults == LocalFaults \cap {"transient", "denied"}

RetryDeleteCopy(w) ==
  LET d == claim[w].d
      h == claim[w].hash IN
  /\ CopyRung(w) /\ LeftOver(d) /\ CopyRemovalCompleted(d)
  /\ \/ /\ disk' = Emptied(h)
        /\ DiskStep(w, Poll([SetStatus(d, "offline:FINISHED")
                               EXCEPT !.isolated = TRUE, !.content = FALSE]))
     \/ /\ DeleteFaults # {}
        /\ disk' \in Interrupted(h)
        /\ DiskStep(w, Fail(d, "local"))

\* A plausible slip: nothing looks at the destination.
PreflightBlindly(w) ==
  /\ CopyRung(w) /\ ~LeftOver(claim[w].d) /\ ~StatusIs(claim[w].d, "destination_clear")
  /\ RowStep(w, Poll(SetStatus(claim[w].d, "destination_clear")))

\* The candidate's place must be empty before a copy is submitted.
PreflightLocal(w) ==
  LET d == claim[w].d IN
  /\ CopyRung(w) /\ ~LeftOver(d) /\ ~StatusIs(d, "destination_clear")
  /\ \/ RowStep(w, IF disk[claim[w].hash] = "empty"
                   THEN Poll(SetStatus(d, "destination_clear")) ELSE Fail(d, "other"))
     \/ \E fault \in DeleteFaults : RowStep(w, LocalFailure(d, fault))

\* What an observed copy task does to the row.
CopyReported(d, task) ==
  CASE task = "active"    -> IF d.state = "WAITING_COPY"
                             THEN Poll(SetStatus(d, "copy:ACTIVE"))
                             ELSE Advance(SetStatus(d, "copy:ACTIVE"), "WAITING_COPY")
    [] task = "completed" -> Advance(SetStatus(d, "copy:COMPLETED"),
                                     IF d.state = "WAITING_COPY"
                                     THEN "VERIFYING_LOCAL" ELSE "WAITING_COPY")
    [] task = "failed"    -> Fail(SetStatus(d, "copy:FAILED"), "other")

EnsureCopy(w) ==
  LET d == claim[w].d
      h == claim[w].hash
      ensured == EnsuredCopy(h) IN
  /\ CopyRung(w) /\ claim[w].inTime /\ StatusIs(d, "destination_clear")
  /\ \/ copy' = ensured /\ CopyStep(w, CopyReported(d, ensured[h]))
     \/ \E fault \in CloudFaults :
          copy' \in MayLand(copy, ensured) /\ CopyStep(w, CloudFailure(d, fault, TRUE))
     \/ d.isolated /\ \E fault \in DeleteFaults : RowStep(w, LocalFailure(d, fault))

\* verifyAndRecord. A partial tree may look like missing files or like a wrong
\* layout; a magnet has no manifest, so anything safe that exists will do.
Verification(d, h, verified) ==
  IF Verifies(h) THEN {verified}
  ELSE {Poll(d)} \cup (IF disk[h] = "empty" THEN {} ELSE {Fail(d, "local")})

\* A plausible slip: a copy that ended is taken for a copy that arrived.
TrustedOutcomes(d, h, verified) == {verified}

VerifyOutcomes(d, h, verified) ==
  Verification(d, h, verified) \cup {LocalFailure(d, fault) : fault \in DeleteFaults}

InspectCopy(w) ==
  LET d == claim[w].d
      h == claim[w].hash IN
  /\ CloudStep(w, "WAITING_COPY")
  /\ \/ copy[h] # "none" /\ RowStep(w, CopyReported(d, copy[h]))
     \/ /\ copy[h] = "none"
        /\ \E outcome \in VerifyOutcomes(d, h, Advance([d EXCEPT !.content = TRUE],
                                                       "VERIFYING_LOCAL")) :
             RowStep(w, outcome)
     \/ \E fault \in CloudFaults : RowStep(w, CloudFailure(d, fault, TRUE))

VerifyLocal(w) ==
  LET d == claim[w].d IN
  /\ Deciding(w, "VERIFYING_LOCAL")
  /\ \E outcome \in VerifyOutcomes(d, claim[w].hash,
                      [Quieted(d, "COMPLETED") EXCEPT !.content = TRUE, !.completed = TRUE]) :
       RowStep(w, outcome)

-----------------------------------------------------------------------------
(* Cleanup: cancel, pause and delete keep their intent in the row's state    *)
(* until the cloud and the disk are confirmed clean.                         *)

\* CancelOffline before a copy source is known, RemoveCopy after; `done` is the
\* row once the call is confirmed. An absent offline task is already cancelled.
StopUpstream(w, done) ==
  LET d == claim[w].d
      h == claim[w].hash IN
  \/ d.source /\ copy' = RemovedCopy(h) /\ CopyStep(w, done)
  \/ d.source /\ \E fault \in CloudFaults :
       copy' \in MayLand(copy, RemovedCopy(h)) /\ CopyStep(w, CleanupFailure(d, fault))
  \/ ~d.source /\ offline' = CancelledOffline(h) /\ OfflineStep(w, done)
  \/ ~d.source /\ \E fault \in CloudFaults :
       /\ offline' \in MayLand(offline, CancelledOffline(h))
       /\ OfflineStep(w, IF fault = "absent" /\ offline[h] = "none" THEN done
                         ELSE CleanupFailure(d, fault))

MarkStopped(d) == IF d.source THEN MarkCopyRemoved(d) ELSE MarkCleanupCancelled(d)

CancelUpstream(w) ==
  LET d == claim[w].d IN
  /\ CloudStep(w, "CANCEL_REQUESTED") /\ ~d.pauseRequested
  /\ StopUpstream(w, Quieted(MarkStopped(d), "CANCELLED"))

\* A plausible slip: any report of the copy counts.
CopyReportedAtAll(d) == d.content \/ d.upstream \in CopyReports

\* Verified content, or a copy reported complete, needs no cleanup to pause.
CopyFinished(d) == d.content \/ StatusIs(d, "copy:COMPLETED")

Pausing(w) ==
  /\ Busy(w) /\ claim[w].pc = "deciding"
  /\ claim[w].d.state = "CANCEL_REQUESTED" /\ claim[w].d.pauseRequested

PauseFinishedCopy(w) ==
  LET d == claim[w].d IN
  /\ Pausing(w) /\ claim[w].inTime /\ CopyFinished(d)
  /\ RowStep(w, Quieted(d, "STOPPED"))

PauseUpstream(w) ==
  LET d == claim[w].d IN
  /\ Pausing(w) /\ claim[w].inTime /\ ~CopyFinished(d)
  /\ ~(d.source /\ CopyRemovalCompleted(d))
  /\ StopUpstream(w, IF d.source THEN Poll(MarkCopyRemoved(d))
                                 ELSE Quieted(SetStatus(d, "none"), "STOPPED"))

\* Without an isolated workspace or a destination there is no path to delete.
HasLocalPath(d) == d.isolated \/ d.destination

\* DeleteWorkspace, or Delete of a legacy row's candidate.
DeleteFiles(w, done) ==
  LET h == claim[w].hash IN
  \/ disk' = Emptied(h) /\ DiskStep(w, done)
  \/ /\ DeleteFaults # {}
     /\ disk' \in Interrupted(h)
     /\ DiskStep(w, CleanupProblem(claim[w].d, "local"))

\* Fail is not a legal way out of a cleanup state: the row would be stuck there.
PauseDeleteCopy(w) ==
  LET d == claim[w].d
      stopped == Quieted(SetStatus(d, "offline:FINISHED"), "STOPPED") IN
  /\ Pausing(w) /\ ~CopyFinished(d) /\ d.source /\ CopyRemovalCompleted(d)
  /\ \/ HasLocalPath(d) /\ DeleteFiles(w, stopped)
     \/ /\ ~HasLocalPath(d)
        /\ RowStep(w, IF HasCopyEvidence(d) THEN Fail(d, "other") ELSE stopped)

\* A plausible slip: a copy without a recorded status needs no removal.
RecordedCopyNeedsRemoval(d) ==
  d.source /\ d.upstream \in CopyReports /\ ~CopyRemovalCompleted(d)
CopyNeedsRemoval(d) == d.source /\ ~CopyRemovalCompleted(d)
OfflineNeedsCancellation(d) ==
  ~d.source /\ ~d.completed /\ ~d.content /\ ~CleanupCompleted(d)

DeleteUpstream(w) ==
  LET d == claim[w].d IN
  /\ CloudStep(w, "DELETE_REQUESTED")
  /\ CopyNeedsRemoval(d) \/ OfflineNeedsCancellation(d)
  /\ StopUpstream(w, Poll(MarkStopped(d)))

\* A legacy row deletes only what it can prove to own.
OwnsFiles(d) == d.isolated \/ d.content \/ HasCopyEvidence(d)

DeleteLocal(w) ==
  LET d == claim[w].d
      wanted == d.deleteFiles /\ OwnsFiles(d)
      located == d.content \/ HasLocalPath(d)
      deleted == Quieted(d, "DELETED") IN
  /\ Deciding(w, "DELETE_REQUESTED")
  /\ ~CopyNeedsRemoval(d) /\ ~OfflineNeedsCancellation(d)
  /\ \/ wanted /\ located /\ DeleteFiles(w, deleted)
     \/ /\ ~(wanted /\ located)
        /\ RowStep(w, IF wanted THEN Fail(d, "other") ELSE deleted)

-----------------------------------------------------------------------------
(* Time and the outside world.                                               *)

TimedStates == Active \ {"ACCEPTED"}

\* The operation deadline of a running step passes.
OperationDeadline(w) ==
  /\ "overrun" \in LocalFaults
  /\ Busy(w) /\ claim[w].pc = "deciding" /\ claim[w].inTime
  /\ claim' = [claim EXCEPT ![w].inTime = FALSE]
  /\ UNCHANGED <<store, retryPlan, outside, acked>>

\* Claimed work whose operation may touch the filesystem.
AtFilesystem(d) ==
  \/ d.state \in {"WAITING_COPY", "VERIFYING_LOCAL"}
  \/ d.state = "SUBMITTING_COPY" /\ d.destination /\ (LeftOver(d) => CopyRemovalCompleted(d))
  \/ d.state = "CANCEL_REQUESTED" /\ d.pauseRequested /\ d.source /\ CopyRemovalCompleted(d)
  \/ /\ d.state = "DELETE_REQUESTED" /\ d.deleteFiles
     /\ ~CopyNeedsRemoval(d) /\ ~OfflineNeedsCancellation(d)

\* The operation deadline ends before the lease does, by a margin that a
\* CloudDrive2 call, being cut off, and a prompt filesystem call both respect.
LeaseLapses(h) ==
  /\ lease[h] = "live"
  /\ \A w \in Worker : Busy(w) /\ claim[w].hash = h /\ claim[w].pc = "deciding"
                       => /\ SlowFilesystem /\ ~claim[w].inTime
                          /\ AtFilesystem(claim[w].d)
  /\ lease' = [lease EXCEPT ![h] = "lapsed"]
  /\ UNCHANGED <<download, version, claim, retryPlan, outside, acked>>

\* The phase deadline passes: whoever decides on the row next will notice.
PhaseDeadline(h) ==
  /\ download[h].state \in TimedStates /\ ~download[h].late
  /\ \A w \in Worker : ~(Busy(w) /\ claim[w].hash = h /\ Current(w))
  /\ download' = [download EXCEPT ![h].late = TRUE]
  /\ UNCHANGED <<lease, version, claim, retryPlan, outside, acked>>

OfflineEnds(h) ==
  /\ offline[h] = "active"
  /\ \E outcome \in {"finished", "error"} : offline' = [offline EXCEPT ![h] = outcome]
  /\ UNCHANGED <<store, claim, retryPlan, copy, disk, acked>>

CopyWrites(h) ==
  /\ copy[h] = "active" /\ disk[h] = "empty"
  /\ disk' = [disk EXCEPT ![h] = "partial"]
  /\ UNCHANGED <<store, claim, retryPlan, offline, copy, acked>>

CopyEnds(h) ==
  /\ copy[h] = "active"
  /\ \/ /\ copy' = [copy EXCEPT ![h] = "completed"]
        /\ disk' = [disk EXCEPT ![h] = "full"]
     \/ /\ copy' = [copy EXCEPT ![h] = "failed"]
        /\ UNCHANGED disk
  /\ UNCHANGED <<store, claim, retryPlan, offline, acked>>

\* CloudDrive2 stops listing a task, or someone else removes local content.
TaskForgotten(h) ==
  /\ \/ /\ "copyTask" \in Losses /\ copy[h] # "none"
        /\ copy' = [copy EXCEPT ![h] = "none"] /\ UNCHANGED offline
     \/ /\ "offlineTask" \in Losses /\ offline[h] # "none"
        /\ offline' = [offline EXCEPT ![h] = "none"] /\ UNCHANGED copy
  /\ UNCHANGED <<store, claim, retryPlan, disk, acked>>

ContentLost(h) ==
  /\ "content" \in Losses
  /\ download[h].content /\ disk[h] = "full" /\ copy[h] # "active"
  /\ \E left \in {"empty", "partial"} : disk' = [disk EXCEPT ![h] = left]
  /\ UNCHANGED <<store, claim, retryPlan, offline, copy, acked>>

-----------------------------------------------------------------------------
Operator(h) ==
  \/ \E stopped \in BOOLEAN : Insert(h, stopped)
  \/ \E stopped, samePath \in BOOLEAN : Revive(h, stopped, samePath)
  \/ Start(h) \/ Pause(h) \/ Cancel(h)
  \/ \E files \in BOOLEAN : RequestDelete(h, files)
  \/ PlanRetry(h) \/ Retry(h) \/ RetryCleanup(h) \/ Reverify(h) \/ Relabel(h)

Decide(w) ==
  \/ PhaseTimeout(w) \/ OperationOverran(w)
  \/ BeginOffline(w) \/ RetryCancelOffline(w) \/ EnsureOffline(w) \/ InspectOffline(w)
  \/ ResolveCopySource(w) \/ ReserveDestination(w)
  \/ RetryRemoveCopy(w) \/ RetryDeleteCopy(w) \/ PreflightLocal(w) \/ EnsureCopy(w)
  \/ InspectCopy(w) \/ VerifyLocal(w)
  \/ CancelUpstream(w) \/ PauseFinishedCopy(w) \/ PauseUpstream(w) \/ PauseDeleteCopy(w)
  \/ DeleteUpstream(w) \/ DeleteLocal(w)

Commit(w) == CommitClaim(w) \/ CommitConflict(w) \/ CommitRefused(w)

Cloud(h) == OfflineEnds(h) \/ CopyWrites(h) \/ CopyEnds(h) \/ TaskForgotten(h)

Clock ==
  \/ \E w \in Worker : OperationDeadline(w)
  \/ \E h \in Hash : LeaseLapses(h) \/ PhaseDeadline(h)

Next ==
  \/ \E h \in Hash : Operator(h) \/ Cloud(h) \/ ContentLost(h)
  \/ \E w \in Worker : \/ \E h \in Hash : ClaimDue(w, h)
                       \/ Decide(w) \/ Commit(w) \/ Crash(w)
  \/ Clock

Spec == Init /\ [][Next]_vars

\* Workers keep looping and time keeps passing. A crash may interrupt any step,
\* but not every one; phase deadlines pass between claims, not under them.
Fairness ==
  /\ \A w \in Worker : SF_vars(Decide(w)) /\ SF_vars(CommitClaim(w)) /\ WF_vars(CommitRefused(w))
  /\ \A h \in Hash : /\ SF_vars(\E w \in Worker : ClaimDue(w, h))
                    /\ WF_vars(LeaseLapses(h)) /\ SF_vars(PhaseDeadline(h))

FairSpec == Spec /\ Fairness
-----------------------------------------------------------------------------
(* What must hold.                                                           *)

Working(w, h) == Busy(w) /\ claim[w].hash = h /\ claim[w].pc = "deciding"

\* Every row that is stored can be read back and worked on: no sequence of
\* intents and commits stores a phase without the paths that phase needs.
RowsValid == \A h \in Hash : ValidDownload(download[h])

\* Two workers never perform an external operation for the same hash at once,
\* whatever intents free, keep or outdate its lease meanwhile.
SingleOperator ==
  \A v, w \in Worker : v # w =>
    \A h \in Hash : ~(Working(v, h) /\ Working(w, h))

\* A quiet row holds no lease and is not due, so that Start, Retry, Reverify
\* and a revival may clear the lease without asking who holds it.
QuietRowsUnleased ==
  \A h \in Hash : download[h].state \in Quiet => lease[h] = "free" /\ ~download[h].due

\* An outcome that is still current is one CommitClaim accepts: no branch of
\* decide leaves the row to be claimed, decided and refused for ever.
NoStuckClaim ==
  \A w \in Worker : Committing(w) /\ Current(w) =>
    LegalOutcome(download[claim[w].hash], claim[w].d)

\* A completed download's local content verifies, whatever was retried,
\* deleted, revived or half-copied before.
CompletedHasContent ==
  \A h \in Hash : download[h].state = "COMPLETED" => Verifies(h)

\* A cancelled or deleted download leaves no task running in CloudDrive2.
NoOrphanedWork ==
  \A h \in Hash : download[h].state \in {"CANCELLED", "DELETED"} =>
    copy[h] # "active" /\ offline[h] # "active"

\* A paused download leaves no copy and no unfinished offline task running.
PauseStopsUpstreamWork ==
  \A h \in Hash : download[h].state = "STOPPED" =>
    copy[h] # "active" /\ offline[h] # "active"

\* Once deleted with its files, nothing CD211 copied is left on disk.
DeletedFilesAreGone ==
  \A h \in Hash : download[h].state = "DELETED" /\ download[h].deleteFiles =>
    disk[h] \in {"empty", "foreign"}

\* A file that was at a legacy destination before CD211 is never removed or
\* overwritten, and never taken for the download's own content.
ForeignContentKept ==
  [][\A h \in Hash : disk[h] = "foreign" /\ download[h].state # "DELETED"
        => disk'[h] = "foreign" /\ ~download'[h].content]_vars

\* Nor by anything but the deletion that ends a pause: that one alone asks for no
\* evidence of ownership.
ForeignContentKeptButByPause ==
  [][\A h \in Hash : disk[h] = "foreign" /\ download[h].state # "DELETED"
        => /\ disk'[h] = "foreign" \/ \E w \in Worker : PauseDeleteCopy(w) /\ claim[w].hash = h
           /\ ~download'[h].content]_vars

\* Nothing is deleted under a copy that is still writing.
NoDeleteUnderLiveCopy ==
  [][\A h \in Hash : disk[h] # "empty" /\ disk'[h] = "empty" => copy[h] # "active"]_vars

\* A pause or delete that was answered with success stays in force until the
\* operator asks for something else: no commit in flight undoes it.
IntentHonoured ==
  \A h \in Hash :
    LET d == download[h] IN
    /\ acked[h] = "pause" => d.state \in {"CANCEL_REQUESTED", "STOPPED"}
    /\ acked[h] \in {"delete", "deleteFiles"} => d.state \in {"DELETE_REQUESTED", "DELETED"}
    /\ acked[h] = "deleteFiles" => d.deleteFiles

\* A row whose cleanup failed for good shows its problem and waits for a retry.
Blocked(h) == download[h].problem # "none" /\ ~download[h].due

\* No workflow runs for ever: it completes, fails, or gives way to an intent,
\* even when CloudDrive2 never reports again.
ActiveSettles ==
  \A h \in Hash : download[h].state \in Active ~> download[h].state \notin Active

\* A cleanup call has failed in a way that CD211 takes for temporary, unauthorized
\* included: the cleanup is about to be rescheduled.
Postponed(h) ==
  \E w \in Worker : /\ Committing(w) /\ claim[w].hash = h /\ claim[w].d.state \in Cleanup
                     /\ claim[w].d.due /\ claim[w].d.problem # "none"

\* An accepted cancel, pause or delete is carried out or visibly blocked, through
\* crashes and lost claims, unless it is attempted for ever and fails for ever in a
\* way that is taken for temporary.
CleanupSettles ==
  \A h \in Hash :
    \/ []<>Postponed(h)
    \/ download[h].state \in Cleanup ~> download[h].state \notin Cleanup \/ Blocked(h)

=============================================================================

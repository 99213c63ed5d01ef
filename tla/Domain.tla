------------------------------- MODULE Domain -------------------------------
(***************************************************************************)
(* internal/domain: the durable download record, the transition table and  *)
(* the rules that read evidence out of a record.                           *)
(*                                                                         *)
(* Paths and timestamps are kept as "is it set"; last_upstream_status is   *)
(* split into its cleanup prefix (mark) and what the upstream last said    *)
(* (upstream); problem codes are grouped by how RetryTarget and the        *)
(* deadline rule read them.                                                *)
(***************************************************************************)

Active == {"ACCEPTED", "SUBMITTING_OFFLINE", "WAITING_OFFLINE",
           "SUBMITTING_COPY", "WAITING_COPY", "VERIFYING_LOCAL"}
Cleanup == {"CANCEL_REQUESTED", "DELETE_REQUESTED"}
Quiet == {"STOPPED", "COMPLETED", "FAILED", "CANCELLED", "DELETED"}
States == Active \cup Cleanup \cup Quiet

Marks == {"none", "cancelled", "removed"}
Upstreams == {"none", "offline:ACTIVE", "offline:FINISHED", "offline:ERROR",
              "destination_clear", "copy:ACTIVE", "copy:COMPLETED",
              "copy:FAILED", "retained"}

CopyReports == {"copy:ACTIVE", "copy:COMPLETED", "copy:FAILED"}

\* "local": the verification, permission, layout and deletion problems whose
\* retry starts the copy again; "unavailable": local_filesystem_unavailable;
\* "conflict": destination_conflict; "other": every other code.
Problems == {"none", "conflict", "local", "unavailable", "other"}

\* "ABSENT" stands for a hash that has no row yet.
Download == [state : States \cup {"ABSENT"}, pauseRequested : BOOLEAN,
             deleteFiles : BOOLEAN, isolated : BOOLEAN, result : BOOLEAN,
             source : BOOLEAN, destination : BOOLEAN, content : BOOLEAN,
             completed : BOOLEAN, mark : Marks, upstream : Upstreams,
             problem : Problems, due : BOOLEAN, late : BOOLEAN]

ActiveExit == {"FAILED", "CANCEL_REQUESTED", "DELETE_REQUESTED"}

Successors ==
  [s \in States |->
    CASE s = "ACCEPTED"           -> {"SUBMITTING_OFFLINE"} \cup ActiveExit
      [] s = "STOPPED"            -> {"ACCEPTED", "SUBMITTING_COPY", "VERIFYING_LOCAL"} \cup Cleanup
      [] s = "SUBMITTING_OFFLINE" -> {"WAITING_OFFLINE", "SUBMITTING_COPY"} \cup ActiveExit
      [] s = "WAITING_OFFLINE"    -> {"SUBMITTING_COPY"} \cup ActiveExit
      [] s = "SUBMITTING_COPY"    -> {"WAITING_COPY"} \cup ActiveExit
      [] s = "WAITING_COPY"       -> {"VERIFYING_LOCAL"} \cup ActiveExit
      [] s = "VERIFYING_LOCAL"    -> {"COMPLETED"} \cup ActiveExit
      [] s = "COMPLETED"          -> {"DELETE_REQUESTED", "VERIFYING_LOCAL"}
      [] s = "CANCELLED"          -> {"DELETE_REQUESTED"}
      [] s = "FAILED"             -> Active \cup {"DELETE_REQUESTED"}
      [] s = "CANCEL_REQUESTED"   -> {"STOPPED", "CANCELLED", "DELETE_REQUESTED"}
      [] s = "DELETE_REQUESTED"   -> {"DELETED"}
      [] s = "DELETED"            -> {"ACCEPTED", "STOPPED", "VERIFYING_LOCAL"}]

CanTransition(from, to) == from # to /\ to \in Successors[from]

CanRetry(d) == d.state = "FAILED" \/ (d.state \in Cleanup /\ d.problem # "none")

\* The first durable phase a failed workflow is retried from.
RetryTarget(d) ==
  IF d.state \in Cleanup THEN d.state
  ELSE IF d.state = "FAILED" /\ d.problem \in {"conflict", "local"} THEN "SUBMITTING_COPY"
  ELSE IF d.content \/ d.upstream = "copy:COMPLETED" THEN "VERIFYING_LOCAL"
  ELSE IF d.upstream = "copy:ACTIVE" THEN "WAITING_COPY"
  ELSE IF d.upstream = "offline:ERROR" THEN "SUBMITTING_OFFLINE"
  ELSE IF d.upstream \in {"copy:FAILED", "offline:FINISHED"} \/ d.result THEN "SUBMITTING_COPY"
  ELSE IF d.upstream = "offline:ACTIVE" THEN "WAITING_OFFLINE"
  ELSE "SUBMITTING_OFFLINE"

\* The phase prerequisites of ValidateDownload: a row that fails them can be
\* neither committed by a worker nor read back from the store.
ValidDownload(d) ==
  /\ d.state \in {"SUBMITTING_COPY", "WAITING_COPY", "VERIFYING_LOCAL", "COMPLETED"} => d.result
  /\ d.state \in {"WAITING_COPY", "VERIFYING_LOCAL", "COMPLETED"} => d.source
  /\ d.state = "COMPLETED" => d.content /\ d.completed
  /\ d.completed => \/ d.state = "COMPLETED"
                    \/ d.state \in {"DELETE_REQUESTED", "DELETED"} /\ d.content

-----------------------------------------------------------------------------
(* Evidence read from and written to last_upstream_status (reconcile.go).  *)

CleanupCompleted(d) == d.mark = "cancelled"
\* A plausible slip: a copy that was never reported is taken for removed.
CopyNeverReported(d) == d.mark = "removed" \/ d.upstream = "destination_clear"
CopyRemovalCompleted(d) == d.mark = "removed"
\* A plausible slip: a cleared preflight is not yet evidence of a copy.
SubmittedCopyEvidence(d) == d.upstream \in CopyReports
HasCopyEvidence(d) == d.upstream \in CopyReports \cup {"destination_clear"}

\* A plausible slip: a prefix nothing else recognises.
MarkCleanup(d) == [d EXCEPT !.mark = "cleanup"]
MarkCleanupCancelled(d) == [d EXCEPT !.mark = "cancelled"]
MarkCopyRemoved(d) == [d EXCEPT !.mark = "removed"]

\* A whole status string: no prefix and this base.
StatusIs(d, u) == d.mark = "none" /\ d.upstream = u
SetStatus(d, u) == [d EXCEPT !.mark = "none", !.upstream = u]
=============================================================================

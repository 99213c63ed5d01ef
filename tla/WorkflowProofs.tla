--------------------------- MODULE WorkflowProofs ---------------------------
(***************************************************************************)
(* What Workflow guarantees for every set of hashes, workers and faults.   *)
(*                                                                         *)
(* QuietRowsUnleased, SingleOperator, RowsValid and NoStuckClaim are not   *)
(* inductive: whether a row may be retried or committed depends on which   *)
(* of its columns are set together (Sound), on a claim still holding the   *)
(* row it read (ClaimsMatchRows) and on its version being nobody else's    *)
(* (LeasesExclude). The invariants below say so, and are proved in layers: *)
(*                                                                         *)
(*   QuietInv  needs nothing else;                                         *)
(*   LeaseInv  needs QuietInv, and that calls respect the deadline;        *)
(*   SoundInv  needs QuietInv, and that a retry targets the row it reads.  *)
(*                                                                         *)
(* Each action is examined once, in OperatorWrites, DecideStep and         *)
(* CommitWrites; the invariants then follow from what those lemmas say.    *)
(***************************************************************************)
EXTENDS Workflow, TLAPS

Workable == Active \cup Cleanup
Resting == Quiet \cup {"ABSENT"}

\* Statuses that are written only once a destination has been reserved.
AfterPreflight == CopyReports \cup {"destination_clear", "retained"}

USE DEF Workable, Resting, AfterPreflight, States, Active, Cleanup, Quiet,
        CopyReports, LeaseStates, TimedStates

-----------------------------------------------------------------------------
(* The invariants.                                                           *)

\* A resting row holds no lease and is not due.
RowsQuiet ==
  \A h \in Hash : download[h].state \in Resting => lease[h] = "free" /\ ~download[h].due

\* Only a row with work to do is decided on, and a row decided to rest is not due.
ClaimsQuiet ==
  \A w \in Worker : Busy(w) =>
    /\ claim[w].pc = "deciding" => claim[w].d.state \in Workable
    /\ claim[w].d.state \in Resting => ~claim[w].d.due

QuietInv == TypeOK /\ RowsQuiet /\ ClaimsQuiet

\* A worker that is deciding holds the live lease, no second one is deciding,
\* and no other claim on the row can still be committed.
LeasesExclude ==
  \A w \in Worker, h \in Hash : Working(w, h) =>
    /\ lease[h] = "live"
    /\ \A v \in Worker \ {w} : Busy(v) /\ claim[v].hash = h =>
         claim[v].version # version[h] /\ claim[v].pc # "deciding"

LeaseInv == QuietInv /\ LeasesExclude

\* Columns that mean something only together: evidence of a copy implies a
\* source and a destination, either implies a cloud result, and a problem whose
\* retry starts the copy is recorded only where there is a result to copy.
Sound(d) ==
  /\ d.source => d.result
  /\ d.destination => d.source
  /\ d.content => d.destination
  /\ d.upstream \in AfterPreflight => d.destination
  /\ d.upstream = "offline:FINISHED" => d.result
  /\ d.problem \in {"conflict", "local", "unavailable"} /\ d.state \notin Cleanup => d.result
  /\ d.problem = "conflict" => ~d.destination
  /\ d.late => d.state \in TimedStates
  /\ d.state \in {"WAITING_COPY", "VERIFYING_LOCAL", "COMPLETED"} => d.destination

SoundRow(d) == Sound(d) /\ ValidDownload(d)
RowsSound == \A h \in Hash : SoundRow(download[h])

\* What decide may turn the sound row `before` into. CommitConflict may still
\* take a destination away that was only just reserved.
LegalSuccessor(before, after) ==
  /\ SoundRow(after) /\ LegalOutcome(before, after)
  /\ after.destination /\ ~before.destination =>
       ~after.content /\ after.upstream \notin AfterPreflight

\* A claim holds the row it read, or an outcome of it, for as long as that row
\* is what the store still has.
ClaimsMatchRows ==
  \A w \in Worker : Busy(w) =>
    LET c == claim[w] IN
    /\ c.pc = "deciding" => SoundRow(c.d) /\ (Current(w) => c.d = download[c.hash])
    /\ c.pc = "committing" /\ Current(w) => LegalSuccessor(download[c.hash], c.d)

SoundInv == QuietInv /\ RowsSound /\ ClaimsMatchRows

-----------------------------------------------------------------------------
(* Versions and transitions.                                                 *)

\* row_version + 1 is a version, and one that neither the row has nor any
\* worker holds: the commit of every claim made before the write is refused.
LEMMA NextVersionFresh ==
  ASSUME TypeOK, NEW h \in Hash
  PROVE  /\ NextVersion(h) \in Version
         /\ NextVersion(h) # version[h]
         /\ \A w \in Worker : Busy(w) => claim[w].version # NextVersion(h)
<1> DEFINE held == [w \in Worker |-> IF Busy(w) THEN claim[w].version ELSE version[h]]
<1>1. held \in [Worker -> Version] /\ version[h] \in Version
  BY DEF TypeOK, Claim, NoClaim, Busy
<1>2. \E v \in Version : v # version[h] /\ \A w \in Worker : held[w] # v
  BY <1>1, VersionAssumption
<1>3. \E v \in Version : v # version[h] /\ \A w \in Worker : Busy(w) => claim[w].version # v
  BY <1>2
<1> QED  BY <1>3 DEF NextVersion

\* The transition table allows the transitions that decide makes.
LEMMA Transitions ==
  /\ \A s \in Active : CanTransition(s, "FAILED")
  /\ CanTransition("ACCEPTED", "SUBMITTING_OFFLINE")
  /\ CanTransition("SUBMITTING_OFFLINE", "WAITING_OFFLINE")
  /\ CanTransition("SUBMITTING_OFFLINE", "SUBMITTING_COPY")
  /\ CanTransition("WAITING_OFFLINE", "SUBMITTING_COPY")
  /\ CanTransition("SUBMITTING_COPY", "WAITING_COPY")
  /\ CanTransition("WAITING_COPY", "VERIFYING_LOCAL")
  /\ CanTransition("VERIFYING_LOCAL", "COMPLETED")
  /\ CanTransition("CANCEL_REQUESTED", "STOPPED")
  /\ CanTransition("CANCEL_REQUESTED", "CANCELLED")
  /\ CanTransition("DELETE_REQUESTED", "DELETED")
  BY DEF CanTransition, Successors, ActiveExit

-----------------------------------------------------------------------------
(* The rows decide writes.                                                   *)

\* An outcome is a row; it rests without being due; and it is a legal successor
\* of the row it was decided from if that row was sound.
Outcome(before, after) ==
  /\ after \in Download
  /\ after.state \in Resting => ~after.due
  /\ SoundRow(before) => LegalSuccessor(before, after)

\* e is d with another state, status, schedule or problem.
SamePaths(d, e) ==
  /\ e.isolated = d.isolated /\ e.result = d.result /\ e.source = d.source
  /\ e.destination = d.destination /\ e.content = d.content /\ e.completed = d.completed

\* What d's columns must say before the phase or the status is written.
Ready(d, s) ==
  /\ s \in {"SUBMITTING_COPY", "WAITING_COPY", "VERIFYING_LOCAL"} => d.result
  /\ s \in {"WAITING_COPY", "VERIFYING_LOCAL"} => d.source /\ d.destination
  /\ s # "COMPLETED"
  /\ d.state = "DELETE_REQUESTED" => s = "DELETED"

Seen(d, u) ==
  /\ u \in AfterPreflight => d.destination
  /\ u = "offline:FINISHED" => d.result

Explained(d, p) ==
  p \in {"none", "other"} \/ (p \in {"local", "unavailable"} /\ (d.state \in Cleanup \/ d.result))

\* A row with d's paths is an outcome of d when its state, status and problem
\* are ones that those paths allow.
LEMMA SamePathsOutcome ==
  ASSUME NEW d \in Download, NEW e \in Download, d.state \in Workable, SamePaths(d, e),
         e.state \in Resting => ~e.due,
         SoundRow(d) =>
           /\ e.state = d.state \/ (CanTransition(d.state, e.state) /\ Ready(d, e.state))
           /\ e.upstream = d.upstream \/ Seen(d, e.upstream)
           /\ Explained(d, e.problem) /\ (e.state = d.state \/ e.problem = "none" \/ d.state \in Active)
           /\ e.late => d.late /\ e.state = d.state
  PROVE  Outcome(d, e)
<1>1. SUFFICES ASSUME SoundRow(d) PROVE LegalSuccessor(d, e)
  BY DEF Outcome
<1>2. Sound(e)
  BY <1>1 DEF SoundRow, Sound, SamePaths, Ready, Seen, Explained
<1>3. ValidDownload(e)
  BY <1>1 DEF SoundRow, ValidDownload, SamePaths, Ready
<1>4. LegalOutcome(d, e)
  BY <1>1, <1>3 DEF LegalOutcome, WorkspaceMayChange, SamePaths
<1> QED  BY <1>2, <1>3, <1>4 DEF LegalSuccessor, SoundRow, SamePaths

\* What each way of deciding writes, and what it leaves alone.
LEMMA RowHelpers ==
  ASSUME NEW d \in Download
  PROVE  /\ Poll(d) \in Download /\ SamePaths(d, Poll(d))
         /\ Poll(d).state = d.state /\ Poll(d).upstream = d.upstream
         /\ Poll(d).problem = "none" /\ (Poll(d).late => d.late) /\ Poll(d).mark = d.mark
         /\ \A s \in States : LET e == Advance(d, s) IN
              e \in Download /\ SamePaths(d, e) /\ e.state = s /\ e.upstream = d.upstream
              /\ e.problem = "none" /\ ~e.late
         /\ \A s \in States : LET e == Quieted(d, s) IN
              e \in Download /\ SamePaths(d, e) /\ e.state = s /\ e.upstream = d.upstream
              /\ e.problem = "none" /\ ~e.late /\ ~e.due
         /\ \A p \in Problems : LET e == Fail(d, p) IN
              e \in Download /\ SamePaths(d, e) /\ e.state = "FAILED" /\ e.upstream = d.upstream
              /\ e.problem = p /\ ~e.late /\ ~e.due
         /\ \A p \in Problems : LET e == RetryLater(d, p) IN
              e \in Download /\ SamePaths(d, e) /\ e.state = d.state /\ e.upstream = d.upstream
              /\ e.problem = p /\ (e.late => d.late)
         /\ \A p \in Problems : LET e == CleanupProblem(d, p) IN
              e \in Download /\ SamePaths(d, e) /\ e.state = d.state /\ e.upstream = d.upstream
              /\ e.problem = p /\ (e.late => d.late)
         /\ \A u \in Upstreams : LET e == SetStatus(d, u) IN
              e \in Download /\ SamePaths(d, e) /\ e.state = d.state /\ e.upstream = u
              /\ e.mark = "none" /\ e.problem = d.problem /\ (e.late => d.late)
         /\ \A e \in {MarkCopyRemoved(d), MarkCleanupCancelled(d)} :
              e \in Download /\ SamePaths(d, e) /\ e.state = d.state /\ e.upstream = d.upstream
              /\ e.problem = d.problem /\ (e.late => d.late)
<1> USE DEF Download, SamePaths
<1>1. /\ Poll(d) \in Download /\ SamePaths(d, Poll(d))
      /\ Poll(d).state = d.state /\ Poll(d).upstream = d.upstream
      /\ Poll(d).problem = "none" /\ (Poll(d).late => d.late) /\ Poll(d).mark = d.mark
  BY DEF Poll, Problems
<1>2. ASSUME NEW s \in States, NEW e, e = Advance(d, s)
      PROVE  /\ e \in Download /\ SamePaths(d, e) /\ e.state = s /\ e.upstream = d.upstream
             /\ e.problem = "none" /\ ~e.late
  BY <1>2 DEF Advance, Problems
<1>3. ASSUME NEW s \in States, NEW e, e = Quieted(d, s)
      PROVE  /\ e \in Download /\ SamePaths(d, e) /\ e.state = s /\ e.upstream = d.upstream
             /\ e.problem = "none" /\ ~e.late /\ ~e.due
  BY <1>3 DEF Quieted, Problems
<1>4. ASSUME NEW p \in Problems, NEW e, e = Fail(d, p)
      PROVE  /\ e \in Download /\ SamePaths(d, e) /\ e.state = "FAILED" /\ e.upstream = d.upstream
             /\ e.problem = p /\ ~e.late /\ ~e.due
  BY <1>4 DEF Fail, Quieted
<1>5. ASSUME NEW p \in Problems, NEW e, e = RetryLater(d, p)
      PROVE  /\ e \in Download /\ SamePaths(d, e) /\ e.state = d.state /\ e.upstream = d.upstream
             /\ e.problem = p /\ (e.late => d.late)
  BY <1>5 DEF RetryLater
<1>6. ASSUME NEW p \in Problems, NEW e, e = CleanupProblem(d, p)
      PROVE  /\ e \in Download /\ SamePaths(d, e) /\ e.state = d.state /\ e.upstream = d.upstream
             /\ e.problem = p /\ (e.late => d.late)
  BY <1>6 DEF CleanupProblem
<1>7. ASSUME NEW u \in Upstreams, NEW e, e = SetStatus(d, u)
      PROVE  /\ e \in Download /\ SamePaths(d, e) /\ e.state = d.state /\ e.upstream = u
             /\ e.mark = "none" /\ e.problem = d.problem /\ (e.late => d.late)
  BY <1>7 DEF SetStatus, Marks
<1>8. ASSUME NEW e \in {MarkCopyRemoved(d), MarkCleanupCancelled(d)}
      PROVE  /\ e \in Download /\ SamePaths(d, e) /\ e.state = d.state /\ e.upstream = d.upstream
             /\ e.problem = d.problem /\ (e.late => d.late)
  BY <1>8 DEF MarkCopyRemoved, MarkCleanupCancelled, Marks
<1> HIDE DEF Download, SamePaths
<1> QED  BY <1>1, <1>2, <1>3, <1>4, <1>5, <1>6, <1>7, <1>8

\* A path becomes known and nothing else changes.
OtherColumns(d, e) ==
  /\ e \in Download /\ e.state = d.state /\ e.upstream = d.upstream /\ e.problem = d.problem
  /\ e.late => d.late
  /\ e.isolated = d.isolated /\ e.completed = d.completed

\* Recording one path that decide has just learned keeps every other column.
LEMMA PathLearned ==
  ASSUME NEW d \in Download
  PROVE  /\ LET e == [d EXCEPT !.result = TRUE] IN
              OtherColumns(d, e) /\ e.result /\ e.source = d.source
              /\ e.destination = d.destination /\ e.content = d.content
         /\ LET e == [d EXCEPT !.source = TRUE] IN
              OtherColumns(d, e) /\ e.result = d.result /\ e.source
              /\ e.destination = d.destination /\ e.content = d.content
         /\ LET e == [d EXCEPT !.destination = TRUE] IN
              OtherColumns(d, e) /\ e.result = d.result /\ e.source = d.source
              /\ e.destination /\ e.content = d.content
         /\ LET e == [d EXCEPT !.content = TRUE] IN
              OtherColumns(d, e) /\ e.result = d.result /\ e.source = d.source
              /\ e.destination = d.destination /\ e.content
  BY DEF Download, OtherColumns

\* The workspace is emptied and the copy starts over, or the copy is complete.
LEMMA ContentChanged ==
  ASSUME NEW d \in Download
  PROVE  /\ LET e == [d EXCEPT !.isolated = TRUE, !.content = FALSE] IN
              /\ e \in Download /\ e.isolated /\ ~e.content /\ e.result = d.result
              /\ e.source = d.source /\ e.destination = d.destination
              /\ e.completed = d.completed /\ e.upstream = d.upstream /\ e.mark = d.mark
              /\ e.state = d.state /\ (e.late => d.late)
         /\ LET e == [d EXCEPT !.content = TRUE, !.completed = TRUE] IN
              /\ e \in Download /\ e.content /\ e.completed /\ e.isolated = d.isolated
              /\ e.result = d.result /\ e.source = d.source /\ e.destination = d.destination
              /\ e.upstream = d.upstream /\ e.problem = d.problem /\ e.state = d.state
              /\ (e.late => d.late) /\ (e.due => d.due)
  BY DEF Download

\* Staying in the same phase, with whatever status it has reached.
LEMMA StayOutcome ==
  ASSUME NEW d \in Download, d.state \in Workable
  PROVE  /\ Outcome(d, Poll(d))
         /\ Outcome(d, RetryLater(d, "other"))
         /\ (SoundRow(d) => d.result) => Outcome(d, RetryLater(d, "unavailable"))
         /\ d.state \in Cleanup => \A p \in {"local", "other"} : Outcome(d, CleanupProblem(d, p))
         /\ \A u \in Upstreams : (SoundRow(d) => Seen(d, u)) => Outcome(d, Poll(SetStatus(d, u)))
         /\ \A e \in {MarkCopyRemoved(d), MarkCleanupCancelled(d)} : Outcome(d, Poll(e))
<1>1. ASSUME NEW e \in Download, SamePaths(d, e), e.state = d.state, e.late => d.late,
             SoundRow(d) => Explained(d, e.problem) /\ (e.upstream = d.upstream \/ Seen(d, e.upstream))
      PROVE  Outcome(d, e)
  BY <1>1, SamePathsOutcome
<1>2. Outcome(d, Poll(d)) /\ Outcome(d, RetryLater(d, "other"))
  BY <1>1, RowHelpers DEF Explained, Problems
<1>3. ASSUME SoundRow(d) => d.result PROVE Outcome(d, RetryLater(d, "unavailable"))
  BY <1>1, <1>3, RowHelpers DEF Explained, Problems
<1>4. ASSUME d.state \in Cleanup, NEW p \in {"local", "other"}
      PROVE  Outcome(d, CleanupProblem(d, p))
  BY <1>1, <1>4, RowHelpers DEF Explained, Problems
<1>5. ASSUME NEW u \in Upstreams, SoundRow(d) => Seen(d, u)
      PROVE  Outcome(d, Poll(SetStatus(d, u)))
  <2>1. PICK e \in Download : /\ e = SetStatus(d, u) /\ SamePaths(d, e) /\ e.state = d.state
                             /\ e.upstream = u /\ (e.late => d.late)
    BY RowHelpers
  <2>2. Outcome(d, Poll(e))
    BY <1>1, <1>5, <2>1, RowHelpers DEF Explained, SamePaths
  <2> QED  BY <2>1, <2>2
<1>6. ASSUME NEW e \in {MarkCopyRemoved(d), MarkCleanupCancelled(d)}
      PROVE  Outcome(d, Poll(e))
  BY <1>1, RowHelpers DEF Explained, SamePaths
<1> QED  BY <1>2, <1>3, <1>4, <1>5, <1>6

\* Going on to another active phase, or failing.
LEMMA ActiveOutcome ==
  ASSUME NEW d \in Download, d.state \in Workable, SoundRow(d) => d.state \in Active
  PROVE  /\ \A s \in Active : (SoundRow(d) => CanTransition(d.state, s) /\ Ready(d, s)) =>
              Outcome(d, Advance(d, s))
         /\ \A p \in {"local", "other"} : (SoundRow(d) => p = "other" \/ d.result) =>
              Outcome(d, Fail(d, p))
         /\ \A u \in Upstreams : (SoundRow(d) => Seen(d, u)) =>
              /\ Outcome(d, Fail(SetStatus(d, u), "other"))
              /\ \A s \in Active : (SoundRow(d) => CanTransition(d.state, s) /\ Ready(d, s)) =>
                   Outcome(d, Advance(SetStatus(d, u), s))
<1>1. ASSUME NEW e \in Download, SamePaths(d, e), ~e.late, e.state \in Resting => ~e.due,
             SoundRow(d) => /\ CanTransition(d.state, e.state) /\ Ready(d, e.state)
                            /\ e.upstream = d.upstream \/ Seen(d, e.upstream)
                            /\ Explained(d, e.problem)
      PROVE  Outcome(d, e)
  BY <1>1, SamePathsOutcome
<1>2. d.state \in Active => CanTransition(d.state, "FAILED") /\ Ready(d, "FAILED")
  BY Transitions DEF Ready
<1>3. ASSUME NEW s \in Active, SoundRow(d) => CanTransition(d.state, s) /\ Ready(d, s)
      PROVE  Outcome(d, Advance(d, s))
  BY <1>1, <1>3, RowHelpers DEF Explained
<1>4. ASSUME NEW p \in {"local", "other"}, SoundRow(d) => p = "other" \/ d.result
      PROVE  Outcome(d, Fail(d, p))
  BY <1>1, <1>2, <1>4, RowHelpers DEF Explained, Problems
<1>5. ASSUME NEW u \in Upstreams, SoundRow(d) => Seen(d, u)
      PROVE  /\ Outcome(d, Fail(SetStatus(d, u), "other"))
             /\ \A s \in Active : (SoundRow(d) => CanTransition(d.state, s) /\ Ready(d, s)) =>
                  Outcome(d, Advance(SetStatus(d, u), s))
  <2>1. PICK e \in Download : e = SetStatus(d, u) /\ SamePaths(d, e) /\ e.upstream = u
    BY RowHelpers
  <2>2. Outcome(d, Fail(e, "other"))
    BY <1>1, <1>2, <1>5, <2>1, RowHelpers DEF Explained, SamePaths, Problems
  <2>3. ASSUME NEW s \in Active, SoundRow(d) => CanTransition(d.state, s) /\ Ready(d, s)
        PROVE  Outcome(d, Advance(e, s))
    BY <1>1, <1>5, <2>1, <2>3, RowHelpers DEF Explained, SamePaths
  <2> QED  BY <2>1, <2>2, <2>3
<1> QED  BY <1>3, <1>4, <1>5

\* A cleanup comes to rest, with or without a status that says what it did.
LEMMA RestOutcome ==
  ASSUME NEW d \in Download, d.state \in Workable,
         NEW s \in {"STOPPED", "CANCELLED", "DELETED"}, CanTransition(d.state, s),
         d.state = "DELETE_REQUESTED" <=> s = "DELETED"
  PROVE  /\ Outcome(d, Quieted(d, s))
         /\ \A u \in Upstreams : (SoundRow(d) => Seen(d, u)) => Outcome(d, Quieted(SetStatus(d, u), s))
         /\ \A e \in {MarkCopyRemoved(d), MarkCleanupCancelled(d)} : Outcome(d, Quieted(e, s))
<1>1. ASSUME NEW e \in Download, SamePaths(d, e), ~e.late, ~e.due, e.state = s, e.problem = "none",
             SoundRow(d) => e.upstream = d.upstream \/ Seen(d, e.upstream)
      PROVE  Outcome(d, e)
  BY <1>1, SamePathsOutcome DEF Ready, Explained
<1>2. Outcome(d, Quieted(d, s))
  BY <1>1, RowHelpers
<1>3. ASSUME NEW u \in Upstreams, SoundRow(d) => Seen(d, u)
      PROVE  Outcome(d, Quieted(SetStatus(d, u), s))
  <2>1. PICK e \in Download : e = SetStatus(d, u) /\ SamePaths(d, e) /\ e.upstream = u
    BY RowHelpers
  <2>2. Outcome(d, Quieted(e, s))
    BY <1>1, <1>3, <2>1, RowHelpers DEF SamePaths
  <2> QED  BY <2>1, <2>2
<1>4. ASSUME NEW e \in {MarkCopyRemoved(d), MarkCleanupCancelled(d)}
      PROVE  Outcome(d, Quieted(e, s))
  BY <1>1, RowHelpers DEF SamePaths
<1> QED  BY <1>2, <1>3, <1>4

\* Whatever way an external call fails, the row it leaves is an outcome.
LEMMA FailureOutcome ==
  ASSUME NEW d \in Download, d.state \in Workable, NEW fault
  PROVE  /\ d.state \in Active => \A b \in BOOLEAN : Outcome(d, CloudFailure(d, fault, b))
         /\ d.state \in Cleanup => Outcome(d, CleanupFailure(d, fault))
         /\ d.state \in Active /\ (SoundRow(d) => d.result) => Outcome(d, LocalFailure(d, fault))
<1>1. d.state \in Active => Outcome(d, Fail(d, "other"))
                            /\ ((SoundRow(d) => d.result) => Outcome(d, Fail(d, "local")))
  BY ActiveOutcome
<1> QED  BY <1>1, StayOutcome DEF CloudFailure, CleanupFailure, LocalFailure

\* Learning a path, at the moment decide learns it.
LEMMA LearningOutcome ==
  ASSUME NEW d \in Download, d.state \in Workable
  PROVE  /\ d.state \in {"SUBMITTING_OFFLINE", "WAITING_OFFLINE"} =>
              Outcome(d, [Advance(SetStatus(d, "offline:FINISHED"), "SUBMITTING_COPY") EXCEPT !.result = TRUE])
         /\ d.state = "SUBMITTING_COPY" /\ d.result => Outcome(d, Poll([d EXCEPT !.source = TRUE]))
         /\ d.state = "SUBMITTING_COPY" /\ d.source /\ ~d.destination =>
              Outcome(d, Poll([d EXCEPT !.destination = TRUE]))
<1>1. ASSUME d.state \in {"SUBMITTING_OFFLINE", "WAITING_OFFLINE"}
      PROVE  Outcome(d, [Advance(SetStatus(d, "offline:FINISHED"), "SUBMITTING_COPY") EXCEPT !.result = TRUE])
  <2>1. PICK seen \in Download : seen = SetStatus(d, "offline:FINISHED") /\ SamePaths(d, seen)
                                 /\ seen.upstream = "offline:FINISHED"
    BY RowHelpers DEF Upstreams
  <2>2. PICK next \in Download : /\ next = Advance(seen, "SUBMITTING_COPY") /\ SamePaths(seen, next)
                                 /\ next.state = "SUBMITTING_COPY" /\ next.problem = "none"
                                 /\ next.upstream = seen.upstream /\ ~next.late
    BY RowHelpers
  <2>3. PICK e \in Download : /\ e = [next EXCEPT !.result = TRUE]
                              /\ OtherColumns(next, e) /\ e.result /\ e.source = next.source
                              /\ e.destination = next.destination /\ e.content = next.content
    BY PathLearned DEF OtherColumns
  <2>4. SoundRow(d) => SoundRow(e)
    BY <1>1, <2>1, <2>2, <2>3 DEF SoundRow, Sound, ValidDownload, SamePaths, OtherColumns
  <2>5. Outcome(d, e)
    BY <1>1, <2>1, <2>2, <2>3, <2>4, Transitions
       DEF Outcome, LegalSuccessor, LegalOutcome, WorkspaceMayChange, SoundRow, SamePaths, OtherColumns
  <2> QED  BY <2>1, <2>2, <2>3, <2>5
<1>2. ASSUME d.state = "SUBMITTING_COPY", d.result
      PROVE  Outcome(d, Poll([d EXCEPT !.source = TRUE]))
  <2>1. PICK next \in Download : /\ next = [d EXCEPT !.source = TRUE]
                                 /\ OtherColumns(d, next) /\ next.result = d.result /\ next.source
                                 /\ next.destination = d.destination /\ next.content = d.content
    BY PathLearned DEF OtherColumns
  <2>2. PICK e \in Download : /\ e = Poll(next) /\ SamePaths(next, e) /\ e.state = next.state
                              /\ e.upstream = next.upstream /\ e.problem = "none" /\ (e.late => next.late)
    BY RowHelpers
  <2>3. SoundRow(d) => SoundRow(e)
    BY <1>2, <2>1, <2>2 DEF SoundRow, Sound, ValidDownload, SamePaths, OtherColumns
  <2>4. Outcome(d, e)
    BY <1>2, <2>1, <2>2, <2>3
       DEF Outcome, LegalSuccessor, LegalOutcome, WorkspaceMayChange, SoundRow, SamePaths, OtherColumns
  <2> QED  BY <2>1, <2>2, <2>4
<1>3. ASSUME d.state = "SUBMITTING_COPY", d.source, ~d.destination
      PROVE  Outcome(d, Poll([d EXCEPT !.destination = TRUE]))
  <2>1. PICK next \in Download : /\ next = [d EXCEPT !.destination = TRUE]
                                 /\ OtherColumns(d, next) /\ next.result = d.result
                                 /\ next.source = d.source /\ next.destination /\ next.content = d.content
    BY PathLearned DEF OtherColumns
  <2>2. PICK e \in Download : /\ e = Poll(next) /\ SamePaths(next, e) /\ e.state = next.state
                              /\ e.upstream = next.upstream /\ e.problem = "none" /\ (e.late => next.late)
    BY RowHelpers
  <2>3. SoundRow(d) => SoundRow(e)
    BY <1>3, <2>1, <2>2 DEF SoundRow, Sound, ValidDownload, SamePaths, OtherColumns
  <2>4. SoundRow(d) => ~e.content /\ e.upstream \notin AfterPreflight
    BY <1>3, <2>1, <2>2 DEF SoundRow, Sound, SamePaths, OtherColumns
  <2>5. Outcome(d, e)
    BY <1>3, <2>1, <2>2, <2>3, <2>4
       DEF Outcome, LegalSuccessor, LegalOutcome, WorkspaceMayChange, SoundRow, SamePaths, OtherColumns
  <2> QED  BY <2>1, <2>2, <2>5
<1> QED  BY <1>1, <1>2, <1>3

\* The clean retry of a copy, and content that verifies.
LEMMA ContentOutcome ==
  ASSUME NEW d \in Download, d.state \in Workable
  PROVE  /\ d.state = "SUBMITTING_COPY" /\ LeftOver(d) /\ CopyRemovalCompleted(d) /\ d.result =>
              Outcome(d, Poll([SetStatus(d, "offline:FINISHED") EXCEPT !.isolated = TRUE, !.content = FALSE]))
         /\ d.state = "WAITING_COPY" => Outcome(d, Advance([d EXCEPT !.content = TRUE], "VERIFYING_LOCAL"))
         /\ d.state = "VERIFYING_LOCAL" =>
              Outcome(d, [Quieted(d, "COMPLETED") EXCEPT !.content = TRUE, !.completed = TRUE])
<1>1. ASSUME d.state = "SUBMITTING_COPY", LeftOver(d), CopyRemovalCompleted(d), d.result
      PROVE  Outcome(d, Poll([SetStatus(d, "offline:FINISHED") EXCEPT !.isolated = TRUE, !.content = FALSE]))
  <2>1. PICK seen \in Download : /\ seen = SetStatus(d, "offline:FINISHED") /\ SamePaths(d, seen)
                                 /\ seen.upstream = "offline:FINISHED" /\ seen.mark = "none"
                                 /\ seen.state = d.state /\ (seen.late => d.late)
    BY RowHelpers DEF Upstreams
  <2>2. PICK next \in Download :
          /\ next = [seen EXCEPT !.isolated = TRUE, !.content = FALSE]
          /\ next.isolated /\ ~next.content /\ next.result = seen.result /\ next.source = seen.source
          /\ next.destination = seen.destination /\ next.completed = seen.completed
          /\ next.upstream = seen.upstream /\ next.mark = seen.mark /\ next.state = seen.state
          /\ next.late => seen.late
    BY ContentChanged
  <2>3. PICK e \in Download : /\ e = Poll(next) /\ SamePaths(next, e) /\ e.state = next.state
                              /\ e.upstream = next.upstream /\ e.mark = next.mark
                              /\ e.problem = "none" /\ (e.late => next.late)
    BY RowHelpers
  <2>4. /\ e.isolated /\ ~e.content /\ e.result = d.result /\ e.source = d.source
        /\ e.destination = d.destination /\ e.completed = d.completed /\ e.state = d.state
        /\ e.upstream = "offline:FINISHED" /\ e.mark = "none" /\ e.problem = "none" /\ (e.late => d.late)
    BY <2>1, <2>2, <2>3, ZenonT(60) DEF SamePaths
  <2>5. SoundRow(d) => Sound(e)
    BY <1>1, <2>4 DEF SoundRow, Sound
  <2>6. SoundRow(d) => ValidDownload(e)
    BY <1>1, <2>4 DEF SoundRow, ValidDownload
  <2>7. WorkspaceMayChange(d, e)
    BY <1>1, <2>4 DEF WorkspaceMayChange, StatusIs, LeftOver
  <2>8. Outcome(d, e)
    BY <1>1, <2>4, <2>5, <2>6, <2>7 DEF Outcome, LegalSuccessor, LegalOutcome, SoundRow
  <2> QED  BY <2>1, <2>2, <2>3, <2>8
<1>2. ASSUME d.state = "WAITING_COPY"
      PROVE  Outcome(d, Advance([d EXCEPT !.content = TRUE], "VERIFYING_LOCAL"))
  <2>1. PICK next \in Download : /\ next = [d EXCEPT !.content = TRUE]
                                 /\ OtherColumns(d, next) /\ next.result = d.result
                                 /\ next.source = d.source /\ next.destination = d.destination /\ next.content
    BY PathLearned DEF OtherColumns
  <2>2. PICK e \in Download : /\ e = Advance(next, "VERIFYING_LOCAL") /\ SamePaths(next, e)
                              /\ e.state = "VERIFYING_LOCAL" /\ e.upstream = next.upstream
                              /\ e.problem = "none" /\ ~e.late
    BY RowHelpers
  <2>3. SoundRow(d) => SoundRow(e)
    BY <1>2, <2>1, <2>2 DEF SoundRow, Sound, ValidDownload, SamePaths, OtherColumns
  <2>4. Outcome(d, e)
    BY <1>2, <2>1, <2>2, <2>3, Transitions
       DEF Outcome, LegalSuccessor, LegalOutcome, WorkspaceMayChange, SoundRow, SamePaths, OtherColumns
  <2> QED  BY <2>1, <2>2, <2>4
<1>3. ASSUME d.state = "VERIFYING_LOCAL"
      PROVE  Outcome(d, [Quieted(d, "COMPLETED") EXCEPT !.content = TRUE, !.completed = TRUE])
  <2>1. PICK next \in Download : /\ next = Quieted(d, "COMPLETED") /\ SamePaths(d, next)
                                 /\ next.state = "COMPLETED" /\ next.upstream = d.upstream
                                 /\ next.problem = "none" /\ ~next.late /\ ~next.due
    BY RowHelpers
  <2>2. PICK e \in Download :
          /\ e = [next EXCEPT !.content = TRUE, !.completed = TRUE]
          /\ e.content /\ e.completed /\ e.isolated = next.isolated /\ e.result = next.result
          /\ e.source = next.source /\ e.destination = next.destination
          /\ e.upstream = next.upstream /\ e.problem = next.problem /\ e.state = next.state
          /\ ~e.late /\ ~e.due
    BY <2>1, ContentChanged
  <2>3. SoundRow(d) => SoundRow(e)
    BY <1>3, <2>1, <2>2 DEF SoundRow, Sound, ValidDownload, SamePaths
  <2>4. Outcome(d, e)
    BY <1>3, <2>1, <2>2, <2>3, Transitions
       DEF Outcome, LegalSuccessor, LegalOutcome, WorkspaceMayChange, SoundRow, Sound, ValidDownload, SamePaths
  <2> QED  BY <2>1, <2>2, <2>4
<1> QED  BY <1>1, <1>2, <1>3

-----------------------------------------------------------------------------
(* The steps.                                                                *)

OutsideOK ==
  /\ offline \in [Hash -> OfflineTasks] /\ copy \in [Hash -> CopyTasks]
  /\ disk \in [Hash -> DiskContents]

\* The step leaves the worker with outcome a, to be committed.
Decision(w, a) ==
  claim' = [claim EXCEPT ![w].pc = "committing", ![w].inTime = TRUE, ![w].d = a]

\* Decide changes nothing but its own claim and the outside world.
LEMMA DecideFrame ==
  ASSUME TypeOK, NEW w \in Worker, Decide(w)
  PROVE  /\ Busy(w) /\ claim[w].pc = "deciding"
         /\ UNCHANGED <<store, retryPlan, acked>>
         /\ OutsideOK'
<1>1. claim[w].hash \in Hash \/ ~Busy(w)
  BY DEF TypeOK, Claim, NoClaim, Busy
<1>2. ASSUME NEW h \in Hash
      PROVE  /\ {EnsuredOffline(h), CancelledOffline(h)} \subseteq [Hash -> OfflineTasks]
             /\ {EnsuredCopy(h), RemovedCopy(h)} \subseteq [Hash -> CopyTasks]
             /\ Interrupted(h) \cup {Emptied(h)} \subseteq [Hash -> DiskContents]
  BY DEF TypeOK, EnsuredOffline, CancelledOffline, EnsuredCopy, RemovedCopy, Interrupted,
         Emptied, MayLand, OfflineTasks, CopyTasks, DiskContents
<1> USE <1>1, <1>2 DEF OutsideOK, TypeOK, RowStep, OfflineStep, CopyStep, DiskStep, Deciding,
        CloudStep, outside, store, MayLand
<1>3. CASE PhaseTimeout(w) \/ OperationOverran(w) \/ BeginOffline(w) \/ InspectOffline(w)
           \/ ResolveCopySource(w) \/ ReserveDestination(w) \/ PreflightLocal(w) \/ InspectCopy(w)
           \/ VerifyLocal(w) \/ PauseFinishedCopy(w)
  BY <1>3 DEF PhaseTimeout, OperationOverran, BeginOffline, InspectOffline, ResolveCopySource,
         ReserveDestination, PreflightLocal, InspectCopy, VerifyLocal, PauseFinishedCopy, CopyRung, Pausing
<1>4. CASE RetryCancelOffline(w) \/ EnsureOffline(w)
  BY <1>4 DEF RetryCancelOffline, EnsureOffline
<1>5. CASE RetryRemoveCopy(w) \/ EnsureCopy(w)
  BY <1>5 DEF RetryRemoveCopy, EnsureCopy, CopyRung
<1>6. CASE RetryDeleteCopy(w) \/ PauseDeleteCopy(w) \/ DeleteLocal(w)
  BY <1>6 DEF RetryDeleteCopy, PauseDeleteCopy, DeleteLocal, DeleteFiles, CopyRung, Pausing
<1>7. CASE CancelUpstream(w) \/ PauseUpstream(w) \/ DeleteUpstream(w)
  BY <1>7 DEF CancelUpstream, PauseUpstream, DeleteUpstream, StopUpstream, Pausing
<1> QED  BY <1>3, <1>4, <1>5, <1>6, <1>7 DEF Decide

\* Every branch of decide leaves its worker with an outcome of the row it read.
LEMMA DecideStep ==
  ASSUME QuietInv, NEW w \in Worker, Decide(w)
  PROVE  \E a : Outcome(claim[w].d, a) /\ Decision(w, a)
<1> DEFINE d == claim[w].d
           h == claim[w].hash
           Concluded == \E o : Decided(w, o) /\ (claim[w].inTime => Outcome(d, o))
<1>1. Busy(w) /\ claim[w].pc = "deciding" /\ d \in Download /\ h \in Hash /\ d.state \in Workable
  BY DecideFrame DEF QuietInv, TypeOK, ClaimsQuiet, Claim, NoClaim, Busy
<1>2. SUFFICES Concluded
  BY <1>1, StayOutcome DEF Decided, Decision
<1>3. d.state \in Active => /\ Outcome(d, Poll(d))
                            /\ \A fault : /\ \A b \in BOOLEAN : Outcome(d, CloudFailure(d, fault, b))
                                          /\ (SoundRow(d) => d.result) => Outcome(d, LocalFailure(d, fault))
  BY <1>1, StayOutcome, FailureOutcome
<1>4. SoundRow(d) => /\ d.state \in {"SUBMITTING_COPY", "WAITING_COPY", "VERIFYING_LOCAL"} => d.result
                     /\ d.state \in {"WAITING_COPY", "VERIFYING_LOCAL"} => d.source /\ d.destination
  BY DEF SoundRow, Sound, ValidDownload
<1> USE DEF RowStep, OfflineStep, CopyStep, DiskStep, Deciding, CloudStep
<1>5. CASE PhaseTimeout(w)
  <2>1. SoundRow(d) => d.state \in Active /\ (DeadlineProblem(d) = "other" \/ d.result)
    BY <1>1, <1>5 DEF PhaseTimeout, SoundRow, Sound, ValidDownload, DeadlineProblem
  <2>2. Outcome(d, Fail(d, DeadlineProblem(d)))
    BY <1>1, <2>1, ActiveOutcome DEF DeadlineProblem
  <2> QED  BY <1>5, <2>2 DEF PhaseTimeout
<1>6. CASE OperationOverran(w)
  BY <1>6 DEF OperationOverran
<1>7. CASE BeginOffline(w)
  <2>1. Outcome(d, Advance(d, "SUBMITTING_OFFLINE"))
    BY <1>1, <1>7, ActiveOutcome, Transitions DEF BeginOffline, Ready
  <2> QED  BY <1>7, <2>1 DEF BeginOffline
<1>8. CASE RetryCancelOffline(w)
  <2>1. Outcome(d, Poll(SetStatus(d, "none")))
    BY <1>1, StayOutcome DEF Seen, Upstreams
  <2> QED  BY <1>3, <1>8, <2>1 DEF RetryCancelOffline
<1>9. ASSUME NEW task \in OfflineTasks \ {"none"}, d.state \in {"SUBMITTING_OFFLINE", "WAITING_OFFLINE"}
      PROVE  Outcome(d, OfflineReported(d, task))
  <2>1. CASE task = "active"
    BY <1>1, <1>9, <2>1, StayOutcome, ActiveOutcome, Transitions
       DEF OfflineReported, Seen, Ready, Upstreams
  <2>2. CASE task = "error"
    BY <1>1, <1>9, <2>2, ActiveOutcome DEF OfflineReported, Seen, Upstreams
  <2>3. CASE task = "finished"
    BY <1>1, <1>9, <2>3, LearningOutcome DEF OfflineReported
  <2> QED  BY <1>9, <2>1, <2>2, <2>3 DEF OfflineTasks
<1>10. CASE EnsureOffline(w)
  <2>1. EnsuredOffline(h)[h] \in OfflineTasks \ {"none"}
    BY <1>1 DEF EnsuredOffline, QuietInv, TypeOK, OfflineTasks
  <2> QED  BY <1>3, <1>9, <1>10, <2>1 DEF EnsureOffline
<1>11. CASE InspectOffline(w)
  <2>1. offline[h] \in OfflineTasks
    BY <1>1 DEF QuietInv, TypeOK
  <2> QED  BY <1>3, <1>9, <1>11, <2>1 DEF InspectOffline
<1>12. CASE ResolveCopySource(w)
  <2>1. Outcome(d, Poll([d EXCEPT !.source = TRUE]))
    BY <1>1, <1>12, LearningOutcome DEF ResolveCopySource
  <2>2. Outcome(d, Fail(d, "other"))
    BY <1>1, <1>12, ActiveOutcome DEF ResolveCopySource
  <2> QED  BY <1>3, <1>12, <2>1, <2>2 DEF ResolveCopySource
<1>13. CASE ReserveDestination(w)
  <2>1. Outcome(d, Poll([d EXCEPT !.destination = TRUE]))
    BY <1>1, <1>13, LearningOutcome DEF ReserveDestination
  <2> QED  BY <1>13, <2>1 DEF ReserveDestination
<1>14. CASE RetryRemoveCopy(w)
  <2>1. Outcome(d, Poll(MarkCopyRemoved(d)))
    BY <1>1, StayOutcome
  <2> QED  BY <1>3, <1>14, <2>1 DEF RetryRemoveCopy, CopyRung
<1>15. CASE RetryDeleteCopy(w)
  <2>1. Outcome(d, Poll([SetStatus(d, "offline:FINISHED") EXCEPT !.isolated = TRUE, !.content = FALSE]))
    BY <1>1, <1>15, ContentOutcome DEF RetryDeleteCopy, CopyRung
  <2>2. Outcome(d, Fail(d, "local"))
    BY <1>1, <1>15, ActiveOutcome DEF RetryDeleteCopy, CopyRung
  <2> QED  BY <1>15, <2>1, <2>2 DEF RetryDeleteCopy
<1>16. CASE PreflightLocal(w)
  <2>1. Outcome(d, Poll(SetStatus(d, "destination_clear"))) /\ Outcome(d, Fail(d, "other"))
    BY <1>1, <1>16, StayOutcome, ActiveOutcome DEF PreflightLocal, CopyRung, Seen, Upstreams
  <2> QED  BY <1>3, <1>16, <2>1 DEF PreflightLocal, CopyRung
<1>17. ASSUME NEW task \in CopyTasks \ {"none"},
              d.state = "WAITING_COPY" \/ (d.state = "SUBMITTING_COPY" /\ d.source /\ d.destination)
       PROVE  Outcome(d, CopyReported(d, task))
  <2>1. SoundRow(d) => /\ d.result /\ d.source /\ d.destination
                       /\ Ready(d, "WAITING_COPY") /\ Ready(d, "VERIFYING_LOCAL")
                       /\ \A u \in CopyReports : Seen(d, u)
    BY <1>17 DEF SoundRow, Sound, ValidDownload, Ready, Seen
  <2>2. CASE task = "active"
    BY <1>1, <1>17, <2>1, <2>2, StayOutcome, ActiveOutcome, Transitions DEF CopyReported, Upstreams
  <2>3. CASE task = "completed"
    BY <1>1, <1>17, <2>1, <2>3, ActiveOutcome, Transitions DEF CopyReported, Upstreams
  <2>4. CASE task = "failed"
    BY <1>1, <1>17, <2>1, <2>4, ActiveOutcome DEF CopyReported, Upstreams
  <2> QED  BY <1>17, <2>2, <2>3, <2>4 DEF CopyTasks
<1>18. CASE EnsureCopy(w)
  <2>1. EnsuredCopy(h)[h] \in CopyTasks \ {"none"}
    BY <1>1 DEF EnsuredCopy, QuietInv, TypeOK, CopyTasks
  <2> QED  BY <1>3, <1>17, <1>18, <2>1 DEF EnsureCopy, CopyRung
<1>19. ASSUME NEW verified, Outcome(d, verified), d.state \in {"WAITING_COPY", "VERIFYING_LOCAL"},
              NEW o \in VerifyOutcomes(d, h, verified)
       PROVE  Outcome(d, o)
  <2>1. Outcome(d, Fail(d, "local"))
    BY <1>1, <1>4, <1>19, ActiveOutcome
  <2> QED  BY <1>3, <1>4, <1>19, <2>1 DEF VerifyOutcomes, Verification
<1>20. CASE InspectCopy(w)
  <2>1. Outcome(d, Advance([d EXCEPT !.content = TRUE], "VERIFYING_LOCAL"))
    BY <1>1, <1>20, ContentOutcome DEF InspectCopy
  <2>2. copy[h] \in CopyTasks
    BY <1>1 DEF QuietInv, TypeOK
  <2> QED  BY <1>3, <1>17, <1>19, <1>20, <2>1, <2>2 DEF InspectCopy
<1>21. CASE VerifyLocal(w)
  <2>1. Outcome(d, [Quieted(d, "COMPLETED") EXCEPT !.content = TRUE, !.completed = TRUE])
    BY <1>1, <1>21, ContentOutcome DEF VerifyLocal
  <2> QED  BY <1>19, <1>21, <2>1 DEF VerifyLocal
<1>22. ASSUME NEW done, Outcome(d, done), d.state \in Cleanup, StopUpstream(w, done)
       PROVE  Concluded
  <2>1. \A fault : Outcome(d, CleanupFailure(d, fault))
    BY <1>1, <1>22, FailureOutcome
  <2> QED  BY <1>22, <2>1 DEF StopUpstream
<1>23. MarkStopped(d) \in {MarkCopyRemoved(d), MarkCleanupCancelled(d)}
  BY DEF MarkStopped
<1>24. CASE CancelUpstream(w)
  <2>1. Outcome(d, Quieted(MarkStopped(d), "CANCELLED"))
    BY <1>1, <1>23, <1>24, RestOutcome, Transitions DEF CancelUpstream
  <2> QED  BY <1>22, <1>24, <2>1 DEF CancelUpstream
<1>25. Pausing(w) => /\ Outcome(d, Quieted(d, "STOPPED"))
                     /\ Outcome(d, Quieted(SetStatus(d, "none"), "STOPPED"))
                     /\ d.source => Outcome(d, Quieted(SetStatus(d, "offline:FINISHED"), "STOPPED"))
  <2>1. SoundRow(d) /\ d.source => d.result
    BY DEF SoundRow, Sound
  <2> QED  BY <1>1, <2>1, RestOutcome, Transitions DEF Pausing, Seen, Upstreams
<1>26. CASE PauseFinishedCopy(w)
  BY <1>25, <1>26 DEF PauseFinishedCopy
<1>27. CASE PauseUpstream(w)
  <2>1. Outcome(d, Poll(MarkCopyRemoved(d)))
    BY <1>1, StayOutcome
  <2> QED  BY <1>22, <1>25, <1>27, <2>1 DEF PauseUpstream, Pausing
<1>28. ASSUME NEW done, Outcome(d, done), d.state \in Cleanup, DeleteFiles(w, done)
       PROVE  Concluded
  BY <1>1, <1>28, StayOutcome DEF DeleteFiles
<1>29. CASE PauseDeleteCopy(w)
  <2>1. ASSUME HasCopyEvidence(d), ~HasLocalPath(d) PROVE Outcome(d, Fail(d, "other"))
    <3>1. ~SoundRow(d)
      BY <2>1 DEF SoundRow, Sound, HasCopyEvidence, HasLocalPath
    <3> QED  BY <1>1, <3>1, ActiveOutcome
  <2> QED  BY <1>25, <1>28, <1>29, <2>1 DEF PauseDeleteCopy, Pausing
<1>30. CASE DeleteUpstream(w)
  <2>1. Outcome(d, Poll(MarkStopped(d)))
    BY <1>1, <1>23, StayOutcome
  <2> QED  BY <1>22, <1>30, <2>1 DEF DeleteUpstream
<1>31. CASE DeleteLocal(w)
  <2>1. Outcome(d, Quieted(d, "DELETED"))
    BY <1>1, <1>31, RestOutcome, Transitions DEF DeleteLocal
  <2>2. ASSUME OwnsFiles(d), ~d.content, ~HasLocalPath(d) PROVE Outcome(d, Fail(d, "other"))
    <3>1. ~SoundRow(d)
      BY <2>2 DEF SoundRow, Sound, OwnsFiles, HasCopyEvidence, HasLocalPath
    <3> QED  BY <1>1, <3>1, ActiveOutcome
  <2> QED  BY <1>28, <1>31, <2>1, <2>2 DEF DeleteLocal
<1> QED  BY <1>5, <1>6, <1>7, <1>8, <1>10, <1>11, <1>12, <1>13, <1>14, <1>15, <1>16, <1>18, <1>20,
            <1>21, <1>24, <1>26, <1>27, <1>29, <1>30, <1>31 DEF Decide

\* What an intent may write over the row it finds, and what that does to the lease.
Written(h, d, l) ==
  /\ d \in Download /\ l \in LeaseStates
  /\ d.state \in Resting => ~d.due /\ l = "free"
  /\ download[h].state \notin Resting => l = lease[h]
  /\ AtomicRetry /\ SoundRow(download[h]) => SoundRow(d)

\* An intent keeps the paths and the status, and may drop the problem.
Redirected(d, e) ==
  /\ e \in Download
  /\ e.result = d.result /\ e.source = d.source /\ e.destination = d.destination
  /\ e.content = d.content /\ e.upstream = d.upstream /\ ~e.late
  /\ e.problem \in {"none", d.problem}

\* A redirected row is sound in any phase that its paths are enough for.
LEMMA RedirectedSound ==
  ASSUME NEW d \in Download, NEW e, SoundRow(d), Redirected(d, e),
         e.state \in Workable, d.state \in Cleanup => e.state \in Cleanup,
         e.state \in {"SUBMITTING_COPY", "WAITING_COPY", "VERIFYING_LOCAL"} => d.result,
         e.state \in {"WAITING_COPY", "VERIFYING_LOCAL"} => d.source /\ d.destination,
         e.completed => d.completed /\ e.state = "DELETE_REQUESTED"
  PROVE  SoundRow(e)
  BY DEF SoundRow, Sound, ValidDownload, Redirected

\* Rescheduling a row redirects it.
LEMMA RescheduledRow ==
  ASSUME NEW d \in Download, NEW s \in States
  PROVE  LET e == Rescheduled(d, s) IN Redirected(d, e) /\ e.state = s /\ e.completed = d.completed
<1> DEFINE e == Rescheduled(d, s)
<1>1. /\ e \in Download /\ e.state = s /\ e.completed = d.completed /\ ~e.late
      /\ e.result = d.result /\ e.source = d.source /\ e.destination = d.destination
      /\ e.content = d.content /\ e.upstream = d.upstream /\ e.problem = d.problem
  BY ZenonT(60) DEF Rescheduled, Download
<1> HIDE DEF e
<1> QED  BY <1>1 DEF e, Redirected

\* The other columns that intents write.
LEMMA RedirectedFlags ==
  ASSUME NEW d \in Download, NEW e, Redirected(d, e)
  PROVE  /\ LET f == [e EXCEPT !.pauseRequested = TRUE] IN
              Redirected(d, f) /\ f.state = e.state /\ f.completed = e.completed
         /\ LET f == [e EXCEPT !.pauseRequested = FALSE] IN
              Redirected(d, f) /\ f.state = e.state /\ f.completed = e.completed
         /\ \A b \in BOOLEAN : LET f == [e EXCEPT !.deleteFiles = b] IN
              Redirected(d, f) /\ f.state = e.state /\ f.completed = e.completed
         /\ LET f == [e EXCEPT !.problem = "none"] IN
              Redirected(d, f) /\ f.state = e.state /\ f.completed = e.completed
         /\ LET f == [e EXCEPT !.completed = FALSE] IN
              Redirected(d, f) /\ f.state = e.state /\ ~f.completed
<1> DEFINE Same(f) == /\ f \in Download /\ f.state = e.state /\ f.result = e.result /\ f.source = e.source
                      /\ f.destination = e.destination /\ f.content = e.content
                      /\ f.upstream = e.upstream /\ (f.late => e.late)
<1>0. e \in Download
  BY DEF Redirected
<1>1. /\ LET f == [e EXCEPT !.pauseRequested = TRUE] IN
           Same(f) /\ f.problem = e.problem /\ f.completed = e.completed
      /\ LET f == [e EXCEPT !.pauseRequested = FALSE] IN
           Same(f) /\ f.problem = e.problem /\ f.completed = e.completed
  BY <1>0, ZenonT(60) DEF Download
<1>2. ASSUME NEW b \in BOOLEAN
      PROVE  LET f == [e EXCEPT !.deleteFiles = b] IN
             Same(f) /\ f.problem = e.problem /\ f.completed = e.completed
  BY <1>0, ZenonT(60) DEF Download
<1>3. LET f == [e EXCEPT !.problem = "none"] IN
        Same(f) /\ f.problem = "none" /\ f.completed = e.completed
  BY <1>0, ZenonT(60) DEF Download, Problems
<1>4. LET f == [e EXCEPT !.completed = FALSE] IN Same(f) /\ f.problem = e.problem /\ ~f.completed
  BY <1>0, ZenonT(60) DEF Download
<1> QED  BY <1>1, <1>2, <1>3, <1>4 DEF Redirected

\* A submission's row, over any row that is not there or deleted.
LEMMA SubmissionRows ==
  ASSUME NEW d \in Download, NEW stopped \in BOOLEAN
  PROVE  /\ LET e == Submission(stopped) IN
              e \in Download /\ SoundRow(e) /\ (e.state \in Resting => ~e.due)
         /\ LET e == RetainedSubmission(d, stopped) IN
              e \in Download /\ SoundRow(e) /\ (e.state \in Resting => ~e.due)
<1>1. NoDownload \in Download
  BY DEF NoDownload, Download, Marks, Upstreams, Problems
<1>2. Submission(stopped) \in Download
  <2>1. Fresh \in Download /\ [Fresh EXCEPT !.state = "STOPPED", !.due = FALSE] \in Download
    BY <1>1 DEF Fresh, Download
  <2> QED  BY <2>1 DEF Submission
<1>3. SoundRow(Submission(stopped))
  BY DEF Submission, Fresh, NoDownload, SoundRow, Sound, ValidDownload
<1>4. Submission(stopped).state \in Resting => ~Submission(stopped).due
  BY DEF Submission, Fresh, NoDownload
<1>5. RetainedSubmission(d, stopped) \in Download
  <2>1. ASSUME NEW s \in States, NEW due \in BOOLEAN, NEW isolated \in BOOLEAN
        PROVE  [NoDownload EXCEPT !.state = s, !.due = due, !.isolated = isolated, !.result = TRUE,
                  !.source = TRUE, !.destination = TRUE, !.content = TRUE, !.upstream = "retained"] \in Download
    <3> DEFINE r1 == [NoDownload EXCEPT !.state = s, !.due = due, !.isolated = isolated]
               r2 == [r1 EXCEPT !.result = TRUE, !.source = TRUE, !.destination = TRUE, !.content = TRUE]
               r3 == [r2 EXCEPT !.upstream = "retained"]
    <3>1. r1 \in Download  BY <1>1 DEF Download
    <3> HIDE DEF r1
    <3>2. r2 \in Download  BY <3>1 DEF Download
    <3> HIDE DEF r2
    <3>3. r3 \in Download  BY <3>2 DEF Download, Upstreams
    <3> HIDE DEF r3
    <3>4. r3 = [NoDownload EXCEPT !.state = s, !.due = due, !.isolated = isolated, !.result = TRUE,
                  !.source = TRUE, !.destination = TRUE, !.content = TRUE, !.upstream = "retained"]
      BY Zenon DEF r1, r2, r3
    <3> QED  BY <3>3, <3>4
  <2>2. d.isolated \in BOOLEAN /\ (~stopped) \in BOOLEAN
    BY DEF Download
  <2> QED  BY <2>1, <2>2 DEF RetainedSubmission
<1>6. SoundRow(RetainedSubmission(d, stopped))
  BY DEF RetainedSubmission, NoDownload, SoundRow, Sound, ValidDownload
<1>7. RetainedSubmission(d, stopped).state \in Resting => ~RetainedSubmission(d, stopped).due
  BY DEF RetainedSubmission, NoDownload
<1> QED  BY <1>2, <1>3, <1>4, <1>5, <1>6, <1>7

\* An intent touches no claim, and writes at most one row that it may write.
LEMMA OperatorWrites ==
  ASSUME QuietInv, NEW h \in Hash, Operator(h)
  PROVE  /\ claim' = claim
         /\ retryPlan' \in [Hash -> SUBSET StaleTargets] /\ acked' \in [Hash -> AckedIntents] /\ OutsideOK'
         /\ UNCHANGED store \/ \E d, l : Written(h, d, l) /\ Mutate(h, d, l)
<1> DEFINE d == download[h]
           Intended == UNCHANGED store \/ \E e, l : Written(h, e, l) /\ Mutate(h, e, l)
           Framed == /\ claim' = claim /\ OutsideOK'
                     /\ retryPlan' \in [Hash -> SUBSET StaleTargets] /\ acked' \in [Hash -> AckedIntents]
<1>1. /\ d \in Download /\ lease[h] \in LeaseStates
      /\ d.state \in Resting => lease[h] = "free" /\ ~d.due
  BY DEF QuietInv, TypeOK, RowsQuiet
<1>2. Framed
  <2> USE DEF QuietInv, TypeOK, outside, OutsideOK, Acknowledge, AckedIntents
  <2>1. CASE \/ \E stopped \in BOOLEAN : Insert(h, stopped)
             \/ Start(h) \/ Pause(h) \/ Cancel(h) \/ Reverify(h) \/ Relabel(h)
    BY <2>1 DEF Insert, Start, Pause, Cancel, Reverify, Relabel
  <2>2. CASE \E stopped, samePath \in BOOLEAN : Revive(h, stopped, samePath)
    BY <2>2 DEF Revive, DiskContents
  <2>3. CASE \E files \in BOOLEAN : RequestDelete(h, files)
    BY <2>3 DEF RequestDelete
  <2>4. CASE PlanRetry(h)
    BY <2>4 DEF PlanRetry
  <2>5. CASE Retry(h)
    BY <2>5 DEF Retry, Applied
  <2>6. CASE RetryCleanup(h)
    BY <2>6 DEF RetryCleanup, Applied
  <2> QED  BY <2>1, <2>2, <2>3, <2>4, <2>5, <2>6 DEF Operator
<1>3. SUFFICES Intended
  BY <1>2
<1>4. CASE \/ \E stopped \in BOOLEAN : Insert(h, stopped)
           \/ \E stopped, samePath \in BOOLEAN : Revive(h, stopped, samePath)
  <2>1. PICK stopped \in BOOLEAN : Insert(h, stopped) \/ \E samePath \in BOOLEAN : Revive(h, stopped, samePath)
    BY <1>4
  <2>2. Written(h, Submission(stopped), "free") /\ Written(h, RetainedSubmission(d, stopped), "free")
    BY <1>1, <2>1, SubmissionRows DEF Written, Insert, Revive
  <2> QED  BY <2>1, <2>2 DEF Insert, Revive
<1>5. CASE Start(h)
  <2>1. StartTarget(d) \in {"ACCEPTED", "SUBMITTING_COPY", "VERIFYING_LOCAL"}
    BY DEF StartTarget
  <2> DEFINE next == Rescheduled(d, StartTarget(d))
             e == [next EXCEPT !.pauseRequested = FALSE]
  <2>2. Redirected(d, next) /\ next.state = StartTarget(d) /\ next.completed = d.completed
    BY <1>1, <2>1, RescheduledRow
  <2> HIDE DEF next
  <2>3. Redirected(d, e) /\ e.state = StartTarget(d) /\ e.completed = d.completed
    BY <1>1, <2>2, RedirectedFlags
  <2> HIDE DEF e
  <2>4. SoundRow(d) =>
          /\ StartTarget(d) \in {"SUBMITTING_COPY", "VERIFYING_LOCAL"} => d.result
          /\ StartTarget(d) = "VERIFYING_LOCAL" => d.source /\ d.destination
          /\ ~d.completed
    BY <1>5 DEF Start, StartTarget, StatusIs, SoundRow, Sound, ValidDownload
  <2>5. SoundRow(d) => SoundRow(e)
    BY <1>1, <1>5, <2>1, <2>3, <2>4, RedirectedSound DEF Start
  <2>6. Written(h, e, "free")
    BY <1>5, <2>1, <2>3, <2>5 DEF Written, Start, Redirected
  <2> QED  BY <1>5, <2>6 DEF Start, e, next
<1>6. CASE Pause(h)
  <2> DEFINE next == Rescheduled(d, "CANCEL_REQUESTED")
             e == [next EXCEPT !.pauseRequested = TRUE]
  <2>1. Redirected(d, next) /\ next.state = "CANCEL_REQUESTED" /\ next.completed = d.completed
    BY <1>1, RescheduledRow
  <2> HIDE DEF next
  <2>2. Redirected(d, e) /\ e.state = "CANCEL_REQUESTED" /\ e.completed = d.completed
    BY <1>1, <2>1, RedirectedFlags
  <2> HIDE DEF e
  <2>3. ASSUME d.state \in Active PROVE Written(h, e, lease[h])
    <3>1. SoundRow(d) => ~d.completed
      BY <2>3 DEF SoundRow, ValidDownload
    <3>2. SoundRow(d) => SoundRow(e)
      BY <1>1, <2>2, <2>3, <3>1, RedirectedSound
    <3> QED  BY <1>1, <2>2, <2>3, <3>2 DEF Written, Redirected
  <2> QED  BY <1>6, <2>3 DEF Pause, e, next
<1>7. CASE Cancel(h)
  <2> DEFINE next == Rescheduled(d, "CANCEL_REQUESTED")
             e == [next EXCEPT !.pauseRequested = FALSE]
  <2>1. Redirected(d, next) /\ next.state = "CANCEL_REQUESTED" /\ next.completed = d.completed
    BY <1>1, RescheduledRow
  <2> HIDE DEF next
  <2>2. Redirected(d, e) /\ e.state = "CANCEL_REQUESTED" /\ e.completed = d.completed
    BY <1>1, <2>1, RedirectedFlags
  <2> HIDE DEF e
  <2>3. ASSUME d.state \in Active \cup {"STOPPED"} PROVE Written(h, e, lease[h])
    <3>1. SoundRow(d) => ~d.completed
      BY <2>3 DEF SoundRow, ValidDownload
    <3>2. SoundRow(d) => SoundRow(e)
      BY <1>1, <2>2, <2>3, <3>1, RedirectedSound
    <3> QED  BY <1>1, <2>2, <2>3, <3>2 DEF Written, Redirected
  <2> QED  BY <1>7, <2>3 DEF Cancel, e, next
<1>8. CASE \E files \in BOOLEAN : RequestDelete(h, files)
  <2>1. PICK files \in BOOLEAN : RequestDelete(h, files)
    BY <1>8
  <2>2. PICK b \in BOOLEAN : b = (d.deleteFiles \/ files)
    OBVIOUS
  <2> DEFINE next == Rescheduled(d, "DELETE_REQUESTED")
             kept == [next EXCEPT !.pauseRequested = FALSE]
             e == [kept EXCEPT !.deleteFiles = b]
  <2>3. Redirected(d, next) /\ next.state = "DELETE_REQUESTED" /\ next.completed = d.completed
    BY <1>1, RescheduledRow
  <2> HIDE DEF next
  <2>4. Redirected(d, kept) /\ kept.state = "DELETE_REQUESTED" /\ kept.completed = d.completed
    BY <1>1, <2>3, RedirectedFlags
  <2> HIDE DEF kept
  <2>5. Redirected(d, e) /\ e.state = "DELETE_REQUESTED" /\ e.completed = d.completed
    <3>1. \A x \in BOOLEAN : LET f == [kept EXCEPT !.deleteFiles = x]
                             IN  Redirected(d, f) /\ f.state = kept.state /\ f.completed = kept.completed
      BY <1>1, <2>4, RedirectedFlags
    <3> QED  BY <2>2, <2>4, <3>1
  <2> HIDE DEF e
  <2>6. ASSUME d.state \notin {"ABSENT", "DELETED"} PROVE Written(h, e, lease[h])
    <3>1. SoundRow(d) => SoundRow(e)
      BY <1>1, <2>5, RedirectedSound
    <3> QED  BY <1>1, <2>5, <2>6, <3>1 DEF Written, Redirected
  <2>7. e = [next EXCEPT !.pauseRequested = FALSE, !.deleteFiles = d.deleteFiles \/ files]
    BY <2>2 DEF e, kept
  <2> QED  BY <2>1, <2>6, <2>7 DEF RequestDelete, next
<1>9. CASE PlanRetry(h)
  BY <1>9 DEF PlanRetry, store
<1>10. CASE Retry(h)
  <2>1. PICK target \in RetryTargets(h) \cap Active :
          LET reset == target = "SUBMITTING_COPY" /\ d.problem = "conflict" IN
          Mutate(h, [Rescheduled(d, target) EXCEPT !.source = @ /\ ~reset, !.destination = @ /\ ~reset,
                                                   !.problem = "none"], "free")
    BY <1>10 DEF Retry
  <2>2. PICK reset \in BOOLEAN : reset = (target = "SUBMITTING_COPY" /\ d.problem = "conflict")
    OBVIOUS
  <2> DEFINE next == Rescheduled(d, target)
             e == [next EXCEPT !.source = @ /\ ~reset, !.destination = @ /\ ~reset, !.problem = "none"]
  <2>3. Redirected(d, next) /\ next.state = target /\ next.completed = d.completed
    BY <1>1, <2>1, RescheduledRow
  <2> HIDE DEF next
  <2>4. PICK source \in BOOLEAN, destination \in BOOLEAN :
          source = (next.source /\ ~reset) /\ destination = (next.destination /\ ~reset)
    OBVIOUS
  <2>5. e = [next EXCEPT !.source = source, !.destination = destination, !.problem = "none"]
    BY <2>4
  <2> HIDE DEF e
  <2>6. /\ e \in Download /\ e.state = next.state /\ e.result = next.result
        /\ e.source = source /\ e.destination = destination
        /\ e.content = next.content /\ e.completed = next.completed
        /\ e.upstream = next.upstream /\ e.problem = "none" /\ (e.late => next.late)
    <3>1. next \in Download
      BY <2>3 DEF Redirected
    <3>2. LET f == [next EXCEPT !.source = source, !.destination = destination, !.problem = "none"] IN
          /\ f \in Download /\ f.state = next.state /\ f.result = next.result
          /\ f.source = source /\ f.destination = destination
          /\ f.content = next.content /\ f.completed = next.completed
          /\ f.upstream = next.upstream /\ f.problem = "none" /\ (f.late => next.late)
      BY <3>1, ZenonT(60) DEF Download, Problems
    <3> QED  BY <2>5, <3>2
  <2>7. AtomicRetry => target = RetryTarget(d) /\ d.state = "FAILED"
    <3>1. AtomicRetry => retryPlan[h] = {}
      BY DEF AtomicRetry, QuietInv, TypeOK
    <3> QED  BY <1>10, <2>1, <3>1 DEF RetryTargets, Retry
  <2>8. AtomicRetry /\ SoundRow(d) =>
          /\ target \in {"SUBMITTING_COPY", "WAITING_COPY", "VERIFYING_LOCAL"} => d.result
          /\ target \in {"WAITING_COPY", "VERIFYING_LOCAL"} => d.source /\ d.destination
          /\ ~d.completed
    BY <2>7 DEF RetryTarget, SoundRow, Sound, ValidDownload
  <2>9. AtomicRetry /\ SoundRow(d) => SoundRow(e)
    <3>1. SUFFICES ASSUME AtomicRetry, SoundRow(d) PROVE Sound(e) /\ ValidDownload(e)
      BY DEF SoundRow
    <3>2. CASE ~reset
      BY <2>1, <2>3, <2>4, <2>6, <2>8, <3>1, <3>2 DEF Redirected, SoundRow, Sound, ValidDownload
    <3>3. CASE reset
      BY <2>1, <2>2, <2>3, <2>4, <2>6, <2>8, <3>1, <3>3 DEF Redirected, SoundRow, Sound, ValidDownload
    <3> QED  BY <3>2, <3>3
  <2>10. Written(h, e, "free")
    BY <1>1, <1>10, <2>1, <2>3, <2>6, <2>9 DEF Written, Retry
  <2> QED  BY <2>1, <2>2, <2>10 DEF e, next
<1>11. CASE RetryCleanup(h)
  <2> DEFINE next == Rescheduled(d, d.state)
             e == [next EXCEPT !.problem = "none"]
  <2>1. Redirected(d, next) /\ next.state = d.state /\ next.completed = d.completed
    BY <1>1, <1>11, RescheduledRow DEF RetryCleanup
  <2> HIDE DEF next
  <2>2. Redirected(d, e) /\ e.state = d.state /\ e.completed = d.completed
    BY <1>1, <2>1, RedirectedFlags
  <2> HIDE DEF e
  <2>3. d.state \in Cleanup
    BY <1>11 DEF RetryCleanup
  <2>4. SoundRow(d) => (d.completed => d.state = "DELETE_REQUESTED")
    BY <2>3 DEF SoundRow, ValidDownload
  <2>5. SoundRow(d) => SoundRow(e)
    BY <1>1, <2>2, <2>3, <2>4, RedirectedSound
  <2>6. Written(h, e, lease[h])
    BY <1>1, <2>2, <2>3, <2>5 DEF Written, Redirected
  <2> QED  BY <1>11, <2>6 DEF RetryCleanup, e, next
<1>12. CASE Reverify(h)
  <2> DEFINE next == Rescheduled(d, "VERIFYING_LOCAL")
             kept == [next EXCEPT !.completed = FALSE]
             e == [kept EXCEPT !.problem = "none"]
  <2>1. Redirected(d, next) /\ next.state = "VERIFYING_LOCAL"
    BY <1>1, RescheduledRow
  <2> HIDE DEF next
  <2>2. Redirected(d, kept) /\ kept.state = "VERIFYING_LOCAL" /\ ~kept.completed
    BY <1>1, <2>1, RedirectedFlags
  <2> HIDE DEF kept
  <2>3. Redirected(d, e) /\ e.state = "VERIFYING_LOCAL" /\ ~e.completed
    BY <1>1, <2>2, RedirectedFlags
  <2>4. e = [next EXCEPT !.completed = FALSE, !.problem = "none"]
    BY DEF kept
  <2> HIDE DEF e
  <2>5. d.state = "COMPLETED"
    BY <1>12 DEF Reverify
  <2>6. SoundRow(d) => d.result /\ d.source /\ d.destination
    BY <2>5 DEF SoundRow, Sound, ValidDownload
  <2>7. SoundRow(d) => SoundRow(e)
    BY <1>1, <2>3, <2>5, <2>6, RedirectedSound
  <2>8. Written(h, e, "free")
    BY <1>1, <2>3, <2>5, <2>7 DEF Written, Redirected
  <2> QED  BY <1>12, <2>4, <2>8 DEF Reverify, next
<1>13. CASE Relabel(h)
  <2>1. Written(h, d, lease[h])
    BY <1>1 DEF Written
  <2> QED  BY <1>13, <2>1 DEF Relabel
<1> QED  BY <1>4, <1>5, <1>6, <1>7, <1>8, <1>9, <1>10, <1>11, <1>12, <1>13 DEF Operator

\* A commit writes the claim's row, or the same row failed without a destination,
\* and only while the claim is current; it then frees lease and worker.
LEMMA CommitWrites ==
  ASSUME QuietInv, NEW w \in Worker, Commit(w)
  PROVE  /\ claim' = [claim EXCEPT ![w] = NoClaim] /\ Committing(w)
         /\ UNCHANGED <<retryPlan, outside, acked>>
         /\ \/ UNCHANGED store
            \/ \E e : /\ Current(w) /\ Mutate(claim[w].hash, e, "free")
                      /\ e \in Download /\ (e.state \in Resting => ~e.due)
                      /\ LegalSuccessor(download[claim[w].hash], claim[w].d) => SoundRow(e)
<1> DEFINE c == claim[w]
<1>1. Committing(w)
  BY DEF Commit, CommitClaim, CommitConflict, CommitRefused
<1>2. c.d \in Download /\ (c.d.state \in Resting => ~c.d.due)
  BY <1>1 DEF QuietInv, TypeOK, ClaimsQuiet, Committing, Busy, Claim, NoClaim
<1>3. CASE CommitClaim(w)
  BY <1>1, <1>2, <1>3 DEF CommitClaim, Release, LegalSuccessor
<1>4. CASE CommitConflict(w)
  <2> DEFINE e == [c.d EXCEPT !.destination = FALSE, !.state = "FAILED", !.problem = "conflict",
                              !.due = FALSE, !.late = FALSE]
  <2>1. PICK b \in Download : b = c.d
    BY <1>2
  <2>2. LET f == [b EXCEPT !.destination = FALSE, !.state = "FAILED", !.problem = "conflict",
                           !.due = FALSE, !.late = FALSE] IN
        /\ f \in Download /\ ~f.destination /\ f.state = "FAILED" /\ f.problem = "conflict"
        /\ ~f.due /\ ~f.late /\ f.result = b.result /\ f.source = b.source
        /\ f.content = b.content /\ f.upstream = b.upstream
    BY ZenonT(60) DEF Download, Problems
  <2>3. /\ e \in Download /\ ~e.destination /\ e.state = "FAILED" /\ e.problem = "conflict"
        /\ ~e.due /\ ~e.late /\ e.result = c.d.result /\ e.source = c.d.source
        /\ e.content = c.d.content /\ e.upstream = c.d.upstream
    BY <2>1, <2>2
  <2>4. /\ Current(w) /\ Mutate(c.hash, e, "free") /\ LegalOutcome(download[c.hash], e)
        /\ c.d.destination /\ ~download[c.hash].destination
        /\ Release(w) /\ UNCHANGED <<retryPlan, outside, acked>>
    BY <1>4 DEF CommitConflict
  <2> HIDE DEF e
  <2>5. LegalSuccessor(download[c.hash], c.d) => SoundRow(e)
    BY <2>3, <2>4 DEF LegalSuccessor, SoundRow, Sound, LegalOutcome
  <2> QED  BY <1>1, <2>3, <2>4, <2>5 DEF Release
<1>5. CASE CommitRefused(w)
  BY <1>1, <1>5 DEF CommitRefused, Release
<1> QED  BY <1>3, <1>4, <1>5 DEF Commit

-----------------------------------------------------------------------------
(* Types, and rows at rest.                                                  *)

\* A write changes one row, whose version becomes one that no claim holds.
LEMMA MutateRow ==
  ASSUME TypeOK, NEW h \in Hash, NEW d \in Download, NEW l \in LeaseStates, Mutate(h, d, l)
  PROVE  /\ download' \in [Hash -> Download] /\ lease' \in [Hash -> LeaseStates]
         /\ version' \in [Hash -> Version]
         /\ download'[h] = d /\ lease'[h] = l /\ version'[h] # version[h]
         /\ \A w \in Worker : Busy(w) => claim[w].version # version'[h]
         /\ \A g \in Hash \ {h} :
              download'[g] = download[g] /\ lease'[g] = lease[g] /\ version'[g] = version[g]
<1> USE DEF TypeOK, Mutate
<1>1. download' \in [Hash -> Download] /\ lease' \in [Hash -> LeaseStates] /\ download'[h] = d /\ lease'[h] = l
  OBVIOUS
<1>2. version' \in [Hash -> Version] /\ version'[h] = NextVersion(h)
  BY NextVersionFresh
<1>3. \A g \in Hash \ {h} :
        download'[g] = download[g] /\ lease'[g] = lease[g] /\ version'[g] = version[g]
  OBVIOUS
<1> QED  BY <1>1, <1>2, <1>3, NextVersionFresh

\* The phase deadline changes one column of one row.
LEMMA PhaseDeadlineRow ==
  ASSUME TypeOK, NEW h \in Hash, PhaseDeadline(h)
  PROVE  /\ download' \in [Hash -> Download]
         /\ \A g \in Hash \ {h} : download'[g] = download[g]
         /\ SamePaths(download[h], download'[h])
         /\ download'[h].state = download[h].state /\ download'[h].due = download[h].due
         /\ download'[h].upstream = download[h].upstream /\ download'[h].problem = download[h].problem
<1>1. PICK d \in Download : d = download[h]
  BY DEF TypeOK
<1>2. LET e == [d EXCEPT !.late = TRUE] IN
        /\ e \in Download /\ SamePaths(d, e) /\ e.state = d.state /\ e.due = d.due
        /\ e.upstream = d.upstream /\ e.problem = d.problem
  BY ZenonT(60) DEF Download, SamePaths
<1>3. download' = [download EXCEPT ![h] = [d EXCEPT !.late = TRUE]]
  BY <1>1 DEF PhaseDeadline
<1>4. download'[h] = [d EXCEPT !.late = TRUE] /\ \A g \in Hash \ {h} : download'[g] = download[g]
  BY <1>3 DEF TypeOK
<1>5. download' \in [Hash -> Download]
  BY <1>2, <1>3 DEF TypeOK
<1> QED  BY <1>1, <1>2, <1>4, <1>5

\* What the clock and a new claim do to claims.
LEMMA ClaimSteps ==
  ASSUME TypeOK, NEW w \in Worker
  PROVE  /\ \A a \in Download : Decision(w, a) /\ Busy(w) =>
              /\ claim' \in [Worker -> Claim \cup {NoClaim}]
              /\ claim'[w].pc = "committing" /\ claim'[w].d = a /\ claim'[w].hash = claim[w].hash
              /\ claim'[w].version = claim[w].version /\ claim'[w].from = claim[w].from
              /\ \A v \in Worker \ {w} : claim'[v] = claim[v]
         /\ OperationDeadline(w) =>
              /\ claim' \in [Worker -> Claim \cup {NoClaim}]
              /\ claim'[w].pc = "deciding" /\ claim'[w].d = claim[w].d /\ claim'[w].hash = claim[w].hash
              /\ claim'[w].version = claim[w].version /\ claim'[w].from = claim[w].from
              /\ \A v \in Worker \ {w} : claim'[v] = claim[v]
         /\ Release(w) =>
              /\ claim' \in [Worker -> Claim \cup {NoClaim}]
              /\ claim'[w] = NoClaim /\ \A v \in Worker \ {w} : claim'[v] = claim[v]
<1>1. ASSUME NEW a \in Download, Decision(w, a), Busy(w)
      PROVE  /\ claim' \in [Worker -> Claim \cup {NoClaim}]
             /\ claim'[w].pc = "committing" /\ claim'[w].d = a /\ claim'[w].hash = claim[w].hash
             /\ claim'[w].version = claim[w].version /\ claim'[w].from = claim[w].from
             /\ \A v \in Worker \ {w} : claim'[v] = claim[v]
  <2>1. PICK c \in Claim : c = claim[w]
    BY <1>1 DEF TypeOK, Busy, NoClaim
  <2>2. LET f == [c EXCEPT !.pc = "committing", !.inTime = TRUE, !.d = a] IN
        /\ f \in Claim /\ f.pc = "committing" /\ f.d = a /\ f.hash = c.hash
        /\ f.version = c.version /\ f.from = c.from
    BY <1>1, ZenonT(60) DEF Claim
  <2>3. claim' = [claim EXCEPT ![w] = [c EXCEPT !.pc = "committing", !.inTime = TRUE, !.d = a]]
    BY <1>1, <2>1 DEF Decision, TypeOK
  <2>4. claim'[w] = [c EXCEPT !.pc = "committing", !.inTime = TRUE, !.d = a]
        /\ \A v \in Worker \ {w} : claim'[v] = claim[v]
    BY <2>3 DEF TypeOK
  <2>5. claim' \in [Worker -> Claim \cup {NoClaim}]
    BY <2>2, <2>3 DEF TypeOK
  <2> QED  BY <2>1, <2>2, <2>4, <2>5
<1>2. ASSUME OperationDeadline(w)
      PROVE  /\ claim' \in [Worker -> Claim \cup {NoClaim}]
             /\ claim'[w].pc = "deciding" /\ claim'[w].d = claim[w].d /\ claim'[w].hash = claim[w].hash
             /\ claim'[w].version = claim[w].version /\ claim'[w].from = claim[w].from
             /\ \A v \in Worker \ {w} : claim'[v] = claim[v]
  <2>1. PICK c \in Claim : c = claim[w] /\ c.pc = "deciding"
    BY <1>2 DEF TypeOK, OperationDeadline, Busy, NoClaim
  <2>2. LET f == [c EXCEPT !.inTime = FALSE] IN
        /\ f \in Claim /\ f.pc = c.pc /\ f.d = c.d /\ f.hash = c.hash
        /\ f.version = c.version /\ f.from = c.from
    BY ZenonT(60) DEF Claim
  <2>3. claim' = [claim EXCEPT ![w] = [c EXCEPT !.inTime = FALSE]]
    BY <1>2, <2>1 DEF OperationDeadline
  <2>4. claim'[w] = [c EXCEPT !.inTime = FALSE] /\ \A v \in Worker \ {w} : claim'[v] = claim[v]
    BY <2>3 DEF TypeOK
  <2>5. claim' \in [Worker -> Claim \cup {NoClaim}]
    BY <2>2, <2>3 DEF TypeOK
  <2> QED  BY <2>1, <2>2, <2>4, <2>5
<1>3. ASSUME Release(w)
      PROVE  /\ claim' \in [Worker -> Claim \cup {NoClaim}]
             /\ claim'[w] = NoClaim /\ \A v \in Worker \ {w} : claim'[v] = claim[v]
  BY <1>3 DEF TypeOK, Release
<1> QED  BY <1>1, <1>2, <1>3

\* A claim takes a row that has work to do, with a version of its own.
LEMMA ClaimDueRow ==
  ASSUME QuietInv, NEW w \in Worker, NEW h \in Hash, ClaimDue(w, h)
  PROVE  /\ ~Busy(w) /\ download[h].state \in Workable /\ lease[h] # "live"
         /\ UNCHANGED <<download, retryPlan, outside, acked>>
         /\ lease' \in [Hash -> LeaseStates] /\ version' \in [Hash -> Version]
         /\ lease'[h] = "live" /\ \A v \in Worker : Busy(v) => claim[v].version # version'[h]
         /\ \A g \in Hash \ {h} : lease'[g] = lease[g] /\ version'[g] = version[g]
         /\ claim' \in [Worker -> Claim \cup {NoClaim}]
         /\ \A v \in Worker \ {w} : claim'[v] = claim[v]
         /\ \/ claim'[w] = claim[w]
            \/ /\ ValidDownload(download[h])
               /\ claim'[w].pc = "deciding" /\ claim'[w].hash = h /\ claim'[w].d = download[h]
               /\ claim'[w].from = download[h].state /\ claim'[w].version = version'[h]
<1>1. /\ download[h] \in Download /\ download[h].state \in States
      /\ ~Busy(w) /\ download[h].state \in Workable /\ lease[h] # "live"
  BY DEF QuietInv, TypeOK, RowsQuiet, ClaimDue, Download
<1>2. /\ lease' = [lease EXCEPT ![h] = "live"]
      /\ version' = [version EXCEPT ![h] = NextVersion(h)]
      /\ UNCHANGED <<download, retryPlan, outside, acked>>
  BY DEF ClaimDue
<1>3. /\ NextVersion(h) \in Version
      /\ \A v \in Worker : Busy(v) => claim[v].version # NextVersion(h)
  BY NextVersionFresh DEF QuietInv
<1>4. /\ lease' \in [Hash -> LeaseStates] /\ version' \in [Hash -> Version]
      /\ lease'[h] = "live" /\ version'[h] = NextVersion(h)
      /\ \A g \in Hash \ {h} : lease'[g] = lease[g] /\ version'[g] = version[g]
  BY <1>2, <1>3 DEF QuietInv, TypeOK
<1> DEFINE c == [pc |-> "deciding", hash |-> h, from |-> download[h].state,
                 version |-> NextVersion(h), inTime |-> TRUE, d |-> download[h]]
<1>5. c \in Claim
  BY <1>1, <1>3 DEF Claim
<1>6. claim' = [claim EXCEPT ![w] = IF ValidDownload(download[h]) THEN c ELSE claim[w]]
  BY DEF ClaimDue
<1>7. /\ claim' \in [Worker -> Claim \cup {NoClaim}] /\ \A v \in Worker \ {w} : claim'[v] = claim[v]
      /\ claim'[w] = claim[w] \/ (ValidDownload(download[h]) /\ claim'[w] = c)
  BY <1>5, <1>6 DEF QuietInv, TypeOK
<1> QED  BY <1>1, <1>2, <1>3, <1>4, <1>7

\* The rows a database starts with are quiet or due, and nobody holds a claim.
LEMMA QuietInit == Init => QuietInv
<1> SUFFICES ASSUME Init PROVE QuietInv
  OBVIOUS
<1>1. NoDownload \in Download /\ NoDownload.state = "ABSENT" /\ ~NoDownload.due
  BY DEF NoDownload, Download, Marks, Upstreams, Problems
<1>2. LegacyDownload \in Download /\ LegacyDownload.state = "ACCEPTED"
  BY DEF LegacyDownload, Fresh, NoDownload, Download, Marks, Upstreams, Problems
<1>3. \A h \in Hash : download[h] \in Download
  BY <1>1, <1>2 DEF Init
<1>4. TypeOK
  BY <1>3 DEF Init, TypeOK, OfflineTasks, CopyTasks, DiskContents, AckedIntents
<1>5. RowsQuiet
  BY <1>1, <1>2 DEF Init, RowsQuiet
<1>6. ClaimsQuiet
  BY DEF Init, ClaimsQuiet, Busy, NoClaim
<1> QED  BY <1>4, <1>5, <1>6 DEF QuietInv

\* Intents, outcomes and claims keep resting rows unleased and off the schedule.
LEMMA QuietNext == QuietInv /\ [Next]_vars => QuietInv'
<1> SUFFICES ASSUME QuietInv, [Next]_vars PROVE QuietInv'
  OBVIOUS
<1> USE DEF QuietInv
<1>1. ASSUME NEW h \in Hash, Operator(h) PROVE QuietInv'
  <2>1. /\ claim' = claim /\ OutsideOK'
        /\ retryPlan' \in [Hash -> SUBSET StaleTargets] /\ acked' \in [Hash -> AckedIntents]
    BY <1>1, OperatorWrites
  <2>2. ClaimsQuiet'
    BY <2>1 DEF ClaimsQuiet, Busy
  <2>3. CASE UNCHANGED store
    BY <2>1, <2>2, <2>3 DEF TypeOK, OutsideOK, RowsQuiet, store
  <2>4. CASE \E d, l : Written(h, d, l) /\ Mutate(h, d, l)
    <3>1. PICK d, l : Written(h, d, l) /\ Mutate(h, d, l)
      BY <2>4
    <3>2. /\ d \in Download /\ l \in LeaseStates
          /\ d.state \in Resting => ~d.due /\ l = "free"
      BY <3>1 DEF Written
    <3>3. TypeOK'
      BY <2>1, <3>1, <3>2, MutateRow DEF TypeOK, OutsideOK
    <3>4. RowsQuiet'
      BY <3>1, <3>2, MutateRow DEF RowsQuiet
    <3> QED  BY <2>2, <3>3, <3>4
  <2> QED  BY <1>1, <2>3, <2>4, OperatorWrites
<1>2. ASSUME NEW h \in Hash, Cloud(h) \/ ContentLost(h) PROVE QuietInv'
  <2>1. UNCHANGED <<store, claim, retryPlan, acked>> /\ OutsideOK'
    BY <1>2 DEF Cloud, ContentLost, OfflineEnds, CopyWrites, CopyEnds, TaskForgotten, TypeOK, OutsideOK,
       OfflineTasks, CopyTasks, DiskContents
  <2> QED  BY <2>1 DEF TypeOK, OutsideOK, RowsQuiet, ClaimsQuiet, Busy, store
<1>3. ASSUME NEW w \in Worker, NEW h \in Hash, ClaimDue(w, h) PROVE QuietInv'
  <2>1. TypeOK'
    BY <1>3, ClaimDueRow DEF TypeOK, outside
  <2>2. RowsQuiet'
    BY <1>3, ClaimDueRow DEF RowsQuiet
  <2>3. ClaimsQuiet'
    BY <1>3, ClaimDueRow DEF ClaimsQuiet, Busy
  <2> QED  BY <2>1, <2>2, <2>3
<1>4. ASSUME NEW w \in Worker, Decide(w) PROVE QuietInv'
  <2>1. PICK a : Outcome(claim[w].d, a) /\ Decision(w, a)
    BY <1>4, DecideStep
  <2>2. a \in Download /\ (a.state \in Resting => ~a.due)
    BY <2>1 DEF Outcome
  <2>3. Busy(w) /\ UNCHANGED <<store, retryPlan, acked>> /\ OutsideOK'
    BY <1>4, DecideFrame
  <2>4. TypeOK'
    BY <2>1, <2>2, <2>3, ClaimSteps DEF TypeOK, OutsideOK, store
  <2>5. RowsQuiet'
    BY <2>3 DEF RowsQuiet, store
  <2>6. ClaimsQuiet'
    BY <2>1, <2>2, <2>3, ClaimSteps DEF ClaimsQuiet, Busy
  <2> QED  BY <2>4, <2>5, <2>6
<1>5. ASSUME NEW w \in Worker, Commit(w) PROVE QuietInv'
  <2>1. Committing(w) /\ Release(w) /\ UNCHANGED <<retryPlan, outside, acked>>
    BY <1>5, CommitWrites DEF Release
  <2>2. claim[w].hash \in Hash
    BY <2>1 DEF Committing, Busy, TypeOK, Claim, NoClaim
  <2>3. ClaimsQuiet'
    BY <2>1, ClaimSteps DEF ClaimsQuiet, Busy, NoClaim
  <2>4. CASE UNCHANGED store
    BY <2>1, <2>3, <2>4, ClaimSteps DEF TypeOK, RowsQuiet, store, outside
  <2>5. CASE \E e : /\ Mutate(claim[w].hash, e, "free") /\ e \in Download
                    /\ e.state \in Resting => ~e.due
    <3>1. PICK e : /\ Mutate(claim[w].hash, e, "free") /\ e \in Download
                   /\ e.state \in Resting => ~e.due
      BY <2>5
    <3>2. TypeOK'
      BY <2>1, <2>2, <3>1, MutateRow, ClaimSteps DEF TypeOK, outside
    <3>3. RowsQuiet'
      BY <2>2, <3>1, MutateRow DEF RowsQuiet
    <3> QED  BY <2>3, <3>2, <3>3
  <2> QED  BY <1>5, <2>4, <2>5, CommitWrites
<1>6. ASSUME NEW w \in Worker, Crash(w) PROVE QuietInv'
  <2>1. Release(w) /\ UNCHANGED <<store, retryPlan, outside, acked>>
    BY <1>6 DEF Crash
  <2> QED  BY <2>1, ClaimSteps DEF TypeOK, RowsQuiet, ClaimsQuiet, Busy, NoClaim, store, outside
<1>7. ASSUME NEW w \in Worker, OperationDeadline(w) PROVE QuietInv'
  <2>1. UNCHANGED <<store, retryPlan, outside, acked>> /\ Busy(w) /\ claim[w].pc = "deciding"
    BY <1>7 DEF OperationDeadline
  <2> QED  BY <1>7, <2>1, ClaimSteps DEF TypeOK, RowsQuiet, ClaimsQuiet, Busy, store, outside
<1>8. ASSUME NEW h \in Hash, LeaseLapses(h) PROVE QuietInv'
  BY <1>8 DEF LeaseLapses, TypeOK, RowsQuiet, ClaimsQuiet, Busy, outside
<1>9. ASSUME NEW h \in Hash, PhaseDeadline(h) PROVE QuietInv'
  <2>1. UNCHANGED <<lease, version, claim, retryPlan, outside, acked>>
    BY <1>9 DEF PhaseDeadline
  <2> QED  BY <1>9, <2>1, PhaseDeadlineRow DEF TypeOK, RowsQuiet, ClaimsQuiet, Busy, outside
<1>10. CASE UNCHANGED vars
  BY <1>10 DEF vars, TypeOK, RowsQuiet, ClaimsQuiet, Busy
<1> QED  BY <1>1, <1>2, <1>3, <1>4, <1>5, <1>6, <1>7, <1>8, <1>9, <1>10 DEF Next, Clock

\* Whatever operators, workers, cloud and clock do, every variable keeps its
\* type; above all, every row decide or an intent writes is a downloads row.
THEOREM TypeCorrect == Spec => []TypeOK
<1>1. QuietInv => TypeOK
  BY DEF QuietInv
<1> QED  BY <1>1, QuietInit, QuietNext, PTL DEF Spec

\* A row at rest is never leased nor due, so the intents that clear a lease
\* without looking at it take it from nobody.
THEOREM QuietRowsStayUnleased == Spec => []QuietRowsUnleased
<1>1. QuietInv => QuietRowsUnleased
  BY DEF QuietInv, RowsQuiet, QuietRowsUnleased
<1> QED  BY <1>1, QuietInit, QuietNext, PTL DEF Spec

-----------------------------------------------------------------------------
(* One worker at a time.                                                     *)

\* Nobody is deciding before the first claim.
LEMMA LeaseInit == Init => LeaseInv
<1>1. Init => LeasesExclude
  BY DEF Init, LeasesExclude, Working, Busy, NoClaim
<1> QED  BY <1>1, QuietInit DEF LeaseInv

\* The lease of a row somebody decides on is live, only its holder has the
\* row's version, and every write gives the row a version that nobody has.
LEMMA LeaseNext ==
  ASSUME ~SlowFilesystem
  PROVE  LeaseInv /\ [Next]_vars => LeaseInv'
<1> SUFFICES ASSUME LeaseInv, [Next]_vars PROVE LeasesExclude'
  BY QuietNext DEF LeaseInv
<1> USE DEF LeaseInv, LeasesExclude, Working, Busy
<1>1. ASSUME NEW h \in Hash, Operator(h) PROVE LeasesExclude'
  <2>1. claim' = claim
    BY <1>1, OperatorWrites
  <2>2. CASE UNCHANGED store
    BY <2>1, <2>2 DEF store
  <2>3. CASE \E d, l : Written(h, d, l) /\ Mutate(h, d, l)
    <3>1. PICK d, l : Written(h, d, l) /\ Mutate(h, d, l)
      BY <2>3
    <3>2. /\ d \in Download /\ l \in LeaseStates
          /\ lease[h] = "live" => l = "live"
      BY <3>1 DEF Written, QuietInv, RowsQuiet
    <3> QED  BY <2>1, <3>1, <3>2, MutateRow DEF QuietInv
  <2> QED  BY <1>1, <2>2, <2>3, OperatorWrites
<1>2. ASSUME NEW h \in Hash, Cloud(h) \/ ContentLost(h) PROVE LeasesExclude'
  <2>1. UNCHANGED <<store, claim>>
    BY <1>2 DEF Cloud, ContentLost, OfflineEnds, CopyWrites, CopyEnds, TaskForgotten
  <2> QED  BY <2>1 DEF store
<1>3. ASSUME NEW w \in Worker, NEW h \in Hash, ClaimDue(w, h) PROVE LeasesExclude'
  BY <1>3, ClaimDueRow
<1>4. ASSUME NEW w \in Worker, Decide(w) PROVE LeasesExclude'
  <2>1. PICK a \in Download : Decision(w, a)
    BY <1>4, DecideStep DEF Outcome
  <2>2. claim[w].pc = "deciding" /\ UNCHANGED store
    BY <1>4, DecideFrame DEF QuietInv
  <2> QED  BY <2>1, <2>2, ClaimSteps DEF store, QuietInv
<1>5. ASSUME NEW w \in Worker, Commit(w) PROVE LeasesExclude'
  <2>1. Committing(w) /\ Release(w)
    BY <1>5, CommitWrites DEF Release
  <2>2. claim[w].hash \in Hash
    BY <2>1 DEF Committing, QuietInv, TypeOK, Claim, NoClaim
  <2>3. CASE UNCHANGED store
    BY <2>1, <2>3, ClaimSteps DEF store, QuietInv, NoClaim
  <2>4. CASE \E e : Current(w) /\ Mutate(claim[w].hash, e, "free") /\ e \in Download
    <3>1. PICK e : Current(w) /\ Mutate(claim[w].hash, e, "free") /\ e \in Download
      BY <2>4
    <3>2. \A v \in Worker : ~Working(v, claim[w].hash)
      BY <2>1, <2>2, <3>1 DEF Committing, Current
    <3> QED  BY <2>1, <2>2, <3>1, <3>2, MutateRow, ClaimSteps DEF QuietInv, NoClaim
  <2> QED  BY <1>5, <2>3, <2>4, CommitWrites
<1>6. ASSUME NEW w \in Worker, Crash(w) PROVE LeasesExclude'
  <2>1. Release(w) /\ UNCHANGED store
    BY <1>6 DEF Crash
  <2> QED  BY <2>1, ClaimSteps DEF QuietInv, NoClaim, store
<1>7. ASSUME NEW w \in Worker, OperationDeadline(w) PROVE LeasesExclude'
  <2>1. UNCHANGED store /\ claim[w].pc = "deciding"
    BY <1>7 DEF OperationDeadline
  <2> QED  BY <1>7, <2>1, ClaimSteps DEF QuietInv, store
<1>8. ASSUME NEW h \in Hash, LeaseLapses(h) PROVE LeasesExclude'
  <2>1. /\ \A w \in Worker : ~Working(w, h)
        /\ UNCHANGED <<version, claim>> /\ lease' = [lease EXCEPT ![h] = "lapsed"]
    BY <1>8 DEF LeaseLapses
  <2> QED  BY <2>1 DEF QuietInv, TypeOK
<1>9. ASSUME NEW h \in Hash, PhaseDeadline(h) PROVE LeasesExclude'
  BY <1>9 DEF PhaseDeadline
<1>10. CASE UNCHANGED vars
  BY <1>10 DEF vars
<1> QED  BY <1>1, <1>2, <1>3, <1>4, <1>5, <1>6, <1>7, <1>8, <1>9, <1>10 DEF Next, Clock

\* As long as filesystem calls respect the operation deadline, no two workers
\* ever operate on the same hash at once.
THEOREM OneOperatorPerHash ==
  ASSUME ~SlowFilesystem
  PROVE  Spec => []SingleOperator
<1>1. LeaseInv => SingleOperator
  BY DEF LeaseInv, LeasesExclude, SingleOperator, Working
<1>2. LeaseInv /\ [Next]_vars => LeaseInv'
  BY LeaseNext
<1> QED  BY <1>1, <1>2, LeaseInit, PTL DEF Spec

-----------------------------------------------------------------------------
(* Rows that can be read, and outcomes that can be committed.                *)

\* No row, a fresh one and a legacy one are all sound.
LEMMA SoundInit == Init => SoundInv
<1> SUFFICES ASSUME Init PROVE RowsSound /\ ClaimsMatchRows
  BY QuietInit DEF SoundInv
<1>1. SoundRow(NoDownload)
  BY DEF NoDownload, SoundRow, Sound, ValidDownload
<1>2. SoundRow(LegacyDownload)
  BY DEF LegacyDownload, Fresh, NoDownload, SoundRow, Sound, ValidDownload
<1>3. \A h \in Hash : download[h] \in {NoDownload, LegacyDownload}
  BY DEF Init
<1>4. RowsSound
  BY <1>1, <1>2, <1>3 DEF RowsSound
<1>5. ClaimsMatchRows
  BY DEF Init, ClaimsMatchRows, Busy, NoClaim
<1> QED  BY <1>4, <1>5

\* A claim on a row that is written is no longer current; a claim on another
\* row, or under a lease that merely lapses, is as current as before.
LEMMA SoundNext ==
  ASSUME AtomicRetry
  PROVE  SoundInv /\ [Next]_vars => SoundInv'
<1> SUFFICES ASSUME SoundInv, [Next]_vars PROVE RowsSound' /\ ClaimsMatchRows'
  BY QuietNext DEF SoundInv
<1> USE DEF SoundInv
<1>0. /\ QuietInv /\ TypeOK /\ \A w \in Worker : Busy(w) => claim[w] \in Claim /\ claim[w].hash \in Hash
      /\ \A h \in Hash : SoundRow(download[h])
  BY DEF QuietInv, TypeOK, Busy, NoClaim, Claim, RowsSound
<1> HIDE DEF SoundInv
<1> DEFINE Kept == UNCHANGED <<download, version, claim>>
<1>1. ASSUME Kept, \A h \in Hash : lease'[h] # "free" => lease[h] # "free"
      PROVE  RowsSound' /\ ClaimsMatchRows'
  <2>1. RowsSound'
    BY <1>0, <1>1 DEF RowsSound
  <2>2. \A w \in Worker : Busy(w) => (Current(w)' => Current(w))
    BY <1>0, <1>1 DEF Current
  <2> QED  BY <1>1, <2>1, <2>2 DEF SoundInv, ClaimsMatchRows, Busy
<1>2. ASSUME NEW h \in Hash, NEW d \in Download, NEW l \in LeaseStates, Mutate(h, d, l), SoundRow(d),
             \A w \in Worker : claim'[w] \in {claim[w], NoClaim}
      PROVE  RowsSound' /\ ClaimsMatchRows'
  <2>1. RowsSound'
    BY <1>0, <1>2, MutateRow DEF RowsSound
  <2>2. ASSUME NEW w \in Worker, Busy(w)'
        PROVE  /\ Busy(w) /\ claim'[w] = claim[w]
               /\ Current(w)' => Current(w) /\ download'[claim[w].hash] = download[claim[w].hash]
    <3>1. Busy(w) /\ claim'[w] = claim[w]
      BY <1>2, <2>2 DEF Busy, NoClaim
    <3>2. claim[w].version # version'[h] /\ claim[w].hash \in Hash
      BY <1>0, <1>2, <3>1, MutateRow
    <3>3. ASSUME claim[w].hash # h
          PROVE  /\ download'[claim[w].hash] = download[claim[w].hash]
                 /\ lease'[claim[w].hash] = lease[claim[w].hash]
                 /\ version'[claim[w].hash] = version[claim[w].hash]
      BY <1>0, <1>2, <3>2, <3>3, MutateRow
    <3> QED  BY <3>1, <3>2, <3>3 DEF Current
  <2> QED  BY <2>1, <2>2 DEF SoundInv, ClaimsMatchRows
<1>3. ASSUME NEW h \in Hash, Operator(h) PROVE RowsSound' /\ ClaimsMatchRows'
  <2>1. claim' = claim
    BY <1>0, <1>3, OperatorWrites
  <2>2. CASE UNCHANGED store
    BY <1>1, <2>1, <2>2 DEF store
  <2>3. CASE \E d, l : Written(h, d, l) /\ Mutate(h, d, l)
    <3>1. PICK d, l : Written(h, d, l) /\ Mutate(h, d, l)
      BY <2>3
    <3>2. d \in Download /\ l \in LeaseStates /\ SoundRow(d)
      BY <1>0, <3>1 DEF Written
    <3> QED  BY <1>2, <2>1, <3>1, <3>2
  <2> QED  BY <1>0, <1>3, <2>2, <2>3, OperatorWrites
<1>4. ASSUME NEW h \in Hash, Cloud(h) \/ ContentLost(h) PROVE RowsSound' /\ ClaimsMatchRows'
  <2>1. UNCHANGED <<store, claim>>
    BY <1>4 DEF Cloud, ContentLost, OfflineEnds, CopyWrites, CopyEnds, TaskForgotten
  <2> QED  BY <1>1, <2>1 DEF store
<1>5. ASSUME NEW w \in Worker, NEW h \in Hash, ClaimDue(w, h) PROVE RowsSound' /\ ClaimsMatchRows'
  <2>1. RowsSound'
    BY <1>0, <1>5, ClaimDueRow DEF RowsSound
  <2>2. ASSUME NEW v \in Worker, Busy(v)
        PROVE  claim'[v] = claim[v] /\ (Current(v)' => Current(v))
    <3>1. claim'[v] = claim[v] /\ claim[v].version # version'[h] /\ claim[v].hash \in Hash
      BY <1>0, <1>5, <2>2, ClaimDueRow
    <3>2. ASSUME claim[v].hash # h
          PROVE  /\ lease'[claim[v].hash] = lease[claim[v].hash]
                 /\ version'[claim[v].hash] = version[claim[v].hash]
      BY <1>0, <1>5, <3>1, <3>2, ClaimDueRow
    <3>3. download' = download
      BY <1>0, <1>5, ClaimDueRow
    <3> QED  BY <3>1, <3>2, <3>3 DEF Current
  <2>3. ASSUME NEW v \in Worker, ~Busy(v), Busy(v)'
        PROVE  claim'[v].pc = "deciding" /\ claim'[v].d = download[h] /\ claim'[v].hash = h
    BY <1>0, <1>5, <2>3, ClaimDueRow DEF Busy
  <2>4. download' = download /\ SoundRow(download[h])
    BY <1>0, <1>5, ClaimDueRow
  <2>5. ClaimsMatchRows'
    BY <2>2, <2>3, <2>4 DEF SoundInv, ClaimsMatchRows
  <2> QED  BY <2>1, <2>5
<1>6. ASSUME NEW w \in Worker, Decide(w) PROVE RowsSound' /\ ClaimsMatchRows'
  <2>1. PICK a : Outcome(claim[w].d, a) /\ Decision(w, a)
    BY <1>0, <1>6, DecideStep
  <2>2. a \in Download /\ (SoundRow(claim[w].d) => LegalSuccessor(claim[w].d, a))
    BY <2>1 DEF Outcome
  <2>3. Busy(w) /\ claim[w].pc = "deciding" /\ UNCHANGED store
    BY <1>0, <1>6, DecideFrame
  <2>4. /\ claim'[w].pc = "committing" /\ claim'[w].d = a /\ claim'[w].hash = claim[w].hash
        /\ claim'[w].version = claim[w].version /\ claim'[w].from = claim[w].from
        /\ \A v \in Worker \ {w} : claim'[v] = claim[v]
    BY <1>0, <2>1, <2>2, <2>3, ClaimSteps
  <2>5. RowsSound'
    BY <1>0, <2>3 DEF RowsSound, store
  <2>6. \A v \in Worker : (Current(v)' => Current(v))
    BY <2>3, <2>4 DEF Current, store
  <2>7. SoundRow(claim[w].d) /\ (Current(w) => claim[w].d = download[claim[w].hash])
    BY <2>3 DEF SoundInv, ClaimsMatchRows
  <2>8. \A v \in Worker \ {w} : Busy(v)' => Busy(v)
    BY <2>4 DEF Busy
  <2>9. ClaimsMatchRows'
    BY <2>2, <2>3, <2>4, <2>6, <2>7, <2>8 DEF SoundInv, ClaimsMatchRows, store
  <2> QED  BY <2>5, <2>9
<1>7. ASSUME NEW w \in Worker, Commit(w) PROVE RowsSound' /\ ClaimsMatchRows'
  <2>1. Committing(w) /\ Release(w)
    BY <1>0, <1>7, CommitWrites DEF Release
  <2>2. claim[w].hash \in Hash /\ \A v \in Worker : claim'[v] \in {claim[v], NoClaim}
    BY <1>0, <2>1, ClaimSteps DEF Committing
  <2>3. CASE UNCHANGED store
    <3>1. RowsSound'
      BY <1>0, <2>3 DEF RowsSound, store
    <3>2. \A v \in Worker : Busy(v)' => claim'[v] = claim[v] /\ Busy(v) /\ (Current(v)' => Current(v))
      BY <2>2, <2>3 DEF Busy, NoClaim, Current, store
    <3> QED  BY <2>3, <3>1, <3>2 DEF SoundInv, ClaimsMatchRows, store
  <2>4. CASE \E e : /\ Current(w) /\ Mutate(claim[w].hash, e, "free") /\ e \in Download
                    /\ LegalSuccessor(download[claim[w].hash], claim[w].d) => SoundRow(e)
    <3>1. PICK e : /\ Current(w) /\ Mutate(claim[w].hash, e, "free") /\ e \in Download
                   /\ LegalSuccessor(download[claim[w].hash], claim[w].d) => SoundRow(e)
      BY <2>4
    <3>2. SoundRow(e)
      BY <2>1, <3>1 DEF SoundInv, ClaimsMatchRows, Committing
    <3> QED  BY <1>2, <2>2, <3>1, <3>2
  <2> QED  BY <1>0, <1>7, <2>3, <2>4, CommitWrites
<1>8. ASSUME NEW w \in Worker, Crash(w) PROVE RowsSound' /\ ClaimsMatchRows'
  <2>1. Release(w) /\ UNCHANGED store
    BY <1>8 DEF Crash
  <2>2. \A v \in Worker : claim'[v] \in {claim[v], NoClaim}
    BY <1>0, <2>1, ClaimSteps
  <2>3. \A v \in Worker : Busy(v)' => claim'[v] = claim[v] /\ Busy(v) /\ (Current(v)' => Current(v))
    BY <2>1, <2>2 DEF Busy, NoClaim, Current, store
  <2>4. RowsSound'
    BY <1>0, <2>1 DEF RowsSound, store
  <2> QED  BY <2>1, <2>3, <2>4 DEF SoundInv, ClaimsMatchRows, store
<1>9. ASSUME NEW w \in Worker, OperationDeadline(w) PROVE RowsSound' /\ ClaimsMatchRows'
  <2>1. UNCHANGED store /\ Busy(w) /\ claim[w].pc = "deciding"
    BY <1>9 DEF OperationDeadline
  <2>2. /\ claim'[w].pc = "deciding" /\ claim'[w].d = claim[w].d /\ claim'[w].hash = claim[w].hash
        /\ claim'[w].version = claim[w].version /\ claim'[w].from = claim[w].from
        /\ \A v \in Worker \ {w} : claim'[v] = claim[v]
    BY <1>0, <1>9, ClaimSteps
  <2>3. RowsSound'
    BY <1>0, <2>1 DEF RowsSound, store
  <2>4. \A v \in Worker : Busy(v)' => Busy(v) /\ (Current(v)' => Current(v))
    BY <2>1, <2>2 DEF Busy, Current, store
  <2> QED  BY <2>1, <2>2, <2>3, <2>4 DEF SoundInv, ClaimsMatchRows, store
<1>10. ASSUME NEW h \in Hash, LeaseLapses(h) PROVE RowsSound' /\ ClaimsMatchRows'
  <2>1. UNCHANGED <<download, version, claim>> /\ lease[h] = "live"
        /\ lease' = [lease EXCEPT ![h] = "lapsed"]
    BY <1>10 DEF LeaseLapses
  <2>2. \A g \in Hash : lease'[g] # "free" => lease[g] # "free"
    BY <1>0, <2>1 DEF TypeOK
  <2> QED  BY <1>1, <2>1, <2>2
<1>11. ASSUME NEW h \in Hash, PhaseDeadline(h) PROVE RowsSound' /\ ClaimsMatchRows'
  <2> DEFINE d == download[h]
             e == download'[h]
  <2>1. /\ SamePaths(d, e) /\ e.state = d.state /\ e.upstream = d.upstream /\ e.problem = d.problem
        /\ \A g \in Hash \ {h} : download'[g] = download[g]
    BY <1>0, <1>11, PhaseDeadlineRow
  <2>2. /\ d.state \in TimedStates /\ \A w \in Worker : ~(Busy(w) /\ claim[w].hash = h /\ Current(w))
        /\ UNCHANGED <<lease, version, claim>>
    BY <1>11 DEF PhaseDeadline
  <2>3. SoundRow(d)
    BY <1>0
  <2>4. SoundRow(e)
    BY <2>1, <2>2, <2>3 DEF SoundRow, Sound, ValidDownload, SamePaths
  <2>5. RowsSound'
    BY <1>0, <2>1, <2>4 DEF RowsSound
  <2>6. ASSUME NEW w \in Worker, Busy(w), Current(w)'
        PROVE  Current(w) /\ download'[claim[w].hash] = download[claim[w].hash]
    <3>1. download'[claim[w].hash].state = download[claim[w].hash].state
      BY <1>0, <2>1, <2>6
    <3>2. Current(w)
      BY <2>2, <2>6, <3>1 DEF Current
    <3> QED  BY <1>0, <2>1, <2>2, <2>6, <3>2
  <2>7. ClaimsMatchRows'
    BY <2>2, <2>6 DEF SoundInv, ClaimsMatchRows, Busy
  <2> QED  BY <2>5, <2>7
<1>12. CASE UNCHANGED vars
  BY <1>1, <1>12 DEF vars
<1> QED  BY <1>3, <1>4, <1>5, <1>6, <1>7, <1>8, <1>9, <1>10, <1>11, <1>12 DEF Next, Clock

\* If a retry's target is computed from the row it is applied to, no sequence of
\* intents and commits ever stores a row that cannot be read back and claimed.
THEOREM StoredRowsValid ==
  ASSUME AtomicRetry
  PROVE  Spec => []RowsValid
<1>1. SoundInv => RowsValid
  BY DEF SoundInv, RowsSound, SoundRow, RowsValid
<1>2. SoundInv /\ [Next]_vars => SoundInv'
  BY SoundNext
<1> QED  BY <1>1, <1>2, SoundInit, PTL DEF Spec

\* Under the same assumption CommitClaim accepts every outcome whose claim is
\* still current: no row is claimed, decided and refused over and over.
THEOREM CurrentOutcomesCommit ==
  ASSUME AtomicRetry
  PROVE  Spec => []NoStuckClaim
<1>1. SoundInv => NoStuckClaim
  BY DEF SoundInv, ClaimsMatchRows, LegalSuccessor, NoStuckClaim, Committing
<1>2. SoundInv /\ [Next]_vars => SoundInv'
  BY SoundNext
<1> QED  BY <1>1, <1>2, SoundInit, PTL DEF Spec
=============================================================================

---------------------------- MODULE EffectProofs ----------------------------
(***************************************************************************)
(* What Workflow guarantees about the operators' intents, the tasks in     *)
(* CloudDrive2 and the files on disk.                                      *)
(*                                                                         *)
(* WorkflowProofs looks at the downloads table alone. Here a row is tied   *)
(* to the world it speaks of: Grounded says which claims of a row about    *)
(* its offline task, its copy task and its workspace are true, and every   *)
(* worker that is deciding holds the evidence its row still shows          *)
(* (ClaimsAligned), however often operators have redirected the row since. *)
(***************************************************************************)
EXTENDS WorkflowProofs

USE DEF Workable, Resting, AfterPreflight, States, Active, Cleanup, Quiet,
        CopyReports, LeaseStates, TimedStates

-----------------------------------------------------------------------------
(* The columns that decide and the intents rewrite, and those they keep.     *)

\* The operator's wishes.
SameWishes(d, e) == e.pauseRequested = d.pauseRequested /\ e.deleteFiles = d.deleteFiles

\* What the row says of the cloud and of the disk.
SameEvidence(d, e) ==
  /\ e.isolated = d.isolated /\ e.result = d.result /\ e.source = d.source
  /\ e.destination = d.destination /\ e.content = d.content
  /\ e.mark = d.mark /\ e.upstream = d.upstream

\* e is d in phase s, with another schedule or problem.
InPhase(d, e, s) ==
  e \in Download /\ SameWishes(d, e) /\ SameEvidence(d, e) /\ e.state = s

\* e is d with another status.
WithStatus(d, e, m, u) ==
  /\ e \in Download /\ SameWishes(d, e) /\ e.state = d.state
  /\ e.isolated = d.isolated /\ e.result = d.result /\ e.source = d.source
  /\ e.destination = d.destination /\ e.content = d.content
  /\ e.mark = m /\ e.upstream = u

\* The phase decide moves a row to changes nothing but schedule and problem.
LEMMA PhaseColumns ==
  ASSUME NEW d \in Download
  PROVE  /\ InPhase(d, Poll(d), d.state)
         /\ \A p \in Problems : InPhase(d, RetryLater(d, p), d.state)
         /\ \A p \in Problems : InPhase(d, CleanupProblem(d, p), d.state)
         /\ \A p \in Problems : InPhase(d, Fail(d, p), "FAILED")
         /\ \A s \in States : InPhase(d, Advance(d, s), s)
         /\ \A s \in States : InPhase(d, Quieted(d, s), s)
<1> USE DEF Download, InPhase, SameWishes, SameEvidence
<1>1. InPhase(d, Poll(d), d.state)
  BY ZenonT(60) DEF Poll, Problems
<1>2. ASSUME NEW p \in Problems PROVE InPhase(d, RetryLater(d, p), d.state)
  BY ZenonT(60) DEF RetryLater
<1>3. ASSUME NEW p \in Problems PROVE InPhase(d, CleanupProblem(d, p), d.state)
  BY ZenonT(60) DEF CleanupProblem
<1>4. ASSUME NEW p \in Problems PROVE InPhase(d, Fail(d, p), "FAILED")
  BY DEF Fail, Quieted
<1>5. ASSUME NEW s \in States PROVE InPhase(d, Advance(d, s), s)
  BY ZenonT(60) DEF Advance, Problems
<1>6. ASSUME NEW s \in States PROVE InPhase(d, Quieted(d, s), s)
  BY ZenonT(60) DEF Quieted, Problems
<1> QED  BY <1>1, <1>2, <1>3, <1>4, <1>5, <1>6

\* Writing a status or a mark changes no other column.
LEMMA StatusColumns ==
  ASSUME NEW d \in Download
  PROVE  /\ \A u \in Upstreams : WithStatus(d, SetStatus(d, u), "none", u)
         /\ WithStatus(d, MarkCopyRemoved(d), "removed", d.upstream)
         /\ WithStatus(d, MarkCleanupCancelled(d), "cancelled", d.upstream)
<1> USE DEF Download, WithStatus, SameWishes
<1>1. ASSUME NEW u \in Upstreams PROVE WithStatus(d, SetStatus(d, u), "none", u)
  BY ZenonT(60) DEF SetStatus, Marks
<1>2. WithStatus(d, MarkCopyRemoved(d), "removed", d.upstream)
  BY ZenonT(60) DEF MarkCopyRemoved, Marks
<1>3. WithStatus(d, MarkCleanupCancelled(d), "cancelled", d.upstream)
  BY ZenonT(60) DEF MarkCleanupCancelled, Marks
<1> QED  BY <1>1, <1>2, <1>3

\* Learning a path, finding or dropping content: one or two columns change.
LEMMA PathColumns ==
  ASSUME NEW d \in Download
  PROVE  /\ LET e == [d EXCEPT !.result = TRUE] IN
              /\ e \in Download /\ SameWishes(d, e) /\ e.state = d.state /\ e.result
              /\ e.isolated = d.isolated /\ e.source = d.source /\ e.destination = d.destination
              /\ e.content = d.content /\ e.mark = d.mark /\ e.upstream = d.upstream
         /\ LET e == [d EXCEPT !.source = TRUE] IN
              /\ e \in Download /\ SameWishes(d, e) /\ e.state = d.state /\ e.source
              /\ e.isolated = d.isolated /\ e.result = d.result /\ e.destination = d.destination
              /\ e.content = d.content /\ e.mark = d.mark /\ e.upstream = d.upstream
         /\ LET e == [d EXCEPT !.destination = TRUE] IN
              /\ e \in Download /\ SameWishes(d, e) /\ e.state = d.state /\ e.destination
              /\ e.isolated = d.isolated /\ e.result = d.result /\ e.source = d.source
              /\ e.content = d.content /\ e.mark = d.mark /\ e.upstream = d.upstream
         /\ LET e == [d EXCEPT !.content = TRUE] IN
              /\ e \in Download /\ SameWishes(d, e) /\ e.state = d.state /\ e.content
              /\ e.isolated = d.isolated /\ e.result = d.result /\ e.source = d.source
              /\ e.destination = d.destination /\ e.mark = d.mark /\ e.upstream = d.upstream
         /\ LET e == [d EXCEPT !.isolated = TRUE, !.content = FALSE] IN
              /\ e \in Download /\ SameWishes(d, e) /\ e.state = d.state /\ e.isolated /\ ~e.content
              /\ e.result = d.result /\ e.source = d.source /\ e.destination = d.destination
              /\ e.mark = d.mark /\ e.upstream = d.upstream
         /\ LET e == [d EXCEPT !.content = TRUE, !.completed = TRUE] IN
              /\ e \in Download /\ SameWishes(d, e) /\ e.state = d.state /\ e.content
              /\ e.isolated = d.isolated /\ e.result = d.result /\ e.source = d.source
              /\ e.destination = d.destination /\ e.mark = d.mark /\ e.upstream = d.upstream
  BY DEF Download, SameWishes
-----------------------------------------------------------------------------
(* What decide writes of the operator's wishes.                              *)

\* Decide leaves the wishes alone, never cancels a download that is to be
\* paused, and completes only what verifies.
Respects(w, a) ==
  LET d == claim[w].d IN
  /\ SameWishes(d, a)
  /\ d.state = "CANCEL_REQUESTED" /\ d.pauseRequested => a.state \in {"CANCEL_REQUESTED", "STOPPED", "FAILED"}
  /\ a.state = "COMPLETED" => Verifies(claim[w].hash) /\ UNCHANGED disk

\* The row a decision leaves with the worker.
LEMMA DecidedRow ==
  ASSUME TypeOK, NEW w \in Worker, Busy(w), NEW o, Decided(w, o)
  PROVE  claim'[w].d = (IF claim[w].inTime THEN o ELSE RetryLater(claim[w].d, "other"))
<1>1. PICK c \in Claim : c = claim[w]
  BY DEF TypeOK, Busy, NoClaim
<1> DEFINE o2 == IF c.inTime THEN o ELSE RetryLater(c.d, "other")
<1>2. claim' = [claim EXCEPT ![w].pc = "committing", ![w].inTime = TRUE, ![w].d = o2]
  BY <1>1 DEF Decided
<1> HIDE DEF o2
<1>3. claim'[w] = [c EXCEPT !.pc = "committing", !.inTime = TRUE, !.d = o2]
  BY <1>1, <1>2 DEF TypeOK
<1>4. [c EXCEPT !.pc = "committing", !.inTime = TRUE, !.d = o2].d = o2
  BY <1>1 DEF Claim
<1> QED  BY <1>1, <1>3, <1>4 DEF o2

\* Every branch of decide respects the wishes recorded in the row it read.
LEMMA DecideRespects ==
  ASSUME QuietInv, NEW w \in Worker, Decide(w)
  PROVE  Respects(w, claim'[w].d)
<1> DEFINE d == claim[w].d
           h == claim[w].hash
           Concluded == \E o : Decided(w, o) /\ Respects(w, o)
<1>1. Busy(w) /\ claim[w].pc = "deciding" /\ d \in Download /\ h \in Hash /\ d.state \in Workable
  BY DecideFrame DEF QuietInv, TypeOK, ClaimsQuiet, Claim, NoClaim, Busy
<1>2. SUFFICES Concluded
  <2>1. PICK o : Decided(w, o) /\ Respects(w, o)
    BY <1>2
  <2>2. InPhase(d, RetryLater(d, "other"), d.state)
    BY <1>1, PhaseColumns DEF Problems
  <2>3. Respects(w, RetryLater(d, "other"))
    BY <1>1, <2>2 DEF Respects, InPhase
  <2> QED  BY <1>1, <2>1, <2>3, DecidedRow DEF QuietInv
<1> USE DEF RowStep, OfflineStep, CopyStep, DiskStep, Deciding, CloudStep
\* In an active phase any row with the same wishes will do, unless it is complete.
<1>3. ASSUME NEW e, SameWishes(d, e), e.state # "COMPLETED", d.state \in Active \/ e.state \in {d.state, "STOPPED", "FAILED"}
      PROVE  Respects(w, e)
  BY <1>1, <1>3 DEF Respects
<1>4. ASSUME NEW fault, NEW b \in BOOLEAN
      PROVE  /\ Respects(w, CloudFailure(d, fault, b)) /\ Respects(w, CleanupFailure(d, fault))
             /\ Respects(w, LocalFailure(d, fault))
  <2>1. ASSUME NEW e \in {RetryLater(d, "other"), RetryLater(d, "unavailable"), CleanupProblem(d, "other"),
                          Fail(d, "other"), Fail(d, "local")}
        PROVE  Respects(w, e)
    <3>1. InPhase(d, e, d.state) \/ InPhase(d, e, "FAILED")
      BY <1>1, <2>1, PhaseColumns DEF Problems
    <3> QED  BY <1>1, <1>3, <3>1 DEF InPhase
  <2> QED  BY <2>1 DEF CloudFailure, CleanupFailure, LocalFailure
<1>5. /\ Respects(w, Poll(d)) /\ \A p \in Problems : Respects(w, Fail(d, p)) /\ Respects(w, CleanupProblem(d, p))
      /\ Respects(w, Quieted(d, "STOPPED"))
      /\ d.state \in Active => \A s \in Active : Respects(w, Advance(d, s))
  <2>1. Respects(w, Poll(d))
    BY <1>1, <1>3, PhaseColumns DEF InPhase
  <2>2. ASSUME NEW p \in Problems PROVE Respects(w, Fail(d, p)) /\ Respects(w, CleanupProblem(d, p))
    <3>1. InPhase(d, Fail(d, p), "FAILED") /\ InPhase(d, CleanupProblem(d, p), d.state)
      BY <1>1, PhaseColumns
    <3> QED  BY <1>1, <1>3, <3>1 DEF InPhase
  <2>3. Respects(w, Quieted(d, "STOPPED"))
    BY <1>1, <1>3, PhaseColumns DEF InPhase
  <2>4. ASSUME d.state \in Active, NEW s \in Active PROVE Respects(w, Advance(d, s))
    <3>1. InPhase(d, Advance(d, s), s)
      BY <1>1, PhaseColumns
    <3> QED  BY <1>1, <1>3, <2>4, <3>1 DEF InPhase
  <2> QED  BY <2>1, <2>2, <2>3, <2>4
\* A status is written, and the row polls on, advances, stops or fails.
<1>6. ASSUME NEW u \in Upstreams
      PROVE  LET e == SetStatus(d, u) IN
             /\ Respects(w, Poll(e)) /\ Respects(w, Fail(e, "other")) /\ Respects(w, Quieted(e, "STOPPED"))
             /\ d.state \in Active => \A s \in Active : Respects(w, Advance(e, s))
  <2>1. PICK e \in Download : e = SetStatus(d, u) /\ SameWishes(d, e) /\ e.state = d.state
    BY <1>1, StatusColumns DEF WithStatus
  <2>2. /\ Respects(w, Poll(e)) /\ Respects(w, Fail(e, "other")) /\ Respects(w, Quieted(e, "STOPPED"))
        /\ d.state \in Active => \A s \in Active : Respects(w, Advance(e, s))
    BY <1>1, <1>3, <2>1, PhaseColumns DEF InPhase, SameWishes, Problems
  <2> QED  BY <2>1, <2>2
<1>7. ASSUME NEW e \in {MarkCopyRemoved(d), MarkCleanupCancelled(d)}
      PROVE  /\ Respects(w, Poll(e))
             /\ ~d.pauseRequested /\ d.state = "CANCEL_REQUESTED" => Respects(w, Quieted(e, "CANCELLED"))
  <2>1. PICK f \in Download : f = e /\ SameWishes(d, f) /\ f.state = d.state
    BY <1>1, <1>7, StatusColumns DEF WithStatus
  <2>2. Respects(w, Poll(f))
    BY <1>1, <1>3, <2>1, PhaseColumns DEF InPhase, SameWishes
  <2>3. InPhase(f, Quieted(f, "CANCELLED"), "CANCELLED")
    BY <2>1, PhaseColumns
  <2> QED  BY <2>1, <2>2, <2>3 DEF InPhase, SameWishes, Respects
<1>8. CASE PhaseTimeout(w) \/ OperationOverran(w) \/ BeginOffline(w)
  <2>1. CASE PhaseTimeout(w)
    BY <1>5, <2>1 DEF PhaseTimeout, DeadlineProblem, Problems
  <2>2. CASE OperationOverran(w)
    BY <1>1, <1>3, <2>2 DEF OperationOverran, SameWishes
  <2>3. CASE BeginOffline(w)
    BY <1>5, <2>3 DEF BeginOffline
  <2> QED  BY <1>8, <2>1, <2>2, <2>3
<1>9. ASSUME d.state \in {"SUBMITTING_OFFLINE", "WAITING_OFFLINE"}, NEW task \in OfflineTasks \ {"none"}
      PROVE  Respects(w, OfflineReported(d, task))
  <2>1. CASE task = "finished"
    <3>1. PICK e \in Download : e = SetStatus(d, "offline:FINISHED") /\ SameWishes(d, e)
      BY <1>1, StatusColumns DEF WithStatus, Upstreams
    <3>2. PICK f \in Download : f = Advance(e, "SUBMITTING_COPY") /\ SameWishes(d, f) /\ f.state = "SUBMITTING_COPY"
      BY <3>1, PhaseColumns DEF InPhase, SameWishes
    <3> DEFINE g == [f EXCEPT !.result = TRUE]
    <3>3. SameWishes(d, g) /\ g.state = "SUBMITTING_COPY"
      BY <3>2, PathColumns DEF SameWishes
    <3>4. OfflineReported(d, task) = g
      BY <2>1, <3>1, <3>2 DEF OfflineReported
    <3> HIDE DEF g
    <3> QED  BY <1>3, <1>9, <3>3, <3>4
  <2>2. CASE task = "active" \/ task = "error"
    BY <1>6, <1>9, <2>2 DEF OfflineReported, Upstreams
  <2> QED  BY <1>9, <2>1, <2>2 DEF OfflineTasks
<1>10. CASE RetryCancelOffline(w)
  BY <1>4, <1>6, <1>10 DEF RetryCancelOffline, Upstreams
<1>11. CASE EnsureOffline(w)
  <2>1. EnsuredOffline(h)[h] \in OfflineTasks \ {"none"}
    BY <1>1 DEF EnsuredOffline, QuietInv, TypeOK, OfflineTasks
  <2> QED  BY <1>4, <1>9, <1>11, <2>1 DEF EnsureOffline
<1>12. CASE InspectOffline(w)
  <2>1. offline[h] \in OfflineTasks
    BY <1>1 DEF QuietInv, TypeOK
  <2> QED  BY <1>4, <1>5, <1>9, <1>12, <2>1 DEF InspectOffline
<1>13. CASE ResolveCopySource(w) \/ ReserveDestination(w)
  <2> DEFINE e == [d EXCEPT !.source = TRUE]
             f == [d EXCEPT !.destination = TRUE]
  <2>1. /\ e \in Download /\ SameWishes(d, e) /\ e.state = d.state
        /\ f \in Download /\ SameWishes(d, f) /\ f.state = d.state
    BY <1>1, PathColumns
  <2>2. CASE ResolveCopySource(w)
    <3>1. \/ Decided(w, Poll(e)) \/ Decided(w, Fail(d, "other"))
          \/ \E fault \in CloudFaults : Decided(w, CloudFailure(d, fault, TRUE))
      BY <2>2 DEF ResolveCopySource
    <3> HIDE DEF e
    <3>2. Respects(w, Poll(e))
      BY <1>1, <1>3, <2>1, PhaseColumns DEF InPhase, SameWishes
    <3> QED  BY <1>4, <1>5, <3>1, <3>2 DEF Problems
  <2>3. CASE ReserveDestination(w)
    <3>1. Decided(w, Poll(f))
      BY <2>3 DEF ReserveDestination
    <3> HIDE DEF f
    <3>2. Respects(w, Poll(f))
      BY <1>1, <1>3, <2>1, PhaseColumns DEF InPhase, SameWishes
    <3> QED  BY <3>1, <3>2
  <2> QED  BY <1>13, <2>2, <2>3
<1>14. CASE RetryRemoveCopy(w)
  BY <1>4, <1>7, <1>14 DEF RetryRemoveCopy
<1>15. CASE RetryDeleteCopy(w)
  <2>1. PICK e \in Download : e = SetStatus(d, "offline:FINISHED") /\ SameWishes(d, e) /\ e.state = d.state
    BY <1>1, StatusColumns DEF WithStatus, Upstreams
  <2> DEFINE f == [e EXCEPT !.isolated = TRUE, !.content = FALSE]
  <2>2. f \in Download /\ SameWishes(d, f) /\ f.state = d.state
    BY <2>1, PathColumns DEF SameWishes
  <2>3. Decided(w, Poll(f)) \/ Decided(w, Fail(d, "local"))
    BY <1>15, <2>1 DEF RetryDeleteCopy
  <2> HIDE DEF f
  <2>4. Respects(w, Poll(f))
    BY <1>1, <1>3, <2>2, PhaseColumns DEF InPhase, SameWishes
  <2> QED  BY <1>5, <2>3, <2>4 DEF Problems
<1>16. CASE PreflightLocal(w)
  BY <1>4, <1>5, <1>6, <1>16 DEF PreflightLocal, Upstreams, Problems
<1>17. ASSUME d.state \in {"SUBMITTING_COPY", "WAITING_COPY"}, NEW task \in CopyTasks \ {"none"}
       PROVE  Respects(w, CopyReported(d, task))
  BY <1>6, <1>17 DEF CopyReported, Upstreams, CopyTasks
<1>18. CASE EnsureCopy(w)
  <2>1. EnsuredCopy(h)[h] \in CopyTasks \ {"none"}
    BY <1>1 DEF EnsuredCopy, QuietInv, TypeOK, CopyTasks
  <2> QED  BY <1>4, <1>17, <1>18, <2>1 DEF EnsureCopy, CopyRung
<1>19. CASE InspectCopy(w)
  <2> DEFINE e == [d EXCEPT !.content = TRUE]
  <2>1. e \in Download /\ SameWishes(d, e) /\ e.state = d.state
    BY <1>1, PathColumns
  <2>2. \/ copy[h] # "none" /\ Decided(w, CopyReported(d, copy[h]))
        \/ \E o \in VerifyOutcomes(d, h, Advance(e, "VERIFYING_LOCAL")) : Decided(w, o)
        \/ \E fault \in CloudFaults : Decided(w, CloudFailure(d, fault, TRUE))
    BY <1>19 DEF InspectCopy
  <2>3. d.state = "WAITING_COPY"
    BY <1>19 DEF InspectCopy
  <2> HIDE DEF e
  <2>4. InPhase(e, Advance(e, "VERIFYING_LOCAL"), "VERIFYING_LOCAL")
    BY <2>1, PhaseColumns
  <2>5. Respects(w, Advance(e, "VERIFYING_LOCAL"))
    BY <1>1, <1>3, <2>1, <2>3, <2>4 DEF InPhase, SameWishes
  <2>6. \A o \in VerifyOutcomes(d, h, Advance(e, "VERIFYING_LOCAL")) : Respects(w, o)
    BY <1>4, <1>5, <2>5 DEF VerifyOutcomes, Verification, Problems
  <2>7. copy[h] \in CopyTasks
    BY <1>1 DEF QuietInv, TypeOK
  <2> QED  BY <1>4, <1>17, <2>6, <2>7, <2>2, <2>3
<1>20. CASE VerifyLocal(w)
  <2>1. PICK e \in Download : e = Quieted(d, "COMPLETED") /\ SameWishes(d, e)
    BY <1>1, PhaseColumns DEF InPhase
  <2> DEFINE f == [e EXCEPT !.content = TRUE, !.completed = TRUE]
  <2>2. SameWishes(d, f)
    BY <2>1, PathColumns DEF SameWishes
  <2> HIDE DEF f
  <2>3. Verifies(h) /\ UNCHANGED disk => Respects(w, f)
    BY <1>20, <2>2 DEF Respects, VerifyLocal
  <2>4. UNCHANGED disk /\ \E o \in VerifyOutcomes(d, h, f) : Decided(w, o)
    BY <1>20, <2>1 DEF VerifyLocal, f, outside
  <2>5. \A o \in VerifyOutcomes(d, h, f) : Respects(w, o)
    BY <1>4, <1>5, <2>3, <2>4 DEF VerifyOutcomes, Verification, Problems
  <2> QED  BY <2>4, <2>5
<1>21. ASSUME NEW done, Respects(w, done), StopUpstream(w, done)
       PROVE  Concluded
  BY <1>4, <1>21 DEF StopUpstream
<1>22. MarkStopped(d) \in {MarkCopyRemoved(d), MarkCleanupCancelled(d)}
  BY DEF MarkStopped
<1>23. CASE CancelUpstream(w) \/ DeleteUpstream(w)
  BY <1>7, <1>21, <1>22, <1>23 DEF CancelUpstream, DeleteUpstream
<1>24. CASE PauseFinishedCopy(w)
  BY <1>5, <1>24 DEF PauseFinishedCopy
<1>25. CASE PauseUpstream(w)
  BY <1>6, <1>7, <1>21, <1>25 DEF PauseUpstream, Upstreams
<1>26. ASSUME NEW done, Respects(w, done), DeleteFiles(w, done)
       PROVE  Concluded
  BY <1>5, <1>26 DEF DeleteFiles, Problems
<1>27. CASE PauseDeleteCopy(w)
  BY <1>5, <1>6, <1>26, <1>27 DEF PauseDeleteCopy, Upstreams, Problems
<1>28. CASE DeleteLocal(w)
  <2>1. InPhase(d, Quieted(d, "DELETED"), "DELETED")
    BY <1>1, PhaseColumns
  <2>2. Respects(w, Quieted(d, "DELETED"))
    BY <1>28, <2>1 DEF Respects, InPhase, DeleteLocal
  <2> QED  BY <1>5, <1>26, <1>28, <2>2 DEF DeleteLocal, Problems
<1> QED  BY <1>8, <1>10, <1>11, <1>12, <1>13, <1>14, <1>15, <1>16, <1>18, <1>19, <1>20, <1>23, <1>24,
            <1>25, <1>27, <1>28 DEF Decide
-----------------------------------------------------------------------------
(* Kinds of step: who writes a row, and what becomes of the claims.          *)

\* The worker's claim is the one it had, but for its deadline.
SameClaim(w) ==
  /\ Busy(w) /\ claim'[w].pc = claim[w].pc /\ claim'[w].hash = claim[w].hash
  /\ claim'[w].d = claim[w].d /\ claim'[w].from = claim[w].from
  /\ claim'[w].version = claim[w].version

\* The worker has just read a row to work on.
NewClaim(w) ==
  \E h \in Hash :
    /\ ~Busy(w) /\ lease[h] # "live" /\ download[h].state \in Workable /\ download' = download
    /\ claim'[w].pc = "deciding" /\ claim'[w].hash = h /\ claim'[w].d = download[h]

\* The row keeps all but its schedule.
SamePhase(h) ==
  /\ download'[h].state = download[h].state
  /\ SameWishes(download[h], download'[h]) /\ SameEvidence(download[h], download'[h])

\* Nothing is decided, stored or done: claims are taken and lost, time passes.
Passing ==
  /\ UNCHANGED <<retryPlan, outside, acked>>
  /\ \A h \in Hash : SamePhase(h)
  /\ \A w \in Worker : Busy(w)' => NewClaim(w) \/ (SameClaim(w) /\ (Current(w)' => Current(w)))

\* One row is written, which outdates every claim on it that is not given up.
Writing(h) ==
  /\ \A g \in Hash \ {h} : download'[g] = download[g]
  /\ \A w \in Worker : Busy(w)' =>
       claim'[w] = claim[w] /\ (Current(w)' => Current(w) /\ claim[w].hash # h)

\* A write that gives its row a new version outdates the claims on that row.
LEMMA WritesOutdate ==
  ASSUME TypeOK, NEW h \in Hash, NEW d \in Download, NEW l \in LeaseStates, Mutate(h, d, l),
         \A w \in Worker : claim'[w] \in {claim[w], NoClaim}
  PROVE  Writing(h) /\ download'[h] = d
<1>1. ASSUME NEW w \in Worker, Busy(w)'
      PROVE  claim'[w] = claim[w] /\ (Current(w)' => Current(w) /\ claim[w].hash # h)
  <2>1. claim'[w] = claim[w] /\ Busy(w)
    BY <1>1 DEF Busy, NoClaim
  <2>2. claim[w].hash \in Hash
    BY <2>1 DEF TypeOK, Busy, Claim, NoClaim
  <2>3. claim[w].hash = h => ~Current(w)'
    BY <2>1, MutateRow DEF Current
  <2>4. claim[w].hash # h /\ Current(w)' => Current(w)
    BY <2>1, <2>2, MutateRow DEF Current
  <2> QED  BY <2>1, <2>3, <2>4
<1> QED  BY <1>1, MutateRow DEF Writing

\* What a commit stores: the decided row, or that row failed without the
\* destination it had only just reserved.
Stored(before, d, e) ==
  /\ e \in Download /\ SameWishes(d, e)
  /\ e.state = before.state \/ CanTransition(before.state, e.state)
  /\ \/ e = d
     \/ /\ e.state = "FAILED" /\ ~e.destination /\ ~before.destination
        /\ d.destination /\ ~d.isolated
        /\ e.isolated = d.isolated /\ e.result = d.result /\ e.source = d.source
        /\ e.content = d.content /\ e.mark = d.mark /\ e.upstream = d.upstream

LEMMA CommitRow ==
  ASSUME QuietInv, NEW w \in Worker, CommitClaim(w) \/ CommitConflict(w)
  PROVE  LET h == claim[w].hash IN
         /\ h \in Hash /\ Committing(w) /\ Current(w) /\ claim'[w] = NoClaim
         /\ UNCHANGED <<retryPlan, outside, acked>>
         /\ Writing(h) /\ Stored(download[h], claim[w].d, download'[h])
<1> DEFINE c == claim[w]
           h == claim[w].hash
<1>1. Committing(w) /\ Current(w) /\ Release(w) /\ UNCHANGED <<retryPlan, outside, acked>>
  BY DEF CommitClaim, CommitConflict
<1>2. c.d \in Download /\ h \in Hash
  BY <1>1 DEF QuietInv, TypeOK, Committing, Busy, Claim, NoClaim
<1>3. claim'[w] = NoClaim /\ \A v \in Worker : claim'[v] \in {claim[v], NoClaim}
  BY <1>1 DEF Release, QuietInv, TypeOK
<1>4. ASSUME NEW e \in Download, Mutate(h, e, "free") PROVE Writing(h) /\ download'[h] = e
  BY <1>2, <1>3, <1>4, WritesOutdate DEF QuietInv
<1>5. CASE CommitClaim(w)
  BY <1>1, <1>2, <1>3, <1>4, <1>5 DEF CommitClaim, LegalOutcome, Stored, SameWishes
<1>6. CASE CommitConflict(w)
  <2> DEFINE e == [c.d EXCEPT !.destination = FALSE, !.state = "FAILED", !.problem = "conflict",
                              !.due = FALSE, !.late = FALSE]
  <2>1. PICK b \in Download : b = c.d
    BY <1>2
  <2>2. LET f == [b EXCEPT !.destination = FALSE, !.state = "FAILED", !.problem = "conflict",
                           !.due = FALSE, !.late = FALSE] IN
        /\ f \in Download /\ SameWishes(b, f) /\ ~f.destination /\ f.state = "FAILED"
        /\ f.isolated = b.isolated /\ f.result = b.result /\ f.source = b.source
        /\ f.content = b.content /\ f.mark = b.mark /\ f.upstream = b.upstream
    BY ZenonT(60) DEF Download, SameWishes, Problems
  <2>3. /\ e \in Download /\ SameWishes(c.d, e) /\ ~e.destination /\ e.state = "FAILED"
        /\ e.isolated = c.d.isolated /\ e.result = c.d.result /\ e.source = c.d.source
        /\ e.content = c.d.content /\ e.mark = c.d.mark /\ e.upstream = c.d.upstream
    BY <2>1, <2>2
  <2>4. /\ Mutate(h, e, "free") /\ LegalOutcome(download[h], e)
        /\ c.d.destination /\ ~c.d.isolated /\ ~download[h].destination
    BY <1>6 DEF CommitConflict
  <2> HIDE DEF e
  <2> QED  BY <1>1, <1>2, <1>3, <1>4, <2>3, <2>4 DEF Stored, LegalOutcome
<1> QED  BY <1>5, <1>6

\* A decision changes its own claim only, which stays as current as it was.
LEMMA DecideClaims ==
  ASSUME QuietInv, NEW w \in Worker, Decide(w)
  PROVE  /\ Busy(w) /\ claim[w].pc = "deciding" /\ claim[w].hash \in Hash /\ claim[w].d \in Download
         /\ claim[w].d.state \in Workable
         /\ UNCHANGED <<store, retryPlan, acked>>
         /\ claim'[w].pc = "committing" /\ claim'[w].hash = claim[w].hash /\ claim'[w].d \in Download
         /\ claim'[w].from = claim[w].from /\ claim'[w].version = claim[w].version
         /\ \A v \in Worker \ {w} : claim'[v] = claim[v]
         /\ \A v \in Worker : Current(v)' <=> Current(v)
<1>1. PICK a \in Download : Decision(w, a)
  BY DecideStep DEF Outcome
<1>2. Busy(w) /\ claim[w].pc = "deciding" /\ UNCHANGED <<store, retryPlan, acked>>
  BY DecideFrame DEF QuietInv
<1>3. claim[w].hash \in Hash /\ claim[w].d \in Download /\ claim[w].d.state \in Workable
  BY <1>2 DEF QuietInv, TypeOK, ClaimsQuiet, Claim, NoClaim, Busy
<1>4. /\ claim'[w].pc = "committing" /\ claim'[w].hash = claim[w].hash /\ claim'[w].d = a
      /\ claim'[w].from = claim[w].from /\ claim'[w].version = claim[w].version
      /\ \A v \in Worker \ {w} : claim'[v] = claim[v]
  BY <1>1, <1>2, ClaimSteps DEF QuietInv
<1>5. \A v \in Worker : Current(v)' <=> Current(v)
  BY <1>2, <1>4 DEF Current, store
<1> QED  BY <1>1, <1>2, <1>3, <1>4, <1>5

\* An intent touches no claim, and outdates those on the row it writes.
LEMMA OperatorClaims ==
  ASSUME QuietInv, NEW h \in Hash, Operator(h)
  PROVE  claim' = claim /\ (UNCHANGED store \/ Writing(h))
<1>1. claim' = claim /\ (UNCHANGED store \/ \E d, l : Written(h, d, l) /\ Mutate(h, d, l))
  BY OperatorWrites
<1>2. ASSUME NEW d, NEW l, Written(h, d, l), Mutate(h, d, l) PROVE Writing(h)
  BY <1>1, <1>2, WritesOutdate DEF Written, QuietInv
<1> QED  BY <1>1, <1>2

\* Every step is an intent, the cloud's or the disk's doing, a decision, a
\* commit, or time passing.
LEMMA StepKinds ==
  ASSUME QuietInv, [Next]_vars
  PROVE  \/ \E h \in Hash : Operator(h)
         \/ \E h \in Hash : Cloud(h) \/ ContentLost(h)
         \/ \E w \in Worker : Decide(w)
         \/ \E w \in Worker : CommitClaim(w) \/ CommitConflict(w)
         \/ Passing
<1> USE DEF QuietInv
<1>1. ASSUME NEW h \in Hash, download'[h] = download[h] PROVE SamePhase(h)
  BY <1>1 DEF SamePhase, SameWishes, SameEvidence
<1>2. ASSUME NEW w \in Worker, Busy(w)', claim'[w] = claim[w] PROVE SameClaim(w)
  BY <1>2 DEF SameClaim, Busy
<1>3. ASSUME NEW w \in Worker, NEW h \in Hash, ClaimDue(w, h) PROVE Passing
  <2>1. download' = download /\ UNCHANGED <<retryPlan, outside, acked>>
    BY <1>3, ClaimDueRow
  <2>2. ASSUME NEW v \in Worker, Busy(v)', claim'[v] = claim[v] PROVE Current(v)' => Current(v)
    <3>1. Busy(v) /\ claim[v].hash \in Hash
      BY <2>2 DEF Busy, TypeOK, Claim, NoClaim
    <3> QED  BY <1>3, <2>1, <2>2, <3>1, ClaimDueRow DEF Current
  <2>3. Busy(w)' => NewClaim(w)
    BY <1>3, ClaimDueRow DEF NewClaim, Busy
  <2>4. \A v \in Worker \ {w} : claim'[v] = claim[v]
    BY <1>3, ClaimDueRow
  <2> QED  BY <1>1, <1>2, <2>1, <2>2, <2>3, <2>4 DEF Passing
<1>4. ASSUME NEW w \in Worker, CommitRefused(w) \/ Crash(w) PROVE Passing
  <2>1. Release(w) /\ UNCHANGED <<store, retryPlan, outside, acked>>
    BY <1>4 DEF CommitRefused, Crash
  <2>2. ASSUME NEW v \in Worker, Busy(v)' PROVE claim'[v] = claim[v] /\ (Current(v)' => Current(v))
    <3>1. claim'[v] = claim[v]
      BY <2>1, <2>2, ClaimSteps DEF Busy, NoClaim
    <3> QED  BY <2>1, <3>1 DEF Current, store
  <2> QED  BY <1>1, <1>2, <2>1, <2>2 DEF Passing, store
<1>5. ASSUME NEW w \in Worker, OperationDeadline(w) PROVE Passing
  <2>1. UNCHANGED <<store, retryPlan, outside, acked>> /\ Busy(w) /\ claim[w].pc = "deciding"
    BY <1>5 DEF OperationDeadline
  <2>2. SameClaim(w) /\ (Current(w)' => Current(w))
    BY <1>5, <2>1, ClaimSteps DEF SameClaim, Current, store
  <2>3. ASSUME NEW v \in Worker \ {w} PROVE claim'[v] = claim[v] /\ (Current(v)' => Current(v))
    BY <1>5, <2>1, ClaimSteps DEF Current, store
  <2> QED  BY <1>1, <1>2, <2>1, <2>2, <2>3 DEF Passing, store
<1>6. ASSUME NEW h \in Hash, LeaseLapses(h) PROVE Passing
  <2>1. /\ UNCHANGED <<download, version, claim, retryPlan, outside, acked>>
        /\ lease[h] = "live" /\ lease' = [lease EXCEPT ![h] = "lapsed"]
    BY <1>6 DEF LeaseLapses
  <2>2. ASSUME NEW v \in Worker, Busy(v) PROVE Current(v)' => Current(v)
    <3>1. claim[v].hash \in Hash
      BY <2>2 DEF Busy, TypeOK, Claim, NoClaim
    <3> QED  BY <2>1, <3>1 DEF Current, TypeOK
  <2>3. \A v \in Worker : Busy(v)' => Busy(v)
    BY <2>1 DEF Busy
  <2> QED  BY <1>1, <1>2, <2>1, <2>2, <2>3 DEF Passing
<1>7. ASSUME NEW h \in Hash, PhaseDeadline(h) PROVE Passing
  <2>1. /\ UNCHANGED <<lease, version, claim, retryPlan, outside, acked>>
        /\ download' = [download EXCEPT ![h].late = TRUE]
    BY <1>7 DEF PhaseDeadline
  <2>2. SamePhase(h)
    <3>1. PICK d \in Download : d = download[h]
      BY DEF TypeOK
    <3>2. LET e == [d EXCEPT !.late = TRUE] IN e.state = d.state /\ SameWishes(d, e) /\ SameEvidence(d, e)
      BY DEF Download, SameWishes, SameEvidence
    <3>3. download'[h] = [d EXCEPT !.late = TRUE]
      BY <2>1, <3>1 DEF TypeOK
    <3> QED  BY <3>1, <3>2, <3>3 DEF SamePhase
  <2>3. \A g \in Hash \ {h} : SamePhase(g)
    BY <1>1, <2>1 DEF TypeOK
  <2>4. ASSUME NEW v \in Worker, Busy(v) PROVE Current(v)' => Current(v)
    <3>1. claim[v].hash \in Hash
      BY <2>4 DEF Busy, TypeOK, Claim, NoClaim
    <3>2. download'[claim[v].hash].state = download[claim[v].hash].state
      BY <2>2, <2>3, <3>1 DEF SamePhase
    <3> QED  BY <2>1, <3>2 DEF Current
  <2>5. \A v \in Worker : Busy(v)' => Busy(v)
    BY <2>1 DEF Busy
  <2> QED  BY <1>2, <2>1, <2>2, <2>3, <2>4, <2>5 DEF Passing
<1>8. CASE UNCHANGED vars
  <2>1. \A v \in Worker : (Current(v)' <=> Current(v)) /\ (Busy(v)' <=> Busy(v))
    BY <1>8 DEF vars, Current, Busy
  <2>2. UNCHANGED <<store, claim, retryPlan, outside, acked>>
    BY <1>8 DEF vars, store, outside
  <2> QED  BY <1>1, <1>2, <2>1, <2>2 DEF Passing, store
<1>9. CASE \E w \in Worker : \/ \E h \in Hash : ClaimDue(w, h)
                             \/ Decide(w) \/ Commit(w) \/ Crash(w)
  BY <1>3, <1>4, <1>9 DEF Commit
<1>10. CASE Clock
  BY <1>5, <1>6, <1>7, <1>10 DEF Clock
<1>11. CASE \E h \in Hash : Operator(h) \/ Cloud(h) \/ ContentLost(h)
  BY <1>11
<1> QED  BY <1>8, <1>9, <1>10, <1>11 DEF Next
-----------------------------------------------------------------------------
(* What an intent does to the row it finds.                                  *)

\* The row starts over: from nothing, or from content that was retained.
Submits(h, e) ==
  LET d == download[h] IN
  /\ d.state \in {"ABSENT", "DELETED"} /\ acked'[h] = "none"
  /\ ~e.pauseRequested /\ ~e.deleteFiles /\ e.mark = "none"
  /\ \/ /\ e.state \in {"ACCEPTED", "STOPPED"} /\ e.isolated /\ e.upstream = "none"
        /\ ~e.result /\ ~e.source /\ ~e.destination /\ ~e.content
        /\ \/ disk' = disk /\ (d.state = "ABSENT" \/ d.isolated)
           \/ disk' = [disk EXCEPT ![h] = "empty"]
     \/ /\ d.state = "DELETED" /\ d.content /\ Verifies(h) /\ disk' = disk
        /\ e.state \in {"VERIFYING_LOCAL", "STOPPED"} /\ e.isolated = d.isolated
        /\ e.upstream = "retained" /\ e.result /\ e.source /\ e.destination /\ e.content

\* The row goes on in another phase with the evidence it has, but for the paths
\* that the retry of a conflict takes back.
Redirects(h, e) ==
  LET d == download[h] IN
  /\ disk' = disk
  /\ e.isolated = d.isolated /\ e.result = d.result /\ e.content = d.content
  /\ e.mark = d.mark /\ e.upstream = d.upstream
  /\ e.pauseRequested => d.pauseRequested \/ "pause" \in Intents
  /\ \/ e.source = d.source /\ e.destination = d.destination
     \/ /\ d.state = "FAILED" /\ d.problem = "conflict" /\ e.state = "SUBMITTING_COPY"
        /\ ~e.source /\ ~e.destination
  /\ \/ e.state = d.state /\ SameWishes(d, e)
     \/ d.state \in Active \cup {"STOPPED"} /\ e.state = "CANCEL_REQUESTED"
     \/ d.state \notin {"ABSENT", "DELETED"} /\ e.state = "DELETE_REQUESTED"
     \/ d.state = "STOPPED" /\ e.state = StartTarget(d)
     \/ /\ d.state = "FAILED" /\ "retry" \in Intents /\ e.state \in Active \cap RetryTargets(h)
        /\ AtomicRetry => e.state = RetryTarget(d)
     \/ d.state = "COMPLETED" /\ e.state = "VERIFYING_LOCAL"

\* What the operator was told is what the row then says.
Answered(h, e) ==
  \/ acked'[h] \in {"none", "cancel"}
  \/ acked'[h] = acked[h] /\ e.state = download[h].state /\ SameWishes(download[h], e)
  \/ acked'[h] = "pause" /\ e.state = "CANCEL_REQUESTED" /\ e.pauseRequested
  \/ /\ acked'[h] \in {"delete", "deleteFiles"} /\ e.state = "DELETE_REQUESTED"
     /\ acked'[h] = "deleteFiles" => e.deleteFiles

\* Rescheduling a row changes nothing but its phase and schedule.
LEMMA RescheduledColumns ==
  ASSUME NEW d \in Download, NEW s \in States
  PROVE  InPhase(d, Rescheduled(d, s), s)
  BY ZenonT(60) DEF Download, InPhase, SameWishes, SameEvidence, Rescheduled

\* A delete request takes back a pause and records what becomes of the files.
LEMMA WishColumns ==
  ASSUME NEW d \in Download, NEW b \in BOOLEAN
  PROVE  LET e == [d EXCEPT !.pauseRequested = FALSE, !.deleteFiles = b] IN
         /\ e \in Download /\ SameEvidence(d, e) /\ e.state = d.state
         /\ e.deleteFiles = b /\ ~e.pauseRequested
  BY DEF Download, SameEvidence

\* Dropping the problem, or the completion date with it, changes neither.
LEMMA ProblemColumns ==
  ASSUME NEW d \in Download
  PROVE  /\ InPhase(d, [d EXCEPT !.problem = "none"], d.state)
         /\ InPhase(d, [d EXCEPT !.completed = FALSE, !.problem = "none"], d.state)
<1> USE DEF Download, InPhase, SameWishes, SameEvidence, Problems
<1>1. InPhase(d, [d EXCEPT !.problem = "none"], d.state)
  BY ZenonT(60)
<1>2. InPhase(d, [d EXCEPT !.completed = FALSE, !.problem = "none"], d.state)
  BY ZenonT(60)
<1> QED  BY <1>1, <1>2

\* Every intent starts its row over or redirects it, and answers truthfully.
LEMMA OperatorRow ==
  ASSUME QuietInv, NEW h \in Hash, Operator(h)
  PROVE  /\ UNCHANGED <<claim, offline, copy>>
         /\ \A g \in Hash \ {h} : /\ download'[g] = download[g] /\ acked'[g] = acked[g]
                                 /\ disk'[g] = disk[g]
         /\ Answered(h, download'[h])
         /\ Submits(h, download'[h]) \/ Redirects(h, download'[h])
<1> DEFINE d == download[h]
           Done == /\ UNCHANGED <<claim, offline, copy>>
                   /\ \A g \in Hash \ {h} : /\ download'[g] = download[g] /\ acked'[g] = acked[g]
                                           /\ disk'[g] = disk[g]
                   /\ Answered(h, download'[h])
                   /\ Submits(h, download'[h]) \/ Redirects(h, download'[h])
<1>1. d \in Download
  BY DEF QuietInv, TypeOK
\* It remains to look at the row that is written.
<1>2. ASSUME NEW e, NEW l, Mutate(h, e, l), UNCHANGED <<claim, offline, copy>>,
             \A g \in Hash \ {h} : acked'[g] = acked[g] /\ disk'[g] = disk[g],
             Answered(h, e), Submits(h, e) \/ Redirects(h, e)
      PROVE  Done
  <2>1. download'[h] = e /\ \A g \in Hash \ {h} : download'[g] = download[g]
    BY <1>2 DEF Mutate, QuietInv, TypeOK
  <2> QED  BY <1>2, <2>1
<1>3. ASSUME NEW intent, Acknowledge(h, intent)
      PROVE  acked'[h] = intent /\ \A g \in Hash \ {h} : acked'[g] = acked[g]
  BY <1>3 DEF Acknowledge, QuietInv, TypeOK
<1>4. ASSUME UNCHANGED <<store, claim, outside>>, \A g \in Hash \ {h} : acked'[g] = acked[g], Answered(h, d)
      PROVE  Done
  <2>1. Redirects(h, d)
    BY <1>4 DEF Redirects, SameWishes, outside
  <2> QED  BY <1>4, <2>1 DEF store, outside
<1> SUFFICES Done
  OBVIOUS
<1> HIDE DEF Done
<1>5. ASSUME NEW stopped \in BOOLEAN, Insert(h, stopped) PROVE Done
  <2>1. Answered(h, Submission(stopped)) /\ UNCHANGED <<claim, outside>> /\ d.state = "ABSENT"
    BY <1>3, <1>5 DEF Insert, Answered
  <2>2. Submits(h, Submission(stopped))
    BY <1>3, <1>5, <2>1 DEF Submits, Submission, Fresh, NoDownload, Insert, outside
  <2> QED  BY <1>2, <1>3, <1>5, <2>1, <2>2 DEF Insert, outside
<1>6. ASSUME NEW stopped \in BOOLEAN, NEW samePath \in BOOLEAN, Revive(h, stopped, samePath) PROVE Done
  <2>1. /\ acked'[h] = "none" /\ \A g \in Hash \ {h} : acked'[g] = acked[g]
        /\ UNCHANGED <<claim, offline, copy>> /\ d.state = "DELETED"
    BY <1>3, <1>6 DEF Revive
  <2>2. CASE samePath /\ Retainable(h)
    <3>1. Mutate(h, RetainedSubmission(d, stopped), "free") /\ disk' = disk /\ Verifies(h) /\ d.content
      BY <1>6, <2>2 DEF Revive, Retainable
    <3>2. Submits(h, RetainedSubmission(d, stopped))
      BY <2>1, <3>1 DEF Submits, RetainedSubmission, NoDownload
    <3> QED  BY <1>2, <2>1, <3>1, <3>2 DEF Answered
  <2>3. CASE ~(samePath /\ Retainable(h))
    <3>1. /\ Mutate(h, Submission(stopped), "free")
          /\ (disk' = disk /\ d.isolated) \/ disk' = [disk EXCEPT ![h] = "empty"]
      BY <1>6, <2>3 DEF Revive
    <3>2. Submits(h, Submission(stopped))
      BY <2>1, <3>1 DEF Submits, Submission, Fresh, NoDownload
    <3>3. \A g \in Hash \ {h} : disk'[g] = disk[g]
      BY <3>1 DEF QuietInv, TypeOK
    <3> QED  BY <1>2, <2>1, <3>1, <3>2, <3>3 DEF Answered
  <2> QED  BY <2>2, <2>3
<1>7. ASSUME NEW s \in States, NEW b \in BOOLEAN
      PROVE  LET e == [Rescheduled(d, s) EXCEPT !.pauseRequested = b] IN
             /\ e \in Download /\ SameEvidence(d, e) /\ e.state = s
             /\ e.pauseRequested = b /\ e.deleteFiles = d.deleteFiles
  <2>1. PICK f \in Download : f = Rescheduled(d, s) /\ InPhase(d, f, s)
    BY <1>1, RescheduledColumns DEF InPhase
  <2>2. LET e == [f EXCEPT !.pauseRequested = b] IN
        /\ e \in Download /\ SameEvidence(f, e) /\ e.state = f.state
        /\ e.pauseRequested = b /\ e.deleteFiles = f.deleteFiles
    BY DEF Download, SameEvidence
  <2> QED  BY <2>1, <2>2 DEF InPhase, SameWishes, SameEvidence
<1>8. CASE Start(h)
  <2> DEFINE e == [Rescheduled(d, StartTarget(d)) EXCEPT !.pauseRequested = FALSE]
  <2>1. SameEvidence(d, e) /\ e.state = StartTarget(d) /\ ~e.pauseRequested
    <3>1. StartTarget(d) \in States
      BY DEF StartTarget
    <3>2. LET k == [Rescheduled(d, StartTarget(d)) EXCEPT !.pauseRequested = FALSE] IN
          /\ k \in Download /\ SameEvidence(d, k) /\ k.state = StartTarget(d)
          /\ k.pauseRequested = FALSE /\ k.deleteFiles = d.deleteFiles
      BY <1>7, <3>1, ZenonT(60)
    <3> QED  BY <3>2
  <2>2. /\ Mutate(h, e, "free") /\ d.state = "STOPPED" /\ Acknowledge(h, "none")
        /\ UNCHANGED <<claim, outside>>
    BY <1>8 DEF Start
  <2> HIDE DEF e
  <2>3. Redirects(h, e)
    BY <2>1, <2>2 DEF Redirects, SameEvidence, outside
  <2> QED  BY <1>2, <1>3, <2>2, <2>3 DEF Answered, outside
<1>9. CASE Pause(h)
  <2> DEFINE e == [Rescheduled(d, "CANCEL_REQUESTED") EXCEPT !.pauseRequested = TRUE]
  <2>1. SameEvidence(d, e) /\ e.state = "CANCEL_REQUESTED" /\ e.pauseRequested
    BY <1>7
  <2>2. /\ "pause" \in Intents /\ Acknowledge(h, "pause") /\ UNCHANGED <<claim, outside>>
        /\ \/ d.state \in Active /\ Mutate(h, e, lease[h])
           \/ d.state = "CANCEL_REQUESTED" /\ d.pauseRequested /\ UNCHANGED store
    BY <1>9 DEF Pause
  <2> HIDE DEF e
  <2>3. d.state \in Active => Redirects(h, e)
    BY <2>1, <2>2 DEF Redirects, SameEvidence, outside
  <2>4. Answered(h, e) /\ (d.state = "CANCEL_REQUESTED" /\ d.pauseRequested => Answered(h, d))
    BY <1>3, <2>1, <2>2 DEF Answered
  <2> QED  BY <1>2, <1>3, <1>4, <2>2, <2>3, <2>4 DEF outside
<1>10. CASE Cancel(h)
  <2> DEFINE e == [Rescheduled(d, "CANCEL_REQUESTED") EXCEPT !.pauseRequested = FALSE]
  <2>1. SameEvidence(d, e) /\ e.state = "CANCEL_REQUESTED" /\ ~e.pauseRequested
    BY <1>7
  <2>2. /\ Acknowledge(h, "cancel") /\ UNCHANGED <<claim, outside>>
        /\ \/ d.state \in Active \cup {"STOPPED"} /\ Mutate(h, e, lease[h])
           \/ UNCHANGED store
    BY <1>10 DEF Cancel
  <2> HIDE DEF e
  <2>3. d.state \in Active \cup {"STOPPED"} => Redirects(h, e)
    BY <2>1, <2>2 DEF Redirects, SameEvidence, outside
  <2>4. Answered(h, e) /\ Answered(h, d)
    BY <1>3, <2>2 DEF Answered
  <2> QED  BY <1>2, <1>3, <1>4, <2>2, <2>3, <2>4 DEF outside
<1>11. ASSUME NEW files \in BOOLEAN, RequestDelete(h, files) PROVE Done
  <2>1. PICK b \in BOOLEAN : b = (d.deleteFiles \/ files)
    OBVIOUS
  <2> DEFINE e == [Rescheduled(d, "DELETE_REQUESTED") EXCEPT !.pauseRequested = FALSE, !.deleteFiles = b]
             answer == IF b THEN "deleteFiles" ELSE "delete"
  <2>2. SameEvidence(d, e) /\ e.state = "DELETE_REQUESTED" /\ e.deleteFiles = b /\ ~e.pauseRequested
    <3>1. PICK f \in Download : f = Rescheduled(d, "DELETE_REQUESTED") /\ InPhase(d, f, "DELETE_REQUESTED")
      BY <1>1, RescheduledColumns DEF InPhase
    <3>2. LET k == [f EXCEPT !.pauseRequested = FALSE, !.deleteFiles = b] IN
          /\ k \in Download /\ SameEvidence(f, k) /\ k.state = f.state
          /\ k.deleteFiles = b /\ ~k.pauseRequested
      BY WishColumns, ZenonT(60)
    <3> QED  BY <3>1, <3>2 DEF InPhase, SameEvidence
  <2>3. /\ Acknowledge(h, answer) /\ UNCHANGED <<claim, outside>>
        /\ d.state \notin {"ABSENT", "DELETED"}
        /\ \/ Mutate(h, e, lease[h])
           \/ d.state = "DELETE_REQUESTED" /\ d.deleteFiles = b /\ UNCHANGED store
    BY <1>1, <1>11, <2>1 DEF RequestDelete, Download
  <2> HIDE DEF e
  <2>4. Redirects(h, e)
    BY <2>2, <2>3 DEF Redirects, SameEvidence, outside
  <2>5. Answered(h, e) /\ (d.state = "DELETE_REQUESTED" /\ d.deleteFiles = b => Answered(h, d))
    BY <1>3, <2>2, <2>3 DEF Answered
  <2> QED  BY <1>2, <1>3, <1>4, <2>3, <2>4, <2>5 DEF outside
<1>12. CASE PlanRetry(h)
  <2>1. Answered(h, d) /\ UNCHANGED <<store, claim, outside, acked>>
    BY <1>12 DEF PlanRetry, Answered, SameWishes, store
  <2> QED  BY <1>4, <2>1
<1>13. CASE Retry(h)
  <2>1. PICK target \in RetryTargets(h) \cap Active :
          LET reset == target = "SUBMITTING_COPY" /\ d.problem = "conflict" IN
          Mutate(h, [Rescheduled(d, target) EXCEPT !.source = @ /\ ~reset, !.destination = @ /\ ~reset,
                                                   !.problem = "none"], "free")
    BY <1>13 DEF Retry
  <2>2. PICK reset \in BOOLEAN : reset = (target = "SUBMITTING_COPY" /\ d.problem = "conflict")
    OBVIOUS
  <2>3. PICK f \in Download : f = Rescheduled(d, target) /\ InPhase(d, f, target)
    BY <1>1, <2>1, RescheduledColumns DEF InPhase
  <2>4. PICK source \in BOOLEAN, destination \in BOOLEAN :
          source = (f.source /\ ~reset) /\ destination = (f.destination /\ ~reset)
    OBVIOUS
  <2> DEFINE e == [f EXCEPT !.source = source, !.destination = destination, !.problem = "none"]
  <2>5. Mutate(h, e, "free")
    BY <2>1, <2>2, <2>3, <2>4
  <2>6. /\ SameWishes(f, e) /\ e.state = f.state
        /\ e.isolated = f.isolated /\ e.result = f.result /\ e.source = source /\ e.destination = destination
        /\ e.content = f.content /\ e.mark = f.mark /\ e.upstream = f.upstream
    BY ZenonT(60) DEF Download, SameWishes, Problems
  <2>7. /\ Acknowledge(h, "none") /\ UNCHANGED <<claim, outside>> /\ d.state = "FAILED"
        /\ "retry" \in Intents
    BY <1>13, <2>1 DEF Retry
  <2> HIDE DEF e
  <2>8. (source = d.source /\ destination = d.destination) \/ (reset /\ ~source /\ ~destination)
    BY <1>1, <2>3, <2>4 DEF InPhase, SameEvidence, Download
  <2>9. SameWishes(d, e) /\ e.state = target /\ e.isolated = d.isolated /\ e.result = d.result
        /\ e.content = d.content /\ e.mark = d.mark /\ e.upstream = d.upstream
    BY <2>3, <2>6 DEF InPhase, SameWishes, SameEvidence
  <2>10. e.source = source /\ e.destination = destination
    BY <2>6
  <2>11. AtomicRetry => target = RetryTarget(d)
    <3>1. AtomicRetry => retryPlan[h] = {}
      BY DEF AtomicRetry, QuietInv, TypeOK
    <3> QED  BY <2>1, <3>1 DEF RetryTargets
  <2>12. Redirects(h, e)
    BY <2>1, <2>2, <2>7, <2>8, <2>9, <2>10, <2>11 DEF Redirects, SameWishes, outside
  <2> QED  BY <1>2, <1>3, <2>5, <2>7, <2>12 DEF Answered, outside
<1>14. CASE RetryCleanup(h)
  <2>1. PICK f \in Download : f = Rescheduled(d, d.state) /\ InPhase(d, f, d.state)
    BY <1>1, <1>14, RescheduledColumns DEF InPhase, RetryCleanup
  <2> DEFINE e == [f EXCEPT !.problem = "none"]
  <2>2. InPhase(f, e, f.state)
    BY ProblemColumns
  <2>3. Mutate(h, e, lease[h]) /\ UNCHANGED <<claim, outside, acked>>
    BY <1>14, <2>1 DEF RetryCleanup
  <2> HIDE DEF e
  <2>4. Redirects(h, e) /\ Answered(h, e)
    BY <2>1, <2>2, <2>3 DEF Redirects, Answered, InPhase, SameEvidence, SameWishes, outside
  <2> QED  BY <1>2, <2>3, <2>4 DEF outside
<1>15. CASE Reverify(h)
  <2>1. PICK f \in Download : f = Rescheduled(d, "VERIFYING_LOCAL") /\ InPhase(d, f, "VERIFYING_LOCAL")
    BY <1>1, RescheduledColumns DEF InPhase
  <2> DEFINE e == [f EXCEPT !.completed = FALSE, !.problem = "none"]
  <2>2. InPhase(f, e, f.state)
    BY ProblemColumns
  <2>3. Mutate(h, e, "free") /\ UNCHANGED <<claim, outside>> /\ Acknowledge(h, "none") /\ d.state = "COMPLETED"
    BY <1>15, <2>1 DEF Reverify
  <2> HIDE DEF e
  <2>4. Redirects(h, e)
    BY <2>1, <2>2, <2>3 DEF Redirects, InPhase, SameWishes, SameEvidence, outside
  <2> QED  BY <1>2, <1>3, <2>3, <2>4 DEF Answered, outside
<1>16. CASE Relabel(h)
  <2>1. Mutate(h, d, lease[h]) /\ UNCHANGED <<claim, outside, acked>>
    BY <1>16 DEF Relabel
  <2>2. Redirects(h, d) /\ Answered(h, d)
    BY <2>1 DEF Redirects, Answered, SameWishes, outside
  <2> QED  BY <1>2, <2>1, <2>2 DEF outside
<1> QED  BY <1>5, <1>6, <1>8, <1>9, <1>10, <1>11, <1>12, <1>13, <1>14, <1>15, <1>16 DEF Operator
-----------------------------------------------------------------------------
(* An acknowledged pause or delete stays in force.                           *)

\* What the row says of the intent that was last answered. A pause that is
\* still being carried out is told from a cancel by its flag alone.
Honoured(h) ==
  LET d == download[h] IN
  /\ acked[h] = "pause" => d.state = "STOPPED" \/ (d.state = "CANCEL_REQUESTED" /\ d.pauseRequested)
  /\ acked[h] \in {"delete", "deleteFiles"} => d.state \in {"DELETE_REQUESTED", "DELETED"}
  /\ acked[h] = "deleteFiles" => d.deleteFiles

\* A claim that can still be committed carries the wishes of the row it will
\* replace, and does not turn a pause into a cancel.
ClaimsHonour ==
  \A w \in Worker : Busy(w) /\ Current(w) =>
    LET c == claim[w]
        d == download[c.hash] IN
    /\ SameWishes(d, c.d)
    /\ c.pc = "deciding" => c.d.state = d.state
    /\ c.pc = "committing" /\ d.state = "CANCEL_REQUESTED" /\ d.pauseRequested =>
         c.d.state \in {"CANCEL_REQUESTED", "STOPPED", "FAILED"}

IntentInv == QuietInv /\ (\A h \in Hash : Honoured(h)) /\ ClaimsHonour

\* Nothing has been promised yet.
LEMMA IntentInit == Init => IntentInv
<1> SUFFICES ASSUME Init PROVE IntentInv
  OBVIOUS
<1>1. \A h \in Hash : Honoured(h)
  BY DEF Init, Honoured
<1>2. ClaimsHonour
  BY DEF Init, ClaimsHonour, Busy, NoClaim
<1> QED  BY <1>1, <1>2, QuietInit DEF IntentInv

\* A write leaves no current claim on its row, and the others untouched.
LEMMA WritingHonours ==
  ASSUME IntentInv, NEW h \in Hash, Writing(h)
  PROVE  ClaimsHonour'
<1> SUFFICES ASSUME NEW w \in Worker, Busy(w)', Current(w)'
             PROVE  LET c == claim'[w]
                        d == download'[c.hash] IN
                    /\ SameWishes(d, c.d)
                    /\ c.pc = "deciding" => c.d.state = d.state
                    /\ c.pc = "committing" /\ d.state = "CANCEL_REQUESTED" /\ d.pauseRequested =>
                         c.d.state \in {"CANCEL_REQUESTED", "STOPPED", "FAILED"}
  BY DEF ClaimsHonour
<1>1. claim'[w] = claim[w] /\ Busy(w) /\ Current(w) /\ claim[w].hash # h
  BY DEF Writing, Busy
<1>2. claim[w].hash \in Hash
  BY <1>1 DEF IntentInv, QuietInv, TypeOK, Busy, Claim, NoClaim
<1>3. download'[claim[w].hash] = download[claim[w].hash]
  BY <1>1, <1>2 DEF Writing
<1> QED  BY <1>1, <1>3 DEF IntentInv, ClaimsHonour

\* No step takes an acknowledged pause or delete back.
LEMMA IntentNext == IntentInv /\ [Next]_vars => IntentInv'
<1> SUFFICES ASSUME IntentInv, [Next]_vars PROVE IntentInv'
  OBVIOUS
<1>1. QuietInv /\ QuietInv'
  BY QuietNext DEF IntentInv
<1>2. ASSUME NEW h \in Hash, Operator(h) PROVE IntentInv'
  <2>1. /\ claim' = claim /\ Answered(h, download'[h])
        /\ \A g \in Hash \ {h} : download'[g] = download[g] /\ acked'[g] = acked[g]
    BY <1>1, <1>2, OperatorRow
  <2>2. Honoured(h)'
    BY <2>1 DEF IntentInv, Honoured, Answered, SameWishes
  <2>3. \A g \in Hash \ {h} : Honoured(g)'
    BY <2>1 DEF IntentInv, Honoured
  <2>4. ClaimsHonour'
    <3>1. CASE UNCHANGED store
      <4>1. \A w \in Worker : (Busy(w)' <=> Busy(w)) /\ (Current(w)' <=> Current(w))
        BY <2>1, <3>1 DEF store, Busy, Current
      <4> QED  BY <2>1, <3>1, <4>1 DEF IntentInv, ClaimsHonour, store
    <3> QED  BY <1>1, <1>2, <3>1, OperatorClaims, WritingHonours
  <2> QED  BY <1>1, <2>2, <2>3, <2>4 DEF IntentInv
<1>3. ASSUME NEW h \in Hash, Cloud(h) \/ ContentLost(h) PROVE IntentInv'
  <2>1. UNCHANGED <<download, lease, version, claim, acked>>
    BY <1>3 DEF Cloud, ContentLost, OfflineEnds, CopyWrites, CopyEnds, TaskForgotten, store
  <2>2. \A w \in Worker : (Busy(w)' <=> Busy(w)) /\ (Current(w)' <=> Current(w))
    BY <2>1 DEF Busy, Current
  <2>3. ClaimsHonour'
    BY <2>1, <2>2 DEF IntentInv, ClaimsHonour
  <2> QED  BY <1>1, <2>1, <2>3 DEF IntentInv, Honoured
<1>4. ASSUME NEW w \in Worker, Decide(w) PROVE IntentInv'
  <2>1. /\ Busy(w) /\ claim[w].pc = "deciding" /\ UNCHANGED <<store, acked>>
        /\ claim'[w].pc = "committing" /\ claim'[w].hash = claim[w].hash
        /\ \A v \in Worker \ {w} : claim'[v] = claim[v]
        /\ \A v \in Worker : Current(v)' <=> Current(v)
    BY <1>1, <1>4, DecideClaims
  <2>2. Respects(w, claim'[w].d)
    BY <1>1, <1>4, DecideRespects
  <2>3. download' = download /\ acked' = acked
    BY <2>1 DEF store
  <2>4. ASSUME Current(w)
        PROVE  LET c == claim'[w]
                   d == download[c.hash] IN
               /\ SameWishes(d, c.d)
               /\ d.state = "CANCEL_REQUESTED" /\ d.pauseRequested =>
                    c.d.state \in {"CANCEL_REQUESTED", "STOPPED", "FAILED"}
    <3>1. SameWishes(download[claim[w].hash], claim[w].d) /\ claim[w].d.state = download[claim[w].hash].state
      BY <2>1, <2>4 DEF IntentInv, ClaimsHonour
    <3> QED  BY <2>1, <2>2, <3>1 DEF Respects, SameWishes
  <2>5. \A v \in Worker \ {w} : Busy(v)' <=> Busy(v)
    BY <2>1 DEF Busy
  <2>6. ClaimsHonour'
    BY <2>1, <2>3, <2>4, <2>5 DEF IntentInv, ClaimsHonour
  <2> QED  BY <1>1, <2>3, <2>6 DEF IntentInv, Honoured
<1>5. ASSUME NEW w \in Worker, CommitClaim(w) \/ CommitConflict(w) PROVE IntentInv'
  <2>1. PICK h \in Hash : /\ h = claim[w].hash
                         /\ Committing(w) /\ Current(w) /\ acked' = acked
                         /\ Writing(h) /\ Stored(download[h], claim[w].d, download'[h])
    BY <1>1, <1>5, CommitRow
  <2>2. /\ SameWishes(download[h], claim[w].d)
        /\ download[h].state = "CANCEL_REQUESTED" /\ download[h].pauseRequested =>
             claim[w].d.state \in {"CANCEL_REQUESTED", "STOPPED", "FAILED"}
    BY <2>1 DEF IntentInv, ClaimsHonour, Committing
  \* A leased row is not at rest, so nothing can leave STOPPED or DELETED here.
  <2>3. download[h].state \notin Resting
    BY <1>1, <2>1 DEF QuietInv, RowsQuiet, Current
  <2>4. /\ download[h].state = "CANCEL_REQUESTED" /\ download[h].pauseRequested =>
             download'[h].state \in {"CANCEL_REQUESTED", "STOPPED"}
        /\ download[h].state = "DELETE_REQUESTED" => download'[h].state \in {"DELETE_REQUESTED", "DELETED"}
    BY <2>1, <2>2 DEF Stored, CanTransition, Successors
  <2>5. Honoured(h)'
    BY <2>1, <2>2, <2>3, <2>4 DEF IntentInv, Honoured, Stored, SameWishes
  <2>6. \A g \in Hash \ {h} : Honoured(g)'
    BY <2>1 DEF IntentInv, Honoured, Writing
  <2> QED  BY <1>1, <2>1, <2>5, <2>6, WritingHonours DEF IntentInv
<1>6. CASE Passing
  <2>1. \A h \in Hash : Honoured(h)'
    BY <1>6 DEF IntentInv, Honoured, Passing, SamePhase, SameWishes
  <2>2. ASSUME NEW w \in Worker, Busy(w)', Current(w)'
        PROVE  LET c == claim'[w]
                   d == download'[c.hash] IN
               /\ SameWishes(d, c.d)
               /\ c.pc = "deciding" => c.d.state = d.state
               /\ c.pc = "committing" /\ d.state = "CANCEL_REQUESTED" /\ d.pauseRequested =>
                    c.d.state \in {"CANCEL_REQUESTED", "STOPPED", "FAILED"}
    <3>1. CASE NewClaim(w)
      BY <3>1 DEF NewClaim, SameWishes
    <3>2. CASE SameClaim(w) /\ Current(w)
      <4>1. claim[w].hash \in Hash
        BY <1>1, <3>2 DEF SameClaim, QuietInv, TypeOK, Busy, Claim, NoClaim
      <4>2. SamePhase(claim[w].hash)
        BY <1>6, <4>1 DEF Passing
      <4> QED  BY <3>2, <4>2 DEF SameClaim, SamePhase, SameWishes, IntentInv, ClaimsHonour
    <3> QED  BY <1>6, <2>2, <3>1, <3>2 DEF Passing
  <2>3. ClaimsHonour'
    BY <2>2 DEF ClaimsHonour
  <2> QED  BY <1>1, <2>1, <2>3 DEF IntentInv
<1> QED  BY <1>1, <1>2, <1>3, <1>4, <1>5, <1>6, StepKinds

\* A pause or delete that was answered with success stays in force until the
\* operator asks for something else: whatever a worker had in flight when the
\* intent was stored, its commit does not undo it.
THEOREM IntentsStayInForce == Spec => []IntentHonoured
<1>1. IntentInv => IntentHonoured
  BY DEF IntentInv, Honoured, IntentHonoured
<1> QED  BY <1>1, IntentInit, IntentNext, PTL DEF Spec
-----------------------------------------------------------------------------
(* What decide touches outside the row.                                      *)

\* The evidence that decide has looked at before it removes files: a copy that
\* may have been submitted is removed, and the files are the download's own
\* unless a pause gives up its copy.
MayDeleteFiles(d) ==
  /\ d.source => d.mark = "removed"
  /\ OwnsFiles(d) \/ (d.state = "CANCEL_REQUESTED" /\ d.pauseRequested)

\* A task may be submitted only where the row does not yet have its outcome,
\* and a copy only after a preflight that found its place empty.
MaySubmitOffline(d) == d.state = "SUBMITTING_OFFLINE"
MaySubmitCopy(d) == d.destination /\ StatusIs(d, "destination_clear")

\* All that decide can do to the cloud and to the disk for one hash.
Touches(d, h) ==
  /\ offline'[h] \in {offline[h], "none"} \/ MaySubmitOffline(d)
  /\ copy'[h] \in {copy[h], "none"} \/ (MaySubmitCopy(d) /\ disk'[h] = disk[h])
  /\ \/ disk'[h] = disk[h]
     \/ /\ MayDeleteFiles(d) /\ copy'[h] = copy[h]
        /\ disk'[h] = "empty" \/ (disk[h] = "full" /\ disk'[h] = "partial")

\* Decide acts on the cloud and on the disk for the hash it claimed alone, and
\* on the evidence the row has.
LEMMA DecideTouches ==
  ASSUME QuietInv, NEW w \in Worker, Decide(w)
  PROVE  /\ \A g \in Hash \ {claim[w].hash} :
              offline'[g] = offline[g] /\ copy'[g] = copy[g] /\ disk'[g] = disk[g]
         /\ Touches(claim[w].d, claim[w].hash)
<1>1. PICK h \in Hash : h = claim[w].hash /\ claim[w].d \in Download
  BY DecideClaims
<1> DEFINE d == claim[w].d
           Kept(g) == offline'[g] = offline[g] /\ copy'[g] = copy[g] /\ disk'[g] = disk[g]
<1>2. ASSUME NEW g \in Hash \ {h}
      PROVE  /\ EnsuredOffline(h)[g] = offline[g] /\ CancelledOffline(h)[g] = offline[g]
             /\ EnsuredCopy(h)[g] = copy[g] /\ RemovedCopy(h)[g] = copy[g]
             /\ Emptied(h)[g] = disk[g] /\ \A after \in Interrupted(h) : after[g] = disk[g]
  BY DEF QuietInv, TypeOK, EnsuredOffline, CancelledOffline, EnsuredCopy, RemovedCopy, Emptied, Interrupted, MayLand
<1>3. /\ CancelledOffline(h)[h] = "none" /\ RemovedCopy(h)[h] = "none" /\ Emptied(h)[h] = "empty"
      /\ \A after \in Interrupted(h) :
           after[h] = disk[h] \/ (disk[h] = "full" /\ after[h] = "partial")
  BY DEF QuietInv, TypeOK, CancelledOffline, RemovedCopy, Emptied, Interrupted, MayLand
<1> SUFFICES (\A g \in Hash \ {h} : Kept(g)) /\ Touches(d, h)
  BY <1>1
<1> USE DEF RowStep, OfflineStep, CopyStep, DiskStep, outside, MayLand, Touches
<1>4. CASE \/ PhaseTimeout(w) \/ OperationOverran(w) \/ BeginOffline(w) \/ InspectOffline(w)
           \/ ResolveCopySource(w) \/ ReserveDestination(w) \/ PreflightLocal(w) \/ InspectCopy(w)
           \/ VerifyLocal(w) \/ PauseFinishedCopy(w)
  <2>1. UNCHANGED outside
    BY <1>4 DEF PhaseTimeout, OperationOverran, BeginOffline, InspectOffline, ResolveCopySource,
           ReserveDestination, PreflightLocal, InspectCopy, VerifyLocal, PauseFinishedCopy
  <2> QED  BY <2>1
<1>5. CASE RetryCancelOffline(w)
  <2>1. UNCHANGED <<copy, disk>> /\ offline' \in {offline, CancelledOffline(h)}
    BY <1>1, <1>5 DEF RetryCancelOffline
  <2> QED  BY <1>2, <1>3, <2>1
<1>6. CASE EnsureOffline(w)
  <2>1. /\ UNCHANGED <<copy, disk>> /\ offline' \in {offline, EnsuredOffline(h)}
        /\ MaySubmitOffline(d)
    BY <1>1, <1>6 DEF EnsureOffline, MaySubmitOffline, CloudStep, Deciding
  <2> QED  BY <1>2, <2>1
<1>7. CASE RetryRemoveCopy(w)
  <2>1. UNCHANGED <<offline, disk>> /\ copy' \in {copy, RemovedCopy(h)}
    BY <1>1, <1>7 DEF RetryRemoveCopy
  <2> QED  BY <1>2, <1>3, <2>1
<1>8. CASE EnsureCopy(w)
  <2>1. UNCHANGED <<offline, disk>> /\ copy' \in {copy, EnsuredCopy(h)} /\ MaySubmitCopy(d)
    BY <1>1, <1>8 DEF EnsureCopy, CopyRung, MaySubmitCopy
  <2> QED  BY <1>2, <2>1
<1>9. CASE CancelUpstream(w) \/ PauseUpstream(w) \/ DeleteUpstream(w)
  <2>1. /\ disk' = disk
        /\ \/ offline' = offline /\ copy' \in {copy, RemovedCopy(h)}
           \/ copy' = copy /\ offline' \in {offline, CancelledOffline(h)}
    BY <1>1, <1>9 DEF CancelUpstream, PauseUpstream, DeleteUpstream, StopUpstream
  <2> QED  BY <1>2, <1>3, <2>1
\* What is left removes files, or does nothing outside.
<1>10. ASSUME UNCHANGED <<offline, copy>>, disk' \in {disk, Emptied(h)} \cup Interrupted(h),
              disk' = disk \/ MayDeleteFiles(d)
       PROVE  (\A g \in Hash \ {h} : Kept(g)) /\ Touches(d, h)
  BY <1>2, <1>3, <1>10
<1>11. CASE RetryDeleteCopy(w)
  <2>1. UNCHANGED <<offline, copy>> /\ disk' \in {Emptied(h)} \cup Interrupted(h)
    BY <1>1, <1>11 DEF RetryDeleteCopy
  <2>2. MayDeleteFiles(d)
    BY <1>11 DEF RetryDeleteCopy, LeftOver, CopyRemovalCompleted, MayDeleteFiles, OwnsFiles, HasCopyEvidence
  <2> QED  BY <1>10, <2>1, <2>2
<1>12. CASE PauseDeleteCopy(w)
  <2>1. UNCHANGED <<offline, copy>> /\ disk' \in {disk, Emptied(h)} \cup Interrupted(h)
    BY <1>1, <1>12 DEF PauseDeleteCopy, DeleteFiles
  <2>2. MayDeleteFiles(d)
    BY <1>12 DEF PauseDeleteCopy, Pausing, CopyRemovalCompleted, MayDeleteFiles
  <2> QED  BY <1>10, <2>1, <2>2
<1>13. CASE DeleteLocal(w)
  <2>1. UNCHANGED <<offline, copy>> /\ disk' \in {disk, Emptied(h)} \cup Interrupted(h)
    BY <1>1, <1>13 DEF DeleteLocal, DeleteFiles
  <2>2. disk' = disk \/ MayDeleteFiles(d)
    BY <1>13 DEF DeleteLocal, CopyNeedsRemoval, CopyRemovalCompleted, MayDeleteFiles
  <2> QED  BY <1>10, <2>1, <2>2
<1> QED  BY <1>4, <1>5, <1>6, <1>7, <1>8, <1>9, <1>11, <1>12, <1>13 DEF Decide

\* Who decides on a row holds its live lease: the row is not at rest, and no
\* other worker decides on it or may still commit to it.
LEMMA NobodyElse ==
  ASSUME LeaseInv, NEW w \in Worker, NEW h \in Hash, Working(w, h)
  PROVE  /\ download[h].state \notin Resting
         /\ \A v \in Worker \ {w} : Busy(v) /\ claim[v].hash = h => ~Current(v) /\ claim[v].pc # "deciding"
  BY DEF LeaseInv, LeasesExclude, QuietInv, RowsQuiet, Current

-----------------------------------------------------------------------------
(* A completed download's content is there.                                  *)

\* The worker is about to complete the row, and may.
Completing(w, h) == Busy(w) /\ claim[w].hash = h /\ Current(w) /\ claim[w].d.state = "COMPLETED"

\* Neither a completed row nor one about to be completed lacks its content.
CompletedInv ==
  /\ LeaseInv /\ CompletedHasContent
  /\ \A w \in Worker, h \in Hash : Completing(w, h) => Verifies(h)

\* No download is complete when the database is opened.
LEMMA CompletedInit == Init => CompletedInv
<1> SUFFICES ASSUME Init PROVE CompletedInv
  OBVIOUS
<1>1. CompletedHasContent
  <2>1. NoDownload.state = "ABSENT" /\ LegacyDownload.state = "ACCEPTED"
    BY DEF NoDownload, LegacyDownload, Fresh
  <2>2. \A h \in Hash : download[h] \in {NoDownload, LegacyDownload}
    BY DEF Init
  <2> QED  BY <2>1, <2>2 DEF CompletedHasContent
<1>2. \A w \in Worker : ~Busy(w)
  BY DEF Init, Busy, NoClaim
<1> QED  BY <1>1, <1>2, LeaseInit DEF CompletedInv, Completing

\* A copy that writes or ends never makes content worse.
LEMMA CloudKeepsContent ==
  ASSUME TypeOK, "content" \notin Losses, NEW h \in Hash, Cloud(h) \/ ContentLost(h)
  PROVE  UNCHANGED <<store, claim>> /\ \A g \in Hash : Verifies(g) => Verifies(g)'
<1>1. UNCHANGED <<store, claim>>
  BY DEF Cloud, ContentLost, OfflineEnds, CopyWrites, CopyEnds, TaskForgotten
<1>2. \/ disk' = disk \/ disk' = [disk EXCEPT ![h] = "full"]
      \/ disk[h] = "empty" /\ disk' = [disk EXCEPT ![h] = "partial"]
  BY DEF Cloud, ContentLost, OfflineEnds, CopyWrites, CopyEnds, TaskForgotten
<1>3. \A g \in Hash : Verifies(g) => Verifies(g)'
  BY <1>2 DEF Verifies, TypeOK
<1> QED  BY <1>1, <1>3

\* Every way of removing content is closed while the row is complete.
LEMMA CompletedNext ==
  ASSUME ~SlowFilesystem, "content" \notin Losses
  PROVE  CompletedInv /\ [Next]_vars => CompletedInv'
<1> SUFFICES ASSUME CompletedInv, [Next]_vars PROVE CompletedInv'
  OBVIOUS
<1>1. LeaseInv /\ LeaseInv' /\ QuietInv /\ TypeOK
  BY LeaseNext DEF CompletedInv, LeaseInv, QuietInv
\* It remains to look at one row, and at the claims that may complete it.
<1>2. SUFFICES ASSUME NEW g \in Hash,
                      download'[g].state = "COMPLETED" \/ \E v \in Worker : Completing(v, g)'
               PROVE  Verifies(g)'
  BY <1>1 DEF CompletedInv, CompletedHasContent
<1>3. (download[g].state = "COMPLETED" \/ \E v \in Worker : Completing(v, g)) => Verifies(g)
  BY DEF CompletedInv, CompletedHasContent
\* A write leaves only the claims on other rows.
<1>4. ASSUME NEW h \in Hash, Writing(h), NEW v \in Worker, Completing(v, g)'
      PROVE  g # h /\ Completing(v, g)
  BY <1>4 DEF Writing, Completing, Busy
<1>5. ASSUME NEW h \in Hash, Operator(h) PROVE Verifies(g)'
  <2>1. /\ claim' = claim
        /\ g # h => download'[g] = download[g] /\ disk'[g] = disk[g]
        /\ Submits(h, download'[h]) \/ Redirects(h, download'[h])
        /\ UNCHANGED store \/ Writing(h)
    BY <1>1, <1>5, OperatorRow, OperatorClaims
  <2>2. ASSUME UNCHANGED store, NEW v \in Worker, Completing(v, g)' PROVE Completing(v, g)
    BY <2>1, <2>2 DEF store, Completing, Busy, Current
  <2>3. CASE g # h
    BY <1>2, <1>3, <1>4, <2>1, <2>2, <2>3 DEF Verifies
  <2>4. CASE g = h /\ Submits(h, download'[h])
    <3>1. ~UNCHANGED store /\ download'[g].state # "COMPLETED"
      BY <2>4 DEF store, Submits
    <3> QED  BY <1>2, <1>4, <2>1, <2>4, <3>1
  <2>5. CASE g = h /\ Redirects(h, download'[h])
    <3>1. disk' = disk /\ (download'[g].state = "COMPLETED" => download[g].state = "COMPLETED")
      BY <2>5 DEF Redirects, StartTarget
    <3> QED  BY <1>2, <1>3, <1>4, <2>1, <2>2, <2>5, <3>1 DEF Verifies
  <2> QED  BY <2>1, <2>3, <2>4, <2>5
<1>6. ASSUME NEW h \in Hash, Cloud(h) \/ ContentLost(h) PROVE Verifies(g)'
  <2>1. UNCHANGED <<store, claim>> /\ (Verifies(g) => Verifies(g)')
    BY <1>1, <1>6, CloudKeepsContent
  <2>2. \A v \in Worker : Completing(v, g)' => Completing(v, g)
    BY <2>1 DEF store, Completing, Busy, Current
  <2> QED  BY <1>2, <1>3, <2>1, <2>2 DEF store
<1>7. ASSUME NEW w \in Worker, Decide(w) PROVE Verifies(g)'
  <2>1. /\ Busy(w) /\ claim[w].pc = "deciding" /\ claim[w].hash \in Hash
        /\ download' = download /\ claim'[w].hash = claim[w].hash
        /\ \A v \in Worker \ {w} : claim'[v] = claim[v]
        /\ \A v \in Worker : Current(v)' <=> Current(v)
    BY <1>1, <1>7, DecideClaims DEF store
  <2>2. \A v \in Worker \ {w} : Completing(v, g)' => Completing(v, g)
    BY <2>1 DEF Completing, Busy
  <2>3. CASE g # claim[w].hash
    <3>1. disk'[g] = disk[g] /\ ~Completing(w, g)'
      BY <1>1, <1>7, <2>1, <2>3, DecideTouches DEF Completing
    <3> QED  BY <1>2, <1>3, <2>1, <2>2, <3>1 DEF Verifies
  <2>4. CASE g = claim[w].hash
    <3>1. Working(w, g)
      BY <2>1, <2>4 DEF Working
    <3>2. download[g].state # "COMPLETED" /\ \A v \in Worker \ {w} : ~Completing(v, g)
      BY <1>1, <3>1, NobodyElse DEF Completing
    <3>3. Completing(w, g)'
      BY <1>2, <2>1, <2>2, <3>2
    <3>4. Verifies(g) /\ disk' = disk
      BY <1>1, <1>7, <2>4, <3>3, DecideRespects DEF Respects, Completing
    <3> QED  BY <3>4 DEF Verifies
  <2> QED  BY <2>3, <2>4
<1>8. ASSUME NEW w \in Worker, CommitClaim(w) \/ CommitConflict(w) PROVE Verifies(g)'
  <2>1. PICK h \in Hash : /\ h = claim[w].hash /\ Committing(w) /\ Current(w) /\ disk' = disk
                         /\ Writing(h) /\ Stored(download[h], claim[w].d, download'[h])
    BY <1>1, <1>8, CommitRow DEF outside
  <2>2. \A v \in Worker : Completing(v, g)' => Completing(v, g)
    BY <1>4, <2>1
  <2>3. download'[g].state = "COMPLETED" => download[g].state = "COMPLETED" \/ Completing(w, g)
    BY <2>1 DEF Stored, Completing, Committing, Writing
  <2> QED  BY <1>2, <1>3, <2>1, <2>2, <2>3 DEF Verifies
<1>9. CASE Passing
  <2>1. disk' = disk /\ download'[g].state = download[g].state
    BY <1>9 DEF Passing, SamePhase, outside
  <2>2. ASSUME NEW v \in Worker, Completing(v, g)' PROVE Completing(v, g)
    <3>1. ~NewClaim(v)
      BY <2>2 DEF Completing, NewClaim
    <3>2. SameClaim(v) /\ Current(v)
      BY <1>9, <2>2, <3>1 DEF Passing, Completing
    <3> QED  BY <2>2, <3>2 DEF SameClaim, Completing
  <2> QED  BY <1>2, <1>3, <2>1, <2>2 DEF Verifies
<1> QED  BY <1>1, <1>5, <1>6, <1>7, <1>8, <1>9, StepKinds

\* While calls respect the operation deadline and nobody else removes files, a
\* completed download's local content verifies: whatever was retried, deleted,
\* revived, paused or half-copied before, no step removes it under the row.
THEOREM CompletedMeansPresent ==
  ASSUME ~SlowFilesystem, "content" \notin Losses
  PROVE  Spec => []CompletedHasContent
<1>1. CompletedInv => CompletedHasContent
  BY DEF CompletedInv
<1>2. CompletedInv /\ [Next]_vars => CompletedInv'
  BY CompletedNext
<1> QED  BY <1>1, <1>2, CompletedInit, PTL DEF Spec
-----------------------------------------------------------------------------
(* What a row says of the world, and that it is true.                        *)

\* With offline task o, copy task c and workspace k: no task runs, and nothing
\* of the download's own can be in the workspace.
Idle(o, c) == o # "active" /\ c # "active"
Untouched(c, k) == c # "active" /\ k \in {"empty", "foreign"}

\* The row's evidence is true of them: a known result or an acknowledged cancel
\* means no offline task runs; a row without a destination, or whose copy was
\* removed, has no copy running; and a legacy row that cannot prove the files
\* its own has not written any.
Evident(d, o, c, k) ==
  /\ d.result => o # "active"
  /\ ~d.destination \/ d.mark = "removed" => c # "active"
  /\ d.mark = "cancelled" => o # "active"
  /\ ~OwnsFiles(d) => Untouched(c, k)

\* And so is its phase.
Grounded(d, o, c, k) ==
  /\ Evident(d, o, c, k)
  /\ d.state \in {"ABSENT", "CANCELLED", "DELETED"} => Idle(o, c)
  /\ d.state = "DELETED" /\ d.deleteFiles => Untouched(c, k)

\* Evidence appears in the order of the phases: no result before the offline
\* task is done, and a cancelled mark only on rows that are being taken away.
EarlyStates == {"ACCEPTED", "SUBMITTING_OFFLINE", "WAITING_OFFLINE"}
Staged(d) ==
  /\ d.state \in EarlyStates \/ d.upstream = "offline:ERROR" => ~d.result
  /\ d.mark = "cancelled" => ~d.source /\ d.state \in {"CANCELLED", "DELETE_REQUESTED", "DELETED"}

\* Nothing that decide does belies the evidence of the row it read.
LEMMA DecideKeepsEvidence ==
  ASSUME QuietInv, NEW w \in Worker, NEW h \in Hash, h = claim[w].hash, Decide(w), SoundRow(claim[w].d),
         Staged(claim[w].d), Evident(claim[w].d, offline[h], copy[h], disk[h])
  PROVE  Evident(claim[w].d, offline'[h], copy'[h], disk'[h])
<1> DEFINE d == claim[w].d
<1>1. Touches(d, h)
  BY DecideTouches
<1> HIDE DEF d
<1>2. d.result \/ d.mark = "cancelled" => offline'[h] # "active"
  BY <1>1 DEF Touches, MaySubmitOffline, Staged, EarlyStates, Evident, d
<1>3. ~d.destination \/ d.mark = "removed" => copy'[h] # "active"
  BY <1>1 DEF Touches, MaySubmitCopy, StatusIs, Evident, d
<1>4. ~OwnsFiles(d) => Untouched(copy'[h], disk'[h])
  <2>1. MaySubmitCopy(d) => OwnsFiles(d)
    BY DEF MaySubmitCopy, StatusIs, OwnsFiles, HasCopyEvidence
  <2> QED  BY <1>1, <2>1 DEF Touches, Untouched, Evident, d
<1> QED  BY <1>2, <1>3, <1>4 DEF Evident, d

\* A decision that only moves the row on, or has it stop, fail or wait.
LEMMA PhaseGrounds ==
  ASSUME NEW d \in Download, NEW o, NEW c, NEW k, Evident(d, o, c, k), Staged(d), d.state \in Workable,
         NEW e, NEW s, InPhase(d, e, s),
         \/ s = d.state
         \/ s \in {"STOPPED", "FAILED"} /\ d.state # "DELETE_REQUESTED"
         \/ d.state \in Active /\ s \in Active \ EarlyStates
         \/ d.state = "ACCEPTED" /\ s = "SUBMITTING_OFFLINE"
         \/ d.state = "VERIFYING_LOCAL" /\ s = "COMPLETED"
  PROVE  Grounded(e, o, c, k) /\ Staged(e)
<1>1. Evident(e, o, c, k)
  BY DEF InPhase, SameEvidence, Evident, OwnsFiles, HasCopyEvidence
<1>2. Staged(e)
  BY DEF InPhase, SameEvidence, Staged, EarlyStates
<1>3. s \notin {"ABSENT", "CANCELLED", "DELETED"}
  BY DEF EarlyStates
<1> QED  BY <1>1, <1>2, <1>3 DEF InPhase, Grounded

\* A decision that records what the upstream said.
LEMMA StatusGrounds ==
  ASSUME NEW d \in Download, NEW o, NEW c, NEW k, Evident(d, o, c, k), Staged(d), d.state \in Workable,
         NEW e, NEW u \in Upstreams, WithStatus(d, e, "none", u), NEW f, NEW s, InPhase(e, f, s),
         \/ u \in CopyReports \cup {"destination_clear"}
         \/ ~HasCopyEvidence(d)
         \/ ~d.content /\ Untouched(c, k),
         u = "offline:ERROR" => ~d.result,
         \/ s = d.state
         \/ s \in {"STOPPED", "FAILED"} \cup (Active \ EarlyStates)
         \/ s = "WAITING_OFFLINE" /\ ~d.result
  PROVE  Grounded(f, o, c, k) /\ Staged(f)
<1>1. /\ f.isolated = d.isolated /\ f.result = d.result /\ f.source = d.source
      /\ f.destination = d.destination /\ f.content = d.content
      /\ f.mark = "none" /\ f.upstream = u /\ f.state = s
  BY DEF WithStatus, InPhase, SameEvidence
<1>2. ~OwnsFiles(f) => Untouched(c, k)
  BY <1>1 DEF OwnsFiles, HasCopyEvidence, Evident
<1>3. Evident(f, o, c, k)
  BY <1>1, <1>2 DEF Evident
<1>4. Staged(f)
  BY <1>1 DEF Staged, EarlyStates
<1>5. s \notin {"ABSENT", "CANCELLED", "DELETED"}
  BY DEF EarlyStates
<1> QED  BY <1>1, <1>3, <1>4, <1>5 DEF Grounded

\* A decision that records a confirmed cleanup.
LEMMA MarkGrounds ==
  ASSUME NEW d \in Download, NEW o, NEW c, NEW k, Evident(d, o, c, k), Staged(d), SoundRow(d),
         d.state \in Workable, NEW e, NEW m, WithStatus(d, e, m, d.upstream), NEW f, NEW s, InPhase(e, f, s),
         \/ m = "removed" /\ c # "active" /\ d.source
         \/ m = "cancelled" /\ o # "active" /\ ~d.source /\ (s = d.state => s = "DELETE_REQUESTED"),
         s \in {d.state, "CANCELLED"}
  PROVE  Grounded(f, o, c, k) /\ Staged(f)
<1>1. /\ f.isolated = d.isolated /\ f.result = d.result /\ f.source = d.source
      /\ f.destination = d.destination /\ f.content = d.content
      /\ f.mark = m /\ f.upstream = d.upstream /\ f.state = s
  BY DEF WithStatus, InPhase, SameEvidence
<1>2. ~OwnsFiles(f) => Untouched(c, k)
  BY <1>1 DEF OwnsFiles, HasCopyEvidence, Evident
<1>3. Idle(o, c) \/ s = d.state
  BY DEF SoundRow, Sound, Evident, Idle
<1>4. Evident(f, o, c, k)
  BY <1>1, <1>2 DEF Evident
<1>5. Staged(f)
  BY <1>1 DEF Staged, EarlyStates
<1> QED  BY <1>1, <1>3, <1>4, <1>5 DEF Grounded
\* Every branch of decide leaves its worker with a row that is true of the
\* world as the branch left it.
LEMMA DecideGrounds ==
  ASSUME QuietInv, NEW w \in Worker, NEW h \in Hash, h = claim[w].hash, Decide(w), SoundRow(claim[w].d),
         Staged(claim[w].d), Evident(claim[w].d, offline[h], copy[h], disk[h])
  PROVE  Grounded(claim'[w].d, offline'[h], copy'[h], disk'[h]) /\ Staged(claim'[w].d)
<1> DEFINE d == claim[w].d
           o == offline'[h]
           c == copy'[h]
           k == disk'[h]
           Good(e) == Grounded(e, o, c, k) /\ Staged(e)
           Concluded == \E e : Decided(w, e) /\ Good(e)
<1>1. Busy(w) /\ claim[w].pc = "deciding" /\ d \in Download /\ d.state \in Workable
  BY DecideClaims
<1>2. Evident(d, o, c, k) /\ Staged(d) /\ SoundRow(d)
  BY DecideKeepsEvidence
<1>3. /\ offline[h] \in OfflineTasks /\ copy[h] \in CopyTasks /\ disk[h] \in DiskContents
      /\ EnsuredOffline(h)[h] \in OfflineTasks \ {"none"} /\ CancelledOffline(h)[h] = "none"
      /\ EnsuredCopy(h)[h] \in CopyTasks \ {"none"} /\ RemovedCopy(h)[h] = "none" /\ Emptied(h)[h] = "empty"
  BY DEF QuietInv, TypeOK, OfflineTasks, CopyTasks, EnsuredOffline, CancelledOffline, EnsuredCopy,
         RemovedCopy, Emptied
<1> HIDE DEF o, c, k
\* Moving on, stopping, failing and waiting need no more than that.
<1>4. ASSUME NEW e, NEW s, InPhase(d, e, s),
             \/ s = d.state
             \/ s \in {"STOPPED", "FAILED"} /\ d.state # "DELETE_REQUESTED"
             \/ d.state \in Active /\ s \in Active \ EarlyStates
             \/ d.state = "ACCEPTED" /\ s = "SUBMITTING_OFFLINE"
             \/ d.state = "VERIFYING_LOCAL" /\ s = "COMPLETED"
      PROVE  Good(e)
  BY <1>1, <1>2, <1>4, PhaseGrounds
<1>5. SUFFICES Concluded
  <2>1. PICK e : Decided(w, e) /\ Good(e)
    BY <1>5
  <2>2. Good(RetryLater(d, "other"))
    BY <1>1, <1>4, PhaseColumns DEF Problems
  <2> QED  BY <1>1, <2>1, <2>2, DecidedRow DEF QuietInv, o, c, k
<1>6. /\ Good(Poll(d)) /\ Good(RetryLater(d, "other")) /\ Good(RetryLater(d, "unavailable"))
      /\ \A p \in Problems : Good(CleanupProblem(d, p))
      /\ d.state # "DELETE_REQUESTED" => \A p \in Problems : Good(Fail(d, p))
  <2>1. ASSUME NEW p \in Problems, d.state # "DELETE_REQUESTED" PROVE Good(Fail(d, p))
    BY <1>1, <1>4, <2>1, PhaseColumns
  <2>2. ASSUME NEW p \in Problems PROVE Good(CleanupProblem(d, p)) /\ Good(RetryLater(d, p))
    BY <1>1, <1>4, PhaseColumns
  <2>3. Good(Poll(d))
    BY <1>1, <1>4, PhaseColumns
  <2> QED  BY <2>1, <2>2, <2>3 DEF Problems
<1>7. ASSUME NEW fault, NEW b \in BOOLEAN
      PROVE  /\ d.state # "DELETE_REQUESTED" => Good(CloudFailure(d, fault, b)) /\ Good(LocalFailure(d, fault))
             /\ Good(CleanupFailure(d, fault))
  BY <1>6 DEF CloudFailure, LocalFailure, CleanupFailure, Problems
\* What the upstream said.
<1>8. ASSUME NEW u \in Upstreams,
             \/ u \in CopyReports \cup {"destination_clear"}
             \/ ~HasCopyEvidence(d)
             \/ ~d.content /\ Untouched(c, k),
             u = "offline:ERROR" => ~d.result
      PROVE  LET e == SetStatus(d, u) IN
             /\ Good(Poll(e)) /\ Good(Fail(e, "other")) /\ Good(Quieted(e, "STOPPED"))
             /\ \A s \in Active \ EarlyStates : Good(Advance(e, s))
             /\ ~d.result => Good(Advance(e, "WAITING_OFFLINE"))
  <2> DEFINE e == SetStatus(d, u)
  <2>1. e \in Download /\ WithStatus(d, e, "none", u) /\ e.state = d.state
    BY <1>1, StatusColumns DEF WithStatus
  <2> HIDE DEF e
  <2>2. ASSUME NEW f, NEW s, InPhase(e, f, s),
               \/ s = d.state \/ s \in {"STOPPED", "FAILED"} \cup (Active \ EarlyStates)
               \/ s = "WAITING_OFFLINE" /\ ~d.result
        PROVE  Good(f)
    BY <1>1, <1>2, <1>8, <2>1, <2>2, StatusGrounds
  <2>3. Good(Poll(e))
    BY <2>1, <2>2, PhaseColumns
  <2>4. Good(Fail(e, "other")) /\ Good(Quieted(e, "STOPPED"))
    BY <2>1, <2>2, PhaseColumns DEF Problems
  <2>5. ASSUME NEW s \in Active, s \notin EarlyStates \/ (s = "WAITING_OFFLINE" /\ ~d.result)
        PROVE  Good(Advance(e, s))
    <3>1. InPhase(e, Advance(e, s), s)
      BY <2>1, PhaseColumns
    <3> QED  BY <2>2, <2>5, <3>1
  <2> QED  BY <2>3, <2>4, <2>5 DEF EarlyStates, e
\* A confirmed cleanup.
<1>9. ASSUME d.source => c # "active", ~d.source => o # "active", d.source \/ d.state \in Cleanup
      PROVE  /\ d.source => Good(Poll(MarkCopyRemoved(d)))
             /\ d.state = "DELETE_REQUESTED" => Good(Poll(MarkStopped(d)))
             /\ d.state = "CANCEL_REQUESTED" => Good(Quieted(MarkStopped(d), "CANCELLED"))
  <2> DEFINE removed == MarkCopyRemoved(d)
             cancelled == MarkCleanupCancelled(d)
  <2>1. /\ removed \in Download /\ WithStatus(d, removed, "removed", d.upstream) /\ removed.state = d.state
        /\ cancelled \in Download /\ WithStatus(d, cancelled, "cancelled", d.upstream) /\ cancelled.state = d.state
    BY <1>1, StatusColumns DEF WithStatus
  <2>2. MarkStopped(d) = IF d.source THEN removed ELSE cancelled
    BY DEF MarkStopped
  <2> HIDE DEF removed, cancelled
  <2>3. ASSUME d.source, NEW f, NEW s, InPhase(removed, f, s), s \in {d.state, "CANCELLED"} PROVE Good(f)
    BY <1>1, <1>2, <1>9, <2>1, <2>3, MarkGrounds
  <2>4. ASSUME ~d.source, NEW f, NEW s, InPhase(cancelled, f, s), s \in {d.state, "CANCELLED"},
               s = d.state => s = "DELETE_REQUESTED"
        PROVE  Good(f)
    BY <1>1, <1>2, <1>9, <2>1, <2>4, MarkGrounds
  <2>5. d.source => Good(Poll(removed)) /\ Good(Quieted(removed, "CANCELLED"))
    <3>1. InPhase(removed, Poll(removed), d.state) /\ InPhase(removed, Quieted(removed, "CANCELLED"), "CANCELLED")
      BY <2>1, PhaseColumns
    <3> QED  BY <2>3, <3>1
  <2>6. ~d.source => /\ d.state = "DELETE_REQUESTED" => Good(Poll(cancelled))
                     /\ d.state # "CANCELLED" => Good(Quieted(cancelled, "CANCELLED"))
    <3>1. InPhase(cancelled, Poll(cancelled), d.state)
          /\ InPhase(cancelled, Quieted(cancelled, "CANCELLED"), "CANCELLED")
      BY <2>1, PhaseColumns
    <3> QED  BY <2>4, <3>1
  <2> QED  BY <2>2, <2>5, <2>6 DEF removed
<1> HIDE DEF Good
<1> USE DEF RowStep, OfflineStep, CopyStep, DiskStep, Deciding, CloudStep, outside
<1>10. CASE PhaseTimeout(w) \/ OperationOverran(w) \/ BeginOffline(w)
  <2>1. CASE PhaseTimeout(w)
    <3>1. d.state # "DELETE_REQUESTED"
      BY <1>2, <2>1 DEF PhaseTimeout, SoundRow, Sound
    <3> QED  BY <1>6, <2>1, <3>1 DEF PhaseTimeout, DeadlineProblem, Problems
  <2>2. CASE OperationOverran(w)
    <3>1. Good(d)
      BY <1>1, <1>4 DEF InPhase, SameWishes, SameEvidence
    <3> QED  BY <2>2, <3>1 DEF OperationOverran
  <2>3. CASE BeginOffline(w)
    <3>1. d.state = "ACCEPTED" /\ Decided(w, Advance(d, "SUBMITTING_OFFLINE"))
      BY <2>3 DEF BeginOffline
    <3>2. InPhase(d, Advance(d, "SUBMITTING_OFFLINE"), "SUBMITTING_OFFLINE")
      BY <1>1, PhaseColumns
    <3> QED  BY <1>4, <3>1, <3>2
  <2> QED  BY <1>10, <2>1, <2>2, <2>3
\* Nothing is known of a copy before there is a result.
<1>11. ~d.result => ~HasCopyEvidence(d)
  BY <1>2 DEF SoundRow, Sound, HasCopyEvidence
<1>12. d.state \in EarlyStates \/ d.upstream = "offline:ERROR" => ~d.result
  BY <1>2 DEF Staged
<1>13. CASE RetryCancelOffline(w)
  <2>1. ~d.result /\ d.state = "SUBMITTING_OFFLINE"
    BY <1>12, <1>13 DEF RetryCancelOffline, EarlyStates
  <2> QED  BY <1>7, <1>8, <1>11, <1>13, <2>1 DEF RetryCancelOffline, Upstreams
<1>14. ASSUME d.state \in {"SUBMITTING_OFFLINE", "WAITING_OFFLINE"}, NEW task \in OfflineTasks \ {"none"},
              task = "finished" => o # "active"
       PROVE  Good(OfflineReported(d, task))
  <2>1. ~d.result /\ ~HasCopyEvidence(d)
    BY <1>11, <1>12, <1>14 DEF EarlyStates
  <2>2. CASE task = "active"
    BY <1>8, <2>1, <2>2 DEF OfflineReported, Upstreams
  <2>3. CASE task = "error"
    BY <1>8, <2>1, <2>3 DEF OfflineReported, Upstreams
  <2>4. CASE task = "finished"
    <3>1. PICK e \in Download : e = SetStatus(d, "offline:FINISHED") /\ WithStatus(d, e, "none", "offline:FINISHED")
      BY <1>1, StatusColumns DEF WithStatus, Upstreams
    <3>2. PICK f \in Download : f = Advance(e, "SUBMITTING_COPY") /\ InPhase(e, f, "SUBMITTING_COPY")
      BY <3>1, PhaseColumns DEF InPhase
    <3> DEFINE g == [f EXCEPT !.result = TRUE]
    <3>3. /\ g.state = "SUBMITTING_COPY" /\ g.result /\ g.isolated = f.isolated /\ g.source = f.source
          /\ g.destination = f.destination /\ g.content = f.content /\ g.mark = f.mark /\ g.upstream = f.upstream
      BY <3>2, PathColumns DEF InPhase
    <3>4. OfflineReported(d, task) = g
      BY <2>4, <3>1, <3>2 DEF OfflineReported
    <3> HIDE DEF g
    <3>5. /\ g.isolated = d.isolated /\ g.source = d.source /\ g.destination = d.destination
          /\ g.content = d.content /\ g.mark = "none" /\ g.upstream = "offline:FINISHED"
      BY <3>1, <3>2, <3>3 DEF InPhase, SameEvidence, WithStatus
    <3>6. ~OwnsFiles(g) => Untouched(c, k)
      BY <1>2, <2>1, <3>5 DEF Evident, OwnsFiles, HasCopyEvidence
    <3>7. Evident(g, o, c, k)
      BY <1>2, <1>14, <2>4, <3>3, <3>5, <3>6 DEF Evident
    <3>8. Staged(g)
      BY <3>3, <3>5 DEF Staged, EarlyStates
    <3> QED  BY <3>3, <3>4, <3>7, <3>8 DEF Good, Grounded
  <2> QED  BY <1>14, <2>2, <2>3, <2>4 DEF OfflineTasks
<1>15. CASE EnsureOffline(w)
  <2>1. d.state = "SUBMITTING_OFFLINE"
    BY <1>15 DEF EnsureOffline
  <2>2. \/ offline' = EnsuredOffline(h) /\ Decided(w, OfflineReported(d, EnsuredOffline(h)[h]))
        \/ \E fault \in CloudFaults : Decided(w, CloudFailure(d, fault, FALSE))
    BY <1>15 DEF EnsureOffline
  <2> QED  BY <1>3, <1>7, <1>14, <2>1, <2>2 DEF o
<1>16. CASE InspectOffline(w)
  <2>1. d.state = "WAITING_OFFLINE" /\ offline' = offline
    BY <1>16 DEF InspectOffline
  <2>2. \/ Decided(w, Poll(d))
        \/ offline[h] # "none" /\ Decided(w, OfflineReported(d, offline[h]))
        \/ \E fault \in CloudFaults : Decided(w, CloudFailure(d, fault, FALSE))
    BY <1>16 DEF InspectOffline
  <2> QED  BY <1>3, <1>6, <1>7, <1>14, <2>1, <2>2 DEF o
\* Learning a path or finding content: the row moves on with one column more.
<1>17. ASSUME NEW e, NEW f, NEW s, d.state \in Active \ EarlyStates, s = d.state \/ s \in {"VERIFYING_LOCAL", "COMPLETED"},
              InPhase(e, f, s), e.state = d.state, e.isolated = d.isolated, e.result = d.result,
              e.mark = d.mark, e.upstream = d.upstream,
              e.destination = d.destination \/ e.destination, e.content = d.content \/ e.content
       PROVE  Good(f)
  <2>1. /\ f.isolated = d.isolated /\ f.result = d.result /\ f.mark = d.mark /\ f.upstream = d.upstream
        /\ f.destination = d.destination \/ f.destination
        /\ f.content = d.content \/ f.content
        /\ f.state = s
    BY <1>17 DEF InPhase, SameEvidence
  <2>2. d.mark # "cancelled"
    BY <1>2, <1>17 DEF Staged
  <2>3. Evident(f, o, c, k)
    BY <1>1, <1>2, <2>1 DEF Evident, OwnsFiles, HasCopyEvidence, Download
  <2>4. Staged(f)
    BY <1>2, <1>17, <2>1, <2>2 DEF Staged, EarlyStates
  <2> QED  BY <1>17, <2>1, <2>3, <2>4 DEF Good, Grounded
<1>18. CASE ResolveCopySource(w)
  <2> DEFINE e == [d EXCEPT !.source = TRUE]
  <2>1. /\ e \in Download /\ e.state = d.state /\ e.isolated = d.isolated /\ e.result = d.result
        /\ e.destination = d.destination /\ e.content = d.content /\ e.mark = d.mark /\ e.upstream = d.upstream
    BY <1>1, PathColumns
  <2>2. /\ d.state = "SUBMITTING_COPY"
        /\ \/ Decided(w, Poll(e)) \/ Decided(w, Fail(d, "other"))
           \/ \E fault \in CloudFaults : Decided(w, CloudFailure(d, fault, TRUE))
    BY <1>18 DEF ResolveCopySource
  <2> HIDE DEF e
  <2>3. InPhase(e, Poll(e), d.state)
    BY <2>1, PhaseColumns
  <2>4. Good(Poll(e))
    BY <1>17, <2>1, <2>2, <2>3 DEF EarlyStates
  <2> QED  BY <1>6, <1>7, <2>2, <2>4 DEF Problems
<1>19. CASE ReserveDestination(w)
  <2> DEFINE e == [d EXCEPT !.destination = TRUE]
  <2>1. /\ e \in Download /\ e.state = d.state /\ e.isolated = d.isolated /\ e.result = d.result
        /\ e.destination /\ e.content = d.content /\ e.mark = d.mark /\ e.upstream = d.upstream
    BY <1>1, PathColumns
  <2>2. d.state = "SUBMITTING_COPY" /\ Decided(w, Poll(e))
    BY <1>19 DEF ReserveDestination
  <2> HIDE DEF e
  <2>3. InPhase(e, Poll(e), d.state)
    BY <2>1, PhaseColumns
  <2>4. Good(Poll(e))
    BY <1>17, <2>1, <2>2, <2>3 DEF EarlyStates
  <2> QED  BY <2>2, <2>4
<1>20. CASE RetryRemoveCopy(w)
  <2>1. d.state = "SUBMITTING_COPY" /\ d.source
    BY <1>20 DEF RetryRemoveCopy, CopyRung
  <2>2. \/ copy' = RemovedCopy(h) /\ Decided(w, Poll(MarkCopyRemoved(d)))
        \/ \E fault \in CloudFaults : Decided(w, CloudFailure(d, fault, FALSE))
    BY <1>20 DEF RetryRemoveCopy
  <2> QED  BY <1>3, <1>7, <1>9, <2>1, <2>2 DEF c
<1>21. CASE RetryDeleteCopy(w)
  <2>1. PICK e \in Download : e = SetStatus(d, "offline:FINISHED") /\ WithStatus(d, e, "none", "offline:FINISHED")
    BY <1>1, StatusColumns DEF WithStatus, Upstreams
  <2> DEFINE f == [e EXCEPT !.isolated = TRUE, !.content = FALSE]
  <2>2. /\ f \in Download /\ f.state = e.state /\ f.isolated /\ f.result = e.result
        /\ f.source = e.source /\ f.destination = e.destination /\ f.mark = e.mark /\ f.upstream = e.upstream
    BY <2>1, PathColumns
  <2>3. /\ d.state = "SUBMITTING_COPY" /\ d.destination
        /\ Decided(w, Poll(f)) \/ Decided(w, Fail(d, "local"))
    BY <1>21, <2>1 DEF RetryDeleteCopy, CopyRung
  <2> HIDE DEF f
  <2>4. InPhase(f, Poll(f), f.state)
    BY <2>2, PhaseColumns
  <2> DEFINE g == Poll(f)
  <2>5. /\ g.state = "SUBMITTING_COPY" /\ g.isolated /\ g.result = d.result /\ g.source = d.source
        /\ g.destination /\ g.mark = "none" /\ g.upstream = "offline:FINISHED"
    BY <2>1, <2>2, <2>3, <2>4 DEF InPhase, SameEvidence, WithStatus
  <2> HIDE DEF g
  <2>6. Good(g)
    BY <1>2, <2>5 DEF Good, Grounded, Evident, OwnsFiles, Staged, EarlyStates
  <2> QED  BY <1>6, <2>3, <2>6 DEF Problems, g
<1>22. CASE PreflightLocal(w)
  <2>1. /\ d.state = "SUBMITTING_COPY"
        /\ \/ Decided(w, Poll(SetStatus(d, "destination_clear"))) \/ Decided(w, Fail(d, "other"))
           \/ \E fault \in DeleteFaults : Decided(w, LocalFailure(d, fault))
    BY <1>22 DEF PreflightLocal, CopyRung
  <2> QED  BY <1>6, <1>7, <1>8, <2>1 DEF Upstreams, Problems
<1>23. ASSUME d.state \in {"SUBMITTING_COPY", "WAITING_COPY"}, NEW task \in CopyTasks \ {"none"}
       PROVE  Good(CopyReported(d, task))
  BY <1>8, <1>23 DEF CopyReported, Upstreams, CopyTasks, EarlyStates
<1>24. CASE EnsureCopy(w)
  <2>1. /\ d.state = "SUBMITTING_COPY"
        /\ \/ Decided(w, CopyReported(d, EnsuredCopy(h)[h]))
           \/ \E fault \in CloudFaults : Decided(w, CloudFailure(d, fault, TRUE))
           \/ \E fault \in DeleteFaults : Decided(w, LocalFailure(d, fault))
    BY <1>24 DEF EnsureCopy, CopyRung
  <2> QED  BY <1>3, <1>7, <1>23, <2>1
<1>25. ASSUME d.state \in {"WAITING_COPY", "VERIFYING_LOCAL"}, NEW verified, Good(verified),
              NEW e \in VerifyOutcomes(d, h, verified)
       PROVE  Good(e)
  BY <1>6, <1>7, <1>25 DEF VerifyOutcomes, Verification, Problems
<1>26. CASE InspectCopy(w)
  <2> DEFINE e == [d EXCEPT !.content = TRUE]
  <2>1. /\ e \in Download /\ e.state = d.state /\ e.isolated = d.isolated /\ e.result = d.result
        /\ e.destination = d.destination /\ e.content /\ e.mark = d.mark /\ e.upstream = d.upstream
    BY <1>1, PathColumns
  <2>2. /\ d.state = "WAITING_COPY"
        /\ \/ copy[h] # "none" /\ Decided(w, CopyReported(d, copy[h]))
           \/ \E f \in VerifyOutcomes(d, h, Advance(e, "VERIFYING_LOCAL")) : Decided(w, f)
           \/ \E fault \in CloudFaults : Decided(w, CloudFailure(d, fault, TRUE))
    BY <1>26 DEF InspectCopy
  <2> HIDE DEF e
  <2>3. InPhase(e, Advance(e, "VERIFYING_LOCAL"), "VERIFYING_LOCAL")
    BY <2>1, PhaseColumns
  <2>4. Good(Advance(e, "VERIFYING_LOCAL"))
    BY <1>17, <2>1, <2>2, <2>3 DEF EarlyStates
  <2> QED  BY <1>3, <1>7, <1>23, <1>25, <2>2, <2>4
<1>27. CASE VerifyLocal(w)
  <2>1. PICK e \in Download : e = Quieted(d, "COMPLETED") /\ InPhase(d, e, "COMPLETED")
    BY <1>1, PhaseColumns DEF InPhase
  <2> DEFINE f == [e EXCEPT !.content = TRUE, !.completed = TRUE]
  <2>2. /\ f.state = "COMPLETED" /\ f.content /\ f.isolated = d.isolated /\ f.result = d.result
        /\ f.source = d.source /\ f.destination = d.destination /\ f.mark = d.mark /\ f.upstream = d.upstream
    BY <2>1, PathColumns DEF InPhase, SameEvidence
  <2>3. d.state = "VERIFYING_LOCAL" /\ \E g \in VerifyOutcomes(d, h, f) : Decided(w, g)
    BY <1>27, <2>1 DEF VerifyLocal
  <2> HIDE DEF f
  <2>4. d.mark # "cancelled"
    BY <1>2, <2>3 DEF Staged
  <2>5. Good(f)
    BY <1>2, <2>2, <2>4 DEF Good, Grounded, Evident, OwnsFiles, Staged, EarlyStates
  <2> QED  BY <1>25, <2>3, <2>5
\* Cleanup.
<1>28. ASSUME NEW done, StopUpstream(w, done), d.state \in Cleanup,
              (d.source => c # "active") /\ (~d.source => o # "active") => Good(done)
       PROVE  Concluded
  <2>1. CASE d.source /\ copy' = RemovedCopy(h) /\ CopyStep(w, done)
    BY <1>3, <1>28, <2>1 DEF c
  <2>2. CASE ~d.source /\ offline' = CancelledOffline(h) /\ OfflineStep(w, done)
    BY <1>3, <1>28, <2>2 DEF o
  <2>3. CASE \E fault \in CloudFaults : Decided(w, CleanupFailure(d, fault))
    BY <1>7, <2>3
  <2>4. CASE ~d.source /\ offline[h] = "none" /\ offline' \in {offline, CancelledOffline(h)} /\ Decided(w, done)
    BY <1>3, <1>28, <2>4 DEF o
  <2> QED  BY <1>28, <2>1, <2>2, <2>3, <2>4 DEF StopUpstream, MayLand
<1>29. CASE CancelUpstream(w)
  BY <1>9, <1>28, <1>29 DEF CancelUpstream
<1>30. CASE DeleteUpstream(w)
  BY <1>9, <1>28, <1>30 DEF DeleteUpstream
<1>31. CASE PauseFinishedCopy(w)
  <2>1. d.state = "CANCEL_REQUESTED" /\ Decided(w, Quieted(d, "STOPPED"))
    BY <1>31 DEF PauseFinishedCopy, Pausing
  <2> QED  BY <1>1, <1>4, <2>1, PhaseColumns
<1>32. CASE PauseUpstream(w)
  <2>1. /\ d.state = "CANCEL_REQUESTED"
        /\ StopUpstream(w, IF d.source THEN Poll(MarkCopyRemoved(d)) ELSE Quieted(SetStatus(d, "none"), "STOPPED"))
    BY <1>32 DEF PauseUpstream, Pausing
  <2>2. ~d.source => Good(Quieted(SetStatus(d, "none"), "STOPPED"))
    <3>1. ~d.source => ~HasCopyEvidence(d)
      BY <1>2 DEF SoundRow, Sound, HasCopyEvidence
    <3> QED  BY <1>8, <3>1 DEF Upstreams
  <2> QED  BY <1>9, <1>28, <2>1, <2>2
<1>33. CASE PauseDeleteCopy(w)
  <2> DEFINE stopped == Quieted(SetStatus(d, "offline:FINISHED"), "STOPPED")
  <2>1. /\ d.state = "CANCEL_REQUESTED" /\ ~d.content /\ d.mark = "removed"
        /\ \/ HasLocalPath(d) /\ DeleteFiles(w, stopped)
           \/ /\ ~HasLocalPath(d) /\ UNCHANGED disk
              /\ Decided(w, IF HasCopyEvidence(d) THEN Fail(d, "other") ELSE stopped)
    BY <1>33 DEF PauseDeleteCopy, Pausing, CopyFinished, CopyRemovalCompleted
  <2>2. c # "active"
    BY <1>2, <2>1 DEF Evident
  <2>3. k = "empty" \/ ~HasCopyEvidence(d) => Good(stopped)
    BY <1>8, <2>1, <2>2 DEF Untouched, Upstreams
  <2>4. disk' = Emptied(h) => k = "empty"
    BY <1>3 DEF k
  <2> HIDE DEF stopped
  <2> QED  BY <1>6, <2>1, <2>3, <2>4 DEF DeleteFiles, Problems
<1>34. CASE DeleteLocal(w)
  <2> DEFINE wanted == d.deleteFiles /\ OwnsFiles(d)
             located == d.content \/ HasLocalPath(d)
             deleted == Quieted(d, "DELETED")
  <2>1. /\ d.state = "DELETE_REQUESTED" /\ ~CopyNeedsRemoval(d) /\ ~OfflineNeedsCancellation(d)
        /\ \/ wanted /\ located /\ DeleteFiles(w, deleted)
           \/ ~(wanted /\ located) /\ Decided(w, IF wanted THEN Fail(d, "other") ELSE deleted)
    BY <1>34 DEF DeleteLocal
  \* Whatever is its own has a place.
  <2>2. wanted => located
    BY <1>2 DEF OwnsFiles, HasLocalPath, SoundRow, Sound, HasCopyEvidence
  <2>3. Idle(o, c)
    <3>1. c # "active"
      BY <1>2, <2>1 DEF CopyNeedsRemoval, CopyRemovalCompleted, SoundRow, Sound, Evident
    <3>2. o # "active"
      BY <1>2, <2>1 DEF OfflineNeedsCancellation, CleanupCompleted, SoundRow, Sound, ValidDownload, Evident
    <3> QED  BY <3>1, <3>2 DEF Idle
  <2>4. InPhase(d, deleted, "DELETED")
    BY <1>1, PhaseColumns
  <2>5. ~d.deleteFiles \/ Untouched(c, k) => Good(deleted)
    <3>1. Evident(deleted, o, c, k)
      BY <1>2, <2>4 DEF InPhase, SameEvidence, Evident, OwnsFiles, HasCopyEvidence
    <3>2. Staged(deleted)
      BY <1>2, <2>4 DEF InPhase, SameEvidence, Staged, EarlyStates
    <3> QED  BY <2>3, <2>4, <3>1, <3>2 DEF Good, Grounded, InPhase, SameWishes
  <2>6. ~wanted => Good(deleted)
    BY <1>2, <2>5 DEF Evident
  <2>7. disk' = Emptied(h) => Good(deleted)
    BY <1>3, <2>3, <2>5 DEF k, Idle, Untouched
  <2> HIDE DEF deleted
  <2> QED  BY <1>6, <2>1, <2>2, <2>6, <2>7 DEF DeleteFiles, Problems
<1> QED  BY <1>10, <1>13, <1>15, <1>16, <1>18, <1>19, <1>20, <1>21, <1>22, <1>24, <1>26, <1>27,
            <1>29, <1>30, <1>31, <1>32, <1>33, <1>34 DEF Decide
-----------------------------------------------------------------------------
(* The invariant: every row is true of the world, and so is every outcome    *)
(* that can still be committed.                                              *)

\* The worker's outcome for the row can still be committed.
Promised(w, h) == Committing(w) /\ claim[w].hash = h /\ Current(w)

RowsGrounded ==
  \A h \in Hash : Grounded(download[h], offline[h], copy[h], disk[h]) /\ Staged(download[h])

ClaimsGrounded ==
  \A w \in Worker, h \in Hash : Promised(w, h) =>
    Grounded(claim[w].d, offline[h], copy[h], disk[h]) /\ Staged(claim[w].d)

\* Who is deciding holds the evidence that the row shows, whatever has been
\* asked for meanwhile.
ClaimsAligned ==
  \A w \in Worker, h \in Hash : Working(w, h) =>
    SameEvidence(download[h], claim[w].d) /\ Staged(claim[w].d)

WorkInv == LeaseInv /\ SoundInv /\ RowsGrounded /\ ClaimsGrounded /\ ClaimsAligned

\* An empty database promises nothing, and a legacy row has written nothing.
LEMMA WorkInit == Init => WorkInv
<1> SUFFICES ASSUME Init PROVE WorkInv
  OBVIOUS
<1>1. \A h \in Hash : download[h] \in {NoDownload, LegacyDownload}
  BY DEF Init
<1>2. \A h \in Hash : offline[h] = "none" /\ copy[h] = "none" /\ disk[h] \in {"empty", "foreign"}
  BY DEF Init
<1>3. \A d \in {NoDownload, LegacyDownload}, k \in {"empty", "foreign"} :
        Grounded(d, "none", "none", k) /\ Staged(d)
  <2>1. ASSUME NEW k \in {"empty", "foreign"} PROVE Untouched("none", k) /\ Idle("none", "none")
    BY DEF Untouched, Idle
  <2>2. /\ ~NoDownload.result /\ NoDownload.mark = "none" /\ NoDownload.state = "ABSENT"
        /\ ~LegacyDownload.result /\ LegacyDownload.mark = "none" /\ LegacyDownload.state = "ACCEPTED"
    BY DEF NoDownload, LegacyDownload, Fresh
  <2> QED  BY <2>1, <2>2 DEF Grounded, Evident, Staged
<1>4. RowsGrounded
  BY <1>1, <1>2, <1>3 DEF RowsGrounded
<1>5. \A w \in Worker : ~Busy(w)
  BY DEF Init, Busy, NoClaim
<1>6. ClaimsGrounded /\ ClaimsAligned
  BY <1>5 DEF ClaimsGrounded, Promised, Committing, ClaimsAligned, Working
<1> QED  BY <1>4, <1>6, LeaseInit, SoundInit DEF WorkInv

\* Tasks end and are forgotten by themselves, but none starts.
LEMMA CloudGrounds ==
  ASSUME TypeOK, NEW h \in Hash, Cloud(h) \/ ContentLost(h), NEW g \in Hash, NEW d,
         Grounded(d, offline[g], copy[g], disk[g])
  PROVE  Grounded(d, offline'[g], copy'[g], disk'[g])
<1> USE DEF Cloud, ContentLost, OfflineEnds, CopyWrites, CopyEnds, TaskForgotten
<1>1. offline'[g] = "active" => offline[g] = "active"
  BY DEF TypeOK
<1>2. copy'[g] = "active" => copy[g] = "active"
  BY DEF TypeOK
<1>3. disk'[g] = disk[g] \/ copy[g] = "active" \/ disk[g] = "full"
  BY DEF TypeOK
<1>4. Untouched(copy[g], disk[g]) => Untouched(copy'[g], disk'[g])
  BY <1>2, <1>3 DEF Untouched
<1> QED  BY <1>1, <1>2, <1>4 DEF Grounded, Evident, Idle

\* A row that is started over has nothing running behind it, and one that is
\* redirected keeps the evidence it had.
LEMMA OperatorGrounds ==
  ASSUME AtomicRetry, NEW h \in Hash, NEW e, Submits(h, e) \/ Redirects(h, e),
         SoundRow(download[h]), Staged(download[h]), Grounded(download[h], offline[h], copy[h], disk[h])
  PROVE  Grounded(e, offline[h], copy[h], disk'[h]) /\ Staged(e)
<1> DEFINE d == download[h]
<1>1. CASE Submits(h, e)
  <2>1. Idle(offline[h], copy[h]) /\ OwnsFiles(e)
    BY <1>1 DEF Submits, Grounded, OwnsFiles
  <2>2. Grounded(e, offline[h], copy[h], disk'[h])
    BY <1>1, <2>1 DEF Submits, Grounded, Evident, Idle
  <2>3. Staged(e)
    BY <1>1 DEF Submits, Staged, EarlyStates
  <2> QED  BY <2>2, <2>3
<1>2. CASE Redirects(h, e)
  <2>1. Evident(e, offline[h], copy[h], disk'[h])
    BY <1>2 DEF Redirects, Grounded, Evident, OwnsFiles, HasCopyEvidence, SoundRow, Sound
  <2>2. (e.state = d.state /\ SameWishes(d, e)) \/ e.state \notin {"ABSENT", "CANCELLED", "DELETED"}
    BY <1>2 DEF Redirects, StartTarget
  <2>3. Grounded(e, offline[h], copy[h], disk'[h])
    BY <1>2, <2>1, <2>2 DEF Redirects, Grounded, SameWishes
  <2>4. d.state = "STOPPED" /\ e.state = StartTarget(d) => (e.state \in EarlyStates => ~d.result)
    BY DEF StartTarget, EarlyStates
  <2>5. d.state = "FAILED" /\ e.state = RetryTarget(d) => (e.state \in EarlyStates => ~d.result)
    <3> SUFFICES ASSUME d.state = "FAILED", d.result PROVE RetryTarget(d) \notin EarlyStates
      OBVIOUS
    <3>1. d.upstream # "offline:ERROR"
      BY DEF Staged
    <3> QED  BY <3>1 DEF RetryTarget, EarlyStates
  <2>6. e.state \in EarlyStates => ~d.result
    BY <1>2, <2>4, <2>5 DEF Redirects, EarlyStates, Staged
  <2>7. d.mark = "cancelled" => e.state \in {"CANCELLED", "DELETE_REQUESTED", "DELETED"}
    BY <1>2 DEF Redirects, Staged
  <2>8. d.mark = "cancelled" => ~e.source
    BY <1>2 DEF Redirects, Staged
  <2>9. Staged(e)
    BY <1>2, <2>6, <2>7, <2>8 DEF Redirects, Staged
  <2> QED  BY <2>3, <2>9
<1> QED  BY <1>1, <1>2

\* A commit stores a row that is as true as the outcome that was promised.
LEMMA CommitGrounds ==
  ASSUME NEW h \in Hash, NEW d, NEW e, Stored(download[h], d, e), SoundRow(d), Staged(d),
         Grounded(d, offline[h], copy[h], disk[h]), Grounded(download[h], offline[h], copy[h], disk[h])
  PROVE  Grounded(e, offline[h], copy[h], disk[h]) /\ Staged(e)
<1>1. CASE e = d
  BY <1>1
<1>2. CASE e # d
  <2>1. /\ e.state = "FAILED" /\ ~e.destination /\ ~download[h].destination /\ d.destination
        /\ e.isolated = d.isolated /\ e.result = d.result /\ e.source = d.source
        /\ e.content = d.content /\ e.mark = d.mark /\ e.upstream = d.upstream
    BY <1>2 DEF Stored
  <2>2. Evident(e, offline[h], copy[h], disk[h])
    BY <2>1 DEF Grounded, Evident, OwnsFiles, HasCopyEvidence
  <2>3. d.mark # "cancelled"
    BY <2>1 DEF Staged, SoundRow, Sound
  <2>4. Staged(e)
    BY <2>1, <2>3 DEF Staged, EarlyStates
  <2> QED  BY <2>1, <2>2, <2>4 DEF Grounded
<1> QED  BY <1>1, <1>2
\* Every step keeps every row, and every outcome still to be committed, true.
LEMMA WorkNext ==
  ASSUME AtomicRetry, ~SlowFilesystem
  PROVE  WorkInv /\ [Next]_vars => WorkInv'
<1> SUFFICES ASSUME WorkInv, [Next]_vars PROVE WorkInv'
  OBVIOUS
<1>1. LeaseInv /\ LeaseInv' /\ SoundInv /\ SoundInv' /\ QuietInv /\ TypeOK
  BY LeaseNext, SoundNext DEF WorkInv, LeaseInv, QuietInv
<1> DEFINE Fits(d, h) == Grounded(d, offline[h], copy[h], disk[h]) /\ Staged(d)
           FitsNow(d, h) == Grounded(d, offline'[h], copy'[h], disk'[h]) /\ Staged(d)
<1>2. /\ \A h \in Hash : Fits(download[h], h) /\ SoundRow(download[h])
      /\ \A w \in Worker, h \in Hash : Promised(w, h) => Fits(claim[w].d, h)
      /\ \A w \in Worker, h \in Hash : Working(w, h) => SameEvidence(download[h], claim[w].d) /\ Staged(claim[w].d)
  BY <1>1 DEF WorkInv, RowsGrounded, ClaimsGrounded, ClaimsAligned, SoundInv, RowsSound
<1>3. SUFFICES ASSUME NEW g \in Hash
               PROVE  /\ FitsNow(download'[g], g)
                      /\ \A v \in Worker : Promised(v, g)' => FitsNow(claim'[v].d, g)
                      /\ \A v \in Worker : Working(v, g)' => SameEvidence(download'[g], claim'[v].d) /\ Staged(claim'[v].d)
  BY <1>1 DEF WorkInv, RowsGrounded, ClaimsGrounded, ClaimsAligned
<1> DEFINE Kept == /\ FitsNow(download'[g], g)
                   /\ \A v \in Worker : Promised(v, g)' => FitsNow(claim'[v].d, g)
                   /\ \A v \in Worker : Working(v, g)' =>
                        SameEvidence(download'[g], claim'[v].d) /\ Staged(claim'[v].d)
\* What stays as it was stays true.
<1>4. ASSUME NEW d, Fits(d, g), offline'[g] = offline[g], copy'[g] = copy[g], disk'[g] = disk[g]
      PROVE  FitsNow(d, g)
  BY <1>4
<1>5. ASSUME NEW v \in Worker, claim'[v] = claim[v]
      PROVE  /\ Promised(v, g)' /\ (Current(v)' => Current(v)) => Promised(v, g)
             /\ Working(v, g)' => Working(v, g)
  BY <1>5 DEF Promised, Committing, Working, Busy
<1>6. ASSUME NEW h \in Hash, Operator(h) PROVE Kept
  <2>1. /\ UNCHANGED <<claim, offline, copy>>
        /\ g # h => download'[g] = download[g] /\ disk'[g] = disk[g]
        /\ Submits(h, download'[h]) \/ Redirects(h, download'[h])
    BY <1>1, <1>6, OperatorRow
  <2>2. UNCHANGED store \/ Writing(h)
    BY <1>1, <1>6, OperatorClaims
  <2>3. UNCHANGED store => disk' = disk
    BY <2>1 DEF store, Submits, Redirects
  <2>4. FitsNow(download'[g], g)
    <3>1. CASE g # h
      BY <1>2, <1>4, <2>1, <3>1
    <3>2. CASE g = h
      BY <1>2, <2>1, <3>2, OperatorGrounds
    <3> QED  BY <3>1, <3>2
  <2>5. ASSUME NEW v \in Worker, Promised(v, g)' PROVE FitsNow(claim'[v].d, g)
    <3>1. Busy(v)' /\ Current(v)' /\ claim'[v] = claim[v] /\ claim[v].hash = g
      BY <2>1, <2>5 DEF Promised, Committing
    <3>2. Current(v) /\ disk'[g] = disk[g]
      <4>1. CASE UNCHANGED store
        BY <2>1, <2>3, <3>1, <4>1 DEF store, Current
      <4>2. CASE Writing(h)
        BY <2>1, <3>1, <4>2 DEF Writing
      <4> QED  BY <2>2, <4>1, <4>2
    <3>3. Promised(v, g)
      BY <1>5, <2>5, <3>1, <3>2
    <3> QED  BY <1>2, <1>4, <2>1, <3>1, <3>2, <3>3
  <2>6. ASSUME NEW v \in Worker, Working(v, g)'
        PROVE  SameEvidence(download'[g], claim'[v].d) /\ Staged(claim'[v].d)
    <3>1. Working(v, g) /\ claim'[v] = claim[v]
      BY <1>5, <2>1, <2>6
    <3>2. download[g].state \notin Resting
      BY <1>1, <3>1, NobodyElse
    <3>3. SameEvidence(download'[g], download[g])
      BY <2>1, <3>2 DEF Submits, Redirects, SameEvidence
    <3> QED  BY <1>2, <3>1, <3>3 DEF SameEvidence
  <2> QED  BY <2>4, <2>5, <2>6
<1>7. ASSUME NEW h \in Hash, Cloud(h) \/ ContentLost(h) PROVE Kept
  <2>1. UNCHANGED <<store, claim>>
    BY <1>7 DEF Cloud, ContentLost, OfflineEnds, CopyWrites, CopyEnds, TaskForgotten
  <2>2. ASSUME NEW d, Fits(d, g) PROVE FitsNow(d, g)
    BY <1>1, <1>7, <2>2, CloudGrounds
  <2>3. \A v \in Worker : Current(v)' <=> Current(v)
    BY <2>1 DEF store, Current
  <2> QED  BY <1>2, <1>5, <2>1, <2>2, <2>3 DEF store
<1>8. ASSUME NEW w \in Worker, Decide(w) PROVE Kept
  <2>1. PICK h \in Hash : h = claim[w].hash
    BY <1>1, <1>8, DecideClaims
  <2>2. /\ Busy(w) /\ claim[w].pc = "deciding" /\ download' = download
        /\ claim'[w].pc = "committing" /\ claim'[w].hash = h
        /\ \A v \in Worker \ {w} : claim'[v] = claim[v]
        /\ \A v \in Worker : Current(v)' <=> Current(v)
    BY <1>1, <1>8, <2>1, DecideClaims DEF store
  <2>3. g # h => offline'[g] = offline[g] /\ copy'[g] = copy[g] /\ disk'[g] = disk[g]
    BY <1>1, <1>8, <2>1, DecideTouches
  <2>4. Working(w, h)
    BY <2>1, <2>2 DEF Working
  <2>5. SameEvidence(download[h], claim[w].d) /\ Staged(claim[w].d) /\ SoundRow(claim[w].d)
    BY <1>1, <1>2, <2>2, <2>4 DEF SoundInv, ClaimsMatchRows
  <2>6. Evident(claim[w].d, offline[h], copy[h], disk[h])
    BY <1>2, <2>5 DEF SameEvidence, Grounded, Evident, OwnsFiles, HasCopyEvidence
  <2>7. Evident(claim[w].d, offline'[h], copy'[h], disk'[h])
    BY <1>1, <1>8, <2>1, <2>5, <2>6, DecideKeepsEvidence
  <2>8. Grounded(claim'[w].d, offline'[h], copy'[h], disk'[h]) /\ Staged(claim'[w].d)
    BY <1>1, <1>8, <2>1, <2>5, <2>6, DecideGrounds
  <2>9. download[h].state \notin Resting /\ \A v \in Worker \ {w} : ~Promised(v, h)
    BY <1>1, <2>4, NobodyElse DEF Promised, Committing
  <2>10. FitsNow(download[h], h)
    <3>1. Evident(download[h], offline'[h], copy'[h], disk'[h])
      BY <2>5, <2>7 DEF SameEvidence, Evident, OwnsFiles, HasCopyEvidence
    <3> QED  BY <1>2, <2>9, <3>1 DEF Grounded
  <2>11. FitsNow(download'[g], g)
    BY <1>2, <1>4, <2>2, <2>3, <2>10
  <2>12. ASSUME NEW v \in Worker, Promised(v, g)' PROVE FitsNow(claim'[v].d, g)
    <3>1. CASE v = w
      BY <2>2, <2>8, <2>12, <3>1 DEF Promised
    <3>2. CASE v # w
      <4>1. Promised(v, g) /\ claim'[v] = claim[v]
        BY <1>5, <2>2, <2>12, <3>2
      <4>2. g # h
        BY <2>9, <3>2, <4>1
      <4> QED  BY <1>2, <1>4, <2>3, <4>1, <4>2
    <3> QED  BY <3>1, <3>2
  <2>13. ASSUME NEW v \in Worker, Working(v, g)'
         PROVE  SameEvidence(download'[g], claim'[v].d) /\ Staged(claim'[v].d)
    <3>1. v # w
      BY <2>2, <2>13 DEF Working
    <3> QED  BY <1>2, <1>5, <2>2, <2>13, <3>1
  <2> QED  BY <2>11, <2>12, <2>13
<1>9. ASSUME NEW w \in Worker, CommitClaim(w) \/ CommitConflict(w) PROVE Kept
  <2>1. PICK h \in Hash : /\ h = claim[w].hash /\ Committing(w) /\ Current(w) /\ claim'[w] = NoClaim
                         /\ UNCHANGED outside
                         /\ Writing(h) /\ Stored(download[h], claim[w].d, download'[h])
    BY <1>1, <1>9, CommitRow
  <2>2. UNCHANGED <<offline, copy, disk>>
    BY <2>1 DEF outside
  <2>3. Fits(claim[w].d, h) /\ SoundRow(claim[w].d)
    BY <1>1, <1>2, <2>1 DEF Promised, Committing, SoundInv, ClaimsMatchRows, LegalSuccessor
  <2>4. FitsNow(download'[g], g)
    <3>1. CASE g = h
      BY <1>2, <2>1, <2>2, <2>3, <3>1, CommitGrounds
    <3>2. CASE g # h
      BY <1>2, <1>4, <2>1, <2>2, <3>2 DEF Writing
    <3> QED  BY <3>1, <3>2
  <2>5. ASSUME NEW v \in Worker, Busy(v)'
        PROVE  claim'[v] = claim[v] /\ (Current(v)' => Current(v))
    BY <2>1, <2>5 DEF Writing
  <2>6. ASSUME NEW v \in Worker, Promised(v, g)' PROVE FitsNow(claim'[v].d, g)
    BY <1>2, <1>4, <1>5, <2>2, <2>5, <2>6 DEF Promised, Committing
  <2>7. ASSUME NEW v \in Worker, Working(v, g)'
        PROVE  SameEvidence(download'[g], claim'[v].d) /\ Staged(claim'[v].d)
    <3>1. Working(v, g) /\ claim'[v] = claim[v]
      BY <1>5, <2>5, <2>7 DEF Working
    <3>2. g # h
      BY <1>1, <2>1, <3>1, NobodyElse DEF Committing, Working
    <3>3. download'[g] = download[g]
      BY <2>1, <3>2 DEF Writing
    <3> QED  BY <1>2, <3>1, <3>3
  <2> QED  BY <2>4, <2>6, <2>7
<1>10. CASE Passing
  <2>1. SamePhase(g) /\ UNCHANGED <<offline, copy, disk>>
    BY <1>10 DEF Passing, outside
  <2>2. FitsNow(download'[g], g)
    BY <1>2, <2>1 DEF SamePhase, SameWishes, SameEvidence, Grounded, Evident, OwnsFiles, HasCopyEvidence, Staged
  <2>3. ASSUME NEW v \in Worker, Busy(v)'
        PROVE  NewClaim(v) \/ (SameClaim(v) /\ (Current(v)' => Current(v)))
    BY <1>10, <2>3 DEF Passing
  <2>4. ASSUME NEW v \in Worker, Promised(v, g)' PROVE FitsNow(claim'[v].d, g)
    <3>1. SameClaim(v) /\ Current(v)
      BY <2>3, <2>4 DEF Promised, Committing, NewClaim
    <3>2. Promised(v, g) /\ claim'[v].d = claim[v].d
      BY <2>4, <3>1 DEF SameClaim, Promised, Committing
    <3> QED  BY <1>2, <1>4, <2>1, <3>2
  <2>5. ASSUME NEW v \in Worker, Working(v, g)'
        PROVE  SameEvidence(download'[g], claim'[v].d) /\ Staged(claim'[v].d)
    <3>1. CASE NewClaim(v)
      BY <1>2, <2>5, <3>1 DEF NewClaim, Working, SameEvidence
    <3>2. CASE SameClaim(v)
      <4>1. Working(v, g) /\ claim'[v].d = claim[v].d
        BY <2>5, <3>2 DEF SameClaim, Working
      <4> QED  BY <1>2, <2>1, <4>1 DEF SamePhase, SameEvidence
    <3> QED  BY <2>3, <2>5, <3>1, <3>2 DEF Working
  <2> QED  BY <2>2, <2>4, <2>5
<1> QED  BY <1>1, <1>6, <1>7, <1>8, <1>9, <1>10, StepKinds

\* While calls respect the operation deadline, a cancelled or deleted download
\* leaves no task running in CloudDrive2: whatever submit, pause, retry or lost
\* claim came before, its last cleanup was confirmed on the tasks it has.
THEOREM NothingLeftRunning ==
  ASSUME AtomicRetry, ~SlowFilesystem
  PROVE  Spec => []NoOrphanedWork
<1>1. WorkInv => NoOrphanedWork
  BY DEF WorkInv, RowsGrounded, Grounded, Idle, NoOrphanedWork
<1>2. WorkInv /\ [Next]_vars => WorkInv'
  BY WorkNext
<1> QED  BY <1>1, <1>2, WorkInit, PTL DEF Spec

\* Under the same assumption, once a download is deleted with its files nothing
\* that CD211 copied is left on disk, also where the row had to prove by its
\* evidence alone that the files were its own.
THEOREM DeletedLeavesNothing ==
  ASSUME AtomicRetry, ~SlowFilesystem
  PROVE  Spec => []DeletedFilesAreGone
<1>1. WorkInv => DeletedFilesAreGone
  BY DEF WorkInv, RowsGrounded, Grounded, Untouched, DeletedFilesAreGone
<1>2. WorkInv /\ [Next]_vars => WorkInv'
  BY WorkNext
<1> QED  BY <1>1, <1>2, WorkInit, PTL DEF Spec
\* Whoever is deciding holds evidence that is true of the world.
LEMMA WorkersSeeTruly ==
  ASSUME WorkInv, NEW w \in Worker, NEW h \in Hash, Working(w, h)
  PROVE  /\ Evident(claim[w].d, offline[h], copy[h], disk[h])
         /\ Staged(claim[w].d) /\ SoundRow(claim[w].d)
<1>1. SameEvidence(download[h], claim[w].d) /\ Staged(claim[w].d)
  BY DEF WorkInv, ClaimsAligned
<1>2. SoundRow(claim[w].d)
  BY DEF WorkInv, SoundInv, ClaimsMatchRows, Working
<1>3. Evident(download[h], offline[h], copy[h], disk[h])
  BY DEF WorkInv, RowsGrounded, Grounded
<1>4. Evident(claim[w].d, offline[h], copy[h], disk[h])
  BY <1>1, <1>3 DEF SameEvidence, Evident, OwnsFiles, HasCopyEvidence
<1> QED  BY <1>1, <1>2, <1>4

\* Nothing is deleted under a copy that is still writing: files go only where
\* the row shows that no copy was ever submitted or that it was removed, and a
\* resubmission clears the workspace of a row that left nothing running.
THEOREM NoDeletionUnderCopies ==
  ASSUME AtomicRetry, ~SlowFilesystem
  PROVE  Spec => NoDeleteUnderLiveCopy
<1>1. ASSUME WorkInv, [Next]_vars, NEW g \in Hash, disk[g] # "empty", disk'[g] = "empty"
      PROVE  copy[g] # "active"
  <2>1. LeaseInv /\ QuietInv /\ TypeOK
    BY <1>1 DEF WorkInv, LeaseInv, QuietInv
  <2>2. ASSUME NEW h \in Hash, Operator(h) PROVE copy[g] # "active"
    <3>1. g = h /\ (Submits(h, download'[h]) \/ Redirects(h, download'[h]))
      BY <1>1, <2>1, <2>2, OperatorRow
    <3>2. download[g].state \in {"ABSENT", "DELETED"}
      BY <1>1, <3>1 DEF Submits, Redirects
    <3> QED  BY <1>1, <3>2 DEF WorkInv, RowsGrounded, Grounded, Idle
  <2>3. ASSUME NEW h \in Hash, Cloud(h) \/ ContentLost(h) PROVE copy[g] # "active"
    BY <1>1, <2>1, <2>3 DEF TypeOK, Cloud, ContentLost, OfflineEnds, CopyWrites, CopyEnds, TaskForgotten
  <2>4. ASSUME NEW w \in Worker, Decide(w) PROVE copy[g] # "active"
    <3>1. g = claim[w].hash /\ Touches(claim[w].d, g)
      BY <1>1, <2>1, <2>4, DecideTouches
    <3>2. MayDeleteFiles(claim[w].d)
      BY <1>1, <3>1 DEF Touches
    <3>3. Working(w, g)
      BY <2>1, <2>4, <3>1, DecideClaims DEF Working
    <3> QED  BY <1>1, <3>2, <3>3, WorkersSeeTruly DEF MayDeleteFiles, Evident, SoundRow, Sound
  <2>5. ASSUME NEW w \in Worker, CommitClaim(w) \/ CommitConflict(w) PROVE copy[g] # "active"
    BY <1>1, <2>1, <2>5, CommitRow DEF outside
  <2>6. CASE Passing
    BY <1>1, <2>6 DEF Passing, outside
  <2> QED  BY <1>1, <2>1, <2>2, <2>3, <2>4, <2>5, <2>6, StepKinds
<1>2. WorkInv /\ [Next]_vars => [\A h \in Hash : disk[h] # "empty" /\ disk'[h] = "empty" => copy[h] # "active"]_vars
  BY <1>1
<1>3. WorkInv /\ [Next]_vars => WorkInv'
  BY WorkNext
<1> QED  BY <1>2, <1>3, WorkInit, PTL DEF Spec, NoDeleteUnderLiveCopy
-----------------------------------------------------------------------------
(* A download that is being paused.                                          *)

\* Content that was found once, or a copy that was reported complete, is not
\* copied again: no task can start under it. That takes more than the row's
\* status. Where a retry may send a row with content back to the copy, it rests
\* on the preflight, which finds the content in the way; where content may be
\* lost, on there being no retry.
Once(d, o, c, k) ==
  /\ CopyFinished(d) \/ d.upstream = "copy:COMPLETED" => c # "active"
  /\ d.upstream = "destination_clear" => ~d.content
  /\ d.upstream = "retained" => d.content
  /\ d.state = "WAITING_COPY" => ~d.content /\ d.upstream # "destination_clear"
  /\ d.state = "VERIFYING_LOCAL" => d.content \/ d.upstream = "copy:COMPLETED"
  /\ d.content /\ ~LeftOver(d) /\ d.state \notin {"DELETE_REQUESTED", "DELETED"} =>
       k # "empty" \/ "retry" \notin Intents
  /\ d.state = "SUBMITTING_COPY" /\ d.content => "retry" \in Intents
  /\ d.state = "STOPPED" => Idle(o, c)

RowsOnce == \A h \in Hash : Once(download[h], offline[h], copy[h], disk[h])

ClaimsOnce ==
  \A w \in Worker, h \in Hash : Promised(w, h) \/ Working(w, h) =>
    Once(claim[w].d, offline[h], copy[h], disk[h])

\* A delete is not taken back, whatever is asked for while it is carried out.
DeletesAligned ==
  \A w \in Worker, h \in Hash : Working(w, h) /\ claim[w].d.state = "DELETE_REQUESTED" =>
    download[h].state = "DELETE_REQUESTED"

PausedInv == WorkInv /\ RowsOnce /\ ClaimsOnce /\ DeletesAligned
\* What decide makes of a row: the phases it may go to with which evidence of
\* content, and what it has just seen of the tasks and of the workspace.
Alike(d, a) == a.content = d.content /\ a.upstream = d.upstream /\ a.isolated = d.isolated

MovesOn(d, a) ==
  /\ Alike(d, a)
  /\ \/ a.state = d.state
     \/ a.state = "FAILED" /\ d.state # "DELETE_REQUESTED"
     \/ d.state = "ACCEPTED" /\ a.state = "SUBMITTING_OFFLINE"
     \/ d.state = "CANCEL_REQUESTED" /\ a.state = "CANCELLED"
     \/ d.state = "CANCEL_REQUESTED" /\ a.state = "STOPPED" /\ CopyFinished(d)
     \/ d.state = "DELETE_REQUESTED" /\ a.state = "DELETED"

HearsOfOffline(d, a) ==
  /\ d.state \in EarlyStates /\ a.content = d.content /\ a.isolated = d.isolated
  /\ a.state \in {"SUBMITTING_OFFLINE", "WAITING_OFFLINE", "SUBMITTING_COPY", "FAILED"}
  /\ a.upstream \in {"none", "offline:ACTIVE", "offline:FINISHED", "offline:ERROR"}

HearsOfCopy(h, d, a) ==
  /\ d.state = "WAITING_COPY" \/ (d.state = "SUBMITTING_COPY" /\ StatusIs(d, "destination_clear"))
  /\ a.content = d.content /\ a.isolated = d.isolated
  /\ \/ a.upstream = "copy:ACTIVE" /\ a.state = "WAITING_COPY"
     \/ /\ a.upstream = "copy:COMPLETED" /\ copy'[h] = "completed"
        /\ a.state \in {"WAITING_COPY", "VERIFYING_LOCAL"}
     \/ a.upstream = "copy:FAILED" /\ a.state = "FAILED"

Prepares(h, d, a) ==
  /\ d.state = "SUBMITTING_COPY" /\ a.state = d.state
  /\ \/ LeftOver(d) /\ ~a.content /\ a.upstream = "offline:FINISHED" /\ disk'[h] = "empty"
     \/ /\ ~LeftOver(d) /\ disk[h] = "empty" /\ disk' = disk
        /\ a.content = d.content /\ a.isolated = d.isolated /\ a.upstream = "destination_clear"

FindsContent(h, d, a) ==
  /\ a.content /\ a.upstream = d.upstream /\ a.isolated = d.isolated /\ Verifies(h) /\ disk' = disk
  /\ \/ d.state = "WAITING_COPY" /\ copy'[h] = "none" /\ a.state = "VERIFYING_LOCAL"
     \/ d.state = "VERIFYING_LOCAL" /\ a.state = "COMPLETED"

Pauses(h, d, a) ==
  /\ d.state = "CANCEL_REQUESTED" /\ d.pauseRequested /\ ~CopyFinished(d) /\ a.state = "STOPPED"
  /\ a.content = d.content /\ a.isolated = d.isolated
  /\ \/ ~d.source /\ a.upstream = "none" /\ offline'[h] = "none"
     \/ d.source /\ d.mark = "removed" /\ a.upstream = "offline:FINISHED"

Shifts(h, d, a) ==
  \/ MovesOn(d, a) \/ HearsOfOffline(d, a) \/ HearsOfCopy(h, d, a)
  \/ Prepares(h, d, a) \/ FindsContent(h, d, a) \/ Pauses(h, d, a)

\* A workspace is cleared for a new copy, for want of content, or for good.
Clears(h, d) ==
  disk'[h] = "empty" => \/ disk[h] = "empty" \/ LeftOver(d) \/ d.state = "DELETE_REQUESTED"
                        \/ ~d.content /\ d.state = "CANCEL_REQUESTED" /\ d.pauseRequested

LEMMA DecideShifts ==
  ASSUME QuietInv, NEW w \in Worker, NEW h \in Hash, h = claim[w].hash, Decide(w), SoundRow(claim[w].d)
  PROVE  Shifts(h, claim[w].d, claim'[w].d) /\ Clears(h, claim[w].d)
<1> DEFINE d == claim[w].d
           Fine(e) == Shifts(h, d, e)
           Concluded == (\E e : Decided(w, e) /\ Fine(e)) /\ Clears(h, d)
<1>1. Busy(w) /\ claim[w].pc = "deciding" /\ d \in Download /\ d.state \in Workable /\ SoundRow(d)
  BY DecideClaims
<1>2. /\ offline[h] \in OfflineTasks /\ copy[h] \in CopyTasks /\ disk[h] \in DiskContents
      /\ EnsuredOffline(h)[h] \in OfflineTasks \ {"none"} /\ CancelledOffline(h)[h] = "none"
      /\ EnsuredCopy(h)[h] \in CopyTasks \ {"none"} /\ RemovedCopy(h)[h] = "none" /\ Emptied(h)[h] = "empty"
      /\ \A after \in Interrupted(h) : after[h] = "empty" => disk[h] = "empty"
  BY DEF QuietInv, TypeOK, OfflineTasks, CopyTasks, EnsuredOffline, CancelledOffline, EnsuredCopy,
         RemovedCopy, Emptied, Interrupted, MayLand
\* Moving on needs no more than the phase.
<1>3. ASSUME NEW e, NEW s, InPhase(d, e, s),
             \/ s = d.state
             \/ s = "FAILED" /\ d.state # "DELETE_REQUESTED"
             \/ d.state = "ACCEPTED" /\ s = "SUBMITTING_OFFLINE"
             \/ d.state = "CANCEL_REQUESTED" /\ s = "STOPPED" /\ CopyFinished(d)
             \/ d.state = "DELETE_REQUESTED" /\ s = "DELETED"
      PROVE  Fine(e)
  BY <1>3 DEF InPhase, SameEvidence, Shifts, MovesOn, Alike
<1>4. SUFFICES Concluded
  <2>1. PICK e : Decided(w, e) /\ Fine(e)
    BY <1>4
  <2>2. InPhase(d, RetryLater(d, "other"), d.state)
    BY <1>1, PhaseColumns DEF Problems
  <2>3. Fine(RetryLater(d, "other"))
    BY <1>3, <2>2
  <2> HIDE DEF Fine
  <2>4. Fine(claim'[w].d)
    BY <1>1, <2>1, <2>3, DecidedRow DEF QuietInv
  <2> QED  BY <1>4, <2>4 DEF Fine
<1>5. /\ Fine(Poll(d)) /\ Fine(RetryLater(d, "other")) /\ Fine(RetryLater(d, "unavailable"))
      /\ \A p \in Problems : Fine(CleanupProblem(d, p))
      /\ d.state # "DELETE_REQUESTED" => \A p \in Problems : Fine(Fail(d, p))
  <2>1. ASSUME NEW p \in Problems, d.state # "DELETE_REQUESTED" PROVE Fine(Fail(d, p))
    BY <1>1, <1>3, <2>1, PhaseColumns
  <2>2. ASSUME NEW p \in Problems PROVE Fine(CleanupProblem(d, p)) /\ Fine(RetryLater(d, p))
    BY <1>1, <1>3, PhaseColumns
  <2>3. Fine(Poll(d))
    BY <1>1, <1>3, PhaseColumns
  <2> QED  BY <2>1, <2>2, <2>3 DEF Problems
<1> HIDE DEF Fine
<1>6. ASSUME NEW fault, NEW b \in BOOLEAN
      PROVE  /\ d.state # "DELETE_REQUESTED" => Fine(CloudFailure(d, fault, b)) /\ Fine(LocalFailure(d, fault))
             /\ Fine(CleanupFailure(d, fault))
  BY <1>5 DEF CloudFailure, LocalFailure, CleanupFailure, Problems
\* The status a decision writes, and the phase it then goes to.
<1>7. ASSUME NEW u \in Upstreams
      PROVE  LET e == SetStatus(d, u)
                 Is(f, s) == /\ f.state = s /\ f.upstream = u /\ f.content = d.content
                             /\ f.isolated = d.isolated
             IN  /\ Is(Poll(e), d.state) /\ Is(Fail(e, "other"), "FAILED") /\ Is(Quieted(e, "STOPPED"), "STOPPED")
                 /\ \A s \in Active : Is(Advance(e, s), s)
  <2> DEFINE e == SetStatus(d, u)
             Is(f, s) == f.state = s /\ f.upstream = u /\ f.content = d.content /\ f.isolated = d.isolated
  <2>1. e \in Download /\ WithStatus(d, e, "none", u) /\ e.state = d.state
    BY <1>1, StatusColumns DEF WithStatus
  <2> HIDE DEF e
  <2>2. ASSUME NEW f, NEW s, InPhase(e, f, s) PROVE Is(f, s)
    BY <2>1, <2>2 DEF InPhase, SameEvidence, WithStatus
  <2> HIDE DEF Is
  <2>3. Is(Poll(e), d.state) /\ Is(Fail(e, "other"), "FAILED") /\ Is(Quieted(e, "STOPPED"), "STOPPED")
    BY <2>1, <2>2, PhaseColumns DEF Problems
  <2>4. ASSUME NEW s \in Active PROVE Is(Advance(e, s), s)
    BY <2>1, <2>2, PhaseColumns
  <2> QED  BY <2>3, <2>4 DEF e, Is
<1> USE DEF RowStep, OfflineStep, CopyStep, DiskStep, Deciding, CloudStep, outside
<1>8. disk' = disk => Clears(h, d)
  BY DEF Clears
<1>9. CASE PhaseTimeout(w) \/ OperationOverran(w) \/ BeginOffline(w)
  <2>1. disk' = disk
    BY <1>9 DEF PhaseTimeout, OperationOverran, BeginOffline
  <2>2. CASE PhaseTimeout(w)
    <3>1. d.state # "DELETE_REQUESTED"
      BY <1>1, <2>2 DEF PhaseTimeout, SoundRow, Sound
    <3> QED  BY <1>5, <1>8, <2>1, <2>2, <3>1 DEF PhaseTimeout, DeadlineProblem, Problems
  <2>3. CASE OperationOverran(w)
    <3>1. Fine(d)
      BY <1>1, <1>3 DEF InPhase, SameWishes, SameEvidence
    <3> QED  BY <1>8, <2>1, <2>3, <3>1 DEF OperationOverran
  <2>4. CASE BeginOffline(w)
    <3>1. d.state = "ACCEPTED" /\ Decided(w, Advance(d, "SUBMITTING_OFFLINE"))
      BY <2>4 DEF BeginOffline
    <3>2. InPhase(d, Advance(d, "SUBMITTING_OFFLINE"), "SUBMITTING_OFFLINE")
      BY <1>1, PhaseColumns
    <3> QED  BY <1>3, <1>8, <2>1, <3>1, <3>2
  <2> QED  BY <1>9, <2>2, <2>3, <2>4
\* The offline task.
<1>10. ASSUME d.state \in {"SUBMITTING_OFFLINE", "WAITING_OFFLINE"}
       PROVE  /\ Fine(Poll(SetStatus(d, "none")))
              /\ \A task \in OfflineTasks \ {"none"} : Fine(OfflineReported(d, task))
  <2>1. ASSUME NEW e, e.content = d.content, e.isolated = d.isolated,
               e.state \in {"SUBMITTING_OFFLINE", "WAITING_OFFLINE", "SUBMITTING_COPY", "FAILED"},
               e.upstream \in {"none", "offline:ACTIVE", "offline:FINISHED", "offline:ERROR"}
        PROVE  Fine(e)
    BY <1>10, <2>1 DEF Fine, Shifts, HearsOfOffline, EarlyStates
  <2>2. Fine(Poll(SetStatus(d, "none")))
    <3> DEFINE f == Poll(SetStatus(d, "none"))
    <3>1. "none" \in Upstreams
      BY DEF Upstreams
    <3>2. f.state = d.state /\ f.upstream = "none" /\ f.content = d.content /\ f.isolated = d.isolated
      BY <1>7, <3>1
    <3> HIDE DEF f
    <3>3. f.state \in {"SUBMITTING_OFFLINE", "WAITING_OFFLINE"}
      BY <1>10, <3>2
    <3>4. Fine(f)
      BY <2>1, <3>2, <3>3
    <3> QED  BY <3>4 DEF f
  <2>3. Fine(OfflineReported(d, "active"))
    <3> DEFINE e == SetStatus(d, "offline:ACTIVE")
               Is(f, s) == /\ f.state = s /\ f.upstream = "offline:ACTIVE"
                           /\ f.content = d.content /\ f.isolated = d.isolated
    <3>1. "offline:ACTIVE" \in Upstreams /\ "WAITING_OFFLINE" \in Active
      BY DEF Upstreams, Active, Resting, States
    <3>2. Is(Poll(e), d.state) /\ Is(Advance(e, "WAITING_OFFLINE"), "WAITING_OFFLINE")
      BY <1>7, <3>1
    <3>3. OfflineReported(d, "active") = Poll(e) \/ OfflineReported(d, "active") = Advance(e, "WAITING_OFFLINE")
      BY DEF OfflineReported
    <3> HIDE DEF e
    <3> QED  BY <1>10, <2>1, <3>2, <3>3
  <2>4. Fine(OfflineReported(d, "error"))
    <3> DEFINE f == Fail(SetStatus(d, "offline:ERROR"), "other")
    <3>1. OfflineReported(d, "error") = f
      BY DEF OfflineReported
    <3>2. "offline:ERROR" \in Upstreams
      BY DEF Upstreams
    <3>3. /\ f.state = "FAILED" /\ f.upstream = "offline:ERROR"
          /\ f.content = d.content /\ f.isolated = d.isolated
      BY <1>7, <3>2
    <3> HIDE DEF f
    <3> QED  BY <2>1, <3>1, <3>3
  <2>5. Fine(OfflineReported(d, "finished"))
    <3> DEFINE e == Advance(SetStatus(d, "offline:FINISHED"), "SUBMITTING_COPY")
               f == [e EXCEPT !.result = TRUE]
    <3>1. /\ e.state = "SUBMITTING_COPY" /\ e.upstream = "offline:FINISHED"
          /\ e.content = d.content /\ e.isolated = d.isolated
      BY <1>7 DEF Upstreams
    <3>2. e \in Download
      <4>1. SetStatus(d, "offline:FINISHED") \in Download
        BY <1>1, StatusColumns DEF WithStatus, Upstreams
      <4> QED  BY <4>1, PhaseColumns DEF InPhase
    <3>3. OfflineReported(d, "finished") = f
      BY DEF OfflineReported
    <3> HIDE DEF e
    <3>4. f.state = e.state /\ f.upstream = e.upstream /\ f.content = e.content /\ f.isolated = e.isolated
      BY <3>2, PathColumns
    <3> HIDE DEF f
    <3> QED  BY <2>1, <3>1, <3>3, <3>4
  <2> QED  BY <2>2, <2>3, <2>4, <2>5 DEF OfflineTasks
<1>11. CASE RetryCancelOffline(w) \/ EnsureOffline(w) \/ InspectOffline(w)
  <2>1. disk' = disk /\ d.state \in {"SUBMITTING_OFFLINE", "WAITING_OFFLINE"}
    BY <1>11 DEF RetryCancelOffline, EnsureOffline, InspectOffline
  <2>2. \/ Decided(w, Poll(SetStatus(d, "none"))) \/ Decided(w, Poll(d))
        \/ \E task \in OfflineTasks \ {"none"} : Decided(w, OfflineReported(d, task))
        \/ \E fault \in CloudFaults : Decided(w, CloudFailure(d, fault, FALSE))
    BY <1>2, <1>11 DEF RetryCancelOffline, EnsureOffline, InspectOffline
  <2> QED  BY <1>5, <1>6, <1>8, <1>10, <2>1, <2>2
\* The way to the copy.
<1>12. CASE ResolveCopySource(w)
  <2> DEFINE e == [d EXCEPT !.source = TRUE]
  <2>1. e \in Download /\ e.state = d.state /\ Alike(d, e)
    BY <1>1, PathColumns DEF Alike
  <2>2. /\ d.state = "SUBMITTING_COPY" /\ disk' = disk
        /\ \/ Decided(w, Poll(e)) \/ Decided(w, Fail(d, "other"))
           \/ \E fault \in CloudFaults : Decided(w, CloudFailure(d, fault, TRUE))
    BY <1>12 DEF ResolveCopySource
  <2> HIDE DEF e
  <2>3. InPhase(e, Poll(e), d.state)
    BY <2>1, PhaseColumns
  <2>4. Fine(Poll(e))
    BY <2>1, <2>3 DEF InPhase, SameEvidence, Fine, Shifts, MovesOn, Alike
  <2> QED  BY <1>5, <1>6, <1>8, <2>2, <2>4 DEF Problems
<1>13. CASE ReserveDestination(w)
  <2> DEFINE e == [d EXCEPT !.destination = TRUE]
  <2>1. e \in Download /\ e.state = d.state /\ Alike(d, e)
    BY <1>1, PathColumns DEF Alike
  <2>2. disk' = disk /\ Decided(w, Poll(e))
    BY <1>13 DEF ReserveDestination
  <2> HIDE DEF e
  <2>3. InPhase(e, Poll(e), d.state)
    BY <2>1, PhaseColumns
  <2>4. Fine(Poll(e))
    BY <2>1, <2>3 DEF InPhase, SameEvidence, Fine, Shifts, MovesOn, Alike
  <2> QED  BY <1>8, <2>2, <2>4
\* A mark changes nothing of this.
<1>14. /\ Fine(Poll(MarkCopyRemoved(d))) /\ Fine(Poll(MarkStopped(d)))
       /\ d.state = "CANCEL_REQUESTED" => Fine(Quieted(MarkStopped(d), "CANCELLED"))
  <2>1. ASSUME NEW e \in {MarkCopyRemoved(d), MarkCleanupCancelled(d)}
        PROVE  Fine(Poll(e)) /\ (d.state = "CANCEL_REQUESTED" => Fine(Quieted(e, "CANCELLED")))
    <3>1. e \in Download /\ e.state = d.state /\ Alike(d, e)
      BY <1>1, StatusColumns DEF WithStatus, Alike
    <3>2. InPhase(e, Poll(e), d.state) /\ InPhase(e, Quieted(e, "CANCELLED"), "CANCELLED")
      BY <3>1, PhaseColumns
    <3> QED  BY <3>1, <3>2 DEF InPhase, SameEvidence, Fine, Shifts, MovesOn, Alike
  <2> QED  BY <2>1 DEF MarkStopped
<1>15. CASE RetryRemoveCopy(w)
  <2>1. /\ d.state = "SUBMITTING_COPY" /\ disk' = disk
        /\ \/ Decided(w, Poll(MarkCopyRemoved(d)))
           \/ \E fault \in CloudFaults : Decided(w, CloudFailure(d, fault, FALSE))
    BY <1>15 DEF RetryRemoveCopy, CopyRung
  <2> QED  BY <1>6, <1>8, <1>14, <2>1
<1>16. CASE RetryDeleteCopy(w)
  <2> DEFINE e == SetStatus(d, "offline:FINISHED")
             f == [e EXCEPT !.isolated = TRUE, !.content = FALSE]
  <2>1. /\ d.state = "SUBMITTING_COPY" /\ LeftOver(d)
        /\ \/ disk' = Emptied(h) /\ Decided(w, Poll(f))
           \/ disk' \in Interrupted(h) /\ Decided(w, Fail(d, "local"))
    BY <1>16 DEF RetryDeleteCopy, CopyRung
  <2>2. e \in Download /\ WithStatus(d, e, "none", "offline:FINISHED")
    BY <1>1, StatusColumns DEF WithStatus, Upstreams
  <2> HIDE DEF e
  <2>3. f \in Download /\ f.state = e.state /\ ~f.content /\ f.upstream = e.upstream
    BY <2>2, PathColumns
  <2> HIDE DEF f
  <2>4. InPhase(f, Poll(f), f.state)
    BY <2>3, PhaseColumns
  <2>5. disk'[h] = "empty" => Fine(Poll(f))
    BY <2>1, <2>2, <2>3, <2>4 DEF InPhase, SameEvidence, WithStatus, Fine, Shifts, Prepares
  <2>6. "local" \in Problems
    BY DEF Problems
  <2> QED  BY <1>2, <1>5, <2>1, <2>5, <2>6 DEF Clears
<1>17. CASE PreflightLocal(w)
  <2>1. /\ d.state = "SUBMITTING_COPY" /\ disk' = disk /\ ~LeftOver(d)
        /\ \/ disk[h] = "empty" /\ Decided(w, Poll(SetStatus(d, "destination_clear")))
           \/ Decided(w, Fail(d, "other"))
           \/ \E fault \in DeleteFaults : Decided(w, LocalFailure(d, fault))
    BY <1>17 DEF PreflightLocal, CopyRung
  <2>2. ASSUME disk[h] = "empty" PROVE Fine(Poll(SetStatus(d, "destination_clear")))
    <3> DEFINE f == Poll(SetStatus(d, "destination_clear"))
    <3>1. "destination_clear" \in Upstreams
      BY DEF Upstreams
    <3>2. /\ f.state = d.state /\ f.upstream = "destination_clear"
          /\ f.content = d.content /\ f.isolated = d.isolated
      BY <1>7, <3>1
    <3> HIDE DEF f
    <3>3. Prepares(h, d, f)
      BY <2>1, <2>2, <3>2 DEF Prepares
    <3>4. Fine(f)
      BY <3>3 DEF Fine, Shifts
    <3> QED  BY <3>4 DEF f
  <2>3. "other" \in Problems
    BY DEF Problems
  <2> QED  BY <1>5, <1>6, <1>8, <2>1, <2>2, <2>3
\* The copy.
<1>18. ASSUME d.state = "WAITING_COPY" \/ (d.state = "SUBMITTING_COPY" /\ StatusIs(d, "destination_clear")),
              NEW task \in CopyTasks \ {"none"}, task = "completed" => copy'[h] = "completed"
       PROVE  Fine(CopyReported(d, task))
  <2>1. CASE task = "active"
    BY <1>7, <1>18, <2>1 DEF CopyReported, Upstreams, Fine, Shifts, HearsOfCopy
  <2>2. CASE task = "completed"
    BY <1>7, <1>18, <2>2 DEF CopyReported, Upstreams, Fine, Shifts, HearsOfCopy
  <2>3. CASE task = "failed"
    BY <1>7, <1>18, <2>3 DEF CopyReported, Upstreams, Fine, Shifts, HearsOfCopy
  <2> QED  BY <1>18, <2>1, <2>2, <2>3 DEF CopyTasks
<1>19. CASE EnsureCopy(w)
  <2>1. /\ d.state = "SUBMITTING_COPY" /\ StatusIs(d, "destination_clear") /\ disk' = disk
        /\ \/ copy' = EnsuredCopy(h) /\ Decided(w, CopyReported(d, EnsuredCopy(h)[h]))
           \/ \E fault \in CloudFaults : Decided(w, CloudFailure(d, fault, TRUE))
           \/ \E fault \in DeleteFaults : Decided(w, LocalFailure(d, fault))
    BY <1>19 DEF EnsureCopy, CopyRung
  <2> QED  BY <1>2, <1>6, <1>8, <1>18, <2>1
<1>20. ASSUME d.state \in {"WAITING_COPY", "VERIFYING_LOCAL"}, NEW verified, Verifies(h) => Fine(verified),
              NEW e \in VerifyOutcomes(d, h, verified)
       PROVE  Fine(e)
  BY <1>5, <1>6, <1>20 DEF VerifyOutcomes, Verification, Problems
<1>21. CASE InspectCopy(w)
  <2> DEFINE e == [d EXCEPT !.content = TRUE]
  <2>1. e \in Download /\ e.state = d.state /\ e.content /\ e.isolated = d.isolated /\ e.upstream = d.upstream
    BY <1>1, PathColumns
  <2>2. /\ d.state = "WAITING_COPY" /\ disk' = disk /\ copy' = copy
        /\ \/ copy[h] # "none" /\ Decided(w, CopyReported(d, copy[h]))
           \/ copy[h] = "none" /\ \E f \in VerifyOutcomes(d, h, Advance(e, "VERIFYING_LOCAL")) : Decided(w, f)
           \/ \E fault \in CloudFaults : Decided(w, CloudFailure(d, fault, TRUE))
    BY <1>21 DEF InspectCopy
  <2> HIDE DEF e
  <2>3. InPhase(e, Advance(e, "VERIFYING_LOCAL"), "VERIFYING_LOCAL")
    BY <2>1, PhaseColumns
  <2>4. copy[h] = "none" /\ Verifies(h) => Fine(Advance(e, "VERIFYING_LOCAL"))
    BY <2>1, <2>2, <2>3 DEF InPhase, SameEvidence, Fine, Shifts, FindsContent
  <2> QED  BY <1>2, <1>6, <1>8, <1>18, <1>20, <2>2, <2>4
<1>22. CASE VerifyLocal(w)
  <2>1. PICK e \in Download : e = Quieted(d, "COMPLETED") /\ InPhase(d, e, "COMPLETED")
    BY <1>1, PhaseColumns DEF InPhase
  <2> DEFINE f == [e EXCEPT !.content = TRUE, !.completed = TRUE]
  <2>2. f.state = "COMPLETED" /\ f.content /\ f.isolated = d.isolated /\ f.upstream = d.upstream
    BY <2>1, PathColumns DEF InPhase, SameEvidence
  <2>3. d.state = "VERIFYING_LOCAL" /\ disk' = disk /\ \E g \in VerifyOutcomes(d, h, f) : Decided(w, g)
    BY <1>22, <2>1 DEF VerifyLocal
  <2> HIDE DEF f
  <2>4. Verifies(h) => Fine(f)
    BY <2>2, <2>3 DEF Fine, Shifts, FindsContent
  <2> QED  BY <1>8, <1>20, <2>3, <2>4
\* Cleanup.
<1>23. ASSUME NEW done, StopUpstream(w, done), d.source \/ offline'[h] = "none" => Fine(done) PROVE Concluded
  <2>1. disk' = disk
    BY <1>23 DEF StopUpstream
  <2>2. \/ Decided(w, done) /\ (d.source \/ offline'[h] = "none")
        \/ \E fault \in CloudFaults : Decided(w, CleanupFailure(d, fault))
    BY <1>2, <1>23 DEF StopUpstream, MayLand
  <2> QED  BY <1>6, <1>8, <1>23, <2>1, <2>2
<1>24. CASE CancelUpstream(w)
  BY <1>14, <1>23, <1>24 DEF CancelUpstream
<1>25. CASE DeleteUpstream(w)
  BY <1>14, <1>23, <1>25 DEF DeleteUpstream
<1>26. CASE PauseFinishedCopy(w)
  <2>1. /\ d.state = "CANCEL_REQUESTED" /\ CopyFinished(d) /\ disk' = disk
        /\ Decided(w, Quieted(d, "STOPPED"))
    BY <1>26 DEF PauseFinishedCopy, Pausing
  <2>2. InPhase(d, Quieted(d, "STOPPED"), "STOPPED")
    BY <1>1, PhaseColumns
  <2> QED  BY <1>3, <1>8, <2>1, <2>2
<1>27. CASE PauseUpstream(w)
  <2> DEFINE stopped == Quieted(SetStatus(d, "none"), "STOPPED")
  <2>1. /\ d.state = "CANCEL_REQUESTED" /\ d.pauseRequested /\ ~CopyFinished(d)
        /\ StopUpstream(w, IF d.source THEN Poll(MarkCopyRemoved(d)) ELSE stopped)
    BY <1>27 DEF PauseUpstream, Pausing
  <2>2. ~d.source /\ offline'[h] = "none" => Fine(stopped)
    BY <1>7, <2>1 DEF Upstreams, Fine, Shifts, Pauses
  <2> HIDE DEF stopped
  <2> QED  BY <1>14, <1>23, <2>1, <2>2
<1>28. ASSUME NEW done, Fine(done), DeleteFiles(w, done) PROVE \E e : Decided(w, e) /\ Fine(e)
  BY <1>5, <1>28 DEF DeleteFiles, Problems
<1>29. CASE PauseDeleteCopy(w)
  <2> DEFINE stopped == Quieted(SetStatus(d, "offline:FINISHED"), "STOPPED")
  <2>1. /\ d.state = "CANCEL_REQUESTED" /\ d.pauseRequested /\ ~CopyFinished(d) /\ d.source /\ d.mark = "removed"
        /\ \/ DeleteFiles(w, stopped)
           \/ Decided(w, IF HasCopyEvidence(d) THEN Fail(d, "other") ELSE stopped)
    BY <1>29 DEF PauseDeleteCopy, Pausing, CopyRemovalCompleted
  <2>2. Fine(stopped)
    BY <1>7, <2>1 DEF Upstreams, Fine, Shifts, Pauses
  <2>3. Clears(h, d)
    BY <2>1 DEF Clears, CopyFinished
  <2> HIDE DEF stopped
  <2> QED  BY <1>5, <1>28, <2>1, <2>2, <2>3 DEF Problems
<1>30. CASE DeleteLocal(w)
  <2> DEFINE wanted == d.deleteFiles /\ OwnsFiles(d)
             located == d.content \/ HasLocalPath(d)
             deleted == Quieted(d, "DELETED")
  <2>1. /\ d.state = "DELETE_REQUESTED"
        /\ \/ DeleteFiles(w, deleted)
           \/ ~(wanted /\ located) /\ Decided(w, IF wanted THEN Fail(d, "other") ELSE deleted)
    BY <1>30 DEF DeleteLocal
  <2>2. wanted => located
    BY <1>1 DEF OwnsFiles, HasLocalPath, SoundRow, Sound, HasCopyEvidence
  <2>3. InPhase(d, deleted, "DELETED")
    BY <1>1, PhaseColumns
  <2>4. Fine(deleted)
    BY <1>3, <2>1, <2>3
  <2>5. Clears(h, d)
    BY <2>1 DEF Clears
  <2> HIDE DEF deleted
  <2> QED  BY <1>28, <2>1, <2>2, <2>4, <2>5
<1> QED  BY <1>9, <1>11, <1>12, <1>13, <1>15, <1>16, <1>17, <1>19, <1>21, <1>22, <1>24, <1>25, <1>26,
            <1>27, <1>29, <1>30 DEF Decide
\* No copy is submitted under content that was found, and what was found is
\* cleared away only by a delete or with a copy that is started over.
LEMMA DecideKeepsOnce ==
  ASSUME QuietInv, NEW w \in Worker, NEW h \in Hash, h = claim[w].hash, Decide(w), SoundRow(claim[w].d),
         NEW d, SameEvidence(d, claim[w].d), d.state \notin Resting,
         claim[w].d.state = "DELETE_REQUESTED" => d.state = "DELETE_REQUESTED",
         Once(d, offline[h], copy[h], disk[h])
  PROVE  Once(d, offline'[h], copy'[h], disk'[h])
<1>1. Touches(claim[w].d, h) /\ Clears(h, claim[w].d)
  BY DecideTouches, DecideShifts
<1>2. copy'[h] = "active" => copy[h] = "active" \/ d.upstream = "destination_clear"
  BY <1>1 DEF Touches, MaySubmitCopy, StatusIs, SameEvidence
<1>3. CopyFinished(d) \/ d.upstream = "copy:COMPLETED" => copy'[h] # "active"
  BY <1>2 DEF Once, CopyFinished, StatusIs
<1>4. disk'[h] = "empty" => disk[h] = "empty" \/ LeftOver(d) \/ ~d.content \/ d.state = "DELETE_REQUESTED"
  BY <1>1 DEF Clears, LeftOver, SameEvidence
<1> QED  BY <1>3, <1>4 DEF Once

\* So every branch of decide leaves its worker with a row of that kind.
LEMMA DecideOnce ==
  ASSUME QuietInv, NEW w \in Worker, NEW h \in Hash, h = claim[w].hash, Decide(w), SoundRow(claim[w].d),
         Staged(claim[w].d), Evident(claim[w].d, offline[h], copy[h], disk[h]),
         Once(claim[w].d, offline[h], copy[h], disk[h])
  PROVE  Once(claim'[w].d, offline'[h], copy'[h], disk'[h])
<1> DEFINE d == claim[w].d
           a == claim'[w].d
<1>1. d.state \in Workable
  BY DecideClaims
<1>2. Once(d, offline'[h], copy'[h], disk'[h])
  BY <1>1, DecideKeepsOnce DEF SameEvidence
<1>3. Evident(d, offline'[h], copy'[h], disk'[h])
  BY DecideKeepsEvidence
<1>4. Shifts(h, d, a)
  BY DecideShifts
<1>5. (d.destination => d.source) /\ (d.source => d.result) /\ (d.content => d.destination)
      /\ (d.upstream = "copy:COMPLETED" => d.destination)
  BY DEF SoundRow, Sound
<1>6. Once(d, offline[h], copy[h], disk[h]) /\ Staged(d) /\ SoundRow(d)
  OBVIOUS
<1> HIDE DEF d, a
<1> SUFFICES Once(a, offline'[h], copy'[h], disk'[h])
  BY DEF a
<1> USE DEF Once, CopyFinished, LeftOver, StatusIs
<1>7. CASE MovesOn(d, a)
  <2>1. a.content = d.content /\ a.upstream = d.upstream
    BY <1>7 DEF MovesOn, Alike
  <2>2. a.state = "STOPPED" => Idle(offline'[h], copy'[h])
    BY <1>1, <1>2, <1>3, <1>5, <1>7 DEF MovesOn, Idle, Evident
  <2>3. a.content /\ ~LeftOver(a) /\ a.state \notin {"DELETE_REQUESTED", "DELETED"} =>
          disk'[h] # "empty" \/ "retry" \notin Intents
    BY <1>1, <1>2, <1>7, <2>1 DEF MovesOn
  <2>4. /\ a.state = "WAITING_COPY" => ~a.content /\ a.upstream # "destination_clear"
        /\ a.state = "VERIFYING_LOCAL" => a.content \/ a.upstream = "copy:COMPLETED"
        /\ a.state = "SUBMITTING_COPY" /\ a.content => "retry" \in Intents
    BY <1>2, <1>7, <2>1 DEF MovesOn
  <2> QED  BY <1>2, <2>1, <2>2, <2>3, <2>4
<1>8. CASE HearsOfOffline(d, a)
  <2>1. ~a.content
    BY <1>5, <1>6, <1>8 DEF HearsOfOffline, Staged
  <2> QED  BY <1>8, <2>1 DEF HearsOfOffline
<1>9. CASE HearsOfCopy(h, d, a)
  <2>1. ~a.content
    BY <1>6, <1>9 DEF HearsOfCopy
  <2> QED  BY <1>9, <2>1 DEF HearsOfCopy
<1>10. CASE Prepares(h, d, a)
  <2>1. ~a.content
    BY <1>6, <1>10 DEF Prepares
  <2> QED  BY <1>10, <2>1 DEF Prepares
<1>11. CASE FindsContent(h, d, a)
  <2>1. copy'[h] # "active"
    BY <1>2, <1>11 DEF FindsContent
  <2>2. disk'[h] # "empty"
    BY <1>11 DEF FindsContent, Verifies
  <2>3. a.upstream # "destination_clear"
    BY <1>2, <1>11 DEF FindsContent
  <2> QED  BY <1>11, <2>1, <2>2, <2>3 DEF FindsContent
<1>12. CASE Pauses(h, d, a)
  <2>1. Idle(offline'[h], copy'[h])
    BY <1>3, <1>5, <1>12 DEF Pauses, Idle, Evident
  <2> QED  BY <1>2, <1>12, <2>1 DEF Pauses
<1> QED  BY <1>4, <1>7, <1>8, <1>9, <1>10, <1>11, <1>12 DEF Shifts
\* An intent that starts or redirects a row never sends it back to a copy that
\* it has content of, but for a retry.
LEMMA OperatorOnce ==
  ASSUME AtomicRetry, NEW h \in Hash, NEW e, Submits(h, e) \/ Redirects(h, e), SoundRow(download[h]),
         Grounded(download[h], offline[h], copy[h], disk[h]), Once(download[h], offline[h], copy[h], disk[h])
  PROVE  Once(e, offline[h], copy[h], disk'[h])
<1> USE DEF Once, CopyFinished, LeftOver, StatusIs
<1>1. CASE Submits(h, e)
  <2>1. Idle(offline[h], copy[h])
    BY <1>1 DEF Submits, Grounded
  <2>2. e.content => disk'[h] # "empty"
    BY <1>1 DEF Submits, Verifies
  <2> QED  BY <1>1, <2>1, <2>2 DEF Submits, Idle
<1>2. CASE Redirects(h, e)
  <2> DEFINE d == download[h]
  <2>1. disk' = disk /\ e.content = d.content /\ e.upstream = d.upstream /\ e.mark = d.mark
    BY <1>2 DEF Redirects
  \* The phases a row may be redirected to.
  <2>2. \/ e.state = d.state \/ e.state \in Cleanup
        \/ d.state = "STOPPED" /\ e.state = StartTarget(d)
        \/ d.state = "FAILED" /\ e.state \in Active /\ e.state = RetryTarget(d) /\ "retry" \in Intents
        \/ d.state = "COMPLETED" /\ e.state = "VERIFYING_LOCAL"
    BY <1>2 DEF Redirects
  <2>3. d.content => d.result
    BY DEF SoundRow, Sound
  <2>4. CASE d.state = "STOPPED" /\ e.state = StartTarget(d)
    <3>1. /\ e.state \in {"VERIFYING_LOCAL", "SUBMITTING_COPY", "ACCEPTED"}
          /\ e.state = "VERIFYING_LOCAL" => d.content \/ d.upstream = "copy:COMPLETED"
          /\ e.state = "SUBMITTING_COPY" => ~d.content
      BY <2>4 DEF StartTarget
    <3> QED  BY <2>1, <2>4, <3>1
  <2>5. CASE d.state = "FAILED" /\ e.state \in Active /\ e.state = RetryTarget(d) /\ "retry" \in Intents
    <3>1. /\ e.state = "VERIFYING_LOCAL" => d.content \/ d.upstream = "copy:COMPLETED"
          /\ e.state = "WAITING_COPY" => ~d.content /\ d.upstream # "destination_clear"
      BY <2>5 DEF RetryTarget
    <3> QED  BY <2>1, <2>5, <3>1
  <2>6. CASE d.state = "COMPLETED" /\ e.state = "VERIFYING_LOCAL"
    BY <2>1, <2>6 DEF SoundRow, ValidDownload
  <2>7. CASE e.state = d.state
    BY <2>1, <2>7
  <2>8. CASE e.state \in Cleanup /\ e.state # d.state
    <3>1. e.state = "CANCEL_REQUESTED" => d.state \notin {"DELETE_REQUESTED", "DELETED"}
      BY <1>2, <2>8 DEF Redirects, StartTarget
    <3> QED  BY <2>1, <2>8, <3>1
  <2> QED  BY <2>2, <2>4, <2>5, <2>6, <2>7, <2>8
<1> QED  BY <1>1, <1>2

\* What a commit stores is the outcome, or that outcome failed.
LEMMA CommitOnce ==
  ASSUME NEW o, NEW c, NEW k, NEW before, NEW d, NEW e, Stored(before, d, e), LegalSuccessor(before, d),
         Once(d, o, c, k)
  PROVE  Once(e, o, c, k)
<1>1. CASE e = d
  BY <1>1
<1>2. CASE e # d
  <2>1. /\ e.state = "FAILED" /\ ~before.destination /\ d.destination
        /\ e.content = d.content /\ e.mark = d.mark /\ e.upstream = d.upstream
    BY <1>2 DEF Stored
  <2>2. ~d.content
    BY <2>1 DEF LegalSuccessor
  <2> QED  BY <2>1, <2>2 DEF Once, CopyFinished, StatusIs
<1> QED  BY <1>1, <1>2

\* The cloud only writes, unless content may be lost.
LEMMA CloudOnce ==
  ASSUME TypeOK, "retry" \notin Intents \/ "content" \notin Losses, NEW h \in Hash, Cloud(h) \/ ContentLost(h),
         NEW g \in Hash, NEW d, Once(d, offline[g], copy[g], disk[g])
  PROVE  Once(d, offline'[g], copy'[g], disk'[g])
<1> USE DEF Cloud, ContentLost, OfflineEnds, CopyWrites, CopyEnds, TaskForgotten
<1>1. offline'[g] = "active" => offline[g] = "active"
  BY DEF TypeOK
<1>2. copy'[g] = "active" => copy[g] = "active"
  BY DEF TypeOK
<1>3. disk'[g] = "empty" => disk[g] = "empty" \/ "retry" \notin Intents
  BY DEF TypeOK
<1> QED  BY <1>1, <1>2, <1>3 DEF Once, Idle

\* Rows that are absent or only accepted have found nothing.
LEMMA PausedInit == Init => PausedInv
<1> SUFFICES ASSUME Init PROVE PausedInv
  OBVIOUS
<1>1. \A h \in Hash : download[h] \in {NoDownload, LegacyDownload}
  BY DEF Init
<1>2. \A d \in {NoDownload, LegacyDownload} :
        ~d.content /\ d.mark = "none" /\ d.upstream = "none" /\ d.state \in {"ABSENT", "ACCEPTED"}
  <2>1. /\ ~NoDownload.content /\ NoDownload.mark = "none" /\ NoDownload.upstream = "none"
        /\ NoDownload.state = "ABSENT"
    BY DEF NoDownload
  <2>2. /\ ~LegacyDownload.content /\ LegacyDownload.mark = "none" /\ LegacyDownload.upstream = "none"
        /\ LegacyDownload.state = "ACCEPTED"
    BY DEF NoDownload, LegacyDownload, Fresh
  <2> QED  BY <2>1, <2>2
<1>3. RowsOnce
  BY <1>1, <1>2 DEF RowsOnce, Once, CopyFinished, StatusIs
<1>4. \A w \in Worker : ~Busy(w)
  BY DEF Init, Busy, NoClaim
<1>5. ClaimsOnce /\ DeletesAligned
  BY <1>4 DEF ClaimsOnce, DeletesAligned, Promised, Committing, Working
<1> QED  BY <1>3, <1>5, WorkInit DEF PausedInv

\* No step finds a row stopped, or about to be, with something running.
LEMMA PausedNext ==
  ASSUME AtomicRetry, ~SlowFilesystem, "retry" \notin Intents \/ "content" \notin Losses
  PROVE  PausedInv /\ [Next]_vars => PausedInv'
<1> SUFFICES ASSUME PausedInv, [Next]_vars PROVE PausedInv'
  OBVIOUS
<1>1. WorkInv /\ WorkInv' /\ LeaseInv /\ SoundInv /\ QuietInv /\ TypeOK
  BY WorkNext DEF PausedInv, WorkInv, LeaseInv, QuietInv
<1> DEFINE Fits(d, h) == Once(d, offline[h], copy[h], disk[h])
           FitsNow(d, h) == Once(d, offline'[h], copy'[h], disk'[h])
           Held(w, h) == Promised(w, h) \/ Working(w, h)
<1>2. /\ \A h \in Hash : /\ Fits(download[h], h) /\ SoundRow(download[h])
                         /\ Grounded(download[h], offline[h], copy[h], disk[h])
      /\ \A w \in Worker, h \in Hash : Held(w, h) => Fits(claim[w].d, h)
      /\ \A w \in Worker, h \in Hash : Working(w, h) /\ claim[w].d.state = "DELETE_REQUESTED" =>
           download[h].state = "DELETE_REQUESTED"
  BY <1>1 DEF PausedInv, RowsOnce, ClaimsOnce, DeletesAligned, WorkInv, RowsGrounded, SoundInv, RowsSound
<1> DEFINE Aligned(w, h) == Working(w, h)' /\ claim'[w].d.state = "DELETE_REQUESTED" =>
                              download'[h].state = "DELETE_REQUESTED"
<1>3. SUFFICES ASSUME NEW g \in Hash
               PROVE  /\ FitsNow(download'[g], g)
                      /\ \A v \in Worker : Held(v, g)' => FitsNow(claim'[v].d, g)
                      /\ \A v \in Worker : Aligned(v, g)
  BY <1>1 DEF PausedInv, RowsOnce, ClaimsOnce, DeletesAligned
<1> DEFINE Kept == /\ FitsNow(download'[g], g)
                   /\ \A v \in Worker : Held(v, g)' => FitsNow(claim'[v].d, g)
                   /\ \A v \in Worker : Aligned(v, g)
<1>4. ASSUME NEW d, Fits(d, g), offline'[g] = offline[g], copy'[g] = copy[g], disk'[g] = disk[g]
      PROVE  FitsNow(d, g)
  BY <1>4
<1>5. ASSUME NEW v \in Worker, claim'[v] = claim[v]
      PROVE  /\ Promised(v, g)' /\ (Current(v)' => Current(v)) => Promised(v, g)
             /\ Working(v, g)' => Working(v, g)
  BY <1>5 DEF Promised, Committing, Working, Busy
<1>6. ASSUME NEW h \in Hash, Operator(h) PROVE Kept
  <2>1. /\ UNCHANGED <<claim, offline, copy>>
        /\ g # h => download'[g] = download[g] /\ disk'[g] = disk[g]
        /\ Submits(h, download'[h]) \/ Redirects(h, download'[h])
    BY <1>1, <1>6, OperatorRow
  <2>2. UNCHANGED store \/ Writing(h)
    BY <1>1, <1>6, OperatorClaims
  <2>3. UNCHANGED store => disk' = disk
    BY <2>1 DEF store, Submits, Redirects
  <2>4. FitsNow(download'[g], g)
    <3>1. CASE g # h
      BY <1>2, <1>4, <2>1, <3>1
    <3>2. CASE g = h
      BY <1>2, <2>1, <3>2, OperatorOnce
    <3> QED  BY <3>1, <3>2
  <2>5. ASSUME NEW v \in Worker, Working(v, g)'
        PROVE  Working(v, g) /\ claim'[v] = claim[v] /\ disk'[g] = disk[g] /\ Aligned(v, g)
    <3>1. Working(v, g) /\ claim'[v] = claim[v]
      BY <1>5, <2>1, <2>5
    <3>2. download[g].state \notin Resting
      BY <1>1, <3>1, NobodyElse
    <3>3. /\ disk'[g] = disk[g]
          /\ download[g].state = "DELETE_REQUESTED" => download'[g].state = "DELETE_REQUESTED"
      BY <2>1, <3>2 DEF Submits, Redirects
    <3> QED  BY <1>2, <3>1, <3>3
  <2>6. ASSUME NEW v \in Worker, Promised(v, g)'
        PROVE  Promised(v, g) /\ claim'[v] = claim[v] /\ disk'[g] = disk[g]
    <3>1. Busy(v)' /\ Current(v)' /\ claim'[v] = claim[v] /\ claim[v].hash = g
      BY <2>1, <2>6 DEF Promised, Committing
    <3>2. Current(v) /\ disk'[g] = disk[g]
      <4>1. CASE UNCHANGED store
        BY <2>1, <2>3, <3>1, <4>1 DEF store, Current
      <4>2. CASE Writing(h)
        BY <2>1, <3>1, <4>2 DEF Writing
      <4> QED  BY <2>2, <4>1, <4>2
    <3> QED  BY <1>5, <2>6, <3>1, <3>2
  <2>7. ASSUME NEW v \in Worker, Held(v, g)' PROVE FitsNow(claim'[v].d, g)
    <3>1. Held(v, g) /\ claim'[v] = claim[v] /\ disk'[g] = disk[g]
      BY <2>5, <2>6, <2>7
    <3> QED  BY <1>2, <1>4, <2>1, <3>1
  <2>8. \A v \in Worker : Aligned(v, g)
    BY <2>5
  <2> QED  BY <2>4, <2>7, <2>8
<1>7. ASSUME NEW h \in Hash, Cloud(h) \/ ContentLost(h) PROVE Kept
  <2>1. UNCHANGED <<store, claim>>
    BY <1>7 DEF Cloud, ContentLost, OfflineEnds, CopyWrites, CopyEnds, TaskForgotten
  <2>2. ASSUME NEW d, Fits(d, g) PROVE FitsNow(d, g)
    BY <1>1, <1>7, <2>2, CloudOnce
  <2>3. \A v \in Worker : Current(v)' <=> Current(v)
    BY <2>1 DEF store, Current
  <2>4. ASSUME NEW v \in Worker
        PROVE  /\ Held(v, g)' => Held(v, g)
               /\ Working(v, g)' => Working(v, g)
    BY <1>5, <2>1, <2>3
  <2> QED  BY <1>2, <2>1, <2>2, <2>4 DEF store
<1>8. ASSUME NEW w \in Worker, Decide(w) PROVE Kept
  <2>1. PICK h \in Hash : h = claim[w].hash
    BY <1>1, <1>8, DecideClaims
  <2>2. /\ Busy(w) /\ claim[w].pc = "deciding" /\ download' = download
        /\ claim'[w].pc = "committing" /\ claim'[w].hash = h
        /\ \A v \in Worker \ {w} : claim'[v] = claim[v]
        /\ \A v \in Worker : Current(v)' <=> Current(v)
    BY <1>1, <1>8, <2>1, DecideClaims DEF store
  <2>3. g # h => offline'[g] = offline[g] /\ copy'[g] = copy[g] /\ disk'[g] = disk[g]
    BY <1>1, <1>8, <2>1, DecideTouches
  <2>4. Working(w, h)
    BY <2>1, <2>2 DEF Working
  <2>5. /\ Evident(claim[w].d, offline[h], copy[h], disk[h])
        /\ Staged(claim[w].d) /\ SoundRow(claim[w].d) /\ Fits(claim[w].d, h)
    BY <1>1, <1>2, <2>4, WorkersSeeTruly
  <2>6. Once(claim'[w].d, offline'[h], copy'[h], disk'[h])
    BY <1>1, <1>8, <2>1, <2>5, DecideOnce
  <2>7. download[h].state \notin Resting /\ \A v \in Worker \ {w} : ~Held(v, h)
    BY <1>1, <2>4, NobodyElse DEF Promised, Committing, Working
  <2>8. SameEvidence(download[h], claim[w].d)
    BY <1>1, <2>4 DEF WorkInv, ClaimsAligned
  <2>9. FitsNow(download[h], h)
    BY <1>1, <1>2, <1>8, <2>1, <2>4, <2>5, <2>7, <2>8, DecideKeepsOnce
  <2>10. FitsNow(download'[g], g)
    BY <1>2, <1>4, <2>2, <2>3, <2>9
  <2>11. ASSUME NEW v \in Worker, v # w, Held(v, g)' PROVE Held(v, g) /\ claim'[v] = claim[v] /\ g # h
    <3>1. Held(v, g) /\ claim'[v] = claim[v]
      BY <1>5, <2>2, <2>11
    <3> QED  BY <2>7, <2>11, <3>1
  <2>12. ASSUME NEW v \in Worker, Held(v, g)' PROVE FitsNow(claim'[v].d, g)
    <3>1. CASE v = w
      BY <2>2, <2>6, <2>12, <3>1 DEF Promised, Working
    <3>2. CASE v # w
      BY <1>2, <1>4, <2>3, <2>11, <2>12, <3>2
    <3> QED  BY <3>1, <3>2
  <2>13. ASSUME NEW v \in Worker PROVE Aligned(v, g)
    BY <1>2, <1>5, <2>2 DEF Working
  <2> QED  BY <2>10, <2>12, <2>13
<1>9. ASSUME NEW w \in Worker, CommitClaim(w) \/ CommitConflict(w) PROVE Kept
  <2>1. PICK h \in Hash : /\ h = claim[w].hash /\ Committing(w) /\ Current(w) /\ UNCHANGED outside
                         /\ Writing(h) /\ Stored(download[h], claim[w].d, download'[h])
    BY <1>1, <1>9, CommitRow
  <2>2. UNCHANGED <<offline, copy, disk>>
    BY <2>1 DEF outside
  <2>3. Fits(claim[w].d, h) /\ LegalSuccessor(download[h], claim[w].d)
    BY <1>1, <1>2, <2>1 DEF Promised, Committing, SoundInv, ClaimsMatchRows
  <2>4. FitsNow(download'[g], g)
    <3>1. CASE g = h
      BY <2>1, <2>2, <2>3, <3>1, CommitOnce
    <3>2. CASE g # h
      BY <1>2, <1>4, <2>1, <2>2, <3>2 DEF Writing
    <3> QED  BY <3>1, <3>2
  <2>5. ASSUME NEW v \in Worker, Held(v, g)'
        PROVE  claim'[v] = claim[v] /\ Held(v, g) /\ (Working(v, g)' => Working(v, g))
    <3>1. Busy(v)'
      BY <2>5 DEF Promised, Committing, Working
    <3>2. claim'[v] = claim[v] /\ (Current(v)' => Current(v))
      BY <2>1, <3>1 DEF Writing
    <3> QED  BY <1>5, <2>5, <3>2
  <2>6. ASSUME NEW v \in Worker, Held(v, g)' PROVE FitsNow(claim'[v].d, g)
    BY <1>2, <1>4, <2>2, <2>5, <2>6
  <2>7. ASSUME NEW v \in Worker, Working(v, g)' PROVE Aligned(v, g)
    <3>1. Working(v, g) /\ claim'[v] = claim[v]
      BY <2>5, <2>7
    <3>2. g # h
      BY <1>1, <2>1, <3>1, NobodyElse DEF Committing, Working
    <3>3. download'[g] = download[g]
      BY <2>1, <3>2 DEF Writing
    <3> QED  BY <1>2, <3>1, <3>3
  <2> QED  BY <2>4, <2>6, <2>7
<1>10. CASE Passing
  <2>1. SamePhase(g) /\ UNCHANGED <<offline, copy, disk>>
    BY <1>10 DEF Passing, outside
  <2>2. FitsNow(download'[g], g)
    BY <1>2, <2>1 DEF SamePhase, SameEvidence, Once, CopyFinished, LeftOver, StatusIs
  <2>3. ASSUME NEW v \in Worker, Busy(v)'
        PROVE  NewClaim(v) \/ (SameClaim(v) /\ (Current(v)' => Current(v)))
    BY <1>10, <2>3 DEF Passing
  <2>4. ASSUME NEW v \in Worker, Held(v, g)' PROVE FitsNow(claim'[v].d, g)
    <3>1. Busy(v)'
      BY <2>4 DEF Promised, Committing, Working
    <3>2. CASE NewClaim(v)
      <4>1. claim'[v].d = download[g]
        BY <2>4, <3>2 DEF NewClaim, Promised, Committing, Working
      <4> QED  BY <1>2, <1>4, <2>1, <4>1
    <3>3. CASE SameClaim(v) /\ (Current(v)' => Current(v))
      <4>1. Held(v, g) /\ claim'[v].d = claim[v].d
        BY <2>4, <3>3 DEF SameClaim, Promised, Committing, Working
      <4> QED  BY <1>2, <1>4, <2>1, <4>1
    <3> QED  BY <2>3, <3>1, <3>2, <3>3
  <2>5. ASSUME NEW v \in Worker, Working(v, g)' PROVE Aligned(v, g)
    <3>1. CASE NewClaim(v)
      BY <2>5, <3>1 DEF NewClaim, Working
    <3>2. CASE SameClaim(v)
      <4>1. Working(v, g) /\ claim'[v].d = claim[v].d
        BY <2>5, <3>2 DEF SameClaim, Working
      <4> QED  BY <1>2, <2>1, <4>1 DEF SamePhase
    <3> QED  BY <2>3, <2>5, <3>1, <3>2 DEF Working
  <2> QED  BY <2>2, <2>4, <2>5
<1> QED  BY <1>1, <1>6, <1>7, <1>8, <1>9, <1>10, StepKinds

\* A paused download leaves no copy and no unfinished offline task running,
\* although pausing a finished copy calls no one: that its copy is over follows
\* from the row's own evidence, as long as operators do not retry rows whose
\* content somebody removed.
THEOREM PausedMeansStopped ==
  ASSUME AtomicRetry, ~SlowFilesystem, "retry" \notin Intents \/ "content" \notin Losses
  PROVE  Spec => []PauseStopsUpstreamWork
<1>1. PausedInv => PauseStopsUpstreamWork
  BY DEF PausedInv, RowsOnce, Once, Idle, PauseStopsUpstreamWork
<1>2. PausedInv /\ [Next]_vars => PausedInv'
  BY PausedNext
<1> QED  BY <1>1, <1>2, PausedInit, PTL DEF Spec
-----------------------------------------------------------------------------
(* What was at a legacy destination before CD211.                            *)

\* A row that gives decide no reason to touch what is at its destination, unless
\* to end a pause, nor to take it for the download's own.
HandsOff(d) ==
  /\ ~d.isolated /\ ~d.content
  /\ d.upstream \notin CopyReports \cup {"destination_clear", "retained"}
  /\ d.state \notin {"ABSENT", "WAITING_COPY", "VERIFYING_LOCAL", "COMPLETED"}

\* So are the row, every claim of it and every retry that is under way.
Spared(h) ==
  /\ copy[h] = "none" /\ HandsOff(download[h])
  /\ retryPlan[h] \cap {"WAITING_COPY", "VERIFYING_LOCAL"} = {}
  /\ \A w \in Worker : Busy(w) /\ claim[w].hash = h => HandsOff(claim[w].d)

\* Foreign content is never written: where it is, it has been from the start.
ForeignInv == QuietInv /\ \A h \in Hash : disk[h] = "foreign" => Spared(h)

LEMMA ForeignInit == Init => ForeignInv
<1> SUFFICES ASSUME Init PROVE ForeignInv
  OBVIOUS
<1>1. QuietInv
  BY QuietInit
<1>2. ASSUME NEW h \in Hash, disk[h] = "foreign" PROVE Spared(h)
  <2>1. download[h] = LegacyDownload
    BY <1>2 DEF Init, NoDownload
  <2>2. HandsOff(LegacyDownload)
    BY DEF HandsOff, LegacyDownload, Fresh, NoDownload
  <2>3. \A w \in Worker : ~Busy(w)
    BY DEF Init, Busy, NoClaim
  <2> QED  BY <2>1, <2>2, <2>3 DEF Init, Spared
<1> QED  BY <1>1, <1>2 DEF ForeignInv

\* Decide on such a row finds the place taken and fails, or never looks.
LEMMA DecideSpares ==
  ASSUME QuietInv, NEW w \in Worker, NEW h \in Hash, h = claim[w].hash, Decide(w),
         disk[h] = "foreign", copy[h] = "none", HandsOff(claim[w].d)
  PROVE  /\ disk'[h] = "foreign" \/ PauseDeleteCopy(w)
         /\ copy'[h] = "none" /\ HandsOff(claim'[w].d)
<1> DEFINE d == claim[w].d
           Fine(e) == HandsOff(e)
           Concluded == \E e : Decided(w, e) /\ Fine(e)
<1>1. Busy(w) /\ claim[w].pc = "deciding" /\ d \in Download /\ d.state \in Workable
  BY DecideClaims
<1>2. (disk'[h] = "foreign" \/ PauseDeleteCopy(w)) /\ copy'[h] = "none"
  <2>1. copy'[h] = "none"
    BY DecideTouches DEF Touches, MaySubmitCopy, StatusIs, HandsOff
  <2>2. disk'[h] = "foreign" \/ MayDeleteFiles(d)
    BY DecideTouches DEF Touches
  <2>3. ~OwnsFiles(d) /\ ~LeftOver(d)
    BY DEF OwnsFiles, HasCopyEvidence, LeftOver, HandsOff
  <2>4. MayDeleteFiles(d) => d.state = "CANCEL_REQUESTED" /\ d.pauseRequested
    BY <2>3 DEF MayDeleteFiles
  <2>5. ASSUME d.state = "CANCEL_REQUESTED", d.pauseRequested, ~PauseDeleteCopy(w) PROVE disk' = disk
    BY <2>5 DEF Decide, PhaseTimeout, OperationOverran, BeginOffline, RetryCancelOffline, EnsureOffline,
       InspectOffline, ResolveCopySource, ReserveDestination, RetryRemoveCopy, RetryDeleteCopy, CopyRung,
       PreflightLocal, EnsureCopy, InspectCopy, VerifyLocal, CancelUpstream, PauseFinishedCopy, PauseUpstream,
       StopUpstream, DeleteUpstream, DeleteLocal, Deciding, CloudStep, RowStep, OfflineStep, CopyStep, outside
  <2> QED  BY <2>1, <2>2, <2>4, <2>5
<1>3. ASSUME NEW e, NEW s, InPhase(d, e, s), s \notin {"ABSENT", "WAITING_COPY", "VERIFYING_LOCAL", "COMPLETED"}
      PROVE  Fine(e)
  BY <1>3 DEF InPhase, SameWishes, SameEvidence, HandsOff
<1>4. /\ Fine(d) /\ Fine(Poll(d))
      /\ \A p \in Problems : Fine(RetryLater(d, p)) /\ Fine(CleanupProblem(d, p)) /\ Fine(Fail(d, p))
      /\ \A s \in {"DELETED", "STOPPED"} : Fine(Quieted(d, s))
      /\ Fine(Advance(d, "SUBMITTING_OFFLINE"))
  <2>1. d.state \notin {"ABSENT", "WAITING_COPY", "VERIFYING_LOCAL", "COMPLETED"}
    BY DEF HandsOff
  <2>2. /\ Fine(Poll(d)) /\ \A s \in {"DELETED", "STOPPED"} : Fine(Quieted(d, s))
        /\ Fine(Advance(d, "SUBMITTING_OFFLINE"))
    BY <1>1, <1>3, <2>1, PhaseColumns
  <2>3. \A p \in Problems : Fine(RetryLater(d, p)) /\ Fine(CleanupProblem(d, p)) /\ Fine(Fail(d, p))
    BY <1>1, <1>3, <2>1, PhaseColumns
  <2> QED  BY <2>2, <2>3
<1>5. SUFFICES Concluded
  <2>1. PICK e : Decided(w, e) /\ Fine(e)
    BY <1>5
  <2>2. Fine(RetryLater(d, "other"))
    BY <1>4 DEF Problems
  <2> HIDE DEF Fine
  <2>3. Fine(claim'[w].d)
    BY <1>1, <2>1, <2>2, DecidedRow DEF QuietInv
  <2> QED  BY <1>2, <2>3 DEF Fine
\* Another status or mark, and the phase it then goes to.
<1>6. ASSUME NEW e, NEW m, NEW u, WithStatus(d, e, m, u), NEW f, NEW s, InPhase(e, f, s),
             u \notin CopyReports \cup {"destination_clear", "retained"},
             s \notin {"ABSENT", "WAITING_COPY", "VERIFYING_LOCAL", "COMPLETED"}
      PROVE  Fine(f)
  BY <1>6 DEF InPhase, SameWishes, SameEvidence, WithStatus, HandsOff
<1>7. ASSUME NEW u \in {"none", "offline:ACTIVE", "offline:FINISHED", "offline:ERROR"}
      PROVE  LET e == SetStatus(d, u) IN
             /\ Fine(Poll(e)) /\ Fine(Fail(e, "other")) /\ Fine(Quieted(e, "STOPPED"))
             /\ \A s \in {"WAITING_OFFLINE", "SUBMITTING_COPY"} : Advance(e, s) \in Download /\ Fine(Advance(e, s))
  <2> DEFINE e == SetStatus(d, u)
  <2>1. e \in Download /\ WithStatus(d, e, "none", u) /\ e.state = d.state
    BY <1>1, StatusColumns DEF WithStatus, Upstreams
  <2>2. d.state \notin {"ABSENT", "WAITING_COPY", "VERIFYING_LOCAL", "COMPLETED"}
    BY DEF HandsOff
  <2> HIDE DEF e, Fine
  <2>3. /\ InPhase(e, Poll(e), d.state) /\ InPhase(e, Fail(e, "other"), "FAILED")
        /\ InPhase(e, Quieted(e, "STOPPED"), "STOPPED")
    BY <2>1, PhaseColumns DEF Problems
  <2>4. \A s \in {"WAITING_OFFLINE", "SUBMITTING_COPY"} : InPhase(e, Advance(e, s), s)
    BY <2>1, PhaseColumns
  <2>5. u \notin CopyReports \cup {"destination_clear", "retained"}
    BY <1>7
  <2>6. Fine(Poll(e)) /\ Fine(Fail(e, "other")) /\ Fine(Quieted(e, "STOPPED"))
    BY <1>6, <2>1, <2>2, <2>3, <2>5
  <2>7. \A s \in {"WAITING_OFFLINE", "SUBMITTING_COPY"} : Advance(e, s) \in Download /\ Fine(Advance(e, s))
    BY <1>6, <2>1, <2>4, <2>5 DEF InPhase
  <2> QED  BY <2>6, <2>7 DEF e
<1>8. /\ Fine(Poll(MarkStopped(d))) /\ Fine(Quieted(MarkStopped(d), "CANCELLED"))
  <2>1. d.upstream \notin CopyReports \cup {"destination_clear", "retained"}
    BY DEF HandsOff
  <2>2. d.state \notin {"ABSENT", "WAITING_COPY", "VERIFYING_LOCAL", "COMPLETED"}
    BY DEF HandsOff
  <2>3. ASSUME NEW e, NEW m, WithStatus(d, e, m, d.upstream)
        PROVE  Fine(Poll(e)) /\ Fine(Quieted(e, "CANCELLED"))
    <3>1. e \in Download /\ e.state = d.state
      BY <2>3 DEF WithStatus
    <3>2. InPhase(e, Poll(e), d.state) /\ InPhase(e, Quieted(e, "CANCELLED"), "CANCELLED")
      BY <3>1, PhaseColumns
    <3> HIDE DEF Fine
    <3> QED  BY <1>6, <2>1, <2>2, <2>3, <3>2
  <2>4. WithStatus(d, MarkStopped(d), IF d.source THEN "removed" ELSE "cancelled", d.upstream)
    BY <1>1, StatusColumns DEF MarkStopped
  <2> QED  BY <2>3, <2>4
<1> HIDE DEF Fine
<1>9. ASSUME NEW fault, NEW b \in BOOLEAN
      PROVE  Fine(CloudFailure(d, fault, b)) /\ Fine(LocalFailure(d, fault)) /\ Fine(CleanupFailure(d, fault))
  BY <1>4 DEF CloudFailure, LocalFailure, CleanupFailure, Problems
<1>10. \A task \in OfflineTasks \ {"none"} : Fine(OfflineReported(d, task))
  <2>1. Fine(OfflineReported(d, "active")) /\ Fine(OfflineReported(d, "error"))
    BY <1>7 DEF OfflineReported
  <2>2. Fine(OfflineReported(d, "finished"))
    <3> DEFINE e == Advance(SetStatus(d, "offline:FINISHED"), "SUBMITTING_COPY")
               f == [e EXCEPT !.result = TRUE]
    <3>1. e \in Download /\ Fine(e)
      BY <1>7
    <3>2. OfflineReported(d, "finished") = f
      BY DEF OfflineReported
    <3> HIDE DEF e
    <3>3. /\ SameWishes(e, f) /\ f.state = e.state /\ f.isolated = e.isolated
          /\ f.content = e.content /\ f.upstream = e.upstream
      BY <3>1, PathColumns
    <3> HIDE DEF f
    <3> QED  BY <3>1, <3>2, <3>3 DEF Fine, HandsOff, SameWishes
  <2> QED  BY <2>1, <2>2 DEF OfflineTasks
<1> USE DEF RowStep, OfflineStep, CopyStep, DiskStep, Deciding, CloudStep
<1>11. CASE PhaseTimeout(w) \/ OperationOverran(w) \/ BeginOffline(w)
  BY <1>4, <1>11 DEF PhaseTimeout, OperationOverran, BeginOffline, DeadlineProblem, Problems
<1>12. CASE RetryCancelOffline(w) \/ EnsureOffline(w) \/ InspectOffline(w)
  <2>1. offline[h] \in OfflineTasks /\ EnsuredOffline(h)[h] \in OfflineTasks \ {"none"}
    BY DEF QuietInv, TypeOK, OfflineTasks, EnsuredOffline
  <2>2. \/ Decided(w, Poll(SetStatus(d, "none"))) \/ Decided(w, Poll(d))
        \/ \E task \in OfflineTasks \ {"none"} : Decided(w, OfflineReported(d, task))
        \/ \E fault \in CloudFaults : Decided(w, CloudFailure(d, fault, FALSE))
    BY <1>12, <2>1 DEF RetryCancelOffline, EnsureOffline, InspectOffline
  <2>3. Fine(Poll(SetStatus(d, "none")))
    BY <1>7
  <2> QED  BY <1>4, <1>9, <1>10, <2>2, <2>3
<1>13. CASE ResolveCopySource(w) \/ ReserveDestination(w)
  <2>1. ASSUME NEW e \in Download, SameWishes(d, e), e.state = d.state, e.isolated = d.isolated,
               e.content = d.content, e.upstream = d.upstream
        PROVE  Fine(Poll(e))
    <3>1. InPhase(e, Poll(e), e.state)
      BY PhaseColumns
    <3> QED  BY <2>1, <3>1 DEF InPhase, SameWishes, SameEvidence, Fine, HandsOff
  <2>2. Fine(Poll([d EXCEPT !.source = TRUE])) /\ Fine(Poll([d EXCEPT !.destination = TRUE]))
    BY <1>1, <2>1, PathColumns
  <2>3. \/ Decided(w, Poll([d EXCEPT !.source = TRUE])) \/ Decided(w, Poll([d EXCEPT !.destination = TRUE]))
        \/ Decided(w, Fail(d, "other")) \/ \E fault \in CloudFaults : Decided(w, CloudFailure(d, fault, TRUE))
    BY <1>13 DEF ResolveCopySource, ReserveDestination
  <2>4. Fine(Fail(d, "other"))
    BY <1>4 DEF Problems
  <2> QED  BY <1>9, <2>2, <2>3, <2>4
<1>14. CASE PreflightLocal(w)
  <2>1. Decided(w, Fail(d, "other")) \/ \E fault \in DeleteFaults : Decided(w, LocalFailure(d, fault))
    BY <1>14 DEF PreflightLocal
  <2> QED  BY <1>4, <1>9, <2>1 DEF Problems
<1>15. ASSUME NEW done, StopUpstream(w, done), Fine(done) PROVE Concluded
  <2>1. Decided(w, done) \/ \E fault \in CloudFaults : Decided(w, CleanupFailure(d, fault))
    BY <1>15 DEF StopUpstream
  <2> QED  BY <1>9, <1>15, <2>1
<1>16. CASE CancelUpstream(w) \/ DeleteUpstream(w)
  BY <1>8, <1>15, <1>16 DEF CancelUpstream, DeleteUpstream
<1>17. CASE DeleteLocal(w)
  <2>1. ~OwnsFiles(d)
    BY DEF OwnsFiles, HasCopyEvidence, HandsOff
  <2>2. Decided(w, Quieted(d, "DELETED"))
    BY <1>17, <2>1 DEF DeleteLocal
  <2> QED  BY <1>4, <2>2
<1>18. CASE PauseUpstream(w)
  <2>1. CASE d.source
    <3>1. MarkStopped(d) = MarkCopyRemoved(d)
      BY <2>1 DEF MarkStopped
    <3> QED  BY <1>8, <1>15, <1>18, <2>1, <3>1 DEF PauseUpstream
  <2>2. CASE ~d.source
    BY <1>7, <1>15, <1>18, <2>2 DEF PauseUpstream
  <2> QED  BY <2>1, <2>2
<1>19. CASE PauseDeleteCopy(w)
  <2>1. \/ Decided(w, Quieted(SetStatus(d, "offline:FINISHED"), "STOPPED"))
        \/ Decided(w, CleanupProblem(d, "local")) \/ Decided(w, Fail(d, "other"))
    BY <1>19 DEF PauseDeleteCopy, DeleteFiles
  <2>2. Fine(Quieted(SetStatus(d, "offline:FINISHED"), "STOPPED"))
    BY <1>7
  <2> QED  BY <1>4, <2>1, <2>2 DEF Problems
\* The other operations need what such a row does not have.
<1>20. /\ ~LeftOver(d) /\ ~StatusIs(d, "destination_clear") /\ ~CopyFinished(d)
       /\ d.state \notin {"WAITING_COPY", "VERIFYING_LOCAL"}
  BY DEF LeftOver, StatusIs, CopyFinished, HandsOff
<1>21. /\ ~RetryRemoveCopy(w) /\ ~RetryDeleteCopy(w) /\ ~EnsureCopy(w) /\ ~InspectCopy(w) /\ ~VerifyLocal(w)
       /\ ~PauseFinishedCopy(w)
  BY <1>20 DEF RetryRemoveCopy, RetryDeleteCopy, EnsureCopy, InspectCopy, VerifyLocal, PauseFinishedCopy
<1> QED  BY <1>11, <1>12, <1>13, <1>14, <1>16, <1>17, <1>18, <1>19, <1>21 DEF Decide
\* An intent leaves such a row as it is, or revives it away from what is at its
\* destination.
LEMMA OperatorSpares ==
  ASSUME QuietInv, NEW h \in Hash, Operator(h), disk[h] = "foreign", Spared(h)
  PROVE  \/ disk'[h] = "foreign" /\ Spared(h)'
         \/ disk'[h] = "empty" /\ download[h].state = "DELETED"
<1> DEFINE d == download[h]
           e == download'[h]
<1>1. UNCHANGED <<claim, copy>> /\ (Submits(h, e) \/ Redirects(h, e))
  BY OperatorRow
<1>2. d \in Download /\ HandsOff(d) /\ d.state # "ABSENT"
  BY DEF QuietInv, TypeOK, Spared, HandsOff
<1>3. CASE Submits(h, e)
  BY <1>2, <1>3 DEF Submits, HandsOff, QuietInv, TypeOK
<1>4. CASE Redirects(h, e)
  <2>1. ASSUME NEW t, t = RetryTarget(d), t \in Active PROVE t \notin {"WAITING_COPY", "VERIFYING_LOCAL"}
    BY <1>2, <2>1 DEF RetryTarget, HandsOff
  <2>2. retryPlan'[h] \subseteq retryPlan[h] \union {RetryTarget(d)}
    BY DEF Operator, Insert, Revive, Start, Pause, Cancel, RequestDelete, PlanRetry, Retry, RetryCleanup,
           Applied, Reverify, Relabel, QuietInv, TypeOK
  <2>3. RetryTarget(d) \notin {"WAITING_COPY", "VERIFYING_LOCAL"}
    BY <1>2, <2>1 DEF RetryTarget
  <2>4. retryPlan'[h] \cap {"WAITING_COPY", "VERIFYING_LOCAL"} = {}
    BY <2>2, <2>3 DEF Spared
  <2>5. RetryTargets(h) \cap {"WAITING_COPY", "VERIFYING_LOCAL"} = {}
    BY <2>3 DEF RetryTargets, Spared
  <2>6. StartTarget(d) \in {"SUBMITTING_COPY", "ACCEPTED"}
    BY <1>2 DEF StartTarget, StatusIs, HandsOff
  <2>7. HandsOff(e)
    BY <1>2, <1>4, <2>5, <2>6 DEF Redirects, HandsOff, SameWishes
  <2>8. \A w \in Worker : Busy(w)' <=> Busy(w)
    BY <1>1 DEF Busy
  <2> QED  BY <1>1, <1>4, <2>4, <2>7, <2>8 DEF Redirects, Spared
<1> QED  BY <1>1, <1>3, <1>4

\* What every step does to foreign content: nothing, unless it revives a row
\* that was deleted, or ends a pause.
PauseTakes(g) == \E w \in Worker : PauseDeleteCopy(w) /\ claim[w].hash = g

LEMMA ForeignStep ==
  ASSUME ForeignInv, [Next]_vars, NEW g \in Hash
  PROVE  /\ disk'[g] = "foreign" => disk[g] = "foreign"
         /\ disk[g] = "foreign" => \/ Spared(g)' /\ (disk'[g] = "foreign" \/ PauseTakes(g))
                                   \/ disk'[g] # "foreign" /\ download[g].state = "DELETED"
<1> DEFINE Goal == /\ disk'[g] = "foreign" => disk[g] = "foreign"
                   /\ disk[g] = "foreign" =>
                        \/ Spared(g)' /\ (disk'[g] = "foreign" \/ PauseTakes(g))
                        \/ disk'[g] # "foreign" /\ download[g].state = "DELETED"
<1>1. QuietInv /\ TypeOK /\ (disk[g] = "foreign" => Spared(g))
  BY DEF ForeignInv, QuietInv
<1>2. ASSUME NEW h \in Hash, Operator(h) PROVE Goal
  <2>1. /\ UNCHANGED <<claim, copy>>
        /\ \A f \in Hash \ {h} : download'[f] = download[f] /\ disk'[f] = disk[f]
        /\ Submits(h, download'[h]) \/ Redirects(h, download'[h])
    BY <1>1, <1>2, OperatorRow
  <2>2. disk'[g] = "foreign" => disk[g] = "foreign"
    BY <1>1, <2>1 DEF Submits, Redirects, TypeOK
  <2>3. CASE g = h
    BY <1>1, <1>2, <2>2, <2>3, OperatorSpares
  <2>4. CASE g # h
    <3>1. retryPlan'[g] = retryPlan[g]
      BY <1>1, <1>2, <2>4 DEF Operator, Insert, Revive, Start, Pause, Cancel, RequestDelete, PlanRetry, Retry,
         RetryCleanup, Applied, Reverify, Relabel, TypeOK
    <3>2. \A w \in Worker : Busy(w)' <=> Busy(w)
      BY <2>1 DEF Busy
    <3> QED  BY <1>1, <2>1, <2>4, <3>1, <3>2 DEF Spared
  <2> QED  BY <2>3, <2>4
<1>3. ASSUME NEW h \in Hash, Cloud(h) \/ ContentLost(h) PROVE Goal
  <2>1. UNCHANGED <<download, claim, retryPlan>>
    BY <1>3 DEF Cloud, ContentLost, OfflineEnds, CopyWrites, CopyEnds, TaskForgotten, store
  <2>2. disk'[g] = "foreign" => disk[g] = "foreign"
    BY <1>1, <1>3 DEF TypeOK, Cloud, ContentLost, OfflineEnds, CopyWrites, CopyEnds, TaskForgotten
  <2>3. disk[g] = "foreign" => disk'[g] = "foreign" /\ copy'[g] = "none"
    BY <1>1, <1>3 DEF Spared, TypeOK, Cloud, ContentLost, OfflineEnds, CopyWrites, CopyEnds, TaskForgotten
  <2>4. \A w \in Worker : Busy(w)' <=> Busy(w)
    BY <2>1 DEF Busy
  <2> QED  BY <1>1, <2>1, <2>2, <2>3, <2>4 DEF Spared
<1>4. ASSUME NEW w \in Worker, Decide(w) PROVE Goal
  <2>1. PICK h \in Hash : h = claim[w].hash
    BY <1>1, <1>4, DecideClaims
  <2>2. /\ Busy(w) /\ claim'[w].hash = h
        /\ UNCHANGED <<store, retryPlan>> /\ \A v \in Worker \ {w} : claim'[v] = claim[v]
        /\ \A f \in Hash \ {h} : copy'[f] = copy[f] /\ disk'[f] = disk[f]
        /\ Touches(claim[w].d, h)
    BY <1>1, <1>4, <2>1, DecideClaims, DecideTouches
  <2>3. \A v \in Worker \ {w} : Busy(v)' <=> Busy(v)
    BY <2>2 DEF Busy
  <2>4. disk'[g] = "foreign" => disk[g] = "foreign"
    BY <2>2 DEF Touches
  <2>5. ASSUME disk[g] = "foreign" PROVE Spared(g)' /\ (disk'[g] = "foreign" \/ PauseTakes(g))
    <3>1. CASE g = h
      <4>1. /\ disk'[g] = "foreign" \/ PauseDeleteCopy(w)
            /\ copy'[g] = "none" /\ HandsOff(claim'[w].d)
        BY <1>1, <1>4, <2>1, <2>2, <2>5, <3>1, DecideSpares DEF Spared
      <4>2. Spared(g)'
        BY <1>1, <2>2, <2>3, <2>5, <3>1, <4>1 DEF Spared, store
      <4> QED  BY <2>1, <3>1, <4>1, <4>2 DEF PauseTakes
    <3>2. CASE g # h
      BY <1>1, <2>2, <2>3, <2>5, <3>2 DEF Spared, store
    <3> QED  BY <3>1, <3>2
  <2> QED  BY <2>4, <2>5
<1>5. ASSUME NEW w \in Worker, CommitClaim(w) \/ CommitConflict(w) PROVE Goal
  <2>1. PICK h \in Hash : /\ h = claim[w].hash
                         /\ Committing(w) /\ UNCHANGED <<retryPlan, outside>>
                         /\ Writing(h) /\ Stored(download[h], claim[w].d, download'[h])
    BY <1>1, <1>5, CommitRow
  <2>2. ASSUME disk[g] = "foreign" PROVE Spared(g)'
    <3>1. HandsOff(download'[g])
      BY <1>1, <2>1, <2>2 DEF Spared, Writing, Committing, Stored, SameWishes, HandsOff
    <3>2. \A v \in Worker : Busy(v)' => Busy(v) /\ claim'[v] = claim[v]
      BY <2>1 DEF Writing, Busy
    <3> QED  BY <1>1, <2>1, <2>2, <3>1, <3>2 DEF Spared, outside
  <2> QED  BY <2>1, <2>2 DEF outside
<1>6. CASE Passing
  <2>1. ASSUME disk[g] = "foreign" PROVE Spared(g)'
    <3>1. HandsOff(download'[g])
      BY <1>1, <1>6, <2>1 DEF Spared, Passing, SamePhase, SameWishes, SameEvidence, HandsOff
    <3>2. ASSUME NEW v \in Worker, Busy(v)', claim'[v].hash = g PROVE HandsOff(claim'[v].d)
      BY <1>1, <1>6, <2>1, <3>2 DEF Passing, NewClaim, SameClaim, Spared
    <3> QED  BY <1>1, <1>6, <2>1, <3>1, <3>2 DEF Spared, Passing, outside
  <2> QED  BY <1>6, <2>1 DEF Passing, outside
<1>7. \/ \E h \in Hash : Operator(h)
      \/ \E h \in Hash : Cloud(h) \/ ContentLost(h)
      \/ \E w \in Worker : Decide(w)
      \/ \E w \in Worker : CommitClaim(w) \/ CommitConflict(w)
      \/ Passing
  BY <1>1, StepKinds
<1> QED  BY <1>2, <1>3, <1>4, <1>5, <1>6, <1>7

\* A file that was at a legacy destination before CD211 is never removed or
\* overwritten, and never taken for the download's own content, until the
\* download is deleted and submitted again, by whatever interleaving of
\* intents, retries, late commits and lapsed leases: only the deletion that ends
\* a pause (PauseDeleteCopy) takes it away.
THEOREM ForeignContentStays == Spec => ForeignContentKeptButByPause
<1>1. ForeignInv /\ [Next]_vars => ForeignInv'
  <2> SUFFICES ASSUME ForeignInv, [Next]_vars PROVE ForeignInv'
    OBVIOUS
  <2>1. QuietInv'
    BY QuietNext DEF ForeignInv
  <2>2. \A h \in Hash : disk'[h] = "foreign" => Spared(h)'
    BY ForeignStep
  <2> QED  BY <2>1, <2>2 DEF ForeignInv
<1>2. ForeignInv /\ [Next]_vars =>
        [\A h \in Hash : disk[h] = "foreign" /\ download[h].state # "DELETED"
           => /\ disk'[h] = "foreign" \/ \E w \in Worker : PauseDeleteCopy(w) /\ claim[w].hash = h
              /\ ~download'[h].content]_vars
  BY ForeignStep DEF Spared, HandsOff, PauseTakes
<1> QED  BY <1>1, <1>2, ForeignInit, PTL DEF Spec, ForeignContentKeptButByPause
=============================================================================

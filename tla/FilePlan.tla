------------------------------ MODULE FilePlan ------------------------------
(***************************************************************************)
(* File renames and exclusions of one multi-file torrent: the overrides    *)
(* kept by the store, the plan that turns original into effective paths    *)
(* (fsafe.ApplyFilePlan), its use by every verification, and the requests  *)
(* that rename a completed download on disk before they rename it in the   *)
(* store.  Nothing keeps requests apart from each other or from a recheck. *)
(*                                                                         *)
(* A file's content is the file's own identity; the code tells contents    *)
(* apart by their size alone.  Every rename and removal on disk is a step, *)
(* and so is the look at the disk that precedes it.                        *)
(***************************************************************************)
EXTENDS Naturals

CONSTANTS
  Files,     \* indexes of the manifest, 0 among them
  Paths,     \* pairs <<directory, name>> beneath the torrent's root
  Original,  \* manifest path of each file
  Sizes,     \* the manifest sizes a torrent may give its files
  Targets,   \* bound: the paths an operator gives each file
  NoFile,    \* nothing at a path
  Requests,  \* bound: rename requests that may be served at the same time
  MaxCrashes,   \* bound: crashes while no request is being served
  MaxDisturbed  \* bound: requests that are interrupted or do not run alone

ASSUME FilePlanAssumption ==
  /\ 0 \in Files /\ Files \subseteq Nat
  /\ \A p \in Paths : p = <<p[1], p[2]>>
  /\ Original \in [Files -> Paths]
  /\ \A f, g \in Files : Original[f] = Original[g] => f = g
  /\ Sizes \subseteq [Files -> Nat]
  /\ Targets \in [Files -> SUBSET Paths]
  /\ NoFile \notin Files
  /\ "worker" \notin Requests
  /\ MaxCrashes \in Nat /\ MaxDisturbed \in Nat

Directories == {p[1] : p \in Paths}

Names(f) == Targets[f] \union {Original[f]}

VARIABLES
  size,      \* manifest size of each file
  state,     \* what matters here of the download's state
  override,  \* download_file_overrides: effective path and selection of each file
  disk,      \* what lies at each path
  temp,      \* what lies in each .cd211-plan-<hash>-<index>
  run,       \* the plan each actor is applying
  request,   \* the rename that each request asks for
  crashes,
  disturbed  \* history: requests that did not run alone to their end

vars == <<size, state, override, disk, temp, run, request, crashes, disturbed>>

Actors == Requests \union {"worker"}

\* "preStart": STOPPED or ACCEPTED with no content anywhere.  "copying": from there
\* to the end of the copy.  "clearing": SUBMITTING_COPY after a failed verification.
\* "timedOut": FAILED as the deadline of "clearing" has passed.
States == {"preStart", "copying", "verifying", "completed", "failed", "clearing", "timedOut"}

Override == [path : Paths, selected : BOOLEAN]

\* One operation of a plan (fsafe.FilePlan).
Operation == [slot : Files, file : Files, from : Paths, to : Paths, selected : BOOLEAN]

Phases == {"idle", "validating", "staging", "publishing", "excluding", "verifying",
           "committing", "storing"}

\* Operations that were not carried out before, those the phase has yet to treat, and
\* the one it has looked at and is about to carry out.  "raced" is history: another
\* plan was applied, or the disk changed by another hand, during this one.
Run == [at : Phases, plan : SUBSET Operation, todo : SUBSET Operation,
        left : SUBSET Operation, decided : SUBSET Operation, raced : BOOLEAN]

Idle == [at |-> "idle", plan |-> {}, todo |-> {}, left |-> {}, decided |-> {}, raced |-> FALSE]

Applying(p) == run[p].at \in {"staging", "publishing", "excluding"}

NoRequest == [kind |-> "none"]

Request == [kind : {"none"}]
             \union [kind : {"file"}, file : Files, path : Paths, selected : BOOLEAN]
             \union [kind : {"folder"}, old : Directories, new : Directories]

Contents == Files \union {NoFile}

TypeOK ==
  /\ size \in Sizes
  /\ state \in States
  /\ override \in [Files -> Override]
  /\ disk \in [Paths -> Contents]
  /\ temp \in [Files -> Contents]
  /\ run \in [Actors -> Run]
  /\ \A p \in Actors : /\ run[p].todo \subseteq run[p].plan
                       /\ run[p].left \subseteq run[p].plan
                       /\ run[p].decided \subseteq run[p].left
  /\ request \in [Requests -> Request]
  /\ crashes \in 0..MaxCrashes
  /\ disturbed \in 0..MaxDisturbed

Init ==
  /\ size \in Sizes
  /\ state = "preStart"
  /\ override = [f \in Files |-> [path |-> Original[f], selected |-> TRUE]]
  /\ disk = [p \in Paths |-> NoFile]
  /\ temp = [f \in Files |-> NoFile]
  /\ run = [p \in Actors |-> Idle]
  /\ request = [r \in Requests |-> NoRequest]
  /\ crashes = 0
  /\ disturbed = 0

-----------------------------------------------------------------------------
(* ApplyFilePlan                                                           *)

moving(plan) == {m \in plan : m.selected /\ m.from # m.to}

Fits(content, m) == content # NoFile /\ size[content] = size[m.file]

\* Found in the place of another file whose own place is taken by it: the plan
\* was interrupted between two publications.
HalfPublished(plan, m) ==
  /\ disk[m.from] # NoFile /\ temp[m.slot] # NoFile
  /\ \E o \in moving(plan) : /\ o.to = m.from /\ o.from # m.from
                             /\ temp[o.slot] = NoFile
                             /\ Fits(disk[m.from], o) /\ Fits(temp[m.slot], m)

\* A plausible slip: a plan that was carried out before is not recognised.
NeverMoved(m) == FALSE

\* Already where it belongs.
Moved(m) ==
  /\ disk[m.from] = NoFile /\ temp[m.slot] = NoFile
  /\ Fits(disk[m.to], m)

\* A plausible slip: whatever lies at the target is replaced.
NeverOccupied(plan, m) == FALSE

\* The target holds something that no move of the plan takes away.
Occupied(plan, m) == disk[m.to] # NoFile /\ \A o \in moving(plan) : o.from # m.to

Ready(plan, m) ==
  /\ disk[m.from] = NoFile \/ temp[m.slot] = NoFile
  /\ disk[m.from] = NoFile /\ temp[m.slot] = NoFile => disk[m.to] = NoFile
  /\ disk[m.from] # NoFile => Fits(disk[m.from], m)
  /\ temp[m.slot] # NoFile => Fits(temp[m.slot], m)
  /\ ~Occupied(plan, m)

Valid(plan) == \A m \in moving(plan) : HalfPublished(plan, m) \/ Moved(m) \/ Ready(plan, m)

\* A plausible slip: what is already in place is dropped from the plan, yet staged.
BeginWithTheRest(p, plan) ==
  LET todo == {m \in moving(plan) : ~Moved(m)}
  IN  run' = [run EXCEPT ![p] = [at |-> "staging", plan |-> todo, todo |-> todo,
                                 left |-> moving(plan), decided |-> {}, raced |-> FALSE]]

\* The validated plan is applied, whatever other plan is being applied.
Begin(p, plan) ==
  LET todo == {m \in moving(plan) : ~Moved(m)}
      others == {q \in Actors \ {p} : Applying(q)}
  IN  run' = [q \in Actors |->
                IF q = p
                THEN [at |-> "staging", plan |-> plan, todo |-> todo, left |-> todo,
                      decided |-> {}, raced |-> others # {}]
                ELSE [run[q] EXCEPT !.raced = @ \/ q \in others]]

\* The disk changes under every plan in progress.
Intruded == [q \in Actors |-> [run[q] EXCEPT !.raced = @ \/ Applying(q)]]

\* The request ends, with an error or not.
Answered(r) ==
  /\ run' = [run EXCEPT ![r] = Idle]
  /\ request' = [request EXCEPT ![r] = NoRequest]

\* A verification that meets a conflict ends FAILED; one that meets a missing
\* file is retried until its deadline has passed.  A request is answered.
Fail(p, conflict) ==
  IF p \in Requests
  THEN Answered(p) /\ UNCHANGED state
  ELSE /\ run' = [run EXCEPT ![p] = Idle]
       /\ state' \in {"failed"} \union (IF conflict THEN {} ELSE {"verifying"})
       /\ UNCHANGED request

Treated(p, m) ==
  /\ run' = [run EXCEPT ![p].left = @ \ {m}, ![p].decided = {}]
  /\ UNCHANGED <<state, request>>

\* os.Lstat has decided; os.Rename or os.Remove follows in a step of its own.
Decided(p, m) ==
  /\ run' = [run EXCEPT ![p].decided = {m}]
  /\ UNCHANGED <<state, request>>

Looking(p) == run[p].decided = {}

LookToStage(p) ==
  /\ run[p].at = "staging" /\ Looking(p)
  /\ \E m \in run[p].left : IF temp[m.slot] = NoFile THEN Decided(p, m) ELSE Treated(p, m)
  /\ UNCHANGED <<size, override, disk, temp, crashes, disturbed>>

\* A rename replaces what lies at its target.
Stage(p) ==
  /\ run[p].at = "staging"
  /\ \E m \in run[p].decided :
       IF disk[m.from] = NoFile
       THEN Fail(p, FALSE) /\ UNCHANGED <<disk, temp>>
       ELSE /\ temp' = [temp EXCEPT ![m.slot] = disk[m.from]]
            /\ disk' = [disk EXCEPT ![m.from] = NoFile]
            /\ Treated(p, m)
  /\ UNCHANGED <<size, override, crashes, disturbed>>

LookToPublish(p) ==
  /\ run[p].at = "publishing" /\ Looking(p)
  /\ \E m \in run[p].left :
       \/ /\ temp[m.slot] = NoFile
          /\ IF Fits(disk[m.to], m) THEN Treated(p, m) ELSE Fail(p, FALSE)
       \/ temp[m.slot] # NoFile /\ Occupied(run[p].plan, m) /\ Fail(p, TRUE)
       \/ temp[m.slot] # NoFile /\ ~Occupied(run[p].plan, m) /\ Decided(p, m)
  /\ UNCHANGED <<size, override, disk, temp, crashes, disturbed>>

Publish(p) ==
  /\ run[p].at = "publishing"
  /\ \E m \in run[p].decided :
       IF temp[m.slot] = NoFile
       THEN Fail(p, FALSE) /\ UNCHANGED <<disk, temp>>
       ELSE /\ disk' = [disk EXCEPT ![m.to] = temp[m.slot]]
            /\ temp' = [temp EXCEPT ![m.slot] = NoFile]
            /\ Treated(p, m)
  /\ UNCHANGED <<size, override, crashes, disturbed>>

LookToExclude(p) ==
  /\ run[p].at = "excluding" /\ Looking(p)
  /\ \E m \in run[p].left :
       \/ disk[m.from] = NoFile /\ Treated(p, m)
       \/ disk[m.from] # NoFile /\ ~Fits(disk[m.from], m) /\ Fail(p, TRUE)
       \/ Fits(disk[m.from], m) /\ Decided(p, m)
  /\ UNCHANGED <<size, override, disk, temp, crashes, disturbed>>

Exclude(p) ==
  /\ run[p].at = "excluding"
  /\ \E m \in run[p].decided : disk' = [disk EXCEPT ![m.from] = NoFile] /\ Treated(p, m)
  /\ UNCHANGED <<size, override, temp, crashes, disturbed>>

NextPhase(p) ==
  /\ Applying(p) /\ run[p].left = {}
  /\ run' = [run EXCEPT ![p] =
       CASE run[p].at = "staging" -> [run[p] EXCEPT !.at = "publishing", !.left = run[p].todo]
         [] run[p].at = "publishing" ->
              [run[p] EXCEPT !.at = "excluding", !.left = {m \in run[p].plan : ~m.selected}]
         [] OTHER -> [Idle EXCEPT !.at = IF p \in Requests THEN "storing" ELSE "verifying"]]
  /\ UNCHANGED <<size, state, override, disk, temp, request, crashes, disturbed>>

-----------------------------------------------------------------------------
(* The worker: verifyAndRecord                                             *)

\* A plausible slip: one temporary name for all files of the torrent.
OneSlot(f) == 0

Slot(f) == f

VerificationPlan ==
  {[slot |-> Slot(f), file |-> f, from |-> Original[f], to |-> override[f].path,
    selected |-> override[f].selected] : f \in Files}

verifyAndRecord ==
  /\ state = "verifying" /\ run["worker"].at = "idle"
  /\ IF Valid(VerificationPlan)
     THEN Begin("worker", VerificationPlan) /\ UNCHANGED state
     ELSE state' = "failed" /\ UNCHANGED run
  /\ UNCHANGED <<size, override, disk, temp, request, crashes, disturbed>>

Selected == {f \in Files : override[f].selected}

\* verifyManifest: a regular file of the right size at every effective path.
Verify ==
  /\ run["worker"].at = "verifying"
  /\ LET found(f) == disk[override[f].path]
     IN  IF \E f \in Selected : found(f) = NoFile
         THEN Fail("worker", FALSE)
         ELSE IF \E f \in Selected : size[found(f)] # size[f]
         THEN Fail("worker", TRUE)
         ELSE /\ run' = [run EXCEPT !["worker"].at = "committing"]
              /\ UNCHANGED <<state, request>>
  /\ UNCHANGED <<size, override, disk, temp, crashes, disturbed>>

CommitClaim ==
  /\ run["worker"].at = "committing"
  /\ run' = [run EXCEPT !["worker"] = Idle]
  /\ state' = "completed"
  /\ UNCHANGED <<size, override, disk, temp, request, crashes, disturbed>>

Quiet == \A r \in Requests : run[r].at = "idle"

Disturb == disturbed < MaxDisturbed /\ disturbed' = disturbed + 1

\* The worker takes the row up: the offline download and the copy are on their way.
start ==
  /\ state = "preStart"
  /\ IF Quiet THEN UNCHANGED disturbed ELSE Disturb
  /\ state' = "copying"
  /\ UNCHANGED <<size, override, disk, temp, run, request, crashes>>

\* CloudDrive2 has copied the torrent, excluded files included.
copied ==
  /\ state = "copying"
  /\ state' = "verifying"
  /\ disk' = [p \in Paths |->
       IF \E f \in Files : Original[f] = p THEN CHOOSE f \in Files : Original[f] = p ELSE NoFile]
  /\ run' = Intruded
  /\ UNCHANGED <<size, override, temp, request, crashes, disturbed>>

\* Nothing holds a recheck off while a request is being served.
Reverify ==
  /\ state = "completed"
  /\ state' = "verifying"
  /\ IF Quiet THEN UNCHANGED disturbed ELSE Disturb
  /\ UNCHANGED <<size, override, disk, temp, run, request, crashes>>

\* A failed verification is retried from SUBMITTING_COPY, which copies again.  Once
\* the deadline there has passed, the status "copied" leads back to verification.
RetryTarget == IF state = "failed" THEN "clearing" ELSE "verifying"

Retry ==
  /\ state \in {"failed", "timedOut"}
  /\ state' = RetryTarget
  /\ UNCHANGED <<size, override, disk, temp, run, request, crashes, disturbed>>

\* deleteCopyWorkspace removes everything, one entry after the other.
deleteEntry ==
  /\ state = "clearing"
  /\ \/ \E p \in Paths : /\ disk[p] # NoFile
                         /\ disk' = [disk EXCEPT ![p] = NoFile] /\ UNCHANGED temp
     \/ \E s \in Files : /\ temp[s] # NoFile
                         /\ temp' = [temp EXCEPT ![s] = NoFile] /\ UNCHANGED disk
  /\ run' = Intruded
  /\ UNCHANGED <<size, state, override, request, crashes, disturbed>>

\* An empty workspace is copied into; a deletion that fails, or a copy task that
\* cannot be removed before the deadline, ends the phase.
deleteCopyWorkspace ==
  /\ state = "clearing"
  /\ state' \in {"failed", "timedOut"} \union
       (IF (\A p \in Paths : disk[p] = NoFile) /\ (\A s \in Files : temp[s] = NoFile)
        THEN {"copying"} ELSE {})
  /\ UNCHANGED <<size, override, disk, temp, run, request, crashes, disturbed>>

-----------------------------------------------------------------------------
(* Requests                                                                *)

Renameable == state \in {"preStart", "completed"}

\* filePrio: one transaction, before the start only, and something stays selected.
SetFilePriorities(f, selected) ==
  /\ state = "preStart"
  /\ LET next == [override EXCEPT ![f].selected = selected]
     IN  (\E g \in Files : next[g].selected) /\ override' = next
  /\ UNCHANGED <<size, state, disk, temp, run, request, crashes, disturbed>>

\* The state that the request reads with the overrides decides whether it touches the
\* disk.
Ask(r, q, plan) ==
  /\ run[r].at = "idle"
  /\ IF Quiet /\ Renameable THEN UNCHANGED disturbed ELSE Disturb
  /\ request' = [request EXCEPT ![r] = q]
  /\ run' = [run EXCEPT ![r] = IF state = "completed"
                               THEN [Idle EXCEPT !.at = "validating", !.plan = plan]
                               ELSE [Idle EXCEPT !.at = "storing"]]
  /\ UNCHANGED <<size, state, override, disk, temp, crashes>>

\* A plan that is refused is an answer.
Validate(r) ==
  /\ run[r].at = "validating"
  /\ IF Valid(run[r].plan) THEN Begin(r, run[r].plan) /\ UNCHANGED request ELSE Answered(r)
  /\ UNCHANGED <<size, state, override, disk, temp, crashes, disturbed>>

\* The temporary file of a single rename is always that of index 0.
renameFile(r, f, path) ==
  /\ path \in Targets[f] \ {override[f].path}
  /\ \A g \in Files \ {f} : override[g].path # path
  /\ Ask(r, [kind |-> "file", file |-> f, path |-> path, selected |-> override[f].selected],
         {[slot |-> 0, file |-> f, from |-> override[f].path, to |-> path, selected |-> TRUE]})

InFolder(d) == {f \in Files : override[f].path[1] = d}

Renamed(path, old, new) == IF path[1] = old THEN <<new, path[2]>> ELSE path

completedFolderPlans(old, new) ==
  {[slot |-> Slot(f), file |-> f, from |-> override[f].path,
    to |-> Renamed(override[f].path, old, new), selected |-> TRUE] :
     f \in InFolder(old) \intersect Selected}

renameFolder(r, old, new) ==
  /\ old # new /\ InFolder(old) # {}
  /\ \A f \in InFolder(old) : Renamed(override[f].path, old, new) \in Targets[f]
  /\ Ask(r, [kind |-> "folder", old |-> old, new |-> new], completedFolderPlans(old, new))

Stored(q) ==
  IF q.kind = "file"
  THEN [override EXCEPT ![q.file] = [path |-> q.path, selected |-> q.selected]]
  ELSE [f \in Files |-> [override[f] EXCEPT !.path = Renamed(override[f].path, q.old, q.new)]]

\* No two files at one path.
PathsDistinct(o) == \A f, g \in Files : o[f].path = o[g].path => f = g

\* What another request has stored meanwhile may lead a folder rename elsewhere: the
\* bound on names holds there too.
WithinTargets(o) == \A f \in Files : o[f].path \in Names(f)

\* SetFileOverride and RenameFolder: a transaction that reads the row again.
Store(r) ==
  /\ run[r].at = "storing"
  /\ WithinTargets(Stored(request[r]))
  /\ override' = IF Renameable /\ PathsDistinct(Stored(request[r]))
                 THEN Stored(request[r]) ELSE override
  /\ Answered(r)
  /\ UNCHANGED <<size, state, disk, temp, crashes, disturbed>>

-----------------------------------------------------------------------------
(* Faults                                                                  *)

\* The client has gone or the database fails: nothing is stored.
StoreFails(r) ==
  /\ run[r].at = "storing"
  /\ Disturb
  /\ Answered(r)
  /\ UNCHANGED <<size, state, override, disk, temp, crashes>>

Crash ==
  /\ IF Quiet
     THEN crashes < MaxCrashes /\ crashes' = crashes + 1 /\ UNCHANGED disturbed
     ELSE Disturb /\ UNCHANGED crashes
  /\ run' = [p \in Actors |-> Idle]
  /\ request' = [r \in Requests |-> NoRequest]
  /\ UNCHANGED <<size, state, override, disk, temp>>

-----------------------------------------------------------------------------
Apply(p) ==
  \/ LookToStage(p) \/ Stage(p) \/ LookToPublish(p) \/ Publish(p)
  \/ LookToExclude(p) \/ Exclude(p) \/ NextPhase(p)

Next ==
  \/ \E p \in Actors : Apply(p)
  \/ verifyAndRecord \/ Verify \/ CommitClaim
  \/ start \/ copied \/ Reverify \/ Retry \/ deleteEntry \/ deleteCopyWorkspace
  \/ \E f \in Files, selected \in BOOLEAN : SetFilePriorities(f, selected)
  \/ \E r \in Requests :
       \/ \E f \in Files, path \in Paths : renameFile(r, f, path)
       \/ \E old, new \in Directories : renameFolder(r, old, new)
       \/ Validate(r) \/ Store(r) \/ StoreFails(r)
  \/ Crash

Spec == Init /\ [][Next]_vars

-----------------------------------------------------------------------------
(* Names that do not meet: what the theorems of FilePlanProofs ask of the  *)
(* operator and the code does not check                                    *)

\* No file is given the manifest name of another.
FreshNames == \A f, g \in Files : f # g => Original[f] \notin Targets[g]

\* A name that two files may be given is not one that a folder rename leads to.
FoldersApart ==
  \A f, g \in Files : f # g =>
    \A p \in Targets[f] \intersect Targets[g], q \in Names(f) : q[2] = p[2] => q = p

-----------------------------------------------------------------------------
(* Properties                                                              *)

\* Where a file's content lies.
Present(f) == (\E p \in Paths : disk[p] = f) \/ (\E s \in Files : temp[s] = f)

\* Sizes tell the contents of the files apart.
Distinguishable == \A f, g \in Files : size[f] = size[g] => f = g

\* The content of a file disappears only by an exclusion the operator asked for, or
\* when a retry empties the workspace to copy again.  It holds for any plan that had the
\* disk to itself, after any history of crashes, interruptions and races; among files of
\* one size, as long as no request was interrupted or raced.
LostOnlyByExclusion ==
  [][/\ Distinguishable \/ disturbed = 0
     /\ \A p \in Actors : ~run[p].raced
     => \A f \in Files : Present(f) /\ ~Present(f)' => ~override[f].selected \/ deleteEntry]_vars

\* As long as no request was interrupted or raced, a completed download shows every
\* selected file, and not another one of its size, under its name.
NamesTellContent ==
  state = "completed" /\ Quiet /\ disturbed = 0
    => \A f \in Selected : disk[override[f].path] = f

\* Carrying out a plan again, or after a crash in the middle of it, converges
\* (plan.go:23): no verification fails for good.
PlanConverges == disturbed = 0 => state # "failed"

\* plan.go:23 and the test that applies a published plan again (plan_test.go:34):
\* what a verification has brought into place, a recheck accepts.
RecheckAccepts == [][Reverify /\ Quiet /\ disturbed = 0 => Valid(VerificationPlan)']_vars
=============================================================================

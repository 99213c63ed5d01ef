--------------------------- MODULE FilePlanProofs ---------------------------
(***************************************************************************)
(* What FilePlan guarantees for any number of files and names, of crashes, *)
(* of retries and of requests, served one after the other or at once.      *)
(*                                                                         *)
(* The theorems say what they ask of the names an operator chooses: the    *)
(* run plan_recheck is a counterexample to doing without FreshNames, and a *)
(* folder renamed onto an excluded file one to doing without FoldersApart. *)
(***************************************************************************)
EXTENDS FilePlan, TLAPS

-----------------------------------------------------------------------------
(* The invariant of every behaviour                                          *)

\* Phases that have operations to carry out, or will have.
Working == {"validating", "staging", "publishing", "excluding"}

PathsNamed == PathsDistinct(override) /\ WithinTargets(override)

\* Nothing is on disk before CloudDrive2 has copied it.
Untouched ==
  state \in {"preStart", "copying"} =>
    (\A p \in Paths : disk[p] = NoFile) /\ (\A s \in Files : temp[s] = NoFile)

WorkerHolds ==
  /\ run["worker"].at \notin {"validating", "storing"}
  /\ run["worker"].at # "idle" => state = "verifying"
  /\ Applying("worker") => run["worker"].plan = VerificationPlan

\* The plan of a rename excludes nothing, and no file goes where another comes from.
Apart(plan) == \A m \in plan : m.selected /\ \A o \in plan : o.from # m.to

RequestsHold ==
  \A r \in Requests :
    /\ run[r].at \in {"idle", "storing"} \union Working
    /\ run[r].at # "idle" => request[r].kind # "none"
    /\ run[r].at \in Working => Apart(run[r].plan)

PhasesHold ==
  \A p \in Actors :
    /\ run[p].todo \subseteq moving(run[p].plan)
    /\ run[p].at \in {"staging", "publishing"} => run[p].left \subseteq run[p].todo
    /\ run[p].at = "excluding" => \A m \in run[p].left : ~m.selected

\* What os.Lstat has seen is still so.
StillSo(p) ==
  \A m \in run[p].decided :
    /\ run[p].at = "staging" => temp[m.slot] = NoFile
    /\ run[p].at = "publishing" => temp[m.slot] # NoFile /\ ~Occupied(run[p].plan, m)
    /\ run[p].at = "excluding" => Fits(disk[m.from], m)

\* A plan that is not raced has the disk to itself.
Unraced ==
  \A p \in Actors : Applying(p) /\ ~run[p].raced =>
    StillSo(p) /\ \A q \in Actors \ {p} : ~Applying(q)

PlanInv ==
  /\ TypeOK /\ PathsNamed /\ Untouched
  /\ WorkerHolds /\ RequestsHold /\ PhasesHold /\ Unraced

-----------------------------------------------------------------------------
(* The invariant of behaviours in which every request runs alone to its end  *)

\* The files and nothing else, each under the name that o gives it.
Settled(o) ==
  /\ \A f \in Files : o[f].selected => disk[o[f].path] = f
  /\ \A p \in Paths : disk[p] # NoFile => o[disk[p]].selected /\ o[disk[p]].path = p
  /\ \A s \in Files : temp[s] = NoFile

AtSource(f) == disk[Original[f]] = f /\ Original[f] # override[f].path
InTemp(f) == temp[f] = f
AtTarget(f) == disk[override[f].path] = f

\* Between source and target nothing is lost, doubled or misplaced.
Placed ==
  /\ \A p \in Paths : disk[p] # NoFile => p \in {Original[disk[p]], override[disk[p]].path}
  /\ \A s \in Files : temp[s] \in {s, NoFile}
  /\ \A f \in Selected : /\ AtSource(f) \/ InTemp(f) \/ AtTarget(f)
                         /\ ~(AtSource(f) /\ InTemp(f)) /\ ~(AtSource(f) /\ AtTarget(f))
                         /\ ~(InTemp(f) /\ AtTarget(f))
                         /\ Original[f] = override[f].path => AtTarget(f)
  /\ \A f \in Files \ Selected : /\ temp[f] = NoFile
                                 /\ \A p \in Paths : disk[p] = f => p = Original[f]

WorkerOn ==
  LET r == run["worker"] IN
  /\ r.at \in {"staging", "publishing"} =>
       \A m \in moving(r.plan) : m \notin r.todo => AtTarget(m.file)
  /\ r.at = "staging" =>
       \A m \in r.todo : IF m \in r.left THEN ~AtTarget(m.file) ELSE InTemp(m.file)
  /\ r.at = "publishing" =>
       \A m \in r.todo : IF m \in r.left THEN InTemp(m.file) ELSE AtTarget(m.file)
  /\ r.at = "excluding" =>
       /\ \A f \in Selected : AtTarget(f)
       /\ \A m \in r.plan : ~m.selected /\ m \notin r.left => disk[m.from] = NoFile
  /\ r.at \in {"verifying", "committing"} => Settled(override)

\* What a request asks for is still to be done, on the paths it has read.
Asked(q) ==
  /\ q.kind = "file" =>
       /\ q.path \in Targets[q.file] \ {override[q.file].path}
       /\ \A g \in Files \ {q.file} : override[g].path # q.path
       /\ q.selected = override[q.file].selected
  /\ q.kind = "folder" =>
       /\ q.old # q.new
       /\ \A f \in InFolder(q.old) : Renamed(override[f].path, q.old, q.new) \in Targets[f]

PlanOf(q) ==
  IF q.kind = "file"
  THEN {[slot |-> 0, file |-> q.file, from |-> override[q.file].path, to |-> q.path, selected |-> TRUE]}
  ELSE completedFolderPlans(q.old, q.new)

\* The renames of a request and where their files are.
Between(m) == <<disk[m.from] = m.file, temp[m.slot] = m.file, disk[m.to] = m.file>>

\* The places that a plan of renames leaves alone, and those it may have reached.
OthersHold(plan) ==
  /\ \A p \in Paths : disk[p] # NoFile =>
       /\ override[disk[p]].selected
       /\ \/ override[disk[p]].path = p
          \/ \E m \in plan : m.file = disk[p] /\ m.to = p
  /\ \A s \in Files : temp[s] # NoFile =>
       \E m \in plan : m.slot = s /\ m.file = temp[s] /\ override[m.file].selected
  /\ \A f \in Selected : (\A m \in plan : m.file # f) => disk[override[f].path] = f

RequestOn(r) ==
  LET n == run[r] IN
  /\ n.at \in {"idle", "validating"} => Settled(override)
  /\ n.at # "idle" => Asked(request[r])
  /\ n.at \in Working => n.plan = PlanOf(request[r])
  /\ Applying(r) => n.todo = n.plan /\ OthersHold(n.plan)
  /\ n.at = "staging" =>
       \A m \in n.plan : IF m \in n.left
         THEN override[m.file].selected => Between(m) = <<TRUE, FALSE, FALSE>>
         ELSE override[m.file].selected /\ Between(m) = <<FALSE, TRUE, FALSE>>
  /\ n.at = "publishing" =>
       \A m \in n.plan : /\ override[m.file].selected
                         /\ Between(m) = IF m \in n.left THEN <<FALSE, TRUE, FALSE>>
                                                         ELSE <<FALSE, FALSE, TRUE>>
  /\ n.at = "excluding" =>
       \A m \in n.plan : override[m.file].selected /\ Between(m) = <<FALSE, FALSE, TRUE>>
  /\ n.at = "storing" => Settled(Stored(request[r]))

AloneInv ==
  disturbed = 0 =>
    /\ state \in {"preStart", "copying", "verifying", "completed"}
    /\ \A p \in Actors : ~run[p].raced
    /\ \A r, s \in Requests : run[r].at # "idle" /\ run[s].at # "idle" => r = s
    /\ state = "preStart" => \A r \in Requests : run[r].at \in {"idle", "storing"}
    /\ state \in {"copying", "verifying"} => Quiet
    /\ state = "verifying" => Placed /\ WorkerOn
    /\ state = "completed" => /\ Quiet => Settled(override)
                              /\ \A r \in Requests : run[r].at # "idle" => RequestOn(r)

-----------------------------------------------------------------------------
(* Records                                                                   *)

LEMMA Constants ==
  /\ 0 \in Files /\ NoFile \notin Files
  /\ \A p \in Paths : p = <<p[1], p[2]>>
  /\ Original \in [Files -> Paths]
  /\ \A f, g \in Files : Original[f] = Original[g] => f = g
  /\ Targets \in [Files -> SUBSET Paths]
  /\ \A f \in Files : Names(f) \subseteq Paths /\ Targets[f] \subseteq Names(f)
  /\ MaxCrashes \in Nat /\ MaxDisturbed \in Nat
  /\ "worker" \in Actors /\ "worker" \notin Requests
  /\ \A p : p \in Actors <=> p \in Requests \/ p = "worker"
  BY FilePlanAssumption DEF Names, Actors

\* A run without operations.
Bare(n) == n \in Run /\ n.plan = {} /\ n.todo = {} /\ n.left = {} /\ n.decided = {} /\ ~n.raced

\* The runs that actions begin with.
LEMMA RunsMade ==
  /\ Bare(Idle) /\ Idle.at = "idle"
  /\ \A a \in Phases : Bare([Idle EXCEPT !.at = a]) /\ [Idle EXCEPT !.at = a].at = a
  /\ \A plan \in SUBSET Operation :
       LET n == [Idle EXCEPT !.at = "validating", !.plan = plan] IN
       /\ n \in Run /\ n.at = "validating" /\ n.plan = plan /\ n.todo = {} /\ n.left = {}
       /\ n.decided = {} /\ ~n.raced
<1>1. Bare(Idle) /\ Idle.at = "idle"
  BY DEF Idle, Run, Phases, Bare
<1>2. ASSUME NEW a \in Phases
      PROVE  Bare([Idle EXCEPT !.at = a]) /\ [Idle EXCEPT !.at = a].at = a
  BY <1>1 DEF Run, Bare, Idle
<1>3. ASSUME NEW plan \in SUBSET Operation
      PROVE  LET n == [Idle EXCEPT !.at = "validating", !.plan = plan] IN
               /\ n \in Run /\ n.at = "validating" /\ n.plan = plan /\ n.todo = {} /\ n.left = {}
               /\ n.decided = {} /\ ~n.raced
  <2> DEFINE bare == [Idle EXCEPT !.at = "validating"]
             n == [bare EXCEPT !.plan = plan]
  <2>1. Bare(bare) /\ bare.at = "validating"
    BY <1>2 DEF Phases
  <2> HIDE DEF bare
  <2>2. /\ n \in Run /\ n.at = "validating" /\ n.plan = plan /\ n.todo = {} /\ n.left = {}
        /\ n.decided = {} /\ ~n.raced
    BY <2>1 DEF Run, Bare
  <2>3. n = [Idle EXCEPT !.at = "validating", !.plan = plan]
    BY DEF bare
  <2> HIDE DEF n
  <2> QED  BY <2>2, <2>3
<1> QED  BY <1>1, <1>2, <1>3

\* The run of p is the same, but for what may have raced it.
KeepsOn(p) ==
  /\ run'[p].at = run[p].at /\ run'[p].plan = run[p].plan /\ run'[p].todo = run[p].todo
  /\ run'[p].left = run[p].left /\ run'[p].decided = run[p].decided

OthersSame(p) == \A q \in Actors \ {p} : run'[q] = run[q]

\* An actor's run is replaced, or some fields of it.
LEMMA RunReplaced ==
  ASSUME run \in [Actors -> Run], NEW p \in Actors, NEW n \in Run, run' = [run EXCEPT ![p] = n]
  PROVE  run' \in [Actors -> Run] /\ run'[p] = n /\ OthersSame(p)
  BY DEF OthersSame

LEMMA RunChanges ==
  ASSUME run \in [Actors -> Run], NEW p \in Actors
  PROVE  /\ \A S \in SUBSET Operation : run' = [run EXCEPT ![p].left = S, ![p].decided = {}] =>
              /\ run' \in [Actors -> Run] /\ OthersSame(p)
              /\ run'[p].at = run[p].at /\ run'[p].plan = run[p].plan /\ run'[p].todo = run[p].todo
              /\ run'[p].left = S /\ run'[p].decided = {} /\ run'[p].raced = run[p].raced
         /\ \A S \in SUBSET Operation : run' = [run EXCEPT ![p].decided = S] =>
              /\ run' \in [Actors -> Run] /\ OthersSame(p)
              /\ run'[p].at = run[p].at /\ run'[p].plan = run[p].plan /\ run'[p].todo = run[p].todo
              /\ run'[p].left = run[p].left /\ run'[p].decided = S /\ run'[p].raced = run[p].raced
         /\ \A a \in Phases : run' = [run EXCEPT ![p].at = a] =>
              /\ run' \in [Actors -> Run] /\ OthersSame(p)
              /\ run'[p].at = a /\ run'[p].plan = run[p].plan /\ run'[p].todo = run[p].todo
              /\ run'[p].left = run[p].left /\ run'[p].decided = run[p].decided
              /\ run'[p].raced = run[p].raced
<1>1. run[p] \in Run
  OBVIOUS
<1>2. ASSUME NEW S \in SUBSET Operation, run' = [run EXCEPT ![p].left = S, ![p].decided = {}]
      PROVE  /\ run' \in [Actors -> Run] /\ OthersSame(p)
             /\ run'[p].at = run[p].at /\ run'[p].plan = run[p].plan /\ run'[p].todo = run[p].todo
             /\ run'[p].left = S /\ run'[p].decided = {} /\ run'[p].raced = run[p].raced
  <2> DEFINE n == [run[p] EXCEPT !.left = S, !.decided = {}]
  <2>1. run' = [run EXCEPT ![p] = n]
    BY <1>2
  <2>2. /\ n \in Run /\ n.at = run[p].at /\ n.plan = run[p].plan /\ n.todo = run[p].todo
        /\ n.left = S /\ n.decided = {} /\ n.raced = run[p].raced
    BY <1>1 DEF Run
  <2> HIDE DEF n
  <2> QED  BY <2>1, <2>2, RunReplaced
<1>3. ASSUME NEW S \in SUBSET Operation, run' = [run EXCEPT ![p].decided = S]
      PROVE  /\ run' \in [Actors -> Run] /\ OthersSame(p)
             /\ run'[p].at = run[p].at /\ run'[p].plan = run[p].plan /\ run'[p].todo = run[p].todo
             /\ run'[p].left = run[p].left /\ run'[p].decided = S /\ run'[p].raced = run[p].raced
  <2> DEFINE n == [run[p] EXCEPT !.decided = S]
  <2>1. run' = [run EXCEPT ![p] = n]
    BY <1>3
  <2>2. /\ n \in Run /\ n.at = run[p].at /\ n.plan = run[p].plan /\ n.todo = run[p].todo
        /\ n.left = run[p].left /\ n.decided = S /\ n.raced = run[p].raced
    BY <1>1 DEF Run
  <2> HIDE DEF n
  <2> QED  BY <2>1, <2>2, RunReplaced
<1>4. ASSUME NEW a \in Phases, run' = [run EXCEPT ![p].at = a]
      PROVE  /\ run' \in [Actors -> Run] /\ OthersSame(p)
             /\ run'[p].at = a /\ run'[p].plan = run[p].plan /\ run'[p].todo = run[p].todo
             /\ run'[p].left = run[p].left /\ run'[p].decided = run[p].decided
             /\ run'[p].raced = run[p].raced
  <2> DEFINE n == [run[p] EXCEPT !.at = a]
  <2>1. run' = [run EXCEPT ![p] = n]
    BY <1>4
  <2>2. /\ n \in Run /\ n.at = a /\ n.plan = run[p].plan /\ n.todo = run[p].todo
        /\ n.left = run[p].left /\ n.decided = run[p].decided /\ n.raced = run[p].raced
    BY <1>1 DEF Run
  <2> HIDE DEF n
  <2> QED  BY <2>1, <2>2, RunReplaced
<1> QED  BY <1>2, <1>3, <1>4

\* A plan begins, and races every other that is being applied.
LEMMA RunBegun ==
  ASSUME TypeOK, NEW p \in Actors, NEW plan \in SUBSET Operation, Begin(p, plan)
  PROVE  /\ run' \in [Actors -> Run]
         /\ run'[p].at = "staging" /\ run'[p].plan = plan /\ run'[p].left = run'[p].todo
         /\ run'[p].todo = {m \in moving(plan) : ~Moved(m)} /\ run'[p].decided = {}
         /\ run'[p].raced <=> \E q \in Actors \ {p} : Applying(q)
         /\ \A q \in Actors \ {p} : KeepsOn(q) /\ (run'[q].raced <=> run[q].raced \/ Applying(q))
<1> DEFINE todo == {m \in moving(plan) : ~Moved(m)}
           others == {q \in Actors \ {p} : Applying(q)}
           begun == [at |-> "staging", plan |-> plan, todo |-> todo, left |-> todo,
                     decided |-> {}, raced |-> others # {}]
           kept(q) == [run[q] EXCEPT !.raced = @ \/ q \in others]
<1>1. todo \in SUBSET Operation
  BY DEF moving
<1>2. /\ begun.at = "staging" /\ begun.plan = plan /\ begun.left = todo /\ begun.todo = todo
      /\ begun.decided = {} /\ begun.raced = (others # {})
  OBVIOUS
<1>3. begun \in Run
  BY <1>1 DEF Run, Phases
<1>4. ASSUME NEW q \in Actors
      PROVE  /\ kept(q) \in Run /\ kept(q).at = run[q].at /\ kept(q).plan = run[q].plan
             /\ kept(q).todo = run[q].todo /\ kept(q).left = run[q].left
             /\ kept(q).decided = run[q].decided /\ (kept(q).raced <=> run[q].raced \/ q \in others)
  <2>1. run[q] \in Run
    BY DEF TypeOK
  <2> HIDE DEF others
  <2> QED  BY <2>1 DEF Run
<1>5. run' = [q \in Actors |-> IF q = p THEN begun ELSE kept(q)]
  BY DEF Begin
<1> HIDE DEF begun, kept
<1>6. run'[p] = begun /\ \A q \in Actors \ {p} : run'[q] = kept(q)
  BY <1>5
<1>7. run' \in [Actors -> Run]
  BY <1>3, <1>4, <1>5
<1> QED  BY <1>2, <1>4, <1>6, <1>7 DEF KeepsOn

LEMMA RunsIntruded ==
  ASSUME TypeOK, run' = Intruded
  PROVE  /\ run' \in [Actors -> Run]
         /\ \A q \in Actors : KeepsOn(q) /\ (run'[q].raced <=> run[q].raced \/ Applying(q))
<1> DEFINE kept(q) == [run[q] EXCEPT !.raced = @ \/ Applying(q)]
<1>1. ASSUME NEW q \in Actors
      PROVE  /\ kept(q) \in Run /\ kept(q).at = run[q].at /\ kept(q).plan = run[q].plan
             /\ kept(q).todo = run[q].todo /\ kept(q).left = run[q].left
             /\ kept(q).decided = run[q].decided /\ (kept(q).raced <=> run[q].raced \/ Applying(q))
  <2>1. run[q] \in Run
    BY DEF TypeOK
  <2> QED  BY <2>1 DEF Run, Applying
<1>2. run' = [q \in Actors |-> kept(q)]
  BY DEF Intruded
<1> HIDE DEF kept
<1> QED  BY <1>1, <1>2 DEF KeepsOn

\* Nothing that is read off the overrides changes while they stay.
LEMMA SameOverride ==
  ASSUME override' = override
  PROVE  /\ VerificationPlan' = VerificationPlan /\ Selected' = Selected
         /\ PathsNamed => PathsNamed'
         /\ \A q : Asked(q)' = Asked(q) /\ PlanOf(q)' = PlanOf(q) /\ Stored(q)' = Stored(q)
<1>1. VerificationPlan' = VerificationPlan /\ Selected' = Selected /\ (PathsNamed => PathsNamed')
  BY DEF VerificationPlan, Selected, PathsNamed, PathsDistinct, WithinTargets
<1>2. ASSUME NEW q
      PROVE  Asked(q)' = Asked(q) /\ Stored(q)' = Stored(q)
  BY DEF Asked, InFolder, Renamed, Stored
<1>3. ASSUME NEW q PROVE PlanOf(q)' = PlanOf(q)
  BY DEF PlanOf, completedFolderPlans, InFolder, Renamed, Selected
<1> QED  BY <1>1, <1>2, <1>3

-----------------------------------------------------------------------------
(* The steps of a plan                                                       *)

\* An operation is treated or decided upon, or the plan is given up.
GoesOn(p, left, decided) ==
  /\ run'[p].at = run[p].at /\ run'[p].plan = run[p].plan /\ run'[p].todo = run[p].todo
  /\ run'[p].left = left /\ run'[p].decided = decided /\ run'[p].raced = run[p].raced
  /\ UNCHANGED <<state, request>>

GivenUp(p) ==
  /\ run'[p] = Idle
  /\ p \in Requests => request' = [request EXCEPT ![p] = NoRequest] /\ state' = state
  /\ p = "worker" => state' \in {"failed", "verifying"} /\ request' = request

Goes(p) ==
  /\ run' \in [Actors -> Run] /\ OthersSame(p)
  /\ Applying(p) /\ UNCHANGED <<size, override, crashes, disturbed>>
  /\ \/ \E m \in run[p].left : GoesOn(p, run[p].left \ {m}, {})
     \/ (\E m \in run[p].left : GoesOn(p, run[p].left, {m})) /\ UNCHANGED <<disk, temp>>
     \/ GivenUp(p) /\ UNCHANGED <<disk, temp>>

LEMMA TreatedOrGivenUp ==
  ASSUME TypeOK, NEW p \in Actors
  PROVE  /\ \A m \in run[p].left : Treated(p, m) =>
              run' \in [Actors -> Run] /\ OthersSame(p) /\ GoesOn(p, run[p].left \ {m}, {})
         /\ \A m \in run[p].left : Decided(p, m) =>
              run' \in [Actors -> Run] /\ OthersSame(p) /\ GoesOn(p, run[p].left, {m})
         /\ \A c \in BOOLEAN : Fail(p, c) =>
              run' \in [Actors -> Run] /\ OthersSame(p) /\ GivenUp(p)
<1>1. run \in [Actors -> Run] /\ run[p].left \in SUBSET Operation
  BY DEF TypeOK, Run
<1>2. ASSUME NEW m \in run[p].left, Treated(p, m)
      PROVE  run' \in [Actors -> Run] /\ OthersSame(p) /\ GoesOn(p, run[p].left \ {m}, {})
  <2>1. run[p].left \ {m} \in SUBSET Operation
    BY <1>1
  <2>2. run' = [run EXCEPT ![p].left = run[p].left \ {m}, ![p].decided = {}] /\ UNCHANGED <<state, request>>
    BY <1>2 DEF Treated
  <2> QED  BY <1>1, <2>1, <2>2, RunChanges DEF GoesOn
<1>3. ASSUME NEW m \in run[p].left, Decided(p, m)
      PROVE  run' \in [Actors -> Run] /\ OthersSame(p) /\ GoesOn(p, run[p].left, {m})
  <2>1. {m} \in SUBSET Operation
    BY <1>1
  <2>2. run' = [run EXCEPT ![p].decided = {m}] /\ UNCHANGED <<state, request>>
    BY <1>3 DEF Decided
  <2> QED  BY <1>1, <2>1, <2>2, RunChanges DEF GoesOn
<1>4. ASSUME NEW c \in BOOLEAN, Fail(p, c)
      PROVE  run' \in [Actors -> Run] /\ OthersSame(p) /\ GivenUp(p)
  <2>1. run' = [run EXCEPT ![p] = Idle]
    BY <1>4 DEF Fail, Answered
  <2>2. Idle \in Run
    BY RunsMade DEF Bare
  <2>3. run' \in [Actors -> Run] /\ OthersSame(p) /\ run'[p] = Idle
    BY <1>1, <2>1, <2>2, RunReplaced
  <2>4. p = "worker" => p \notin Requests
    BY Constants
  <2> QED  BY <1>4, <2>3, <2>4 DEF Fail, Answered, GivenUp
<1> QED  BY <1>2, <1>3, <1>4

LEMMA OperationsLeft ==
  ASSUME TypeOK, NEW p \in Actors
  PROVE  /\ run[p].plan \in SUBSET Operation /\ run[p].left \subseteq run[p].plan
         /\ run[p].decided \subseteq run[p].left
         /\ \A m \in run[p].plan : /\ m.slot \in Files /\ m.file \in Files /\ m.from \in Paths
                                   /\ m.to \in Paths /\ m.selected \in BOOLEAN
<1>1. run[p].plan \in SUBSET Operation
  BY DEF TypeOK, Run
<1> QED  BY <1>1 DEF TypeOK, Operation

LEMMA PlanGoes ==
  ASSUME TypeOK, NEW p \in Actors,
         \/ LookToStage(p) \/ Stage(p) \/ LookToPublish(p) \/ Publish(p)
         \/ LookToExclude(p) \/ Exclude(p)
  PROVE  Goes(p) /\ disk' \in [Paths -> Contents] /\ temp' \in [Files -> Contents]
<1>1. /\ run[p].decided \subseteq run[p].left
      /\ \A m \in run[p].left : /\ m.slot \in Files /\ m.file \in Files /\ m.from \in Paths
                                /\ m.to \in Paths /\ m.selected \in BOOLEAN
  BY OperationsLeft
<1>2. disk \in [Paths -> Contents] /\ temp \in [Files -> Contents] /\ NoFile \in Contents
  BY DEF TypeOK, Contents
<1>3. CASE LookToStage(p)
  <2>1. Applying(p) /\ UNCHANGED <<size, override, disk, temp, crashes, disturbed>>
    BY <1>3 DEF LookToStage, Applying
  <2>2. PICK m \in run[p].left : Decided(p, m) \/ Treated(p, m)
    BY <1>3 DEF LookToStage
  <2> QED  BY <1>2, <2>1, <2>2, TreatedOrGivenUp DEF Goes
<1>4. CASE Stage(p)
  <2>1. Applying(p) /\ UNCHANGED <<size, override, crashes, disturbed>>
    BY <1>4 DEF Stage, Applying
  <2>2. PICK m \in run[p].left :
          \/ Fail(p, FALSE) /\ UNCHANGED <<disk, temp>>
          \/ /\ temp' = [temp EXCEPT ![m.slot] = disk[m.from]]
             /\ disk' = [disk EXCEPT ![m.from] = NoFile]
             /\ Treated(p, m)
    BY <1>1, <1>4 DEF Stage
  <2>3. disk' \in [Paths -> Contents] /\ temp' \in [Files -> Contents]
    BY <1>1, <1>2, <2>2
  <2>4. Treated(p, m) \/ (Fail(p, FALSE) /\ UNCHANGED <<disk, temp>>)
    BY <2>2
  <2> QED  BY <2>1, <2>3, <2>4, TreatedOrGivenUp DEF Goes
<1>5. CASE LookToPublish(p)
  <2>1. Applying(p) /\ UNCHANGED <<size, override, disk, temp, crashes, disturbed>>
    BY <1>5 DEF LookToPublish, Applying
  <2>2. PICK m \in run[p].left : Decided(p, m) \/ Treated(p, m) \/ \E c \in BOOLEAN : Fail(p, c)
    BY <1>5 DEF LookToPublish
  <2> QED  BY <1>2, <2>1, <2>2, TreatedOrGivenUp DEF Goes
<1>6. CASE Publish(p)
  <2>1. Applying(p) /\ UNCHANGED <<size, override, crashes, disturbed>>
    BY <1>6 DEF Publish, Applying
  <2>2. PICK m \in run[p].left :
          \/ Fail(p, FALSE) /\ UNCHANGED <<disk, temp>>
          \/ /\ disk' = [disk EXCEPT ![m.to] = temp[m.slot]]
             /\ temp' = [temp EXCEPT ![m.slot] = NoFile]
             /\ Treated(p, m)
    BY <1>1, <1>6 DEF Publish
  <2>3. disk' \in [Paths -> Contents] /\ temp' \in [Files -> Contents]
    BY <1>1, <1>2, <2>2
  <2>4. Treated(p, m) \/ (Fail(p, FALSE) /\ UNCHANGED <<disk, temp>>)
    BY <2>2
  <2> QED  BY <2>1, <2>3, <2>4, TreatedOrGivenUp DEF Goes
<1>7. CASE LookToExclude(p)
  <2>1. Applying(p) /\ UNCHANGED <<size, override, disk, temp, crashes, disturbed>>
    BY <1>7 DEF LookToExclude, Applying
  <2>2. PICK m \in run[p].left : Decided(p, m) \/ Treated(p, m) \/ Fail(p, TRUE)
    BY <1>7 DEF LookToExclude
  <2> QED  BY <1>2, <2>1, <2>2, TreatedOrGivenUp DEF Goes
<1>8. CASE Exclude(p)
  <2>1. Applying(p) /\ UNCHANGED <<size, override, temp, crashes, disturbed>>
    BY <1>8 DEF Exclude, Applying
  <2>2. PICK m \in run[p].left : disk' = [disk EXCEPT ![m.from] = NoFile] /\ Treated(p, m)
    BY <1>1, <1>8 DEF Exclude
  <2>3. disk' \in [Paths -> Contents] /\ temp' \in [Files -> Contents]
    BY <1>1, <1>2, <2>1, <2>2
  <2> QED  BY <2>1, <2>2, <2>3, TreatedOrGivenUp DEF Goes
<1> QED  BY <1>3, <1>4, <1>5, <1>6, <1>7, <1>8

LEMMA PhaseEnds ==
  ASSUME TypeOK, NEW p \in Actors, NextPhase(p)
  PROVE  /\ run' \in [Actors -> Run] /\ OthersSame(p) /\ run'[p].decided = {}
         /\ run[p].left = {} /\ UNCHANGED <<size, state, override, disk, temp, request, crashes, disturbed>>
         /\ \/ /\ run[p].at = "staging" /\ run'[p].at = "publishing" /\ run'[p].raced = run[p].raced
               /\ run'[p].plan = run[p].plan /\ run'[p].todo = run[p].todo /\ run'[p].left = run[p].todo
            \/ /\ run[p].at = "publishing" /\ run'[p].at = "excluding" /\ run'[p].raced = run[p].raced
               /\ run'[p].plan = run[p].plan /\ run'[p].todo = run[p].todo
               /\ run'[p].left = {m \in run[p].plan : ~m.selected}
            \/ /\ run[p].at = "excluding" /\ Bare(run'[p])
               /\ run'[p].at = IF p \in Requests THEN "storing" ELSE "verifying"
<1>1. run \in [Actors -> Run] /\ run[p] \in Run /\ run[p].left = {}
      /\ run[p].at \in {"staging", "publishing", "excluding"}
  BY DEF TypeOK, NextPhase, Applying
<1>2. run[p].decided = {} /\ UNCHANGED <<size, state, override, disk, temp, request, crashes, disturbed>>
  BY <1>1, OperationsLeft DEF NextPhase
<1>3. CASE run[p].at = "staging"
  <2> DEFINE n == [run[p] EXCEPT !.at = "publishing", !.left = run[p].todo]
  <2>1. run' = [run EXCEPT ![p] = n]
    BY <1>3 DEF NextPhase
  <2>2. /\ n \in Run /\ n.at = "publishing" /\ n.plan = run[p].plan /\ n.todo = run[p].todo
        /\ n.left = run[p].todo /\ n.decided = {} /\ n.raced = run[p].raced
    BY <1>1, <1>2 DEF Run, Phases
  <2> HIDE DEF n
  <2>3. run' \in [Actors -> Run] /\ run'[p] = n /\ OthersSame(p)
    BY <1>1, <2>1, <2>2, RunReplaced
  <2> QED  BY <1>1, <1>2, <1>3, <2>2, <2>3
<1>4. CASE run[p].at = "publishing"
  <2> DEFINE n == [run[p] EXCEPT !.at = "excluding", !.left = {m \in run[p].plan : ~m.selected}]
  <2>1. run' = [run EXCEPT ![p] = n]
    BY <1>4 DEF NextPhase
  <2>2. /\ n \in Run /\ n.at = "excluding" /\ n.plan = run[p].plan /\ n.todo = run[p].todo
        /\ n.left = {m \in run[p].plan : ~m.selected} /\ n.decided = {} /\ n.raced = run[p].raced
    BY <1>1, <1>2 DEF Run, Phases
  <2> HIDE DEF n
  <2>3. run' \in [Actors -> Run] /\ run'[p] = n /\ OthersSame(p)
    BY <1>1, <2>1, <2>2, RunReplaced
  <2> QED  BY <1>1, <1>2, <1>4, <2>2, <2>3
<1>5. CASE run[p].at = "excluding"
  <2> DEFINE a == IF p \in Requests THEN "storing" ELSE "verifying"
             n == [Idle EXCEPT !.at = a]
  <2>1. run' = [run EXCEPT ![p] = n]
    BY <1>5 DEF NextPhase
  <2>2. a \in Phases
    BY DEF Phases
  <2> HIDE DEF a
  <2>3. Bare(n) /\ n.at = a
    BY <2>2, RunsMade
  <2> HIDE DEF n
  <2>4. run' \in [Actors -> Run] /\ run'[p] = n /\ OthersSame(p)
    BY <1>1, <2>1, <2>3, RunReplaced DEF Bare
  <2> QED  BY <1>1, <1>2, <1>5, <2>3, <2>4 DEF a, Bare
<1> QED  BY <1>1, <1>3, <1>4, <1>5

\* An actor that has the disk to itself may as well look and move in one step.
StagesAtOnce(p) ==
  /\ run[p].at = "staging" /\ UNCHANGED <<size, override, crashes, disturbed>>
  /\ \E m \in run[p].left :
       \/ temp[m.slot] # NoFile /\ Treated(p, m) /\ UNCHANGED <<disk, temp>>
       \/ /\ temp[m.slot] = NoFile /\ disk[m.from] # NoFile
          /\ temp' = [temp EXCEPT ![m.slot] = disk[m.from]]
          /\ disk' = [disk EXCEPT ![m.from] = NoFile]
          /\ Treated(p, m)
       \/ /\ temp[m.slot] = NoFile /\ disk[m.from] = NoFile
          /\ Fail(p, FALSE) /\ UNCHANGED <<disk, temp>>

PublishesAtOnce(p) ==
  /\ run[p].at = "publishing" /\ UNCHANGED <<size, override, crashes, disturbed>>
  /\ \E m \in run[p].left :
       \/ /\ temp[m.slot] = NoFile
          /\ IF Fits(disk[m.to], m) THEN Treated(p, m) ELSE Fail(p, FALSE)
          /\ UNCHANGED <<disk, temp>>
       \/ /\ temp[m.slot] # NoFile /\ Occupied(run[p].plan, m)
          /\ Fail(p, TRUE) /\ UNCHANGED <<disk, temp>>
       \/ /\ temp[m.slot] # NoFile /\ ~Occupied(run[p].plan, m)
          /\ disk' = [disk EXCEPT ![m.to] = temp[m.slot]]
          /\ temp' = [temp EXCEPT ![m.slot] = NoFile]
          /\ Treated(p, m)

ExcludesAtOnce(p) ==
  /\ run[p].at = "excluding" /\ UNCHANGED <<size, override, temp, crashes, disturbed>>
  /\ \E m \in run[p].left :
       \/ disk[m.from] = NoFile /\ Treated(p, m) /\ UNCHANGED disk
       \/ disk[m.from] # NoFile /\ ~Fits(disk[m.from], m) /\ Fail(p, TRUE) /\ UNCHANGED disk
       \/ /\ Fits(disk[m.from], m)
          /\ disk' = [disk EXCEPT ![m.from] = NoFile]
          /\ Treated(p, m)

\* A look that decides changes nothing else.
LooksOnly(p) ==
  /\ Applying(p) /\ OthersSame(p) /\ run' \in [Actors -> Run]
  /\ run'[p].at = run[p].at /\ run'[p].plan = run[p].plan /\ run'[p].todo = run[p].todo
  /\ run'[p].left = run[p].left /\ run'[p].raced = run[p].raced
  /\ UNCHANGED <<size, state, override, disk, temp, request, crashes, disturbed>>

LEMMA UndisputedSteps ==
  ASSUME PlanInv, NEW p \in Actors, ~run[p].raced
  PROVE  /\ LookToStage(p) \/ Stage(p) => LooksOnly(p) \/ StagesAtOnce(p)
         /\ LookToPublish(p) \/ Publish(p) => LooksOnly(p) \/ PublishesAtOnce(p)
         /\ LookToExclude(p) \/ Exclude(p) => LooksOnly(p) \/ ExcludesAtOnce(p)
<1>1. TypeOK /\ run[p].decided \subseteq run[p].left /\ (Applying(p) => StillSo(p))
  BY OperationsLeft DEF PlanInv, Unraced
<1>2. ASSUME NEW m \in run[p].left, Decided(p, m), Applying(p),
             UNCHANGED <<size, override, disk, temp, crashes, disturbed>>
      PROVE  LooksOnly(p)
  BY <1>1, <1>2, TreatedOrGivenUp DEF GoesOn, LooksOnly
<1>3. LookToStage(p) => LooksOnly(p) \/ StagesAtOnce(p)
  BY <1>2 DEF LookToStage, Applying, StagesAtOnce
<1>4. Stage(p) => StagesAtOnce(p)
  BY <1>1 DEF Stage, Applying, StillSo, StagesAtOnce
<1>5. LookToPublish(p) => LooksOnly(p) \/ PublishesAtOnce(p)
  BY <1>2 DEF LookToPublish, Applying, PublishesAtOnce
<1>6. Publish(p) => PublishesAtOnce(p)
  BY <1>1 DEF Publish, Applying, StillSo, PublishesAtOnce
<1>7. LookToExclude(p) => LooksOnly(p) \/ ExcludesAtOnce(p)
  BY <1>2 DEF LookToExclude, Applying, ExcludesAtOnce
<1>8. Exclude(p) => ExcludesAtOnce(p)
  BY <1>1 DEF Exclude, Applying, StillSo, ExcludesAtOnce
<1> QED  BY <1>3, <1>4, <1>5, <1>6, <1>7, <1>8

-----------------------------------------------------------------------------
(* What is asked                                                             *)

\* Which operations a plan has.
LEMMA PlansMade ==
  ASSUME TypeOK, PathsNamed
  PROVE  /\ VerificationPlan \in SUBSET Operation
         /\ \A q \in Request : q.kind # "none" /\ Asked(q) =>
              PlanOf(q) \in SUBSET Operation /\ Apart(PlanOf(q))
<1>1. \A f \in Files : override[f].path \in Paths /\ override[f].selected \in BOOLEAN
  BY DEF TypeOK, Override
<1>2. VerificationPlan \in SUBSET Operation
  BY <1>1, Constants DEF VerificationPlan, Operation, Slot
<1>3. ASSUME NEW q \in Request, q.kind = "file", Asked(q)
      PROVE  PlanOf(q) \in SUBSET Operation /\ Apart(PlanOf(q))
  <2>1. q.file \in Files
    BY <1>3 DEF Request
  <2>2. q.path \in Paths /\ q.path # override[q.file].path
    BY <1>3, <2>1, Constants DEF Asked
  <2> DEFINE m == [slot |-> 0, file |-> q.file, from |-> override[q.file].path, to |-> q.path,
                   selected |-> TRUE]
  <2>3. PlanOf(q) = {m}
    BY <1>3 DEF PlanOf
  <2>4. m \in Operation /\ m.selected /\ m.from # m.to
    BY <1>1, <2>1, <2>2, Constants DEF Operation
  <2> HIDE DEF m
  <2> QED  BY <2>3, <2>4 DEF Apart
<1>4. ASSUME NEW q \in Request, q.kind = "folder", Asked(q)
      PROVE  PlanOf(q) \in SUBSET Operation /\ Apart(PlanOf(q))
  <2>1. q.old # q.new
    BY <1>4 DEF Asked
  <2>2. ASSUME NEW m \in completedFolderPlans(q.old, q.new)
        PROVE  m \in Operation /\ m.selected /\ m.from[1] = q.old /\ m.to[1] = q.new
    <3>1. PICK f \in InFolder(q.old) \intersect Selected :
            m = [slot |-> Slot(f), file |-> f, from |-> override[f].path,
                 to |-> Renamed(override[f].path, q.old, q.new), selected |-> TRUE]
      BY DEF completedFolderPlans
    <3>2. /\ f \in Files /\ override[f].path[1] = q.old
          /\ Renamed(override[f].path, q.old, q.new) \in Paths
      BY <1>4, <3>1, Constants DEF InFolder, Asked
    <3>3. Renamed(override[f].path, q.old, q.new)[1] = q.new
      BY <3>2 DEF Renamed
    <3> QED  BY <1>1, <3>1, <3>2, <3>3 DEF Operation, Slot
  <2>3. PlanOf(q) = completedFolderPlans(q.old, q.new)
    BY <1>4 DEF PlanOf
  <2> QED  BY <2>1, <2>2, <2>3 DEF Apart
<1>5. \A q \in Request : q.kind \in {"none", "file", "folder"}
  BY DEF Request
<1> QED  BY <1>2, <1>3, <1>4, <1>5

\* What a request begins with.
LEMMA Asks ==
  ASSUME TypeOK, NEW r \in Requests, NEW q \in Request, NEW plan \in SUBSET Operation,
         Ask(r, q, plan)
  PROVE  /\ run' \in [Actors -> Run] /\ OthersSame(r) /\ run[r].at = "idle"
         /\ request' = [request EXCEPT ![r] = q]
         /\ UNCHANGED <<size, state, override, disk, temp, crashes>>
         /\ run'[r].todo = {} /\ run'[r].left = {} /\ run'[r].decided = {} /\ ~run'[r].raced
         /\ IF state = "completed" THEN run'[r].at = "validating" /\ run'[r].plan = plan
                                   ELSE run'[r].at = "storing" /\ run'[r].plan = {}
         /\ disturbed' \in 0..MaxDisturbed
         /\ IF Quiet /\ Renameable THEN disturbed' = disturbed ELSE disturbed' = disturbed + 1
<1>1. run \in [Actors -> Run] /\ r \in Actors /\ "storing" \in Phases
  BY Constants DEF TypeOK, Phases
<1>2. /\ run[r].at = "idle" /\ request' = [request EXCEPT ![r] = q]
      /\ UNCHANGED <<size, state, override, disk, temp, crashes>>
  BY DEF Ask
<1>3. /\ disturbed' \in 0..MaxDisturbed
      /\ IF Quiet /\ Renameable THEN disturbed' = disturbed ELSE disturbed' = disturbed + 1
  BY Constants DEF Ask, Disturb, TypeOK
<1>4. CASE state # "completed"
  <2> DEFINE s == [Idle EXCEPT !.at = "storing"]
  <2>1. run' = [run EXCEPT ![r] = s]
    BY <1>4 DEF Ask
  <2>2. Bare(s) /\ s.at = "storing"
    BY <1>1, RunsMade
  <2> HIDE DEF s
  <2>3. run' \in [Actors -> Run] /\ run'[r] = s /\ OthersSame(r)
    BY <1>1, <2>1, <2>2, RunReplaced DEF Bare
  <2> QED  BY <1>2, <1>3, <1>4, <2>2, <2>3 DEF Bare
<1>5. CASE state = "completed"
  <2> DEFINE n == [Idle EXCEPT !.at = "validating", !.plan = plan]
  <2>1. run' = [run EXCEPT ![r] = n]
    BY <1>5 DEF Ask
  <2>2. /\ n \in Run /\ n.at = "validating" /\ n.plan = plan /\ n.todo = {} /\ n.left = {}
        /\ n.decided = {} /\ ~n.raced
    BY RunsMade
  <2> HIDE DEF n
  <2>3. run' \in [Actors -> Run] /\ run'[r] = n /\ OthersSame(r)
    BY <1>1, <2>1, <2>2, RunReplaced
  <2> QED  BY <1>2, <1>3, <1>5, <2>2, <2>3
<1> QED  BY <1>4, <1>5

\* The plan that a request of either kind is served with.
LEMMA AsksMade ==
  ASSUME TypeOK, NEW r \in Requests
  PROVE  /\ \A f \in Files, path \in Paths : renameFile(r, f, path) =>
              \E q \in Request : q.kind # "none" /\ Asked(q) /\ Ask(r, q, PlanOf(q))
         /\ \A old, new \in Directories : renameFolder(r, old, new) =>
              \E q \in Request : q.kind # "none" /\ Asked(q) /\ Ask(r, q, PlanOf(q))
<1>1. \A f \in Files : override[f].path \in Paths /\ override[f].selected \in BOOLEAN
  BY DEF TypeOK, Override
<1>2. ASSUME NEW f \in Files, NEW path \in Paths, renameFile(r, f, path)
      PROVE  \E q \in Request : q.kind # "none" /\ Asked(q) /\ Ask(r, q, PlanOf(q))
  <2> DEFINE q == [kind |-> "file", file |-> f, path |-> path, selected |-> override[f].selected]
             plan == {[slot |-> 0, file |-> f, from |-> override[f].path, to |-> path, selected |-> TRUE]}
  <2>1. q \in Request /\ q.kind = "file" /\ q.file = f /\ q.path = path /\ q.selected = override[f].selected
    BY <1>1 DEF Request
  <2>2. PlanOf(q) = plan
    BY <2>1 DEF PlanOf
  <2>3. /\ path \in Targets[f] \ {override[f].path}
        /\ \A g \in Files \ {f} : override[g].path # path
        /\ Ask(r, q, plan)
    BY <1>2 DEF renameFile
  <2> HIDE DEF q, plan
  <2>4. Asked(q)
    BY <2>1, <2>3 DEF Asked
  <2> QED  BY <2>1, <2>2, <2>3, <2>4
<1>3. ASSUME NEW old \in Directories, NEW new \in Directories, renameFolder(r, old, new)
      PROVE  \E q \in Request : q.kind # "none" /\ Asked(q) /\ Ask(r, q, PlanOf(q))
  <2> DEFINE q == [kind |-> "folder", old |-> old, new |-> new]
  <2>1. q \in Request /\ q.kind = "folder" /\ q.old = old /\ q.new = new
    BY DEF Request
  <2>2. PlanOf(q) = completedFolderPlans(old, new)
    BY <2>1 DEF PlanOf
  <2>3. /\ old # new /\ Ask(r, q, completedFolderPlans(old, new))
        /\ \A f \in InFolder(old) : Renamed(override[f].path, old, new) \in Targets[f]
    BY <1>3 DEF renameFolder
  <2> HIDE DEF q
  <2>4. Asked(q)
    BY <2>1, <2>3 DEF Asked
  <2> QED  BY <2>1, <2>2, <2>3, <2>4
<1> QED  BY <1>2, <1>3

-----------------------------------------------------------------------------
(* PlanInv                                                                   *)

LEMMA PlanInvInit == Init => PlanInv
<1> SUFFICES ASSUME Init PROVE PlanInv  OBVIOUS
<1>1. run \in [Actors -> Run] /\ \A p \in Actors : run[p] = Idle
  BY RunsMade DEF Init, Bare
<1>2. Bare(Idle) /\ Idle.at = "idle"
  BY RunsMade
<1>3. TypeOK
  <2>1. override \in [Files -> Override]
    BY Constants DEF Init, Override
  <2>2. request \in [Requests -> Request]
    BY DEF Init, Request, NoRequest
  <2>3. \A p \in Actors : /\ run[p].todo \subseteq run[p].plan /\ run[p].left \subseteq run[p].plan
                          /\ run[p].decided \subseteq run[p].left
    BY <1>1, <1>2 DEF Bare
  <2> QED  BY <1>1, <2>1, <2>2, <2>3, Constants DEF Init, TypeOK, States, Contents
<1>4. PathsNamed
  BY Constants DEF Init, PathsNamed, PathsDistinct, WithinTargets, Names
<1>5. WorkerHolds /\ RequestsHold /\ PhasesHold /\ Unraced
  BY <1>1, <1>2, Constants DEF WorkerHolds, RequestsHold, PhasesHold, Unraced, Applying, Working, Bare
<1> QED  BY <1>3, <1>4, <1>5 DEF Init, PlanInv, Untouched

\* A run keeps its operations, if only to end.
Carries(p) ==
  /\ run'[p].plan = run[p].plan /\ run'[p].todo = run[p].todo
  /\ run'[p].left = run[p].left /\ run'[p].decided = run[p].decided
  /\ run'[p].at = run[p].at \/ run'[p].at \notin Working

\* Steps in which no plan begins or goes on.
LEMMA PlanInvKept ==
  ASSUME PlanInv, UNCHANGED <<size, override>>, state' \in States,
         run' \in [Actors -> Run], request' \in [Requests -> Request],
         disk' \in [Paths -> Contents], temp' \in [Files -> Contents],
         crashes' \in 0..MaxCrashes, disturbed' \in 0..MaxDisturbed,
         \A p \in Actors : Carries(p) \/ (Bare(run'[p]) /\ run'[p].at \notin Working),
         \A p \in Actors : Applying(p)' /\ run[p].raced => run'[p].raced,
         UNCHANGED <<disk, temp>> \/ \A p \in Actors : Applying(p)' => run'[p].raced,
         Untouched', WorkerHolds',
         \A r \in Requests : /\ run'[r].at \in {"idle", "storing"} \union Working
                             /\ run'[r].at # "idle" => request'[r].kind # "none"
  PROVE  PlanInv'
<1>1. TypeOK /\ PathsNamed /\ Untouched /\ WorkerHolds /\ RequestsHold /\ PhasesHold /\ Unraced
  BY DEF PlanInv
<1>2. ASSUME NEW p \in Actors
      PROVE  /\ run'[p].todo \subseteq run'[p].plan /\ run'[p].left \subseteq run'[p].plan
             /\ run'[p].decided \subseteq run'[p].left
  BY <1>1 DEF TypeOK, Carries, Bare
<1>3. TypeOK'
  BY <1>1, <1>2 DEF TypeOK
<1>4. PathsNamed'
  BY <1>1, SameOverride
<1>5. RequestsHold'
  <2>1. ASSUME NEW r \in Requests, run'[r].at \in Working PROVE Apart(run'[r].plan)
    <3>1. Carries(r) /\ run'[r].at = run[r].at
      BY <2>1, Constants DEF Carries
    <3> QED  BY <1>1, <2>1, <3>1 DEF RequestsHold, Carries
  <2>2. \A plan : Apart(plan)' <=> Apart(plan)
    BY DEF Apart
  <2> QED  BY <2>1, <2>2 DEF RequestsHold
<1>6. PhasesHold'
  <2>1. ASSUME NEW p \in Actors
        PROVE  /\ run'[p].todo \subseteq moving(run'[p].plan)
               /\ run'[p].at \in {"staging", "publishing"} => run'[p].left \subseteq run'[p].todo
               /\ run'[p].at = "excluding" => \A m \in run'[p].left : ~m.selected
    BY <1>1 DEF PhasesHold, Carries, Bare, Working
  <2> QED  BY <2>1 DEF PhasesHold, moving
<1>7. Unraced'
  <2>1. \A p \in Actors : Applying(p)' => Applying(p) /\ Carries(p) /\ run'[p].at = run[p].at
    BY DEF Applying, Carries, Working
  <2>2. ASSUME NEW p \in Actors, Applying(p)', ~run'[p].raced
        PROVE  StillSo(p)'
    <3>1. UNCHANGED <<disk, temp, size>> /\ StillSo(p) /\ Carries(p) /\ run'[p].at = run[p].at
      BY <1>1, <2>1, <2>2 DEF Unraced
    <3> QED  BY <3>1 DEF StillSo, Occupied, Fits, moving, Carries
  <2> QED  BY <1>1, <2>1, <2>2 DEF Unraced
<1> QED  BY <1>1, <1>3, <1>4, <1>5, <1>6, <1>7 DEF PlanInv

\* Where there is nothing, no plan brings anything.
LEMMA EmptyStays ==
  ASSUME TypeOK, NEW p \in Actors, \A q \in Paths : disk[q] = NoFile, \A s \in Files : temp[s] = NoFile,
         \/ LookToStage(p) \/ Stage(p) \/ LookToPublish(p) \/ Publish(p)
         \/ LookToExclude(p) \/ Exclude(p)
  PROVE  (\A q \in Paths : disk'[q] = NoFile) /\ (\A s \in Files : temp'[s] = NoFile)
<1>1. disk \in [Paths -> Contents] /\ temp \in [Files -> Contents]
      /\ \A m \in run[p].decided : m.slot \in Files /\ m.from \in Paths
  BY OperationsLeft DEF TypeOK
<1>2. CASE Stage(p) \/ Publish(p)
  BY <1>1, <1>2 DEF Stage, Publish
<1>3. CASE Exclude(p)
  BY <1>1, <1>3 DEF Exclude
<1>4. CASE LookToStage(p) \/ LookToPublish(p) \/ LookToExclude(p)
  BY <1>4 DEF LookToStage, LookToPublish, LookToExclude
<1> QED  BY <1>2, <1>3, <1>4

\* What a look finds is so, and nothing remains decided once it is done.
LEMMA SeenStillSo ==
  ASSUME TypeOK, NEW p \in Actors,
         \/ LookToStage(p) \/ Stage(p) \/ LookToPublish(p) \/ Publish(p)
         \/ LookToExclude(p) \/ Exclude(p)
  PROVE  Applying(p)' => StillSo(p)'
<1>1. run[p].decided \subseteq run[p].left
  BY OperationsLeft
<1>2. ASSUME NEW m \in run[p].left, Treated(p, m) PROVE StillSo(p)'
  <2>1. run'[p].decided = {}
    BY <1>2, TreatedOrGivenUp DEF GoesOn
  <2> QED  BY <2>1 DEF StillSo
<1>3. ASSUME NEW c \in BOOLEAN, Fail(p, c) PROVE ~Applying(p)'
  <2>1. run'[p] = Idle
    BY <1>3, TreatedOrGivenUp DEF GivenUp
  <2> QED  BY <2>1, RunsMade DEF Applying
<1>4. ASSUME NEW m \in run[p].left, Decided(p, m), UNCHANGED <<size, disk, temp>>,
             run[p].at = "staging" => temp[m.slot] = NoFile,
             run[p].at = "publishing" => temp[m.slot] # NoFile /\ ~Occupied(run[p].plan, m),
             run[p].at = "excluding" => Fits(disk[m.from], m)
      PROVE  StillSo(p)'
  <2>1. run'[p].decided = {m} /\ run'[p].at = run[p].at /\ run'[p].plan = run[p].plan
    BY <1>4, TreatedOrGivenUp DEF GoesOn
  <2> QED  BY <1>4, <2>1 DEF StillSo, Occupied, Fits, moving
<1>5. CASE Stage(p) \/ Publish(p) \/ Exclude(p)
  BY <1>1, <1>2, <1>3, <1>5 DEF Stage, Publish, Exclude
<1>6. CASE LookToStage(p)
  BY <1>2, <1>4, <1>6 DEF LookToStage
<1>7. CASE LookToPublish(p)
  BY <1>2, <1>3, <1>4, <1>7 DEF LookToPublish
<1>8. CASE LookToExclude(p)
  BY <1>2, <1>3, <1>4, <1>8 DEF LookToExclude
<1> QED  BY <1>5, <1>6, <1>7, <1>8

LEMMA PlanInvGoes ==
  ASSUME PlanInv, NEW p \in Actors,
         \/ LookToStage(p) \/ Stage(p) \/ LookToPublish(p) \/ Publish(p)
         \/ LookToExclude(p) \/ Exclude(p)
  PROVE  PlanInv'
<1>1. TypeOK /\ PathsNamed /\ Untouched /\ WorkerHolds /\ RequestsHold /\ PhasesHold /\ Unraced
  BY DEF PlanInv
<1>2. /\ run' \in [Actors -> Run] /\ OthersSame(p) /\ Applying(p)
      /\ UNCHANGED <<size, override, crashes, disturbed>>
      /\ disk' \in [Paths -> Contents] /\ temp' \in [Files -> Contents]
      /\ \/ \E m \in run[p].left : GoesOn(p, run[p].left \ {m}, {})
         \/ (\E m \in run[p].left : GoesOn(p, run[p].left, {m})) /\ UNCHANGED <<disk, temp>>
         \/ GivenUp(p) /\ UNCHANGED <<disk, temp>>
  BY <1>1, PlanGoes DEF Goes
<1>3. Applying(p)' => StillSo(p)'
  BY <1>1, SeenStillSo
<1>4. state \in {"preStart", "copying"} =>
        (\A q \in Paths : disk'[q] = NoFile) /\ (\A s \in Files : temp'[s] = NoFile)
  BY <1>1, EmptyStays DEF Untouched
<1>5. VerificationPlan' = VerificationPlan /\ PathsNamed'
  BY <1>1, <1>2, SameOverride
<1>6. p \in Requests \/ p = "worker"
  BY Constants
<1>7. CASE GivenUp(p) /\ UNCHANGED <<disk, temp>>
  <2>1. Bare(run'[p]) /\ run'[p].at = "idle"
    BY <1>7, RunsMade DEF GivenUp
  <2>2. \A q \in Actors \ {p} : run'[q] = run[q]
    BY <1>2 DEF OthersSame
  <2>3. p = "worker" => state = "verifying"
    BY <1>1, <1>2 DEF WorkerHolds, Applying
  <2>4. state' \in States /\ (state' = state \/ (p = "worker" /\ state' \in {"failed", "verifying"}))
    BY <1>1, <1>6, <1>7 DEF GivenUp, TypeOK, States
  <2>5. request' \in [Requests -> Request] /\ \A r \in Requests \ {p} : request'[r] = request[r]
    BY <1>1, <1>6, <1>7 DEF GivenUp, TypeOK, Request, NoRequest
  <2>6. Untouched'
    BY <1>1, <1>7, <2>4 DEF Untouched
  <2>7. WorkerHolds'
    <3>1. CASE p = "worker"
      BY <2>1, <3>1 DEF WorkerHolds, Applying
    <3>2. CASE p # "worker"
      <4>1. run'["worker"] = run["worker"] /\ state' = state
        BY <2>2, <2>4, <3>2, Constants
      <4> QED  BY <1>1, <1>5, <4>1 DEF WorkerHolds, Applying
    <3> QED  BY <3>1, <3>2
  <2>8. \A q \in Actors : Carries(q) \/ (Bare(run'[q]) /\ run'[q].at \notin Working)
    BY <2>1, <2>2 DEF Carries, Working
  <2>9. \A q \in Actors : Applying(q)' /\ run[q].raced => run'[q].raced
    BY <2>1, <2>2 DEF Applying
  <2>10. \A r \in Requests : /\ run'[r].at \in {"idle", "storing"} \union Working
                             /\ run'[r].at # "idle" => request'[r].kind # "none"
    BY <1>1, <2>1, <2>2, <2>5, Constants DEF RequestsHold
  <2>11. /\ disk' \in [Paths -> Contents] /\ temp' \in [Files -> Contents]
         /\ crashes' \in 0..MaxCrashes /\ disturbed' \in 0..MaxDisturbed
    BY <1>1, <1>2 DEF TypeOK
  <2> QED  BY <1>2, <1>7, <2>4, <2>5, <2>6, <2>7, <2>8, <2>9, <2>10, <2>11, PlanInvKept
<1>8. ASSUME NEW left, NEW decided, GoesOn(p, left, decided), left \subseteq run[p].left, decided \subseteq left,
             decided = {} \/ UNCHANGED <<disk, temp>>
      PROVE  PlanInv'
  <2>1. /\ run'[p].at = run[p].at /\ run'[p].plan = run[p].plan /\ run'[p].todo = run[p].todo
        /\ run'[p].left = left /\ run'[p].decided = decided /\ run'[p].raced = run[p].raced
        /\ UNCHANGED <<state, request>> /\ \A q \in Actors \ {p} : run'[q] = run[q]
    BY <1>2, <1>8 DEF GoesOn, OthersSame
  <2>2. \A q \in Actors : /\ run'[q].at = run[q].at /\ run'[q].plan = run[q].plan /\ run'[q].todo = run[q].todo
                          /\ run'[q].left \subseteq run[q].left /\ run'[q].raced = run[q].raced
                          /\ run'[q].decided \subseteq run'[q].left
    BY <1>1, <1>8, <2>1 DEF TypeOK
  <2>3. TypeOK'
    BY <1>1, <1>2, <2>1, <2>2 DEF TypeOK
  <2>4. Untouched'
    BY <1>4, <2>1 DEF Untouched
  <2>5. WorkerHolds'
    BY <1>1, <1>5, <2>1, <2>2, Constants DEF WorkerHolds, Applying
  <2>6. RequestsHold'
    BY <1>1, <2>1, <2>2, Constants DEF RequestsHold, Apart
  <2>7. PhasesHold'
    BY <1>1, <2>2 DEF PhasesHold, moving
  <2>8. Unraced'
    <3>1. \A q \in Actors : (Applying(q)' <=> Applying(q)) /\ run'[q].raced = run[q].raced
      BY <2>2 DEF Applying
    <3>2. ASSUME NEW q \in Actors, Applying(q), ~run[q].raced PROVE StillSo(q)'
      <4>1. CASE q = p
        BY <1>3, <3>1, <3>2, <4>1
      <4>2. CASE q # p
        BY <1>1, <1>2, <3>2, <4>2 DEF Unraced
      <4> QED  BY <4>1, <4>2
    <3> QED  BY <1>1, <3>1, <3>2 DEF Unraced
  <2> QED  BY <1>5, <2>3, <2>4, <2>5, <2>6, <2>7, <2>8 DEF PlanInv
<1>9. CASE \E m \in run[p].left : GoesOn(p, run[p].left \ {m}, {})
  BY <1>8, <1>9
<1>10. CASE (\E m \in run[p].left : GoesOn(p, run[p].left, {m})) /\ UNCHANGED <<disk, temp>>
  BY <1>8, <1>10
<1> QED  BY <1>2, <1>7, <1>9, <1>10

LEMMA PlanInvPhase ==
  ASSUME PlanInv, NEW p \in Actors, NextPhase(p)
  PROVE  PlanInv'
<1>1. TypeOK /\ PathsNamed /\ Untouched /\ WorkerHolds /\ RequestsHold /\ PhasesHold /\ Unraced
  BY DEF PlanInv
<1>2. /\ run' \in [Actors -> Run] /\ \A q \in Actors \ {p} : run'[q] = run[q]
      /\ run'[p].decided = {} /\ Applying(p)
      /\ UNCHANGED <<size, state, override, disk, temp, request, crashes, disturbed>>
  BY <1>1, PhaseEnds DEF OthersSame, NextPhase
<1>3. \/ /\ run[p].at = "staging" /\ run'[p].at = "publishing" /\ run'[p].raced = run[p].raced
         /\ run'[p].plan = run[p].plan /\ run'[p].todo = run[p].todo /\ run'[p].left = run[p].todo
      \/ /\ run[p].at = "publishing" /\ run'[p].at = "excluding" /\ run'[p].raced = run[p].raced
         /\ run'[p].plan = run[p].plan /\ run'[p].todo = run[p].todo
         /\ run'[p].left = {m \in run[p].plan : ~m.selected}
      \/ /\ run[p].at = "excluding" /\ Bare(run'[p])
         /\ run'[p].at = IF p \in Requests THEN "storing" ELSE "verifying"
  BY <1>1, PhaseEnds
<1>4. VerificationPlan' = VerificationPlan /\ PathsNamed'
  BY <1>1, <1>2, SameOverride
<1>5. TypeOK'
  <2>1. run'[p].todo \subseteq run'[p].plan /\ run'[p].left \subseteq run'[p].plan
    BY <1>1, <1>3 DEF TypeOK, Bare
  <2> QED  BY <1>1, <1>2, <2>1 DEF TypeOK
<1>6. Untouched'
  BY <1>1, <1>2 DEF Untouched
<1>7. WorkerHolds'
  BY <1>1, <1>2, <1>3, <1>4, Constants DEF WorkerHolds, Applying
<1>8. RequestsHold'
  BY <1>1, <1>2, <1>3, Constants DEF RequestsHold, Apart, Working
<1>9. PhasesHold'
  BY <1>1, <1>2, <1>3 DEF PhasesHold, moving, Bare
<1>10. Unraced'
  <2>1. \A q \in Actors : Applying(q)' => Applying(q) /\ (run'[q].raced <=> run[q].raced)
    BY <1>2, <1>3 DEF Applying
  <2>2. StillSo(p)'
    BY <1>2 DEF StillSo
  <2> QED  BY <1>1, <1>2, <2>1, <2>2 DEF Unraced
<1> QED  BY <1>4, <1>5, <1>6, <1>7, <1>8, <1>9, <1>10 DEF PlanInv

\* A verification or a validated request begins its plan.
LEMMA PlanInvBegins ==
  ASSUME PlanInv, NEW p \in Actors, NEW plan \in SUBSET Operation, Begin(p, plan),
         p = "worker" => state = "verifying" /\ plan = VerificationPlan,
         p \in Requests => request[p].kind # "none" /\ Apart(plan),
         UNCHANGED <<size, state, override, disk, temp, request, crashes, disturbed>>
  PROVE  PlanInv'
<1>1. TypeOK /\ PathsNamed /\ Untouched /\ WorkerHolds /\ RequestsHold /\ PhasesHold /\ Unraced
  BY DEF PlanInv
<1>2. /\ run' \in [Actors -> Run]
      /\ run'[p].at = "staging" /\ run'[p].plan = plan /\ run'[p].left = run'[p].todo
      /\ run'[p].todo = {m \in moving(plan) : ~Moved(m)} /\ run'[p].decided = {}
      /\ run'[p].raced <=> \E q \in Actors \ {p} : Applying(q)
      /\ \A q \in Actors \ {p} : KeepsOn(q) /\ (run'[q].raced <=> run[q].raced \/ Applying(q))
  BY <1>1, RunBegun
<1>3. run'[p].todo \subseteq moving(plan) /\ moving(plan) \subseteq plan
  BY <1>2 DEF moving
<1>4. VerificationPlan' = VerificationPlan /\ PathsNamed'
  BY <1>1, SameOverride
<1>5. TypeOK'
  <2>1. \A q \in Actors : /\ run'[q].todo \subseteq run'[q].plan /\ run'[q].left \subseteq run'[q].plan
                          /\ run'[q].decided \subseteq run'[q].left
    BY <1>1, <1>2, <1>3 DEF TypeOK, KeepsOn
  <2> QED  BY <1>1, <1>2, <2>1 DEF TypeOK
<1>6. Untouched'
  BY <1>1 DEF Untouched
<1>7. WorkerHolds'
  BY <1>1, <1>2, <1>4, Constants DEF WorkerHolds, Applying, KeepsOn
<1>8. RequestsHold'
  BY <1>1, <1>2, Constants DEF RequestsHold, Apart, Working, KeepsOn
<1>9. PhasesHold'
  BY <1>1, <1>2, <1>3 DEF PhasesHold, moving, KeepsOn
<1>10. Unraced'
  <2>1. \A q \in Actors \ {p} : Applying(q)' <=> Applying(q)
    BY <1>2 DEF Applying, KeepsOn
  <2>2. StillSo(p)'
    BY <1>2 DEF StillSo
  <2>3. \A q \in Actors \ {p} : Applying(q)' => run'[q].raced
    BY <1>2, <2>1
  <2>4. ~run'[p].raced => \A q \in Actors \ {p} : ~Applying(q)'
    BY <1>2, <2>1
  <2> QED  BY <2>2, <2>3, <2>4 DEF Unraced
<1> QED  BY <1>4, <1>5, <1>6, <1>7, <1>8, <1>9, <1>10 DEF PlanInv

\* A request is asked for, whatever else is going on.
LEMMA PlanInvAsks ==
  ASSUME PlanInv, NEW r \in Requests, NEW q \in Request, q.kind # "none", Asked(q), Ask(r, q, PlanOf(q))
  PROVE  PlanInv'
<1>1. TypeOK /\ PathsNamed /\ Untouched /\ WorkerHolds /\ RequestsHold /\ PhasesHold /\ Unraced
  BY DEF PlanInv
<1>2. PlanOf(q) \in SUBSET Operation /\ Apart(PlanOf(q)) /\ r \in Actors /\ r # "worker"
  BY <1>1, PlansMade, Constants
<1>3. /\ run' \in [Actors -> Run] /\ \A p \in Actors \ {r} : run'[p] = run[p]
      /\ request' = [request EXCEPT ![r] = q]
      /\ UNCHANGED <<size, state, override, disk, temp, crashes>>
      /\ run'[r].todo = {} /\ run'[r].left = {} /\ run'[r].decided = {}
      /\ \/ run'[r].at = "validating" /\ run'[r].plan = PlanOf(q)
         \/ run'[r].at = "storing" /\ run'[r].plan = {}
      /\ disturbed' \in 0..MaxDisturbed
  BY <1>1, <1>2, Asks DEF OthersSame
<1>4. VerificationPlan' = VerificationPlan /\ PathsNamed'
  BY <1>1, <1>3, SameOverride
<1>5. request' \in [Requests -> Request] /\ request'[r] = q
      /\ \A s \in Requests \ {r} : request'[s] = request[s]
  BY <1>1, <1>3 DEF TypeOK
<1>6. TypeOK'
  <2>1. \A p \in Actors : /\ run'[p].todo \subseteq run'[p].plan /\ run'[p].left \subseteq run'[p].plan
                          /\ run'[p].decided \subseteq run'[p].left
    BY <1>1, <1>3 DEF TypeOK
  <2> QED  BY <1>1, <1>3, <1>5, <2>1 DEF TypeOK
<1>7. Untouched'
  BY <1>1, <1>3 DEF Untouched
<1>8. WorkerHolds'
  BY <1>1, <1>2, <1>3, <1>4, Constants DEF WorkerHolds, Applying
<1>9. RequestsHold'
  BY <1>1, <1>2, <1>3, <1>5, Constants DEF RequestsHold, Apart, Working
<1>10. PhasesHold'
  BY <1>1, <1>3 DEF PhasesHold, moving
<1>11. Unraced'
  <2>1. \A p \in Actors : Applying(p)' => Applying(p) /\ run'[p] = run[p]
    BY <1>3 DEF Applying
  <2> QED  BY <1>1, <1>3, <2>1 DEF Unraced, StillSo, Occupied, Fits, moving
<1> QED  BY <1>4, <1>6, <1>7, <1>8, <1>9, <1>10, <1>11 DEF PlanInv

\* The state is changed, under whatever requests there are.
LEMMA PlanInvStates ==
  ASSUME PlanInv, run["worker"].at = "idle",
         UNCHANGED <<size, override, disk, temp, run, request, crashes>>,
         disturbed' \in 0..MaxDisturbed, state' \in States,
         state' = "preStart" => state = "preStart",
         state' = "copying" /\ state \notin {"preStart", "copying"} =>
           (\A p \in Paths : disk[p] = NoFile) /\ (\A s \in Files : temp[s] = NoFile)
  PROVE  PlanInv'
<1>1. TypeOK /\ Untouched /\ WorkerHolds /\ RequestsHold
  BY DEF PlanInv
<1>2. Untouched'
  BY <1>1 DEF Untouched
<1>3. WorkerHolds'
  BY <1>1 DEF WorkerHolds, Applying
<1>4. /\ run' \in [Actors -> Run] /\ request' \in [Requests -> Request]
      /\ disk' \in [Paths -> Contents] /\ temp' \in [Files -> Contents] /\ crashes' \in 0..MaxCrashes
  BY <1>1 DEF TypeOK
<1>5. \A p \in Actors : Carries(p) /\ (run[p].raced => run'[p].raced)
  BY DEF Carries
<1>6. \A r \in Requests : /\ run'[r].at \in {"idle", "storing"} \union Working
                          /\ run'[r].at # "idle" => request'[r].kind # "none"
  BY <1>1 DEF RequestsHold
<1> QED  BY <1>2, <1>3, <1>4, <1>5, <1>6, PlanInvKept

\* The disk is changed by another hand.
LEMMA PlanInvIntrudes ==
  ASSUME PlanInv, copied \/ deleteEntry
  PROVE  PlanInv'
<1>1. TypeOK /\ Untouched /\ WorkerHolds /\ RequestsHold
  BY DEF PlanInv
<1>2. /\ UNCHANGED <<size, override, request, crashes, disturbed>> /\ run' = Intruded
      /\ state \in {"copying", "clearing"} /\ state' \in {"verifying", "clearing"}
  BY DEF copied, deleteEntry
<1>3. /\ run' \in [Actors -> Run]
      /\ \A q \in Actors : KeepsOn(q) /\ (run'[q].raced <=> run[q].raced \/ Applying(q))
  BY <1>1, <1>2, RunsIntruded
<1>4. disk' \in [Paths -> Contents] /\ temp' \in [Files -> Contents]
  BY <1>1 DEF TypeOK, Contents, copied, deleteEntry
<1>5. run["worker"].at = "idle"
  BY <1>1, <1>2 DEF WorkerHolds
<1>6. Untouched'
  BY <1>2 DEF Untouched
<1>7. WorkerHolds'
  BY <1>3, <1>5, Constants DEF WorkerHolds, Applying, KeepsOn
<1>8. \A p \in Actors : /\ Carries(p) /\ (Applying(p)' => Applying(p))
                        /\ (Applying(p)' => run'[p].raced)
  BY <1>3 DEF Carries, KeepsOn, Applying
<1>9. \A r \in Requests : /\ run'[r].at \in {"idle", "storing"} \union Working
                          /\ run'[r].at # "idle" => request'[r].kind # "none"
  BY <1>1, <1>2, <1>3, Constants DEF RequestsHold, KeepsOn
<1>10. state' \in States /\ crashes' \in 0..MaxCrashes /\ disturbed' \in 0..MaxDisturbed
       /\ request' \in [Requests -> Request]
  BY <1>1, <1>2 DEF TypeOK, States
<1> QED  BY <1>2, <1>3, <1>4, <1>6, <1>7, <1>8, <1>9, <1>10, PlanInvKept

LEMMA PlanInvVerifies ==
  ASSUME PlanInv, Verify \/ CommitClaim
  PROVE  PlanInv'
<1>1. TypeOK /\ Untouched /\ WorkerHolds /\ RequestsHold /\ run \in [Actors -> Run]
  BY DEF PlanInv, TypeOK
<1>2. /\ UNCHANGED <<size, override, disk, temp, crashes, disturbed>>
      /\ run["worker"].at \in {"verifying", "committing"}
  BY DEF Verify, CommitClaim
<1>3. state = "verifying"
  BY <1>1, <1>2 DEF WorkerHolds
<1>4. /\ run' \in [Actors -> Run] /\ OthersSame("worker") /\ request' = request
      /\ \/ Bare(run'["worker"]) /\ run'["worker"].at = "idle"
            /\ state' \in {"failed", "verifying", "completed"}
         \/ Carries("worker") /\ run'["worker"].at = "committing" /\ state' = state
  <2>1. CASE Verify /\ \E c \in BOOLEAN : Fail("worker", c)
    <3>1. run' \in [Actors -> Run] /\ OthersSame("worker") /\ GivenUp("worker")
      BY <1>1, <2>1, Constants, TreatedOrGivenUp
    <3> QED  BY <3>1, RunsMade DEF GivenUp
  <2>2. CASE Verify /\ run' = [run EXCEPT !["worker"].at = "committing"] /\ UNCHANGED <<state, request>>
    <3>1. "committing" \in Phases
      BY DEF Phases
    <3>2. /\ run' \in [Actors -> Run] /\ OthersSame("worker") /\ run'["worker"].at = "committing"
          /\ run'["worker"].plan = run["worker"].plan /\ run'["worker"].todo = run["worker"].todo
          /\ run'["worker"].left = run["worker"].left
          /\ run'["worker"].decided = run["worker"].decided
      BY <1>1, <2>2, <3>1, Constants, RunChanges
    <3> QED  BY <2>2, <3>2 DEF Carries, Working
  <2>3. CASE CommitClaim
    <3>1. run' = [run EXCEPT !["worker"] = Idle] /\ state' = "completed" /\ request' = request
      BY <2>3 DEF CommitClaim
    <3>2. run' \in [Actors -> Run] /\ run'["worker"] = Idle /\ OthersSame("worker")
      BY <1>1, <3>1, RunsMade, Constants, RunReplaced DEF Bare
    <3> QED  BY <3>1, <3>2, RunsMade
  <2>4. Verify => \/ \E c \in BOOLEAN : Fail("worker", c)
                  \/ run' = [run EXCEPT !["worker"].at = "committing"] /\ UNCHANGED <<state, request>>
    BY DEF Verify
  <2> QED  BY <2>1, <2>2, <2>3, <2>4
<1>5. \A p \in Actors \ {"worker"} : run'[p] = run[p]
  BY <1>4 DEF OthersSame
<1>6. state' \in States /\ state' \notin {"preStart", "copying"}
  BY <1>3, <1>4 DEF States
<1>7. Untouched'
  BY <1>6 DEF Untouched
<1>8. WorkerHolds'
  BY <1>3, <1>4 DEF WorkerHolds, Applying
<1>9. \A p \in Actors : Carries(p) \/ (Bare(run'[p]) /\ run'[p].at \notin Working)
  BY <1>4, <1>5 DEF Carries, Working
<1>10. \A p \in Actors : Applying(p)' /\ run[p].raced => run'[p].raced
  BY <1>4, <1>5 DEF Applying
<1>11. \A r \in Requests : /\ run'[r].at \in {"idle", "storing"} \union Working
                           /\ run'[r].at # "idle" => request'[r].kind # "none"
  BY <1>1, <1>4, <1>5, Constants DEF RequestsHold
<1>12. /\ request' \in [Requests -> Request] /\ disk' \in [Paths -> Contents] /\ temp' \in [Files -> Contents]
       /\ crashes' \in 0..MaxCrashes /\ disturbed' \in 0..MaxDisturbed
  BY <1>1, <1>2, <1>4 DEF TypeOK
<1> QED  BY <1>2, <1>4, <1>6, <1>7, <1>8, <1>9, <1>10, <1>11, <1>12, PlanInvKept

\* A request is answered.
LEMMA Answers ==
  ASSUME TypeOK, NEW r \in Requests, Answered(r)
  PROVE  /\ run' \in [Actors -> Run] /\ OthersSame(r) /\ run'[r] = Idle
         /\ request' \in [Requests -> Request] /\ request'[r].kind = "none"
         /\ \A s \in Requests \ {r} : request'[s] = request[s]
<1>1. run \in [Actors -> Run] /\ request \in [Requests -> Request] /\ r \in Actors
  BY Constants DEF TypeOK
<1>2. run' = [run EXCEPT ![r] = Idle] /\ request' = [request EXCEPT ![r] = NoRequest]
  BY DEF Answered
<1>3. run' \in [Actors -> Run] /\ OthersSame(r) /\ run'[r] = Idle
  BY <1>1, <1>2, RunsMade, RunReplaced DEF Bare
<1>4. NoRequest \in Request /\ NoRequest.kind = "none"
  BY DEF NoRequest, Request
<1> QED  BY <1>1, <1>2, <1>3, <1>4

LEMMA PlanInvAnswered ==
  ASSUME PlanInv, NEW r \in Requests, Answered(r), disturbed' \in 0..MaxDisturbed,
         UNCHANGED <<size, state, override, disk, temp, crashes>>
  PROVE  PlanInv'
<1>1. TypeOK /\ Untouched /\ WorkerHolds /\ RequestsHold
  BY DEF PlanInv
<1>2. /\ run' \in [Actors -> Run] /\ \A p \in Actors \ {r} : run'[p] = run[p]
      /\ Bare(run'[r]) /\ run'[r].at = "idle"
      /\ request' \in [Requests -> Request] /\ \A s \in Requests \ {r} : request'[s] = request[s]
  BY <1>1, Answers, RunsMade DEF OthersSame
<1>3. Untouched'
  BY <1>1 DEF Untouched
<1>4. VerificationPlan' = VerificationPlan
  BY SameOverride
<1>5. WorkerHolds'
  BY <1>1, <1>2, <1>4, Constants DEF WorkerHolds, Applying
<1>6. \A p \in Actors : Carries(p) \/ (Bare(run'[p]) /\ run'[p].at \notin Working)
  BY <1>2 DEF Carries, Working
<1>7. \A p \in Actors : Applying(p)' /\ run[p].raced => run'[p].raced
  BY <1>2 DEF Applying
<1>8. \A s \in Requests : /\ run'[s].at \in {"idle", "storing"} \union Working
                          /\ run'[s].at # "idle" => request'[s].kind # "none"
  BY <1>1, <1>2, Constants DEF RequestsHold
<1>9. /\ disk' \in [Paths -> Contents] /\ temp' \in [Files -> Contents]
      /\ state' \in States /\ crashes' \in 0..MaxCrashes
  BY <1>1 DEF TypeOK
<1> QED  BY <1>2, <1>3, <1>5, <1>6, <1>7, <1>8, <1>9, PlanInvKept

LEMMA PlanInvCrash == PlanInv /\ Crash => PlanInv'
<1> SUFFICES ASSUME PlanInv, Crash PROVE PlanInv'  OBVIOUS
<1>1. TypeOK /\ Untouched
  BY DEF PlanInv
<1>2. /\ UNCHANGED <<size, state, override, disk, temp>>
      /\ run' = [p \in Actors |-> Idle] /\ request' = [r \in Requests |-> NoRequest]
  BY DEF Crash
<1>3. disturbed' \in 0..MaxDisturbed /\ crashes' \in 0..MaxCrashes
  BY <1>1, Constants DEF TypeOK, Crash, Disturb
<1>4. run' \in [Actors -> Run] /\ \A p \in Actors : Bare(run'[p]) /\ run'[p].at = "idle"
  BY <1>2, RunsMade DEF Bare
<1>5. request' \in [Requests -> Request]
  BY <1>2 DEF NoRequest, Request
<1>6. Untouched'
  BY <1>1, <1>2 DEF Untouched
<1>7. WorkerHolds'
  BY <1>4, Constants DEF WorkerHolds, Applying
<1>8. \A p \in Actors : /\ Bare(run'[p]) /\ run'[p].at \notin Working
                        /\ ~Applying(p)'
  BY <1>4 DEF Working, Applying
<1>9. \A r \in Requests : /\ run'[r].at \in {"idle", "storing"} \union Working
                          /\ run'[r].at # "idle" => request'[r].kind # "none"
  BY <1>4, Constants
<1>10. disk' \in [Paths -> Contents] /\ temp' \in [Files -> Contents] /\ state' \in States
  BY <1>1, <1>2 DEF TypeOK
<1> QED  BY <1>2, <1>3, <1>4, <1>5, <1>6, <1>7, <1>8, <1>9, <1>10, PlanInvKept

\* The overrides change, and no plan is being applied that was made of them.
LEMMA PlanInvOverrides ==
  ASSUME PlanInv, Renameable, override' \in [Files -> Override],
         PathsDistinct(override'), WithinTargets(override'),
         UNCHANGED <<size, state, disk, temp, crashes, disturbed>>,
         \/ UNCHANGED <<run, request>>
         \/ \E r \in Requests : Answered(r)
  PROVE  PlanInv'
<1>1. /\ TypeOK /\ PathsNamed /\ Untouched /\ WorkerHolds /\ RequestsHold /\ PhasesHold /\ Unraced
      /\ run["worker"].at = "idle"
  BY DEF PlanInv, WorkerHolds, Renameable
<1>2. /\ run' \in [Actors -> Run] /\ request' \in [Requests -> Request]
      /\ \A p \in Actors : run'[p] = run[p] \/ (p \in Requests /\ Bare(run'[p]) /\ run'[p].at = "idle")
      /\ \A r \in Requests : run'[r].at # "idle" => request'[r] = request[r]
  <2>1. CASE UNCHANGED <<run, request>>
    BY <1>1, <2>1 DEF TypeOK
  <2>2. CASE \E r \in Requests : Answered(r)
    <3>1. PICK r \in Requests : Answered(r)
      BY <2>2
    <3>2. /\ run' \in [Actors -> Run] /\ OthersSame(r) /\ run'[r] = Idle
          /\ request' \in [Requests -> Request] /\ \A s \in Requests \ {r} : request'[s] = request[s]
      BY <1>1, <3>1, Answers
    <3>3. Bare(run'[r]) /\ run'[r].at = "idle"
      BY <3>2, RunsMade
    <3> QED  BY <3>2, <3>3 DEF OthersSame
  <2> QED  BY <2>1, <2>2
<1>3. TypeOK'
  <2>1. \A p \in Actors : /\ run'[p].todo \subseteq run'[p].plan /\ run'[p].left \subseteq run'[p].plan
                          /\ run'[p].decided \subseteq run'[p].left
    BY <1>1, <1>2 DEF TypeOK, Bare
  <2> QED  BY <1>1, <1>2, <2>1 DEF TypeOK
<1>4. PathsNamed'
  BY DEF PathsNamed, PathsDistinct, WithinTargets
<1>5. Untouched'
  BY <1>1 DEF Untouched
<1>6. WorkerHolds'
  BY <1>1, <1>2, Constants DEF WorkerHolds, Applying
<1>7. RequestsHold'
  BY <1>1, <1>2, Constants DEF RequestsHold, Apart, Working
<1>8. PhasesHold'
  BY <1>1, <1>2 DEF PhasesHold, moving, Bare
<1>9. Unraced'
  <2>1. \A p \in Actors : Applying(p)' => Applying(p) /\ run'[p] = run[p]
    BY <1>2 DEF Applying
  <2> QED  BY <1>1, <2>1 DEF Unraced, StillSo, Occupied, Fits, moving
<1> QED  BY <1>3, <1>4, <1>5, <1>6, <1>7, <1>8, <1>9 DEF PlanInv

\* What a request stores are paths and selections.
LEMMA StoredMade ==
  ASSUME TypeOK, NEW q \in Request, q.kind # "none", WithinTargets(Stored(q))
  PROVE  Stored(q) \in [Files -> Override]
<1>1. override \in [Files -> Override] /\ \A f \in Files : Stored(q)[f].path \in Paths
  BY Constants DEF TypeOK, WithinTargets
<1>2. CASE q.kind = "file"
  <2> DEFINE o == [path |-> q.path, selected |-> q.selected]
  <2>1. o \in Override
    BY <1>2 DEF Request, Override
  <2>2. Stored(q) = [override EXCEPT ![q.file] = o]
    BY <1>2 DEF Stored
  <2> HIDE DEF o
  <2> QED  BY <1>1, <2>1, <2>2
<1>3. CASE q.kind = "folder"
  <2> DEFINE to(f) == Renamed(override[f].path, q.old, q.new)
             o(f) == [override[f] EXCEPT !.path = to(f)]
  <2>1. Stored(q) = [f \in Files |-> o(f)]
    BY <1>3 DEF Stored
  <2>2. ASSUME NEW f \in Files PROVE o(f) \in Override
    <3>1. override[f] \in Override
      BY <1>1
    <3> HIDE DEF to
    <3>2. o(f).path = to(f) /\ o(f).selected = override[f].selected
      BY <3>1 DEF Override
    <3>3. to(f) \in Paths
      BY <1>1, <2>1, <3>2
    <3> QED  BY <3>1, <3>3 DEF Override
  <2> HIDE DEF o
  <2> QED  BY <2>1, <2>2
<1> QED  BY <1>2, <1>3 DEF Request

LEMMA PlanInvPriorities ==
  ASSUME PlanInv, NEW f \in Files, NEW selected \in BOOLEAN, SetFilePriorities(f, selected)
  PROVE  PlanInv'
<1>1. TypeOK /\ PathsNamed
  BY DEF PlanInv
<1>2. /\ state = "preStart" /\ override' = [override EXCEPT ![f].selected = selected]
      /\ UNCHANGED <<size, state, disk, temp, run, request, crashes, disturbed>>
  BY DEF SetFilePriorities
<1>3. override' \in [Files -> Override] /\ \A g \in Files : override'[g].path = override[g].path
  <2> DEFINE o == [override[f] EXCEPT !.selected = selected]
  <2>1. override \in [Files -> Override]
    BY <1>1 DEF TypeOK
  <2>2. o \in Override /\ o.path = override[f].path
    BY <2>1 DEF Override
  <2>3. override' = [override EXCEPT ![f] = o]
    BY <1>2
  <2> HIDE DEF o
  <2> QED  BY <2>1, <2>2, <2>3
<1>4. PathsDistinct(override') /\ WithinTargets(override')
  BY <1>1, <1>3 DEF PathsNamed, PathsDistinct, WithinTargets
<1> QED  BY <1>2, <1>3, <1>4, PlanInvOverrides DEF Renameable

LEMMA PlanInvStores ==
  ASSUME PlanInv, NEW r \in Requests, Store(r)
  PROVE  PlanInv'
<1>1. /\ Answered(r) /\ UNCHANGED <<size, state, disk, temp, crashes, disturbed>>
      /\ WithinTargets(Stored(request[r])) /\ run[r].at = "storing"
  BY DEF Store
<1>2. CASE Renameable /\ PathsDistinct(Stored(request[r])) /\ override' = Stored(request[r])
  <2>1. TypeOK /\ request[r] \in Request /\ request[r].kind # "none"
    BY <1>1 DEF PlanInv, TypeOK, RequestsHold
  <2>2. override' \in [Files -> Override]
    BY <1>1, <1>2, <2>1, StoredMade
  <2> QED  BY <1>1, <1>2, <2>2, PlanInvOverrides
<1>3. CASE override' = override
  <2>1. disturbed' \in 0..MaxDisturbed
    BY <1>1 DEF PlanInv, TypeOK
  <2> QED  BY <1>1, <1>3, <2>1, PlanInvAnswered
<1> QED  BY <1>2, <1>3 DEF Store

LEMMA PlanInvStep == PlanInv /\ [Next]_vars => PlanInv'
<1> SUFFICES ASSUME PlanInv, [Next]_vars PROVE PlanInv'  OBVIOUS
<1>1. /\ TypeOK /\ PathsNamed /\ WorkerHolds /\ RequestsHold
      /\ disturbed \in 0..MaxDisturbed /\ state \in States
  BY DEF PlanInv, TypeOK
<1>2. ASSUME NEW p \in Actors, Apply(p) PROVE PlanInv'
  BY <1>2, PlanInvGoes, PlanInvPhase DEF Apply
<1>3. CASE verifyAndRecord
  <2>1. /\ state = "verifying" /\ run["worker"].at = "idle"
        /\ UNCHANGED <<size, override, disk, temp, request, crashes, disturbed>>
    BY <1>3 DEF verifyAndRecord
  <2>2. CASE Begin("worker", VerificationPlan) /\ UNCHANGED state
    <3>1. VerificationPlan \in SUBSET Operation
      BY <1>1, PlansMade
    <3> QED  BY <2>1, <2>2, <3>1, Constants, PlanInvBegins
  <2>3. CASE state' = "failed" /\ UNCHANGED run
    BY <1>1, <2>1, <2>3, PlanInvStates DEF States
  <2> QED  BY <1>3, <2>2, <2>3 DEF verifyAndRecord
<1>4. CASE Verify \/ CommitClaim
  BY <1>4, PlanInvVerifies
<1>5. CASE start \/ Reverify \/ Retry \/ deleteCopyWorkspace
  <2>1. /\ UNCHANGED <<size, override, disk, temp, run, request, crashes>>
        /\ UNCHANGED disturbed \/ Disturb
    BY <1>5 DEF start, Reverify, Retry, deleteCopyWorkspace
  <2>2. run["worker"].at = "idle"
    BY <1>1, <1>5 DEF WorkerHolds, start, Reverify, Retry, deleteCopyWorkspace
  <2>3. disturbed' \in 0..MaxDisturbed
    BY <1>1, <2>1, Constants DEF Disturb
  <2>4. /\ state' \in States /\ state' # "preStart"
        /\ state' = "copying" /\ state \notin {"preStart", "copying"} =>
             (\A p \in Paths : disk[p] = NoFile) /\ (\A s \in Files : temp[s] = NoFile)
    BY <1>5 DEF start, Reverify, Retry, RetryTarget, deleteCopyWorkspace, States
  <2> QED  BY <2>1, <2>2, <2>3, <2>4, PlanInvStates
<1>6. CASE copied \/ deleteEntry
  BY <1>6, PlanInvIntrudes
<1>7. ASSUME NEW f \in Files, NEW selected \in BOOLEAN, SetFilePriorities(f, selected) PROVE PlanInv'
  BY <1>7, PlanInvPriorities
<1>8. ASSUME NEW r \in Requests, NEW f \in Files, NEW path \in Paths, renameFile(r, f, path) PROVE PlanInv'
  <2>1. PICK q \in Request : q.kind # "none" /\ Asked(q) /\ Ask(r, q, PlanOf(q))
    BY <1>1, <1>8, AsksMade
  <2> QED  BY <2>1, PlanInvAsks
<1>9. ASSUME NEW r \in Requests, NEW old \in Directories, NEW new \in Directories, renameFolder(r, old, new)
      PROVE  PlanInv'
  <2>1. PICK q \in Request : q.kind # "none" /\ Asked(q) /\ Ask(r, q, PlanOf(q))
    BY <1>1, <1>9, AsksMade
  <2> QED  BY <2>1, PlanInvAsks
<1>10. ASSUME NEW r \in Requests, Validate(r) PROVE PlanInv'
  <2>1. /\ run[r].at = "validating"
        /\ UNCHANGED <<size, state, override, disk, temp, crashes, disturbed>>
    BY <1>10 DEF Validate
  <2>2. CASE Begin(r, run[r].plan) /\ UNCHANGED request
    <3>1. r \in Actors /\ r # "worker" /\ run[r].plan \in SUBSET Operation
      BY <1>1, Constants, OperationsLeft
    <3>2. request[r].kind # "none" /\ Apart(run[r].plan)
      BY <1>1, <2>1 DEF RequestsHold, Working
    <3> QED  BY <2>1, <2>2, <3>1, <3>2, PlanInvBegins
  <2>3. CASE Answered(r)
    BY <1>1, <2>1, <2>3, PlanInvAnswered
  <2> QED  BY <1>10, <2>2, <2>3 DEF Validate
<1>11. ASSUME NEW r \in Requests, Store(r) PROVE PlanInv'
  BY <1>11, PlanInvStores
<1>12. ASSUME NEW r \in Requests, StoreFails(r) PROVE PlanInv'
  <2>1. Answered(r) /\ Disturb /\ UNCHANGED <<size, state, override, disk, temp, crashes>>
    BY <1>12 DEF StoreFails
  <2>2. disturbed' \in 0..MaxDisturbed
    BY <1>1, <2>1, Constants DEF Disturb
  <2> QED  BY <2>1, <2>2, PlanInvAnswered
<1>13. CASE Crash
  BY <1>13, PlanInvCrash
<1>14. CASE UNCHANGED vars
  BY <1>14 DEF vars, PlanInv, TypeOK, PathsNamed, PathsDistinct, WithinTargets, Untouched, WorkerHolds,
               RequestsHold, PhasesHold, Unraced, StillSo, Applying, Occupied, Fits, Apart,
               VerificationPlan, moving
<1> QED
  BY <1>2, <1>3, <1>4, <1>5, <1>6, <1>7, <1>8, <1>9, <1>10, <1>11, <1>12, <1>13, <1>14 DEF Next

\* The invariant of every behaviour: whatever is interrupted, repeated, retried or raced,
\* the paths the store has are distinct names of their files, a verification applies the
\* plan that the store asks for, no rename excludes a file, nothing is on disk before
\* CloudDrive2 has copied it, and what a plan that is not raced has seen is still so when
\* it renames or removes.
THEOREM PlanInvAlways == Spec => []PlanInv
<1> QED  BY PlanInvInit, PlanInvStep, PTL DEF Spec

\* Type correctness: every run's operations are those of a plan on paths of the torrent
\* (fsafe.FilePlan), and no counter leaves its bound.
THEOREM TypeCorrect == Spec => []TypeOK
<1>1. PlanInv => TypeOK
  BY DEF PlanInv
<1> QED  BY <1>1, PlanInvAlways, PTL

-----------------------------------------------------------------------------
(* The worker's plan, alone                                                  *)

\* No file is, or is to be, where the manifest has another.
LEMMA NamesApart ==
  ASSUME PathsNamed, FreshNames
  PROVE  /\ \A f, g \in Files : Original[f] = override[g].path => f = g
         /\ \A f, g \in Files : Original[f] = Original[g] => f = g
         /\ \A f, g \in Files : override[f].path = override[g].path => f = g
<1>1. \A f, g \in Files : Original[f] = override[g].path => f = g
  BY Constants DEF PathsNamed, WithinTargets, FreshNames, Names
<1> QED  BY <1>1, Constants DEF PathsNamed, PathsDistinct

\* The operations of a verification's plan: one for each file.
VerificationOp(m) ==
  /\ m.file \in Files /\ m.slot = m.file /\ m.from = Original[m.file]
  /\ m.to = override[m.file].path /\ m.selected = override[m.file].selected

LEMMA VerificationOps ==
  ASSUME TypeOK
  PROVE  /\ \A m \in VerificationPlan : VerificationOp(m)
         /\ \A f \in Files : \E m \in VerificationPlan : m.file = f
         /\ \A m, o \in VerificationPlan : m.file = o.file => m = o
         /\ \A m \in moving(VerificationPlan) :
              m \in VerificationPlan /\ m.file \in Selected /\ Original[m.file] # override[m.file].path
         /\ \A m \in VerificationPlan : m.file \in Selected /\ Original[m.file] # override[m.file].path
              => m \in moving(VerificationPlan)
<1>1. \A m \in VerificationPlan : VerificationOp(m)
  BY DEF VerificationPlan, Slot, VerificationOp
<1>2. \A f \in Files : \E m \in VerificationPlan : m.file = f
  <2> SUFFICES ASSUME NEW f \in Files PROVE \E m \in VerificationPlan : m.file = f  OBVIOUS
  <2> DEFINE m == [slot |-> Slot(f), file |-> f, from |-> Original[f], to |-> override[f].path,
                   selected |-> override[f].selected]
  <2>1. m \in VerificationPlan /\ m.file = f
    BY DEF VerificationPlan
  <2> HIDE DEF m
  <2> QED  BY <2>1
<1>3. \A m, o \in VerificationPlan : m.file = o.file => m = o
  BY DEF VerificationPlan
<1>4. /\ \A m \in moving(VerificationPlan) :
              m \in VerificationPlan /\ m.file \in Selected /\ Original[m.file] # override[m.file].path
      /\ \A m \in VerificationPlan : m.file \in Selected /\ Original[m.file] # override[m.file].path
              => m \in moving(VerificationPlan)
  BY <1>1 DEF moving, Selected, VerificationOp
<1> QED  BY <1>1, <1>2, <1>3, <1>4

\* What a worker alone relies on.
Alone == PlanInv /\ FreshNames /\ Placed /\ WorkerOn

\* What lies at a manifest path is that file; what lies at an effective path too.
LEMMA PlacedNames ==
  ASSUME Alone
  PROVE  /\ \A f \in Files : disk[Original[f]] \in {NoFile, f}
         /\ \A f \in Files : disk[override[f].path] \in {NoFile, f}
         /\ \A f \in Files : temp[f] \in {NoFile, f}
<1>1. PathsNamed /\ disk \in [Paths -> Contents] /\ temp \in [Files -> Contents]
      /\ \A f \in Files : override[f].path \in Paths /\ Original[f] \in Paths
  BY Constants DEF Alone, PlanInv, TypeOK, Override
<1>2. \A p \in Paths : disk[p] # NoFile => disk[p] \in Files /\ p \in {Original[disk[p]], override[disk[p]].path}
  BY <1>1 DEF Alone, Placed, Contents
<1>3. ASSUME NEW f \in Files
      PROVE  disk[Original[f]] \in {NoFile, f} /\ disk[override[f].path] \in {NoFile, f}
  <2>1. /\ \A g \in Files : Original[f] = Original[g] \/ Original[f] = override[g].path => f = g
        /\ \A g \in Files : override[f].path = Original[g] \/ override[f].path = override[g].path => f = g
    BY <1>1, NamesApart DEF Alone
  <2>2. disk[Original[f]] \in {NoFile, f}
    BY <1>1, <1>2, <2>1
  <2>3. disk[override[f].path] \in {NoFile, f}
    BY <1>1, <1>2, <2>1
  <2> QED  BY <2>2, <2>3
<1> QED  BY <1>3 DEF Alone, Placed

LEMMA WorkerStages ==
  ASSUME Alone, StagesAtOnce("worker")
  PROVE  state' = state /\ Placed' /\ WorkerOn'
<1>1. /\ TypeOK /\ PathsNamed /\ run["worker"].at = "staging" /\ "worker" \in Actors
      /\ run["worker"].plan = VerificationPlan
      /\ run["worker"].todo \subseteq moving(VerificationPlan)
      /\ run["worker"].left \subseteq run["worker"].todo
      /\ UNCHANGED <<size, override, crashes, disturbed>>
  BY DEF Alone, PlanInv, WorkerHolds, PhasesHold, StagesAtOnce, Actors, Applying
<1>2. /\ disk \in [Paths -> Contents] /\ temp \in [Files -> Contents] /\ NoFile \notin Files
      /\ \A f \in Files : override[f].path \in Paths /\ Original[f] \in Paths
  BY <1>1, Constants DEF TypeOK, Override
<1>3. PICK m \in run["worker"].left :
       \/ temp[m.slot] # NoFile /\ Treated("worker", m) /\ UNCHANGED <<disk, temp>>
       \/ /\ temp[m.slot] = NoFile /\ disk[m.from] # NoFile
          /\ temp' = [temp EXCEPT ![m.slot] = disk[m.from]]
          /\ disk' = [disk EXCEPT ![m.from] = NoFile]
          /\ Treated("worker", m)
       \/ /\ temp[m.slot] = NoFile /\ disk[m.from] = NoFile
          /\ Fail("worker", FALSE) /\ UNCHANGED <<disk, temp>>
  BY DEF StagesAtOnce
<1> DEFINE f == m.file
<1>4. /\ m \in VerificationPlan /\ f \in Files /\ m.slot = f /\ m.from = Original[f] /\ f \in Selected
      /\ override[f].selected /\ Original[f] # override[f].path /\ m.to = override[f].path
  BY <1>1, VerificationOps DEF VerificationOp, Selected
<1>5. ~AtTarget(f)
  BY <1>1, <1>3 DEF Alone, WorkerOn
<1>6. AtSource(f) \/ InTemp(f)
  BY <1>4, <1>5 DEF Alone, Placed
<1>7. temp[f] # NoFile \/ disk[Original[f]] # NoFile
  BY <1>2, <1>4, <1>6 DEF AtSource, InTemp
<1>8. /\ Treated("worker", m)
      /\ \/ temp[f] = f /\ UNCHANGED <<disk, temp>>
         \/ /\ disk[Original[f]] = f
            /\ temp' = [temp EXCEPT ![f] = f] /\ disk' = [disk EXCEPT ![Original[f]] = NoFile]
  BY <1>3, <1>4, <1>7, PlacedNames
<1>9. /\ state' = state /\ run'["worker"].at = "staging"
      /\ run'["worker"].plan = VerificationPlan /\ run'["worker"].todo = run["worker"].todo
      /\ run'["worker"].left = run["worker"].left \ {m}
  BY <1>1, <1>8, TreatedOrGivenUp DEF GoesOn
<1>10. /\ \A p \in Paths : disk'[p] = IF p = Original[f] THEN NoFile ELSE disk[p]
       /\ \A g \in Files : temp'[g] = IF g = f THEN f ELSE temp[g]
  <2>1. temp[f] = f => disk[Original[f]] = NoFile
    BY <1>2, <1>4, PlacedNames DEF Alone, Placed, AtSource, InTemp
  <2> QED  BY <1>2, <1>4, <1>8, <2>1
<1>11. /\ InTemp(f)' /\ ~AtSource(f)' /\ ~AtTarget(f)'
       /\ \A g \in Files \ {f} : /\ AtSource(g)' = AtSource(g) /\ InTemp(g)' = InTemp(g)
                                 /\ AtTarget(g)' = AtTarget(g)
  BY <1>1, <1>2, <1>4, <1>5, <1>10, NamesApart DEF Alone, AtSource, InTemp, AtTarget
<1>12. Placed'
  <2>1. /\ \A p \in Paths : disk'[p] # NoFile => p \in {Original[disk'[p]], override'[disk'[p]].path}
        /\ \A s \in Files : temp'[s] \in {s, NoFile}
    BY <1>1, <1>4, <1>10 DEF Alone, Placed
  <2>2. Selected' = Selected
    BY <1>1, SameOverride
  <2>3. ASSUME NEW g \in Selected
        PROVE  (/\ AtSource(g) \/ InTemp(g) \/ AtTarget(g)
                /\ ~(AtSource(g) /\ InTemp(g)) /\ ~(AtSource(g) /\ AtTarget(g))
                /\ ~(InTemp(g) /\ AtTarget(g))
                /\ Original[g] = override[g].path => AtTarget(g))'
    <3>1. g \in Files
      BY DEF Selected
    <3> QED  BY <1>1, <1>4, <1>11, <3>1 DEF Alone, Placed
  <2>4. ASSUME NEW g \in Files \ Selected
        PROVE  temp'[g] = NoFile /\ \A p \in Paths : disk'[p] = g => p = Original[g]
    BY <1>2, <1>4, <1>10 DEF Alone, Placed
  <2> QED  BY <2>1, <2>2, <2>3, <2>4 DEF Placed
<1>13. WorkerOn'
  <2>1. ASSUME NEW o \in moving(VerificationPlan), o \notin run["worker"].todo
        PROVE  AtTarget(o.file)'
    <3>1. AtTarget(o.file) /\ o.file \in Files
      BY <1>1, <2>1, VerificationOps DEF Alone, WorkerOn, VerificationOp
    <3> QED  BY <1>5, <1>11, <3>1
  <2>2. ASSUME NEW o \in run["worker"].todo
        PROVE  IF o \in run'["worker"].left THEN ~AtTarget(o.file)' ELSE InTemp(o.file)'
    <3>1. o \in VerificationPlan /\ o.file \in Files /\ (o.file = f => o = m)
      BY <1>1, <1>4, VerificationOps DEF VerificationOp
    <3>2. IF o \in run["worker"].left THEN ~AtTarget(o.file) ELSE InTemp(o.file)
      BY <1>1 DEF Alone, WorkerOn
    <3> QED  BY <1>9, <1>11, <3>1, <3>2
  <2>3. moving(VerificationPlan)' = moving(VerificationPlan)
    BY <1>1, SameOverride DEF moving
  <2> QED  BY <1>9, <2>1, <2>2, <2>3, SameOverride, <1>1 DEF WorkerOn, moving
<1> QED  BY <1>9, <1>12, <1>13

LEMMA WorkerPublishes ==
  ASSUME Alone, PublishesAtOnce("worker")
  PROVE  state' = state /\ Placed' /\ WorkerOn'
<1>1. /\ TypeOK /\ PathsNamed /\ run["worker"].at = "publishing" /\ "worker" \in Actors
      /\ run["worker"].plan = VerificationPlan
      /\ run["worker"].todo \subseteq moving(VerificationPlan)
      /\ run["worker"].left \subseteq run["worker"].todo
      /\ UNCHANGED <<size, override, crashes, disturbed>>
  BY DEF Alone, PlanInv, WorkerHolds, PhasesHold, PublishesAtOnce, Actors, Applying
<1>2. /\ disk \in [Paths -> Contents] /\ temp \in [Files -> Contents] /\ NoFile \notin Files
      /\ \A f \in Files : override[f].path \in Paths /\ Original[f] \in Paths
  BY <1>1, Constants DEF TypeOK, Override
<1>3. PICK m \in run["worker"].left :
       \/ /\ temp[m.slot] = NoFile
          /\ IF Fits(disk[m.to], m) THEN Treated("worker", m) ELSE Fail("worker", FALSE)
          /\ UNCHANGED <<disk, temp>>
       \/ /\ temp[m.slot] # NoFile /\ Occupied(run["worker"].plan, m)
          /\ Fail("worker", TRUE) /\ UNCHANGED <<disk, temp>>
       \/ /\ temp[m.slot] # NoFile /\ ~Occupied(run["worker"].plan, m)
          /\ disk' = [disk EXCEPT ![m.to] = temp[m.slot]]
          /\ temp' = [temp EXCEPT ![m.slot] = NoFile]
          /\ Treated("worker", m)
  BY DEF PublishesAtOnce
<1> DEFINE f == m.file
<1>4. /\ m \in VerificationPlan /\ f \in Files /\ m.slot = f /\ f \in Selected
      /\ override[f].selected /\ Original[f] # override[f].path /\ m.to = override[f].path
  BY <1>1, VerificationOps DEF VerificationOp, Selected
<1>5. InTemp(f) /\ ~AtSource(f) /\ ~AtTarget(f)
  <2>1. InTemp(f)
    BY <1>1, <1>3 DEF Alone, WorkerOn
  <2> QED  BY <1>4, <2>1 DEF Alone, Placed
<1>6. disk[m.to] = NoFile
  BY <1>4, <1>5, PlacedNames DEF AtTarget
<1>7. ~Occupied(run["worker"].plan, m) /\ temp[m.slot] = f /\ f # NoFile
  BY <1>2, <1>4, <1>5, <1>6 DEF Occupied, InTemp
<1>8. /\ Treated("worker", m)
      /\ disk' = [disk EXCEPT ![override[f].path] = f] /\ temp' = [temp EXCEPT ![f] = NoFile]
  BY <1>3, <1>4, <1>7
<1>9. /\ state' = state /\ run'["worker"].at = "publishing"
      /\ run'["worker"].plan = VerificationPlan /\ run'["worker"].todo = run["worker"].todo
      /\ run'["worker"].left = run["worker"].left \ {m}
  BY <1>1, <1>8, TreatedOrGivenUp DEF GoesOn
<1>10. /\ \A p \in Paths : disk'[p] = IF p = override[f].path THEN f ELSE disk[p]
       /\ \A g \in Files : temp'[g] = IF g = f THEN NoFile ELSE temp[g]
  BY <1>2, <1>4, <1>8
<1>11. /\ ~InTemp(f)' /\ ~AtSource(f)' /\ AtTarget(f)'
       /\ \A g \in Files \ {f} : /\ AtSource(g)' = AtSource(g) /\ InTemp(g)' = InTemp(g)
                                 /\ AtTarget(g)' = AtTarget(g)
  BY <1>1, <1>2, <1>4, <1>5, <1>6, <1>7, <1>10, NamesApart DEF Alone, AtSource, InTemp, AtTarget
<1>12. Placed'
  <2>1. /\ \A p \in Paths : disk'[p] # NoFile => p \in {Original[disk'[p]], override'[disk'[p]].path}
        /\ \A s \in Files : temp'[s] \in {s, NoFile}
    BY <1>1, <1>4, <1>10 DEF Alone, Placed
  <2>2. Selected' = Selected
    BY <1>1, SameOverride
  <2>3. ASSUME NEW g \in Selected
        PROVE  (/\ AtSource(g) \/ InTemp(g) \/ AtTarget(g)
                /\ ~(AtSource(g) /\ InTemp(g)) /\ ~(AtSource(g) /\ AtTarget(g))
                /\ ~(InTemp(g) /\ AtTarget(g))
                /\ Original[g] = override[g].path => AtTarget(g))'
    <3>1. g \in Files
      BY DEF Selected
    <3> QED  BY <1>1, <1>4, <1>11, <3>1 DEF Alone, Placed
  <2>4. ASSUME NEW g \in Files \ Selected
        PROVE  temp'[g] = NoFile /\ \A p \in Paths : disk'[p] = g => p = Original[g]
    BY <1>2, <1>4, <1>10 DEF Alone, Placed
  <2> QED  BY <2>1, <2>2, <2>3, <2>4 DEF Placed
<1>13. WorkerOn'
  <2>1. ASSUME NEW o \in moving(VerificationPlan), o \notin run["worker"].todo
        PROVE  AtTarget(o.file)'
    <3>1. AtTarget(o.file) /\ o.file \in Files
      BY <1>1, <2>1, VerificationOps DEF Alone, WorkerOn, VerificationOp
    <3> QED  BY <1>5, <1>11, <3>1
  <2>2. ASSUME NEW o \in run["worker"].todo
        PROVE  IF o \in run'["worker"].left THEN InTemp(o.file)' ELSE AtTarget(o.file)'
    <3>1. o \in VerificationPlan /\ o.file \in Files /\ (o.file = f => o = m)
      BY <1>1, <1>4, VerificationOps DEF VerificationOp
    <3>2. IF o \in run["worker"].left THEN InTemp(o.file) ELSE AtTarget(o.file)
      BY <1>1 DEF Alone, WorkerOn
    <3> QED  BY <1>9, <1>11, <3>1, <3>2
  <2>3. moving(VerificationPlan)' = moving(VerificationPlan)
    BY <1>1, SameOverride DEF moving
  <2> QED  BY <1>9, <2>1, <2>2, <2>3, SameOverride, <1>1 DEF WorkerOn, moving
<1> QED  BY <1>9, <1>12, <1>13

LEMMA WorkerExcludes ==
  ASSUME Alone, ExcludesAtOnce("worker")
  PROVE  state' = state /\ Placed' /\ WorkerOn'
<1>1. /\ TypeOK /\ PathsNamed /\ run["worker"].at = "excluding" /\ "worker" \in Actors
      /\ run["worker"].plan = VerificationPlan /\ run["worker"].left \subseteq VerificationPlan
      /\ \A m \in run["worker"].left : ~m.selected
      /\ UNCHANGED <<size, override, temp, crashes, disturbed>>
  BY DEF Alone, PlanInv, TypeOK, WorkerHolds, PhasesHold, ExcludesAtOnce, Actors, Applying
<1>2. /\ disk \in [Paths -> Contents] /\ temp \in [Files -> Contents] /\ NoFile \notin Files
      /\ \A f \in Files : override[f].path \in Paths /\ Original[f] \in Paths
  BY <1>1, Constants DEF TypeOK, Override
<1>3. PICK m \in run["worker"].left :
       \/ disk[m.from] = NoFile /\ Treated("worker", m) /\ UNCHANGED disk
       \/ disk[m.from] # NoFile /\ ~Fits(disk[m.from], m) /\ Fail("worker", TRUE) /\ UNCHANGED disk
       \/ /\ Fits(disk[m.from], m)
          /\ disk' = [disk EXCEPT ![m.from] = NoFile]
          /\ Treated("worker", m)
  BY DEF ExcludesAtOnce
<1> DEFINE f == m.file
<1>4. m \in VerificationPlan /\ f \in Files /\ m.from = Original[f] /\ f \notin Selected
  BY <1>1, VerificationOps DEF VerificationOp, Selected
<1>5. disk[m.from] # NoFile => Fits(disk[m.from], m)
  BY <1>4, PlacedNames DEF Fits
<1>6. /\ Treated("worker", m)
      /\ \A p \in Paths : disk'[p] = IF p = Original[f] THEN NoFile ELSE disk[p]
  BY <1>2, <1>3, <1>4, <1>5
<1>7. /\ state' = state /\ run'["worker"].at = "excluding"
      /\ run'["worker"].plan = VerificationPlan
      /\ run'["worker"].left = run["worker"].left \ {m}
  BY <1>1, <1>6, TreatedOrGivenUp DEF GoesOn
<1>8. \A g \in Selected : g \in Files /\ AtTarget(g) /\ ~AtSource(g) /\ ~InTemp(g)
  BY <1>1 DEF Alone, Placed, WorkerOn, Selected
<1>9. \A g \in Selected : AtTarget(g)' /\ ~AtSource(g)' /\ ~InTemp(g)'
  BY <1>1, <1>2, <1>4, <1>6, <1>8, NamesApart DEF Alone, AtSource, InTemp, AtTarget
<1>10. Selected' = Selected /\ VerificationPlan' = VerificationPlan
  BY <1>1, SameOverride
<1>11. Placed'
  BY <1>1, <1>2, <1>6, <1>9, <1>10 DEF Alone, Placed
<1>12. WorkerOn'
  <2>1. ASSUME NEW o \in VerificationPlan, ~o.selected, o \notin run'["worker"].left
        PROVE  disk'[o.from] = NoFile
    <3>1. o.from = Original[o.file] /\ o.from \in Paths
      BY <1>1, <1>2, VerificationOps DEF VerificationOp
    <3>2. o # m => disk[o.from] = NoFile
      BY <1>1, <1>7, <2>1 DEF Alone, WorkerOn
    <3> QED  BY <1>4, <1>6, <3>1, <3>2
  <2> QED  BY <1>7, <1>9, <1>10, <2>1 DEF WorkerOn
<1> QED  BY <1>7, <1>11, <1>12

LEMMA WorkerPhaseEnds ==
  ASSUME Alone, NextPhase("worker")
  PROVE  state' = state /\ Placed' /\ WorkerOn'
<1>1. /\ TypeOK /\ PathsNamed /\ "worker" \in Actors
      /\ Applying("worker") => run["worker"].plan = VerificationPlan
      /\ run["worker"].todo \subseteq moving(run["worker"].plan)
  BY DEF Alone, PlanInv, WorkerHolds, PhasesHold, Actors
<1>2. /\ run["worker"].left = {}
      /\ UNCHANGED <<size, state, override, disk, temp, request, crashes, disturbed>>
  BY <1>1, PhaseEnds
<1>3. /\ VerificationPlan' = VerificationPlan /\ Selected' = Selected
      /\ moving(VerificationPlan)' = moving(VerificationPlan)
  BY <1>2, SameOverride DEF moving
<1>4. \A f : AtSource(f)' = AtSource(f) /\ InTemp(f)' = InTemp(f) /\ AtTarget(f)' = AtTarget(f)
  BY <1>2 DEF AtSource, InTemp, AtTarget
<1>5. Placed'
  BY <1>2, <1>3, <1>4 DEF Alone, Placed
<1>6. CASE /\ run["worker"].at = "staging" /\ run'["worker"].at = "publishing"
           /\ run'["worker"].plan = run["worker"].plan /\ run'["worker"].todo = run["worker"].todo
           /\ run'["worker"].left = run["worker"].todo
  <2>1. /\ \A m \in moving(VerificationPlan) : m \notin run["worker"].todo => AtTarget(m.file)
        /\ \A m \in run["worker"].todo : InTemp(m.file)
    BY <1>1, <1>2, <1>6 DEF Alone, WorkerOn, Applying
  <2>2. run'["worker"].plan = VerificationPlan
    BY <1>1, <1>6 DEF Applying
  <2> QED  BY <1>2, <1>3, <1>4, <1>5, <1>6, <2>1, <2>2 DEF WorkerOn, moving
<1>7. CASE /\ run["worker"].at = "publishing" /\ run'["worker"].at = "excluding"
           /\ run'["worker"].plan = run["worker"].plan /\ run'["worker"].todo = run["worker"].todo
           /\ run'["worker"].left = {m \in run["worker"].plan : ~m.selected}
  <2>1. /\ \A m \in moving(VerificationPlan) : m \notin run["worker"].todo => AtTarget(m.file)
        /\ \A m \in run["worker"].todo : AtTarget(m.file)
    BY <1>1, <1>2, <1>7 DEF Alone, WorkerOn, Applying
  <2>2. ASSUME NEW f \in Selected PROVE AtTarget(f)
    <3>1. PICK m \in VerificationPlan : m.file = f
      BY <1>1, VerificationOps DEF Selected
    <3>2. CASE Original[f] = override[f].path
      BY <3>2 DEF Alone, Placed
    <3>3. CASE Original[f] # override[f].path
      BY <1>1, <2>1, <3>1, <3>3, VerificationOps
    <3> QED  BY <3>2, <3>3
  <2> QED  BY <1>2, <1>3, <1>4, <1>5, <1>7, <2>2 DEF WorkerOn
<1>8. CASE run["worker"].at = "excluding" /\ run'["worker"].at = "verifying"
  <2>1. /\ \A f \in Selected : f \in Files /\ AtTarget(f) /\ ~AtSource(f) /\ ~InTemp(f)
        /\ \A m \in VerificationPlan : ~m.selected => disk[m.from] = NoFile
    BY <1>1, <1>2, <1>8 DEF Alone, Placed, WorkerOn, Applying, Selected
  <2>2. \A f \in Files \ Selected : disk[Original[f]] = NoFile /\ temp[f] = NoFile
    <3> SUFFICES ASSUME NEW f \in Files \ Selected PROVE disk[Original[f]] = NoFile /\ temp[f] = NoFile
      OBVIOUS
    <3>1. PICK m \in VerificationPlan : m.file = f
      BY <1>1, VerificationOps
    <3>2. m.from = Original[f] /\ ~m.selected
      BY <1>1, <3>1, VerificationOps DEF VerificationOp, Selected
    <3> QED  BY <2>1, <3>1, <3>2 DEF Alone, Placed
  <2>3. ASSUME NEW p \in Paths, disk[p] # NoFile
        PROVE  override[disk[p]].selected /\ override[disk[p]].path = p
    <3>1. disk[p] \in Files /\ p \in {Original[disk[p]], override[disk[p]].path}
      BY <1>1, <2>3 DEF TypeOK, Contents, Alone, Placed
    <3>2. disk[p] \in Selected
      BY <2>2, <2>3, <3>1 DEF Alone, Placed
    <3> QED  BY <2>1, <3>1, <3>2 DEF AtSource, Selected
  <2>4. ASSUME NEW s \in Files PROVE temp[s] = NoFile
    BY <2>1, <2>2 DEF Alone, Placed, InTemp
  <2>5. ASSUME NEW f \in Files, override[f].selected PROVE disk[override[f].path] = f
    BY <2>1, <2>5 DEF AtTarget, Selected
  <2>6. Settled(override)'
    BY <1>2, <2>3, <2>4, <2>5 DEF Settled
  <2> QED  BY <1>2, <1>5, <1>8, <2>6 DEF WorkerOn
<1> QED  BY <1>1, <1>6, <1>7, <1>8, Constants, PhaseEnds

\* Placed and WorkerOn are read off these variables.
LEMMA SamePlaces ==
  ASSUME UNCHANGED <<override, disk, temp>>
  PROVE  /\ Placed => Placed'
         /\ run'["worker"] = run["worker"] => (WorkerOn => WorkerOn')
         /\ run'["worker"].at = "idle" => WorkerOn'
         /\ Settled(override)' = Settled(override)
<1>1. /\ VerificationPlan' = VerificationPlan /\ Selected' = Selected
      /\ \A f : AtSource(f)' = AtSource(f) /\ InTemp(f)' = InTemp(f) /\ AtTarget(f)' = AtTarget(f)
  BY SameOverride DEF AtSource, InTemp, AtTarget
<1>2. Placed => Placed'
  BY <1>1 DEF Placed
<1>3. Settled(override)' = Settled(override)
  BY DEF Settled
<1>4. ASSUME run'["worker"] = run["worker"], WorkerOn PROVE WorkerOn'
  BY <1>1, <1>3, <1>4 DEF WorkerOn, moving
<1>5. run'["worker"].at = "idle" => WorkerOn'
  BY DEF WorkerOn
<1> QED  BY <1>2, <1>3, <1>4, <1>5

\* A verification finds every file at its source, on its way or at its target.
LEMMA WorkerFinds ==
  ASSUME Alone
  PROVE  \A m \in moving(VerificationPlan) :
           (Moved(m) \/ Ready(VerificationPlan, m)) /\ (Moved(m) <=> AtTarget(m.file))
<1>1. TypeOK /\ PathsNamed
  BY DEF Alone, PlanInv
<1>2. /\ disk \in [Paths -> Contents] /\ temp \in [Files -> Contents] /\ NoFile \notin Files
      /\ \A f \in Files : override[f].path \in Paths /\ Original[f] \in Paths
  BY <1>1, Constants DEF TypeOK, Override
<1>3. ASSUME NEW m \in moving(VerificationPlan)
      PROVE  (Moved(m) \/ Ready(VerificationPlan, m)) /\ (Moved(m) <=> AtTarget(m.file))
  <2> DEFINE f == m.file
  <2>1. /\ f \in Files /\ f \in Selected /\ m.slot = f /\ m.from = Original[f] /\ m.to = override[f].path
        /\ Original[f] # override[f].path
    BY <1>1, VerificationOps DEF VerificationOp, Selected
  <2>2. /\ disk[m.from] \in {NoFile, f} /\ disk[m.to] \in {NoFile, f} /\ temp[m.slot] \in {NoFile, f}
        /\ f # NoFile
    BY <1>2, <2>1, PlacedNames
  <2>3. /\ AtSource(f) <=> disk[m.from] = f
        /\ InTemp(f) <=> temp[m.slot] = f
        /\ AtTarget(f) <=> disk[m.to] = f
    BY <2>1 DEF AtSource, InTemp, AtTarget
  <2>4. /\ AtSource(f) \/ InTemp(f) \/ AtTarget(f)
        /\ ~(AtSource(f) /\ InTemp(f)) /\ ~(AtSource(f) /\ AtTarget(f)) /\ ~(InTemp(f) /\ AtTarget(f))
    BY <2>1 DEF Alone, Placed
  <2>5. CASE AtTarget(f)
    <3>1. Moved(m)
      BY <2>2, <2>3, <2>4, <2>5 DEF Moved, Fits
    <3> QED  BY <2>5, <3>1
  <2>6. CASE ~AtTarget(f)
    <3>1. disk[m.to] = NoFile
      BY <2>2, <2>3, <2>6
    <3>2. Ready(VerificationPlan, m)
      BY <2>2, <2>3, <2>4, <3>1 DEF Ready, Fits, Occupied
    <3> QED  BY <2>6, <3>1, <3>2 DEF Moved, Fits
  <2> QED  BY <2>5, <2>6
<1> QED  BY <1>3

LEMMA WorkerBegins ==
  ASSUME Alone, state = "verifying", verifyAndRecord
  PROVE  state' = state /\ Placed' /\ WorkerOn'
<1>1. /\ TypeOK /\ PathsNamed /\ UNCHANGED <<size, override, disk, temp, request, crashes, disturbed>>
      /\ VerificationPlan \in SUBSET Operation
  BY PlansMade DEF Alone, PlanInv, verifyAndRecord
<1>3. \A m \in moving(VerificationPlan) :
        (Moved(m) \/ Ready(VerificationPlan, m)) /\ (Moved(m) <=> AtTarget(m.file))
  BY WorkerFinds
<1>4. Begin("worker", VerificationPlan) /\ state' = state
  BY <1>3 DEF verifyAndRecord, Valid
<1>6. /\ run'["worker"].at = "staging" /\ run'["worker"].plan = VerificationPlan
      /\ run'["worker"].left = run'["worker"].todo
      /\ run'["worker"].todo = {m \in moving(VerificationPlan) : ~Moved(m)}
  BY <1>1, <1>4, RunBegun, Constants
<1>7. /\ VerificationPlan' = VerificationPlan /\ moving(VerificationPlan)' = moving(VerificationPlan)
      /\ \A f : AtTarget(f)' = AtTarget(f)
  BY <1>1, SameOverride DEF moving, AtTarget
<1>8. /\ \A m \in moving(VerificationPlan) : m \notin run'["worker"].todo => AtTarget(m.file)
      /\ \A m \in run'["worker"].todo : ~AtTarget(m.file)
  BY <1>3, <1>6
<1>9. WorkerOn'
  BY <1>6, <1>7, <1>8 DEF WorkerOn, moving
<1> QED  BY <1>1, <1>4, <1>9, SamePlaces DEF Alone

LEMMA WorkerVerifies ==
  ASSUME Alone, Verify
  PROVE  state' = state /\ Placed' /\ WorkerOn'
<1>1. /\ TypeOK /\ run["worker"].at = "verifying" /\ Settled(override)
      /\ UNCHANGED <<size, override, disk, temp, crashes, disturbed>>
  BY DEF Alone, PlanInv, Verify, WorkerOn
<1>2. \A f \in Selected : f \in Files /\ disk[override[f].path] = f /\ f # NoFile
  BY <1>1, Constants DEF Settled, Selected
<1>3. run' = [run EXCEPT !["worker"].at = "committing"] /\ state' = state
  BY <1>2 DEF Verify
<1>4. run'["worker"].at = "committing"
  BY <1>1, <1>3, RunChanges DEF TypeOK, Actors, Phases
<1>5. Settled(override)'
  BY <1>1, SamePlaces
<1>6. WorkerOn'
  BY <1>4, <1>5 DEF WorkerOn
<1> QED  BY <1>1, <1>3, <1>6, SamePlaces DEF Alone

\* What is settled may be verified once more.
LEMMA SettledPlaced ==
  ASSUME PlanInv, FreshNames, Settled(override)
  PROVE  Placed
<1>1. /\ TypeOK /\ PathsNamed /\ NoFile \notin Files
      /\ \A f \in Files : override[f].path \in Paths /\ Original[f] \in Paths
      /\ \A f, g \in Files : Original[f] = override[g].path => f = g
  BY Constants, NamesApart DEF PlanInv, TypeOK, Override
<1>2. \A p \in Paths : disk[p] # NoFile => disk[p] \in Selected /\ override[disk[p]].path = p
  BY <1>1 DEF Settled, Selected, TypeOK, Contents
<1>3. ASSUME NEW f \in Selected
      PROVE  f \in Files /\ AtTarget(f) /\ ~InTemp(f) /\ ~AtSource(f)
  BY <1>1, <1>2 DEF Settled, AtTarget, InTemp, AtSource, Selected
<1>4. ASSUME NEW f \in Files \ Selected
      PROVE  temp[f] = NoFile /\ \A p \in Paths : disk[p] # f
  BY <1>1, <1>2 DEF Settled
<1> QED  BY <1>1, <1>2, <1>3, <1>4 DEF Placed, Settled

\* What CloudDrive2 copies is under the names of the manifest.
LEMMA CopiedPlaced ==
  ASSUME PlanInv, FreshNames, copied
  PROVE  Placed'
<1>1. /\ TypeOK /\ PathsNamed /\ NoFile \notin Files /\ UNCHANGED <<override, temp>>
      /\ \A s \in Files : temp[s] = NoFile
      /\ \A f \in Files : override[f].path \in Paths /\ Original[f] \in Paths
      /\ \A f, g \in Files : Original[f] = override[g].path => f = g
  BY Constants, NamesApart DEF PlanInv, TypeOK, Override, Untouched, copied
<1>2. /\ \A f \in Files : disk'[Original[f]] = f
      /\ \A p \in Paths : disk'[p] # NoFile => disk'[p] \in Files /\ p = Original[disk'[p]]
  BY Constants DEF copied
<1>3. ASSUME NEW f \in Selected'
      PROVE  /\ f \in Files /\ ~InTemp(f)'
             /\ AtSource(f)' <=> Original[f] # override[f].path
             /\ AtTarget(f)' <=> Original[f] = override[f].path
  BY <1>1, <1>2 DEF AtTarget, InTemp, AtSource, Selected
<1>4. \A f \in Files : \A p \in Paths : disk'[p] = f => p = Original[f]
  BY <1>1, <1>2
<1> QED  BY <1>1, <1>2, <1>3, <1>4 DEF Placed

-----------------------------------------------------------------------------
(* A request's plan, alone                                                   *)

RequestOp(q, m) ==
  /\ m.file \in Files /\ m.slot \in Files /\ m.from = override[m.file].path /\ m.to \in Paths
  /\ m.selected /\ m.from # m.to /\ Stored(q)[m.file].path = m.to
  /\ \A g \in Files : override[g].path # m.to

\* The operations of a request's plan do not meet, and lead where no file is.
LEMMA RequestOps ==
  ASSUME TypeOK, PathsNamed, FreshNames, FoldersApart,
         NEW q \in Request, q.kind # "none", Asked(q)
  PROVE  /\ \A m \in PlanOf(q) : RequestOp(q, m)
         /\ \A m, o \in PlanOf(q) :
              m.file = o.file \/ m.slot = o.slot \/ m.from = o.from \/ m.to = o.to => m = o
         /\ \A m \in PlanOf(q) : override[m.file].selected \/ PlanOf(q) = {m}
         /\ \A f \in Files : Stored(q)[f].selected = override[f].selected
         /\ \A f \in Selected : (\A m \in PlanOf(q) : m.file # f) => Stored(q)[f].path = override[f].path
         /\ PathsDistinct(Stored(q))
<1>1. /\ override \in [Files -> Override] /\ 0 \in Files
      /\ \A f \in Files : override[f].path \in Paths /\ override[f].selected \in BOOLEAN
      /\ \A f, g \in Files : override[f].path = override[g].path => f = g
      /\ \A f \in Files : override[f].path \in Names(f) /\ Targets[f] \subseteq Paths
  BY Constants DEF TypeOK, Override, PathsNamed, PathsDistinct, WithinTargets
<1>2. CASE q.kind = "file"
  <2> DEFINE f == q.file
             s == [path |-> q.path, selected |-> q.selected]
             m == [slot |-> 0, file |-> f, from |-> override[f].path, to |-> q.path, selected |-> TRUE]
  <2>1. f \in Files
    BY <1>2 DEF Request
  <2>2. /\ q.path \in Targets[f] /\ q.path \in Paths /\ q.path # override[f].path
        /\ (\A g \in Files : override[g].path # q.path) /\ q.selected = override[f].selected
    BY <1>1, <1>2, <2>1 DEF Asked
  <2>3. PlanOf(q) = {m}
    BY <1>2 DEF PlanOf
  <2>4. Stored(q) = [override EXCEPT ![f] = s] /\ s.path = q.path /\ s.selected = override[f].selected
    BY <1>2, <2>2 DEF Stored
  <2>5. Stored(q)[f] = s /\ \A g \in Files \ {f} : Stored(q)[g] = override[g]
    BY <1>1, <2>1, <2>4
  <2>6. /\ m.file = f /\ m.slot = 0 /\ m.from = override[f].path /\ m.to = q.path /\ m.selected
    OBVIOUS
  <2> HIDE DEF m, s
  <2>7. RequestOp(q, m)
    BY <1>1, <2>1, <2>2, <2>4, <2>5, <2>6 DEF RequestOp
  <2>8. PathsDistinct(Stored(q))
    BY <1>1, <2>1, <2>2, <2>4, <2>5 DEF PathsDistinct
  <2> QED  BY <1>1, <2>1, <2>3, <2>4, <2>5, <2>6, <2>7, <2>8 DEF Selected
<1>3. CASE q.kind = "folder"
  <2> DEFINE to(f) == Renamed(override[f].path, q.old, q.new)
             op(f) == [slot |-> Slot(f), file |-> f, from |-> override[f].path, to |-> to(f), selected |-> TRUE]
             o(f) == [override[f] EXCEPT !.path = to(f)]
  <2>1. /\ q.old # q.new /\ \A f \in InFolder(q.old) : to(f) \in Targets[f]
    BY <1>3 DEF Asked
  <2>2. ASSUME NEW f \in Files
        PROVE  Stored(q)[f] = o(f) /\ Stored(q)[f].path = to(f) /\ Stored(q)[f].selected = override[f].selected
    <3>1. Stored(q)[f] = o(f)
      BY <1>3 DEF Stored
    <3>2. override[f] \in Override
      BY <1>1
    <3> HIDE DEF to
    <3>3. o(f).path = to(f) /\ o(f).selected = override[f].selected
      BY <3>2 DEF Override
    <3> QED  BY <3>1, <3>3
  <2>3. PlanOf(q) = {op(f) : f \in InFolder(q.old) \intersect Selected}
    BY <1>3 DEF PlanOf, completedFolderPlans
  <2>4. ASSUME NEW f \in InFolder(q.old)
        PROVE  /\ f \in Files /\ to(f) \in Targets[f] /\ to(f) \in Paths
               /\ override[f].path = <<q.old, override[f].path[2]>> /\ to(f) = <<q.new, override[f].path[2]>>
               /\ to(f)[1] = q.new /\ to(f)[2] = override[f].path[2]
    BY <1>1, <2>1, Constants DEF InFolder, Renamed
  <2>5. ASSUME NEW f \in Files \ InFolder(q.old) PROVE to(f) = override[f].path
    BY DEF InFolder, Renamed
  <2>6. ASSUME NEW f \in InFolder(q.old), NEW g \in Files PROVE override[g].path # to(f)
    <3>1. CASE g \in InFolder(q.old)
      BY <2>1, <2>4, <3>1 DEF InFolder
    <3>2. CASE g \notin InFolder(q.old) /\ override[g].path = to(f)
      <4>1. f # g /\ f \in Files
        BY <2>4, <3>2
      <4>2. override[g].path \in Targets[g]
        BY <1>1, <2>4, <3>2, <4>1 DEF Names, FreshNames
      <4>3. override[f].path = to(f)
        BY <1>1, <2>4, <3>2, <4>1, <4>2 DEF FoldersApart
      <4> QED  BY <2>1, <2>4, <4>3
    <3> QED  BY <3>1, <3>2
  <2>7. ASSUME NEW f \in InFolder(q.old), NEW g \in InFolder(q.old), to(f) = to(g) PROVE f = g
    BY <1>1, <2>4, <2>7
  <2>8. ASSUME NEW m \in PlanOf(q)
        PROVE  /\ m.file \in InFolder(q.old) /\ m.file \in Selected /\ m = op(m.file)
               /\ m.slot = m.file /\ m.from = override[m.file].path /\ m.to = to(m.file) /\ m.selected
    BY <2>3 DEF Slot
  <2> HIDE DEF to, o, op
  <2>9. \A m \in PlanOf(q) : RequestOp(q, m)
    BY <1>1, <2>2, <2>4, <2>6, <2>8 DEF RequestOp
  <2>10. \A m, n \in PlanOf(q) :
           m.file = n.file \/ m.slot = n.slot \/ m.from = n.from \/ m.to = n.to => m = n
    <3> SUFFICES ASSUME NEW m \in PlanOf(q), NEW n \in PlanOf(q),
                        m.file = n.file \/ m.slot = n.slot \/ m.from = n.from \/ m.to = n.to
                 PROVE  m.file = n.file
      BY <2>8
    <3> QED  BY <1>1, <2>4, <2>7, <2>8
  <2>11. \A m \in PlanOf(q) : override[m.file].selected
    BY <2>8 DEF Selected
  <2>12. ASSUME NEW f \in Selected, \A m \in PlanOf(q) : m.file # f
         PROVE  Stored(q)[f].path = override[f].path
    <3>1. f \in Files
      BY DEF Selected
    <3>2. f \notin InFolder(q.old)
      <4>1. op(f).file = f
        BY DEF op
      <4> QED  BY <2>3, <2>12, <4>1
    <3> QED  BY <2>2, <2>5, <3>1, <3>2
  <2>13. PathsDistinct(Stored(q))
    <3> SUFFICES ASSUME NEW f \in Files, NEW g \in Files, to(f) = to(g) PROVE f = g
      BY <2>2 DEF PathsDistinct
    <3> QED  BY <1>1, <2>5, <2>6, <2>7
  <2> QED  BY <2>2, <2>9, <2>10, <2>11, <2>12, <2>13
<1> QED  BY <1>2, <1>3 DEF Request

\* What a request alone relies on, while its plan is applied.
Serving(r) ==
  /\ PlanInv /\ FreshNames /\ FoldersApart /\ RequestOn(r) /\ Applying(r)

LEMMA ServingFacts ==
  ASSUME NEW r \in Requests, Serving(r)
  PROVE  /\ TypeOK /\ PathsNamed /\ r \in Actors /\ request[r].kind # "none" /\ Asked(request[r])
         /\ run[r].plan = PlanOf(request[r]) /\ run[r].todo = run[r].plan
         /\ run[r].left \subseteq run[r].plan
         /\ \A m \in run[r].plan : RequestOp(request[r], m)
         /\ \A m, o \in run[r].plan :
              m.file = o.file \/ m.slot = o.slot \/ m.from = o.from \/ m.to = o.to => m = o
         /\ \A m \in run[r].plan : override[m.file].selected \/ run[r].plan = {m}
         /\ \A f \in Files : Stored(request[r])[f].selected = override[f].selected
         /\ \A f \in Selected : (\A m \in run[r].plan : m.file # f)
              => Stored(request[r])[f].path = override[f].path
         /\ PathsDistinct(Stored(request[r]))
         /\ disk \in [Paths -> Contents] /\ temp \in [Files -> Contents] /\ NoFile \notin Files
         /\ \A f \in Files : override[f].path \in Paths
         /\ \A f, g \in Files : override[f].path = override[g].path => f = g
<1>1. /\ TypeOK /\ PathsNamed /\ r \in Actors /\ FreshNames /\ FoldersApart
      /\ request[r] \in Request /\ request[r].kind # "none" /\ Asked(request[r])
      /\ run[r].plan = PlanOf(request[r]) /\ run[r].todo = run[r].plan
      /\ run[r].left \subseteq run[r].plan
  <2>1. PlanInv /\ FreshNames /\ FoldersApart /\ RequestOn(r) /\ Applying(r)
    BY DEF Serving
  <2>2. TypeOK /\ PathsNamed /\ RequestsHold /\ run[r].at # "idle" /\ run[r].at \in Working
    BY <2>1 DEF PlanInv, Applying, Working
  <2>3. r \in Actors /\ request[r] \in Request /\ run[r].left \subseteq run[r].plan
    BY <2>2, Constants DEF TypeOK
  <2>4. /\ request[r].kind # "none" /\ run[r].plan = PlanOf(request[r]) /\ Asked(request[r])
        /\ run[r].todo = run[r].plan
    BY <2>1, <2>2 DEF RequestsHold, RequestOn
  <2> QED  BY <2>1, <2>2, <2>3, <2>4
<1>3. /\ disk \in [Paths -> Contents] /\ temp \in [Files -> Contents] /\ NoFile \notin Files
      /\ \A f \in Files : override[f].path \in Paths
      /\ \A f, g \in Files : override[f].path = override[g].path => f = g
  BY <1>1, Constants DEF TypeOK, Override, PathsNamed, PathsDistinct
<1> QED  BY <1>1, <1>3, RequestOps

LEMMA OthersHeld ==
  ASSUME NEW r \in Requests, Serving(r)
  PROVE  OthersHold(run[r].plan)
  BY DEF Serving, RequestOn

\* Whatever is on disk or in a temporary file while a request's plan is applied.
LEMMA ServingPlaces ==
  ASSUME NEW r \in Requests, Serving(r)
  PROVE  /\ \A p \in Paths : disk[p] # NoFile =>
              /\ disk[p] \in Files /\ override[disk[p]].selected
              /\ \/ override[disk[p]].path = p
                 \/ \E m \in run[r].plan : m.file = disk[p] /\ m.to = p
         /\ \A s \in Files : temp[s] # NoFile =>
              \E m \in run[r].plan : m.slot = s /\ m.file = temp[s] /\ override[m.file].selected
         /\ \A f \in Selected : (\A m \in run[r].plan : m.file # f) => disk[override[f].path] = f
         /\ \A m \in run[r].plan : /\ disk[m.from] \in {NoFile, m.file}
                                   /\ disk[m.to] \in {NoFile, m.file}
                                   /\ temp[m.slot] \in {NoFile, m.file}
<1>1. /\ \A p \in Paths : disk[p] # NoFile =>
              /\ disk[p] \in Files /\ override[disk[p]].selected
              /\ \/ override[disk[p]].path = p
                 \/ \E m \in run[r].plan : m.file = disk[p] /\ m.to = p
      /\ \A s \in Files : temp[s] # NoFile =>
              \E m \in run[r].plan : m.slot = s /\ m.file = temp[s] /\ override[m.file].selected
      /\ \A f \in Selected : (\A m \in run[r].plan : m.file # f) => disk[override[f].path] = f
  <2>1. \A p \in Paths : disk[p] # NoFile => disk[p] \in Files
    BY ServingFacts DEF Contents
  <2> QED  BY <2>1, OthersHeld DEF OthersHold
<1>2. ASSUME NEW m \in run[r].plan
      PROVE  /\ disk[m.from] \in {NoFile, m.file} /\ disk[m.to] \in {NoFile, m.file}
             /\ temp[m.slot] \in {NoFile, m.file}
  <2>1. /\ m.file \in Files /\ m.slot \in Files /\ m.from = override[m.file].path /\ m.to \in Paths
        /\ m.from \in Paths /\ \A g \in Files : override[g].path # m.to
    BY ServingFacts DEF RequestOp
  <2>2. disk[m.to] \in {NoFile, m.file}
    BY <1>1, <2>1, ServingFacts
  <2>3. temp[m.slot] \in {NoFile, m.file}
    BY <1>1, <2>1, ServingFacts
  <2>4. \A o \in run[r].plan : o.to # m.from
    BY <2>1, ServingFacts DEF RequestOp
  <2>5. disk[m.from] \in {NoFile, m.file}
    BY <1>1, <2>1, <2>4, ServingFacts
  <2> QED  BY <2>2, <2>3, <2>5
<1> QED  BY <1>1, <1>2

\* The plan goes on: what remains to be shown of RequestOn(r).
LEMMA RequestGoesOn ==
  ASSUME NEW r \in Requests, Serving(r), run'[r].plan = run[r].plan, run'[r].todo = run[r].todo,
         UNCHANGED <<override, request>>, OthersHold(run[r].plan)',
         Applying(r)',
         run'[r].at = "staging" =>
           \A m \in run[r].plan : IF m \in run'[r].left
             THEN override[m.file].selected => Between(m)' = <<TRUE, FALSE, FALSE>>
             ELSE override[m.file].selected /\ Between(m)' = <<FALSE, TRUE, FALSE>>,
         run'[r].at = "publishing" =>
           \A m \in run[r].plan : /\ override[m.file].selected
                                  /\ Between(m)' = IF m \in run'[r].left THEN <<FALSE, TRUE, FALSE>>
                                                                              ELSE <<FALSE, FALSE, TRUE>>,
         run'[r].at = "excluding" =>
           \A m \in run[r].plan : override[m.file].selected /\ Between(m)' = <<FALSE, FALSE, TRUE>>
  PROVE  RequestOn(r)'
<1>1. run'[r].todo = run'[r].plan
  BY ServingFacts
<1>2. Asked(request[r])' /\ run'[r].plan = PlanOf(request[r])'
  <2>1. Asked(request[r])' = Asked(request[r]) /\ PlanOf(request[r])' = PlanOf(request[r])
    BY SameOverride DEF Asked, PlanOf, completedFolderPlans, InFolder, Renamed, Selected
  <2> QED  BY <2>1, ServingFacts
<1>3. run'[r].at # "idle" /\ run'[r].at # "validating" /\ run'[r].at # "storing"
  BY DEF Applying
<1> QED  BY <1>1, <1>2, <1>3 DEF RequestOn

LEMMA RequestStages ==
  ASSUME NEW r \in Requests, Serving(r), StagesAtOnce(r)
  PROVE  state' = state /\ RequestOn(r)'
<1>1. /\ run[r].at = "staging" /\ UNCHANGED <<size, override, crashes, disturbed>>
      /\ Selected' = Selected
  BY SameOverride DEF StagesAtOnce
<1>2. PICK m \in run[r].left :
       \/ temp[m.slot] # NoFile /\ Treated(r, m) /\ UNCHANGED <<disk, temp>>
       \/ /\ temp[m.slot] = NoFile /\ disk[m.from] # NoFile
          /\ temp' = [temp EXCEPT ![m.slot] = disk[m.from]]
          /\ disk' = [disk EXCEPT ![m.from] = NoFile]
          /\ Treated(r, m)
       \/ /\ temp[m.slot] = NoFile /\ disk[m.from] = NoFile
          /\ Fail(r, FALSE) /\ UNCHANGED <<disk, temp>>
  BY DEF StagesAtOnce
<1>3. /\ m \in run[r].plan /\ m.file \in Files /\ m.slot \in Files /\ m.from \in Paths /\ m.to \in Paths
      /\ m.from = override[m.file].path /\ m.from # m.to
  BY ServingFacts DEF RequestOp
<1>4. \A o \in run[r].plan : IF o \in run[r].left
         THEN override[o.file].selected => Between(o) = <<TRUE, FALSE, FALSE>>
         ELSE override[o.file].selected /\ Between(o) = <<FALSE, TRUE, FALSE>>
  BY <1>1 DEF Serving, RequestOn
<1>5. temp[m.slot] = NoFile
  <2>1. temp[m.slot] # NoFile => temp[m.slot] = m.file /\ override[m.file].selected
    BY <1>3, ServingPlaces, ServingFacts
  <2> QED  BY <1>2, <1>3, <1>4, <2>1 DEF Between
<1>6. CASE disk[m.from] # NoFile
  <2>1. disk[m.from] = m.file /\ override[m.file].selected
    BY <1>3, <1>6, ServingPlaces
  <2>2. /\ \A p \in Paths : disk'[p] = IF p = m.from THEN NoFile ELSE disk[p]
        /\ \A s \in Files : temp'[s] = IF s = m.slot THEN m.file ELSE temp[s]
        /\ Treated(r, m)
    <3>1. /\ temp' = [temp EXCEPT ![m.slot] = disk[m.from]]
          /\ disk' = [disk EXCEPT ![m.from] = NoFile]
          /\ Treated(r, m)
      BY <1>2, <1>5, <1>6
    <3>2. disk \in [Paths -> Contents] /\ temp \in [Files -> Contents]
      BY ServingFacts
    <3> QED  BY <1>3, <2>1, <3>1, <3>2
  <2>3. /\ UNCHANGED <<state, request>> /\ run'[r].at = "staging"
        /\ run'[r].plan = run[r].plan /\ run'[r].todo = run[r].todo
        /\ run'[r].left = run[r].left \ {m}
    BY <1>1, <2>2, TreatedOrGivenUp, ServingFacts DEF GoesOn, GivenUp
  <2>4. ASSUME NEW o \in run[r].plan
        PROVE  IF o \in run'[r].left
               THEN override[o.file].selected => Between(o)' = <<TRUE, FALSE, FALSE>>
               ELSE override[o.file].selected /\ Between(o)' = <<FALSE, TRUE, FALSE>>
    <3>1. /\ o.file \in Files /\ o.slot \in Files /\ o.from \in Paths /\ o.to \in Paths /\ o.to # m.from
          /\ o # m => o.from # m.from /\ o.slot # m.slot
      BY <1>3, ServingFacts DEF RequestOp
    <3>2. CASE o = m
      <4>1. disk'[m.from] = NoFile /\ temp'[m.slot] = m.file /\ disk'[m.to] = disk[m.to]
        BY <1>3, <2>2
      <4>2. disk[m.to] # m.file
        BY <1>2, <1>3, <1>4, <2>1 DEF Between
      <4> QED  BY <1>3, <2>1, <2>3, <3>2, <4>1, <4>2, ServingFacts DEF Between
    <3>3. CASE o # m
      <4>1. Between(o)' = Between(o)
        BY <2>2, <3>1, <3>3 DEF Between
      <4> QED  BY <1>4, <2>3, <3>3, <4>1
    <3> QED  BY <3>2, <3>3
  <2>5. OthersHold(run[r].plan)'
    <3>1. ASSUME NEW f \in Selected, \A o \in run[r].plan : o.file # f
          PROVE  disk'[override[f].path] = f
      <4>1. f \in Files /\ override[f].path # m.from /\ override[f].path \in Paths
        BY <1>3, <3>1, ServingFacts DEF Selected
      <4> QED  BY <2>2, <3>1, <4>1, ServingPlaces
    <3>2. ASSUME NEW s \in Files, temp'[s] # NoFile
          PROVE  \E o \in run[r].plan : o.slot = s /\ o.file = temp'[s] /\ override[o.file].selected
      BY <1>3, <2>1, <2>2, <3>2, ServingPlaces
    <3>3. ASSUME NEW p \in Paths, disk'[p] # NoFile
          PROVE  /\ override[disk'[p]].selected
                 /\ \/ override[disk'[p]].path = p
                    \/ \E o \in run[r].plan : o.file = disk'[p] /\ o.to = p
      BY <2>2, <3>3, ServingPlaces
    <3> QED  BY <1>1, <2>3, <3>1, <3>2, <3>3 DEF OthersHold
  <2>6. RequestOn(r)'
    BY <1>1, <2>3, <2>4, <2>5, RequestGoesOn DEF Applying
  <2> QED  BY <2>3, <2>6
\* The file of a single rename is excluded: there is nothing to rename.
<1>7. CASE disk[m.from] = NoFile
  <2>1. ~override[m.file].selected /\ run[r].plan = {m}
    <3>1. disk[m.from] # m.file
      BY <1>3, <1>7, ServingFacts
    <3> QED  BY <1>2, <1>3, <1>4, <3>1, ServingFacts DEF Between
  <2>2. Fail(r, FALSE) /\ UNCHANGED <<disk, temp>>
    BY <1>2, <1>5, <1>7
  <2>3. run'[r] = Idle /\ state' = state
    BY <2>2, TreatedOrGivenUp, ServingFacts DEF GoesOn, GivenUp
  <2>4. Settled(override)
    <3>1. \A f \in Files : override[f].selected => disk[override[f].path] = f
      BY <2>1, ServingPlaces DEF Selected
    <3>2. \A p \in Paths : disk[p] # NoFile => override[disk[p]].selected /\ override[disk[p]].path = p
      BY <2>1, ServingPlaces
    <3>3. \A s \in Files : temp[s] = NoFile
      BY <2>1, ServingPlaces
    <3> QED  BY <3>1, <3>2, <3>3 DEF Settled
  <2>5. Settled(override)'
    BY <1>1, <2>2, <2>4, SamePlaces
  <2>6. RequestOn(r)'
    BY <2>3, <2>5, RunsMade DEF RequestOn, Applying, Working
  <2> QED  BY <2>3, <2>6
<1> QED  BY <1>6, <1>7

LEMMA RequestPublishes ==
  ASSUME NEW r \in Requests, Serving(r), PublishesAtOnce(r)
  PROVE  state' = state /\ RequestOn(r)'
<1>1. /\ run[r].at = "publishing" /\ UNCHANGED <<size, override, crashes, disturbed>>
      /\ Selected' = Selected
  BY SameOverride DEF PublishesAtOnce
<1>2. PICK m \in run[r].left :
       \/ /\ temp[m.slot] = NoFile
          /\ IF Fits(disk[m.to], m) THEN Treated(r, m) ELSE Fail(r, FALSE)
          /\ UNCHANGED <<disk, temp>>
       \/ /\ temp[m.slot] # NoFile /\ Occupied(run[r].plan, m)
          /\ Fail(r, TRUE) /\ UNCHANGED <<disk, temp>>
       \/ /\ temp[m.slot] # NoFile /\ ~Occupied(run[r].plan, m)
          /\ disk' = [disk EXCEPT ![m.to] = temp[m.slot]]
          /\ temp' = [temp EXCEPT ![m.slot] = NoFile]
          /\ Treated(r, m)
  BY DEF PublishesAtOnce
<1>3. /\ m \in run[r].plan /\ m.file \in Files /\ m.slot \in Files /\ m.from \in Paths /\ m.to \in Paths
      /\ m.from = override[m.file].path /\ m.from # m.to /\ \A g \in Files : override[g].path # m.to
  BY ServingFacts DEF RequestOp
<1>4. \A o \in run[r].plan : /\ override[o.file].selected
                             /\ Between(o) = IF o \in run[r].left THEN <<FALSE, TRUE, FALSE>>
                                                                       ELSE <<FALSE, FALSE, TRUE>>
  BY <1>1 DEF Serving, RequestOn
<1>5. disk[m.from] # m.file /\ temp[m.slot] = m.file /\ disk[m.to] # m.file /\ override[m.file].selected
  BY <1>2, <1>3, <1>4 DEF Between
<1>6. disk[m.to] = NoFile /\ temp[m.slot] # NoFile
  BY <1>3, <1>5, ServingPlaces, ServingFacts
<1>7. /\ \A p \in Paths : disk'[p] = IF p = m.to THEN m.file ELSE disk[p]
      /\ \A s \in Files : temp'[s] = IF s = m.slot THEN NoFile ELSE temp[s]
      /\ Treated(r, m)
  <2>1. ~Occupied(run[r].plan, m)
    BY <1>6 DEF Occupied
  <2>2. /\ disk' = [disk EXCEPT ![m.to] = temp[m.slot]] /\ temp' = [temp EXCEPT ![m.slot] = NoFile]
        /\ Treated(r, m)
    BY <1>2, <1>6, <2>1
  <2>3. disk \in [Paths -> Contents] /\ temp \in [Files -> Contents]
    BY ServingFacts
  <2> QED  BY <1>3, <1>5, <2>2, <2>3
<1>8. /\ UNCHANGED <<state, request>> /\ run'[r].at = "publishing"
      /\ run'[r].plan = run[r].plan /\ run'[r].todo = run[r].todo
      /\ run'[r].left = run[r].left \ {m}
  BY <1>1, <1>7, TreatedOrGivenUp, ServingFacts DEF GoesOn, GivenUp
<1>9. ASSUME NEW o \in run[r].plan
      PROVE  /\ override[o.file].selected
             /\ Between(o)' = IF o \in run'[r].left THEN <<FALSE, TRUE, FALSE>>
                                                         ELSE <<FALSE, FALSE, TRUE>>
  <2>1. /\ o.file \in Files /\ o.slot \in Files /\ o.from \in Paths /\ o.to \in Paths /\ o.from # m.to
        /\ o # m => o.to # m.to /\ o.slot # m.slot
    BY <1>3, ServingFacts DEF RequestOp
  <2>2. CASE o = m
    <3>1. disk'[m.from] = disk[m.from] /\ temp'[m.slot] = NoFile /\ disk'[m.to] = m.file
      BY <1>3, <1>7
    <3> QED  BY <1>3, <1>5, <1>8, <2>2, <3>1, ServingFacts DEF Between
  <2>3. CASE o # m
    <3>1. Between(o)' = Between(o)
      BY <1>7, <2>1, <2>3 DEF Between
    <3> QED  BY <1>4, <1>8, <2>3, <3>1
  <2> QED  BY <2>2, <2>3
<1>10. OthersHold(run[r].plan)'
  <2>1. ASSUME NEW f \in Selected, \A o \in run[r].plan : o.file # f
        PROVE  disk'[override[f].path] = f
    <3>1. f \in Files /\ override[f].path # m.to /\ override[f].path \in Paths
      BY <1>3, ServingFacts DEF Selected
    <3> QED  BY <1>7, <2>1, <3>1, ServingPlaces
  <2>2. ASSUME NEW s \in Files, temp'[s] # NoFile
        PROVE  \E o \in run[r].plan : o.slot = s /\ o.file = temp'[s] /\ override[o.file].selected
    BY <1>7, <2>2, ServingPlaces
  <2>3. ASSUME NEW p \in Paths, disk'[p] # NoFile
        PROVE  /\ override[disk'[p]].selected
               /\ \/ override[disk'[p]].path = p
                  \/ \E o \in run[r].plan : o.file = disk'[p] /\ o.to = p
    BY <1>3, <1>5, <1>7, <2>3, ServingPlaces
  <2> QED  BY <1>1, <1>8, <2>1, <2>2, <2>3 DEF OthersHold
<1>11. RequestOn(r)'
  BY <1>1, <1>8, <1>9, <1>10, RequestGoesOn DEF Applying
<1> QED  BY <1>8, <1>11

LEMMA RequestPhaseEnds ==
  ASSUME NEW r \in Requests, Serving(r), NextPhase(r)
  PROVE  state' = state /\ RequestOn(r)'
<1>1. /\ run[r].left = {} /\ Selected' = Selected
      /\ UNCHANGED <<size, state, override, disk, temp, request, crashes, disturbed>>
  BY PhaseEnds, ServingFacts, SameOverride
<1>2. OthersHold(run[r].plan) /\ \A m : Between(m)' = Between(m)
  BY <1>1, OthersHeld DEF Between
<1>3. CASE /\ run[r].at = "staging" /\ run'[r].at = "publishing"
           /\ run'[r].plan = run[r].plan /\ run'[r].todo = run[r].todo
           /\ run'[r].left = run[r].todo
  <2>1. \A m \in run[r].plan : override[m.file].selected /\ Between(m) = <<FALSE, TRUE, FALSE>>
    BY <1>1, <1>3 DEF Serving, RequestOn
  <2>2. OthersHold(run[r].plan)'
    BY <1>1, <1>2, <1>3 DEF OthersHold
  <2>3. run'[r].left = run[r].plan
    BY <1>3, ServingFacts
  <2> QED  BY <1>1, <1>2, <1>3, <2>1, <2>2, <2>3, RequestGoesOn DEF Applying
<1>4. CASE /\ run[r].at = "publishing" /\ run'[r].at = "excluding"
           /\ run'[r].plan = run[r].plan /\ run'[r].todo = run[r].todo
  <2>1. \A m \in run[r].plan : override[m.file].selected /\ Between(m) = <<FALSE, FALSE, TRUE>>
    BY <1>1, <1>4 DEF Serving, RequestOn
  <2>2. OthersHold(run[r].plan)'
    BY <1>1, <1>2, <1>4 DEF OthersHold
  <2> QED  BY <1>1, <1>2, <1>4, <2>1, <2>2, RequestGoesOn DEF Applying
<1>5. CASE run[r].at = "excluding" /\ run'[r].at = "storing"
  <2> DEFINE o == Stored(request[r])
  <2>1. \A m \in run[r].plan :
          /\ override[m.file].selected /\ disk[m.from] # m.file
          /\ temp[m.slot] # m.file /\ disk[m.to] = m.file
    BY <1>5 DEF Serving, RequestOn, Between
  <2>2. /\ \A m \in run[r].plan : o[m.file].path = m.to /\ m.from = override[m.file].path
        /\ \A f \in Files : o[f].selected = override[f].selected
        /\ \A f \in Selected : (\A m \in run[r].plan : m.file # f) => o[f].path = override[f].path
    BY ServingFacts DEF RequestOp
  <2> HIDE DEF o
  <2>3. ASSUME NEW f \in Files, o[f].selected PROVE disk[o[f].path] = f
    <3>1. CASE \E m \in run[r].plan : m.file = f
      BY <2>1, <2>2, <3>1
    <3>2. CASE \A m \in run[r].plan : m.file # f
      BY <2>2, <2>3, <3>2, ServingPlaces DEF Selected
    <3> QED  BY <3>1, <3>2
  <2>4. ASSUME NEW p \in Paths, disk[p] # NoFile
        PROVE  o[disk[p]].selected /\ o[disk[p]].path = p
    <3>1. disk[p] \in Files /\ disk[p] \in Selected
      BY <2>4, ServingPlaces DEF Selected
    <3>2. CASE override[disk[p]].path = p
      <4>1. \A m \in run[r].plan : m.file # disk[p]
        BY <2>1, <2>2, <3>2
      <4> QED  BY <2>2, <3>1, <3>2, <4>1 DEF Selected
    <3>3. CASE \E m \in run[r].plan : m.file = disk[p] /\ m.to = p
      BY <2>2, <3>1, <3>3 DEF Selected
    <3> QED  BY <2>4, <3>2, <3>3, ServingPlaces
  <2>5. ASSUME NEW s \in Files PROVE temp[s] = NoFile
    BY <2>1, ServingPlaces
  <2>6. Settled(o)
    BY <2>3, <2>4, <2>5 DEF Settled
  <2>7. Stored(request[r])' = o
    BY <1>1, SameOverride DEF o
  <2>8. Settled(Stored(request[r]))'
    BY <1>1, <2>6, <2>7 DEF Settled
  <2>9. Asked(request[r])'
    BY <1>1, ServingFacts, SameOverride
  <2> QED  BY <1>1, <1>5, <2>8, <2>9 DEF RequestOn, Applying, Working
<1> QED  BY <1>3, <1>4, <1>5, PhaseEnds, ServingFacts

\* A request is made when nothing else is going on.
LEMMA RequestAsks ==
  ASSUME PlanInv, NEW r \in Requests, NEW q \in Request, q.kind # "none", Asked(q), Ask(r, q, PlanOf(q)),
         state = "completed", Settled(override)
  PROVE  RequestOn(r)'
<1>1. TypeOK /\ PlanOf(q) \in SUBSET Operation
  BY PlansMade DEF PlanInv
<1>2. /\ run'[r].at = "validating" /\ run'[r].plan = PlanOf(q) /\ request' = [request EXCEPT ![r] = q]
      /\ UNCHANGED <<size, state, override, disk, temp, crashes>>
  BY <1>1, Asks
<1>3. request'[r] = q
  BY <1>1, <1>2 DEF TypeOK
<1>4. Asked(q)' = Asked(q) /\ PlanOf(q)' = PlanOf(q) /\ Settled(override)' = Settled(override)
  BY <1>2, SameOverride, SamePlaces
<1>5. Asked(request[r])' = Asked(q)'
  BY <1>3 DEF Asked, InFolder, Renamed
<1>6. PlanOf(request[r])' = PlanOf(q)'
  BY <1>3, Zenon DEF PlanOf, completedFolderPlans, InFolder, Renamed, Selected
<1> QED  BY <1>2, <1>4, <1>5, <1>6 DEF RequestOn, Applying

\* Its plan begins with every operation yet to be carried out, if it is accepted.
LEMMA RequestValidates ==
  ASSUME PlanInv, FreshNames, FoldersApart, NEW r \in Requests, RequestOn(r), Validate(r)
  PROVE  RequestOn(r)'
<1>1. /\ TypeOK /\ PathsNamed /\ run[r].at = "validating" /\ r \in Actors
      /\ UNCHANGED <<size, state, override, disk, temp, crashes, disturbed>>
  BY Constants DEF PlanInv, Validate
<1>2. Settled(override)' /\ Settled(override)
  BY <1>1, SamePlaces DEF RequestOn
<1>3. CASE Answered(r)
  <2>1. run'[r].at = "idle"
    BY <1>1, <1>3, Answers, RunsMade
  <2> QED  BY <1>2, <2>1 DEF RequestOn, Applying, Working
<1>4. CASE Begin(r, run[r].plan) /\ UNCHANGED request
  <2> DEFINE plan == run[r].plan
  <2>1. /\ request[r] \in Request /\ request[r].kind # "none" /\ Asked(request[r]) /\ plan = PlanOf(request[r])
        /\ plan \in SUBSET Operation
    BY <1>1, OperationsLeft DEF PlanInv, TypeOK, RequestsHold, RequestOn, Working
  <2>2. \A m \in plan : RequestOp(request[r], m)
    BY <1>1, <2>1, RequestOps
  <2>3. /\ \A f \in Files : override[f].selected => disk[override[f].path] = f
        /\ \A p \in Paths : disk[p] # NoFile =>
             disk[p] \in Files /\ override[disk[p]].selected /\ override[disk[p]].path = p
        /\ \A s \in Files : temp[s] = NoFile
        /\ NoFile \notin Files
    BY <1>1, <1>2, Constants DEF Settled, TypeOK, Contents
  <2>4. ASSUME NEW m \in plan
        PROVE  /\ m \in moving(plan) /\ m.file \in Files /\ disk[m.to] = NoFile /\ temp[m.slot] = NoFile
               /\ override[m.file].selected => disk[m.from] = m.file
    <3>1. RequestOp(request[r], m)
      BY <2>2
    <3> QED  BY <2>3, <3>1 DEF RequestOp, moving
  <2>5. {m \in moving(plan) : ~Moved(m)} = plan
    BY <2>4 DEF Moved, Fits, moving
  <2>6. /\ run'[r].at = "staging" /\ run'[r].plan = plan /\ run'[r].left = plan /\ run'[r].todo = plan
    BY <1>1, <1>4, <2>1, <2>5, RunBegun
  <2> HIDE DEF plan
  <2>7. OthersHold(run[r].plan)'
    <3>1. OthersHold(plan)
      BY <2>3 DEF OthersHold, Selected
    <3>2. OthersHold(run[r].plan)
      BY <3>1 DEF plan
    <3> QED  BY <1>1, <2>3, <2>6, SameOverride DEF OthersHold, Selected
  <2>8. ASSUME NEW m \in plan, override[m.file].selected
        PROVE  Between(m)' = <<TRUE, FALSE, FALSE>>
    <3>1. m.file # NoFile
      BY <2>3, <2>4
    <3> QED  BY <1>1, <2>4, <2>8, <3>1 DEF Between
  <2>9. Asked(request[r])' /\ run'[r].plan = PlanOf(request[r])'
    <3>1. Asked(request[r])' = Asked(request[r]) /\ PlanOf(request[r])' = PlanOf(request[r])
      BY <1>1, <1>4, SameOverride DEF Asked, PlanOf, completedFolderPlans, InFolder, Renamed, Selected
    <3> QED  BY <2>1, <2>6, <3>1
  <2> QED  BY <1>1, <2>6, <2>7, <2>8, <2>9 DEF RequestOn
<1> QED  BY <1>3, <1>4 DEF Validate

\* A request that ran alone stores the names its plan has given.
LEMMA RequestStores ==
  ASSUME PlanInv, FreshNames, FoldersApart, NEW r \in Requests, RequestOn(r), state = "completed", Store(r)
  PROVE  state' = state /\ Settled(override)' /\ RequestOn(r)'
<1>1. /\ run[r].at = "storing" /\ Answered(r) /\ UNCHANGED <<size, state, disk, temp, crashes, disturbed>>
      /\ override' = IF Renameable /\ PathsDistinct(Stored(request[r])) THEN Stored(request[r]) ELSE override
  BY DEF Store
<1>2. TypeOK /\ PathsNamed /\ request[r] \in Request /\ request[r].kind # "none"
  BY <1>1 DEF PlanInv, TypeOK, RequestsHold
<1>3. Settled(Stored(request[r])) /\ PathsDistinct(Stored(request[r]))
  <2>1. Settled(Stored(request[r])) /\ Asked(request[r])
    BY <1>1 DEF RequestOn
  <2> QED  BY <1>2, <2>1, RequestOps
<1>4. override' = Stored(request[r])
  BY <1>1, <1>3 DEF Renameable
<1>5. Settled(override')
  BY <1>3, <1>4
<1>6. Settled(override)'
  BY <1>1, <1>5 DEF Settled
<1>7. run'[r] = Idle
  BY <1>1, <1>2, Answers
<1> QED  BY <1>1, <1>6, <1>7, RunsMade DEF RequestOn, Applying, Working

-----------------------------------------------------------------------------
(* AloneInv                                                                  *)

LEMMA AloneInvInit == Init => AloneInv
<1> SUFFICES ASSUME Init PROVE AloneInv  OBVIOUS
<1>1. \A p \in Actors : run[p].at = "idle" /\ ~run[p].raced
  BY RunsMade DEF Init, Bare
<1>2. \A r \in Requests : run[r].at = "idle"
  BY <1>1, Constants
<1> QED  BY <1>1, <1>2 DEF Init, AloneInv

\* An action that disturbs no request was not preceded by one that did.
LEMMA StillAlone ==
  ASSUME TypeOK, [Next]_vars, disturbed' = 0
  PROVE  disturbed = 0 /\ disturbed' = disturbed /\ ~Disturb
<1>1. disturbed \in Nat
  BY Constants DEF TypeOK
<1>2. ~Disturb
  BY <1>1 DEF Disturb
<1>3. UNCHANGED disturbed
  <2>1. ASSUME NEW p \in Actors, Apply(p) PROVE UNCHANGED disturbed
    BY <2>1 DEF Apply, LookToStage, Stage, LookToPublish, Publish, LookToExclude, Exclude, NextPhase
  <2>2. ASSUME \/ verifyAndRecord \/ Verify \/ CommitClaim \/ copied \/ Retry
               \/ deleteEntry \/ deleteCopyWorkspace
        PROVE  UNCHANGED disturbed
    BY <2>2 DEF verifyAndRecord, Verify, CommitClaim, copied, Retry, deleteEntry, deleteCopyWorkspace
  <2>3. ASSUME start \/ Reverify \/ Crash PROVE UNCHANGED disturbed
    BY <1>2, <2>3 DEF start, Reverify, Crash
  <2>4. ASSUME NEW f \in Files, NEW selected \in BOOLEAN, SetFilePriorities(f, selected)
        PROVE  UNCHANGED disturbed
    BY <2>4 DEF SetFilePriorities
  <2>5. ASSUME NEW r \in Requests, Validate(r) \/ Store(r) \/ StoreFails(r) PROVE UNCHANGED disturbed
    BY <1>2, <2>5 DEF Validate, Store, StoreFails
  <2>6. ASSUME NEW r \in Requests, NEW f \in Files, NEW path \in Paths, renameFile(r, f, path)
        PROVE  UNCHANGED disturbed
    BY <1>2, <2>6 DEF renameFile, Ask
  <2>7. ASSUME NEW r \in Requests, NEW old \in Directories, NEW new \in Directories, renameFolder(r, old, new)
        PROVE  UNCHANGED disturbed
    BY <1>2, <2>7 DEF renameFolder, Ask
  <2>8. ASSUME UNCHANGED vars PROVE UNCHANGED disturbed
    BY <2>8 DEF vars
  <2> QED  BY <2>1, <2>2, <2>3, <2>4, <2>5, <2>6, <2>7, <2>8 DEF Next
<1> QED  BY <1>2, <1>3

\* What holds while no request was disturbed.
Undisturbed ==
  /\ PlanInv /\ FreshNames /\ FoldersApart
  /\ state \in {"preStart", "copying", "verifying", "completed"}
  /\ \A p \in Actors : ~run[p].raced
  /\ \A r, s \in Requests : run[r].at # "idle" /\ run[s].at # "idle" => r = s
  /\ state = "preStart" => \A r \in Requests : run[r].at \in {"idle", "storing"}
  /\ state \in {"copying", "verifying"} => Quiet
  /\ state = "verifying" => Alone
  /\ state = "completed" => /\ Quiet => Settled(override)
                            /\ \A r \in Requests : run[r].at # "idle" => RequestOn(r)

LEMMA AloneFacts ==
  ASSUME PlanInv, FreshNames, FoldersApart, AloneInv, disturbed = 0
  PROVE  /\ Undisturbed
         /\ run["worker"].at # "idle" => state = "verifying"
         /\ \A r \in Requests : Applying(r) => state = "completed" /\ Serving(r)
         /\ \A p, q \in Actors : Applying(p) /\ Applying(q) => p = q
<1>1. Undisturbed
  BY DEF AloneInv, Undisturbed, Alone
<1>2. run["worker"].at # "idle" => state = "verifying"
  BY DEF PlanInv, WorkerHolds
<1>3. ASSUME NEW r \in Requests, Applying(r) PROVE state = "completed" /\ Serving(r)
  <2>1. run[r].at # "idle" /\ run[r].at # "storing"
    BY <1>3 DEF Applying
  <2>2. state = "completed"
    BY <1>1, <2>1 DEF Undisturbed, Quiet
  <2> QED  BY <1>1, <1>3, <2>1, <2>2 DEF Undisturbed, Serving
<1>4. \A p, q \in Actors : Applying(p) /\ Applying(q) => p = q
  BY <1>1 DEF Undisturbed, PlanInv, Unraced
<1> QED  BY <1>1, <1>2, <1>3, <1>4

\* A step of the worker alone.
LEMMA AloneWorker ==
  ASSUME Undisturbed, \A r \in Requests : run'[r].at = "idle", \A p \in Actors : ~run'[p].raced,
         \/ state' = "verifying" /\ Placed' /\ WorkerOn'
         \/ state' = "completed" /\ Settled(override)'
  PROVE  AloneInv'
  BY DEF AloneInv, Quiet

\* A step of the only request.
LEMMA AloneRequest ==
  ASSUME Undisturbed, NEW r \in Requests, \A s \in Requests \ {r} : run'[s].at = "idle",
         \A p \in Actors : ~run'[p].raced, state' = "completed", RequestOn(r)'
  PROVE  AloneInv'
<1>1. Quiet' => Settled(override)'
  BY DEF Quiet, RequestOn
<1> QED  BY <1>1 DEF AloneInv

\* Nothing that AloneInv speaks of is changed.
LEMMA AloneSame ==
  ASSUME Undisturbed, UNCHANGED <<state, override, disk, temp, request>>, run' \in [Actors -> Run],
         \A p \in Actors : /\ run'[p].at = run[p].at /\ run'[p].plan = run[p].plan
                           /\ run'[p].todo = run[p].todo /\ run'[p].left = run[p].left
                           /\ run'[p].raced = run[p].raced
  PROVE  AloneInv'
<1>1. /\ VerificationPlan' = VerificationPlan /\ Selected' = Selected
      /\ \A f : AtSource(f)' = AtSource(f) /\ InTemp(f)' = InTemp(f) /\ AtTarget(f)' = AtTarget(f)
      /\ Settled(override)' = Settled(override) /\ (Placed => Placed')
  BY SameOverride, SamePlaces DEF AtSource, InTemp, AtTarget
<1>2. WorkerOn => WorkerOn'
  BY <1>1, Constants DEF WorkerOn, moving
<1>3. ASSUME NEW r \in Requests, RequestOn(r) PROVE RequestOn(r)'
  <2>1. /\ run'[r].at = run[r].at /\ run'[r].plan = run[r].plan
        /\ run'[r].todo = run[r].todo /\ run'[r].left = run[r].left
    BY Constants
  <2>2. /\ Asked(request[r])' = Asked(request[r])
        /\ PlanOf(request[r])' = PlanOf(request[r]) /\ Stored(request[r])' = Stored(request[r])
    BY SameOverride DEF Asked, PlanOf, completedFolderPlans, InFolder, Renamed, Selected, Stored
  <2>3. /\ \A m : Between(m)' = Between(m)
        /\ OthersHold(run[r].plan)' = OthersHold(run[r].plan)
        /\ Settled(Stored(request[r]))' = Settled(Stored(request[r]))
    BY <1>1, <2>1, <2>2 DEF Between, OthersHold, Settled
  <2> QED  BY <1>1, <1>3, <2>1, <2>2, <2>3 DEF RequestOn, Applying
<1>4. \A r \in Requests : run'[r].at = run[r].at
  BY Constants
<1> QED  BY <1>1, <1>2, <1>3, <1>4 DEF Undisturbed, Alone, AloneInv, Quiet

LEMMA AloneWorkerApplies ==
  ASSUME Undisturbed, Alone, Quiet, state = "verifying", Apply("worker")
  PROVE  AloneInv'
<1>1. TypeOK /\ PlanInv /\ "worker" \in Actors /\ ~run["worker"].raced
  BY Constants DEF Undisturbed, PlanInv
<1>2. CASE NextPhase("worker")
  <2>1. OthersSame("worker") /\ ~run'["worker"].raced
    BY <1>1, <1>2, PhaseEnds DEF Bare
  <2>2. state' = state /\ Placed' /\ WorkerOn'
    BY <1>2, WorkerPhaseEnds
  <2>3. (\A r \in Requests : run'[r].at = "idle") /\ \A p \in Actors : ~run'[p].raced
    BY <2>1, Constants DEF OthersSame, Undisturbed, Quiet
  <2> QED  BY <2>2, <2>3, AloneWorker
<1>3. CASE LooksOnly("worker")
  <2>1. /\ UNCHANGED <<state, override, disk, temp, request>> /\ run' \in [Actors -> Run]
        /\ \A p \in Actors : /\ run'[p].at = run[p].at /\ run'[p].plan = run[p].plan
                              /\ run'[p].todo = run[p].todo /\ run'[p].left = run[p].left
                              /\ run'[p].raced = run[p].raced
    BY <1>3 DEF LooksOnly, OthersSame
  <2> QED  BY <2>1, AloneSame
<1>4. CASE /\ StagesAtOnce("worker") \/ PublishesAtOnce("worker") \/ ExcludesAtOnce("worker")
           /\ ~NextPhase("worker")
  <2>1. state' = state /\ Placed' /\ WorkerOn'
    BY <1>4, WorkerStages, WorkerPublishes, WorkerExcludes
  <2>2. Goes("worker")
    BY <1>1, <1>4, PlanGoes DEF Apply
  <2>3. OthersSame("worker") /\ ~run'["worker"].raced
    BY <1>1, <2>2, RunsMade DEF Goes, GoesOn, GivenUp, Bare
  <2>4. (\A r \in Requests : run'[r].at = "idle") /\ \A p \in Actors : ~run'[p].raced
    BY <2>3, Constants DEF OthersSame, Undisturbed, Quiet
  <2> QED  BY <2>1, <2>4, AloneWorker
<1> QED  BY <1>1, <1>2, <1>3, <1>4, UndisputedSteps DEF Apply

LEMMA AloneRequestApplies ==
  ASSUME Undisturbed, NEW r \in Requests, Serving(r), state = "completed", Apply(r)
  PROVE  AloneInv'
<1>1. TypeOK /\ PlanInv /\ r \in Actors /\ ~run[r].raced /\ run[r].at # "idle"
  BY Constants DEF Undisturbed, PlanInv, Serving, Applying
<1>2. \A s \in Requests \ {r} : run[s].at = "idle"
  BY <1>1 DEF Undisturbed
<1>3. ASSUME OthersSame(r), ~run'[r].raced, state' = state, RequestOn(r)'
      PROVE  AloneInv'
  <2>1. (\A s \in Requests \ {r} : run'[s].at = "idle") /\ \A p \in Actors : ~run'[p].raced
    BY <1>2, <1>3, Constants DEF OthersSame, Undisturbed
  <2> QED  BY <1>3, <2>1, AloneRequest
<1>4. CASE NextPhase(r)
  <2>1. OthersSame(r) /\ ~run'[r].raced
    BY <1>1, <1>4, PhaseEnds DEF Bare
  <2> QED  BY <1>3, <1>4, <2>1, RequestPhaseEnds
<1>5. CASE LooksOnly(r)
  <2>1. /\ UNCHANGED <<state, override, disk, temp, request>> /\ run' \in [Actors -> Run]
        /\ \A p \in Actors : /\ run'[p].at = run[p].at /\ run'[p].plan = run[p].plan
                              /\ run'[p].todo = run[p].todo /\ run'[p].left = run[p].left
                              /\ run'[p].raced = run[p].raced
    BY <1>5 DEF LooksOnly, OthersSame
  <2> QED  BY <2>1, AloneSame
<1>6. CASE /\ StagesAtOnce(r) \/ PublishesAtOnce(r)
           /\ ~NextPhase(r)
  <2>1. state' = state /\ RequestOn(r)'
    BY <1>6, RequestStages, RequestPublishes
  <2>2. Goes(r)
    BY <1>1, <1>6, PlanGoes DEF Apply
  <2>3. OthersSame(r) /\ ~run'[r].raced
    BY <1>1, <2>2, RunsMade DEF Goes, GoesOn, GivenUp, Bare
  <2> QED  BY <1>3, <2>1, <2>3
\* The plan of a rename excludes nothing.
<1>7. ~ExcludesAtOnce(r)
  <2> SUFFICES ASSUME ExcludesAtOnce(r) PROVE FALSE  OBVIOUS
  <2>1. PICK m \in run[r].left : ~m.selected
    BY <1>1 DEF ExcludesAtOnce, PlanInv, PhasesHold
  <2> QED  BY <2>1, ServingFacts DEF RequestOp
<1> QED  BY <1>1, <1>4, <1>5, <1>6, <1>7, UndisputedSteps DEF Apply

LEMMA AloneAsks ==
  ASSUME Undisturbed, ~Disturb, NEW r \in Requests, NEW q \in Request, q.kind # "none", Asked(q),
         Ask(r, q, PlanOf(q))
  PROVE  AloneInv'
<1>1. TypeOK /\ PlanInv /\ r \in Actors /\ PlanOf(q) \in SUBSET Operation
  BY Constants, PlansMade DEF Undisturbed, PlanInv
<1>2. Quiet /\ state \in {"preStart", "completed"}
  BY DEF Ask, Renameable
<1>3. /\ OthersSame(r) /\ ~run'[r].raced /\ UNCHANGED <<size, state, override, disk, temp, crashes>>
      /\ run'[r].at = IF state = "completed" THEN "validating" ELSE "storing"
  BY <1>1, Asks
<1>4. (\A s \in Requests \ {r} : run'[s].at = "idle") /\ \A p \in Actors : ~run'[p].raced
  BY <1>2, <1>3, Constants DEF OthersSame, Undisturbed, Quiet
<1>5. CASE state = "completed"
  <2>1. RequestOn(r)'
    BY <1>1, <1>2, <1>5, RequestAsks DEF Undisturbed
  <2> QED  BY <1>3, <1>4, <1>5, <2>1, AloneRequest
<1>6. CASE state = "preStart"
  BY <1>3, <1>4, <1>6 DEF AloneInv
<1> QED  BY <1>2, <1>5, <1>6

\* A request validates its plan or stores what it was asked for.
LEMMA AloneServes ==
  ASSUME Undisturbed, NEW r \in Requests, Validate(r) \/ Store(r)
  PROVE  AloneInv'
<1>1. /\ TypeOK /\ PlanInv /\ FreshNames /\ FoldersApart /\ r \in Actors /\ run[r].at # "idle"
      /\ state' = state
  BY Constants DEF Undisturbed, PlanInv, Validate, Store
<1>2. /\ \A s \in Requests \ {r} : run[s].at = "idle"
      /\ state \in {"preStart", "completed"}
  BY <1>1 DEF Undisturbed, Quiet
<1>3. run["worker"].at = "idle"
  BY <1>1, <1>2 DEF PlanInv, WorkerHolds
<1>4. \A p \in Actors \ {r} : run[p].at = "idle" /\ ~run[p].raced
  BY <1>2, <1>3, Constants DEF Undisturbed
<1>5. \A p \in Actors \ {r} : run'[p].at = "idle" /\ ~run'[p].raced
  <2>1. CASE Answered(r)
    BY <1>1, <1>4, <2>1, Answers DEF OthersSame
  <2>2. CASE Begin(r, run[r].plan)
    <3>1. run[r].plan \in SUBSET Operation
      BY <1>1, OperationsLeft
    <3> QED  BY <1>1, <1>4, <2>2, <3>1, RunBegun DEF KeepsOn, Applying
  <2> QED  BY <2>1, <2>2 DEF Validate, Store
<1>6. ~run'[r].raced
  <2>1. CASE Answered(r)
    BY <1>1, <2>1, Answers, RunsMade DEF Bare
  <2>2. CASE Begin(r, run[r].plan)
    <3>1. run[r].plan \in SUBSET Operation
      BY <1>1, OperationsLeft
    <3> QED  BY <1>1, <1>4, <2>2, <3>1, RunBegun DEF Applying
  <2> QED  BY <2>1, <2>2 DEF Validate, Store
<1>7. (\A s \in Requests \ {r} : run'[s].at = "idle") /\ \A p \in Actors : ~run'[p].raced
  BY <1>5, <1>6, Constants
<1>8. CASE state = "completed"
  <2>1. RequestOn(r)
    BY <1>1, <1>8 DEF Undisturbed
  <2>2. RequestOn(r)'
    BY <1>1, <1>8, <2>1, RequestValidates, RequestStores
  <2> QED  BY <1>1, <1>7, <1>8, <2>2, AloneRequest
<1>9. CASE state = "preStart"
  <2>1. Store(r)
    BY <1>1, <1>9 DEF Undisturbed, Validate
  <2>2. run'[r].at = "idle"
    BY <1>1, <2>1, Answers, RunsMade DEF Store
  <2> QED  BY <1>1, <1>7, <1>9, <2>2 DEF AloneInv
<1> QED  BY <1>2, <1>8, <1>9

LEMMA AloneInvStep ==
  FreshNames /\ FoldersApart /\ PlanInv /\ AloneInv /\ [Next]_vars => AloneInv'
<1> SUFFICES ASSUME FreshNames, FoldersApart, PlanInv, AloneInv, [Next]_vars, disturbed' = 0
             PROVE  AloneInv'
  BY DEF AloneInv
<1>1. TypeOK /\ disturbed = 0 /\ disturbed' = disturbed /\ ~Disturb
  BY StillAlone DEF PlanInv
<1>2. /\ Undisturbed
      /\ run["worker"].at # "idle" => state = "verifying"
      /\ \A r \in Requests : Applying(r) => state = "completed" /\ Serving(r)
      /\ state = "verifying" => Quiet /\ Alone
      /\ state \in {"preStart", "copying", "verifying", "completed"}
  BY <1>1, AloneFacts DEF Undisturbed
<1>3. ASSUME NEW p \in Actors, Apply(p) PROVE AloneInv'
  <2>1. Applying(p)
    BY <1>3 DEF Apply, LookToStage, Stage, LookToPublish, Publish, LookToExclude, Exclude,
                NextPhase, Applying
  <2>2. CASE p = "worker"
    <3>1. state = "verifying"
      BY <1>2, <2>1, <2>2 DEF Applying
    <3> QED  BY <1>2, <1>3, <2>2, <3>1, AloneWorkerApplies
  <2>3. CASE p \in Requests
    BY <1>2, <1>3, <2>1, <2>3, AloneRequestApplies
  <2> QED  BY <2>2, <2>3, Constants
<1>4. CASE verifyAndRecord
  <2>1. state = "verifying" /\ Alone /\ Quiet
    BY <1>2, <1>4 DEF verifyAndRecord
  <2>2. state' = state /\ Placed' /\ WorkerOn'
    BY <1>4, <2>1, WorkerBegins
  <2>3. Begin("worker", VerificationPlan) /\ VerificationPlan \in SUBSET Operation
    BY <1>1, <1>4, <2>1, <2>2, PlansMade DEF verifyAndRecord, PlanInv
  <2>4. \A p \in Actors \ {"worker"} : run[p].at = "idle" /\ ~run[p].raced
    BY <1>2, <2>1, Constants DEF Undisturbed, Quiet
  <2>5. /\ ~run'["worker"].raced
        /\ \A p \in Actors \ {"worker"} : run'[p].at = "idle" /\ ~run'[p].raced
    BY <1>1, <2>3, <2>4, Constants, RunBegun DEF KeepsOn, Applying
  <2> QED  BY <1>2, <2>1, <2>2, <2>5, Constants, AloneWorker
<1>5. CASE Verify
  <2>1. state = "verifying" /\ Alone /\ Quiet
    BY <1>2, <1>5 DEF Verify
  <2>2. state' = state /\ Placed' /\ WorkerOn'
    BY <1>5, <2>1, WorkerVerifies
  <2>3. OthersSame("worker") /\ ~run'["worker"].raced
    <3>1. CASE run' = [run EXCEPT !["worker"].at = "committing"]
      BY <1>1, <1>2, <3>1, Constants, RunChanges DEF TypeOK, Phases, Undisturbed
    <3>2. ASSUME NEW c \in BOOLEAN, Fail("worker", c) PROVE OthersSame("worker") /\ ~run'["worker"].raced
      <4>1. OthersSame("worker") /\ GivenUp("worker")
        BY <1>1, <3>2, Constants, TreatedOrGivenUp
      <4> QED  BY <4>1, RunsMade DEF GivenUp, Bare
    <3>3. Verify => \/ \E c \in BOOLEAN : Fail("worker", c)
                    \/ run' = [run EXCEPT !["worker"].at = "committing"]
      BY DEF Verify
    <3> QED  BY <1>5, <3>1, <3>2, <3>3
  <2>4. (\A r \in Requests : run'[r].at = "idle") /\ \A p \in Actors : ~run'[p].raced
    BY <1>2, <2>1, <2>3, Constants DEF OthersSame, Undisturbed, Quiet
  <2> QED  BY <1>2, <2>1, <2>2, <2>4, AloneWorker
<1>6. CASE CommitClaim
  <2>1. /\ run["worker"].at = "committing" /\ state' = "completed"
        /\ UNCHANGED <<override, disk, temp>> /\ run' = [run EXCEPT !["worker"] = Idle]
    BY <1>6 DEF CommitClaim
  <2>2. Alone /\ Quiet
    BY <1>2, <2>1
  <2>3. Settled(override)'
    BY <2>1, <2>2, SamePlaces DEF Alone, WorkerOn
  <2>4. OthersSame("worker") /\ ~run'["worker"].raced
    BY <1>1, <2>1, Constants, RunReplaced, RunsMade DEF TypeOK, Bare
  <2>5. (\A r \in Requests : run'[r].at = "idle") /\ \A p \in Actors : ~run'[p].raced
    BY <1>2, <2>2, <2>4, Constants DEF OthersSame, Undisturbed, Quiet
  <2> QED  BY <1>2, <2>1, <2>3, <2>5, AloneWorker
<1>7. CASE start
  BY <1>1, <1>2, <1>7 DEF start, Undisturbed, AloneInv, Quiet
<1>8. CASE copied
  <2>1. state = "copying" /\ state' = "verifying" /\ Quiet /\ run' = Intruded
    BY <1>2, <1>8 DEF copied, Undisturbed
  <2>2. \A p \in Actors : run[p].at = "idle" /\ ~run[p].raced
    BY <1>2, <2>1, Constants DEF Undisturbed, Quiet
  <2>3. \A p \in Actors : run'[p].at = "idle" /\ ~run'[p].raced
    BY <1>1, <2>1, <2>2, RunsIntruded DEF KeepsOn, Applying
  <2>4. Placed' /\ WorkerOn'
    BY <1>8, <2>3, Constants, CopiedPlaced DEF WorkerOn
  <2> QED  BY <1>2, <2>1, <2>3, <2>4, Constants, AloneWorker
<1>9. CASE Reverify
  <2>1. /\ state = "completed" /\ state' = "verifying" /\ Quiet /\ UNCHANGED <<override, disk, temp, run>>
    BY <1>1, <1>9 DEF Reverify
  <2>2. Settled(override) /\ run["worker"].at = "idle"
    BY <1>2, <2>1 DEF Undisturbed
  <2>3. Placed' /\ WorkerOn'
    BY <2>1, <2>2, SettledPlaced, SamePlaces
  <2> QED  BY <1>2, <2>1, <2>3, AloneWorker DEF Undisturbed, Quiet
<1>10. CASE Retry \/ deleteEntry \/ deleteCopyWorkspace
  BY <1>2, <1>10 DEF Retry, deleteEntry, deleteCopyWorkspace
<1>11. ASSUME NEW f \in Files, NEW selected \in BOOLEAN, SetFilePriorities(f, selected) PROVE AloneInv'
  BY <1>2, <1>11 DEF SetFilePriorities, Undisturbed, AloneInv
<1>12. ASSUME NEW r \in Requests, NEW f \in Files, NEW path \in Paths, renameFile(r, f, path) PROVE AloneInv'
  <2>1. PICK q \in Request : q.kind # "none" /\ Asked(q) /\ Ask(r, q, PlanOf(q))
    BY <1>1, <1>12, AsksMade
  <2> QED  BY <1>1, <1>2, <2>1, AloneAsks
<1>13. ASSUME NEW r \in Requests, NEW old \in Directories, NEW new \in Directories, renameFolder(r, old, new)
       PROVE  AloneInv'
  <2>1. PICK q \in Request : q.kind # "none" /\ Asked(q) /\ Ask(r, q, PlanOf(q))
    BY <1>1, <1>13, AsksMade
  <2> QED  BY <1>1, <1>2, <2>1, AloneAsks
<1>14. ASSUME NEW r \in Requests, Validate(r) \/ Store(r) PROVE AloneInv'
  BY <1>2, <1>14, AloneServes
<1>15. ASSUME NEW r \in Requests, StoreFails(r) PROVE AloneInv'
  BY <1>1, <1>15 DEF StoreFails
<1>16. CASE Crash
  <2>1. /\ Quiet /\ UNCHANGED <<state, override, disk, temp>>
        /\ \A p \in Actors : run'[p].at = "idle" /\ ~run'[p].raced
    BY <1>1, <1>16, RunsMade DEF Crash, Bare
  <2>2. Settled(override)' = Settled(override) /\ (Placed => Placed') /\ WorkerOn'
    BY <2>1, Constants, SamePlaces
  <2>3. \A r \in Requests : run'[r].at = "idle"
    BY <2>1, Constants
  <2> QED  BY <1>2, <2>1, <2>2, <2>3 DEF Undisturbed, Alone, AloneInv, Quiet
<1>17. CASE UNCHANGED vars
  BY <1>1, <1>2, <1>17, AloneSame DEF vars, TypeOK
<1> QED
  BY <1>3, <1>4, <1>5, <1>6, <1>7, <1>8, <1>9, <1>10, <1>11, <1>12, <1>13, <1>14, <1>15, <1>16, <1>17
  DEF Next

\* The invariant of requests that run alone: their files are under the old names or on
\* their way to the new ones, and nothing else is on disk.
THEOREM AloneInvAlways ==
  ASSUME FreshNames, FoldersApart
  PROVE  Spec => [](PlanInv /\ AloneInv)
<1>1. Init => PlanInv /\ AloneInv
  BY PlanInvInit, AloneInvInit
<1>2. PlanInv /\ AloneInv /\ [Next]_vars => (PlanInv /\ AloneInv)'
  BY PlanInvStep, AloneInvStep
<1> QED  BY <1>1, <1>2, PTL DEF Spec

-----------------------------------------------------------------------------
(* What the names tell                                                       *)

\* As long as no request was interrupted or raced, every selected file of a completed
\* download is under its effective path, also among files of one size, which nothing in
\* ApplyFilePlan or verifyManifest tells apart: any number of crashes in the middle of
\* verifications, rechecks, single and folder renames has gone before.
THEOREM NamesShowContent ==
  ASSUME FreshNames, FoldersApart
  PROVE  Spec => []NamesTellContent
<1>1. PlanInv /\ AloneInv => NamesTellContent
  BY DEF AloneInv, Settled, NamesTellContent, Selected
<1> QED  BY <1>1, AloneInvAlways, PTL

\* plan.go:23: a plan that is carried out again, or after a crash between any two of its
\* renames and removals, converges: no verification meets a conflict or a missing file.
THEOREM PlansConverge ==
  ASSUME FreshNames, FoldersApart
  PROVE  Spec => []PlanConverges
<1>1. PlanInv /\ AloneInv => PlanConverges
  BY DEF AloneInv, PlanConverges
<1> QED  BY <1>1, AloneInvAlways, PTL

\* What a verification has brought into place, and every rename since, a recheck accepts.
\* The run plan_recheck refutes it of a file that is given the manifest name of another:
\* these are the names of which plan_test.go:34 is true.
THEOREM RechecksAccepted ==
  ASSUME FreshNames, FoldersApart
  PROVE  Spec => RecheckAccepts
<1>1. ASSUME PlanInv, AloneInv, Reverify, Quiet, disturbed = 0
      PROVE  Valid(VerificationPlan)'
  <2>1. state = "completed" /\ UNCHANGED <<size, override, disk, temp>>
    BY <1>1 DEF Reverify
  <2>2. Settled(override) /\ run["worker"].at = "idle"
    BY <1>1, <2>1, AloneFacts DEF Undisturbed
  <2>3. Alone
    BY <1>1, <2>2, SettledPlaced DEF Alone, WorkerOn
  <2>4. Valid(VerificationPlan)
    BY <2>3, WorkerFinds DEF Valid
  <2>5. VerificationPlan' = VerificationPlan
    BY <2>1, SameOverride
  <2> QED
    BY <2>1, <2>4, <2>5 DEF Valid, moving, HalfPublished, Moved, Ready, Occupied, Fits
<1>2. PlanInv /\ AloneInv /\ [Next]_vars =>
        [Reverify /\ Quiet /\ disturbed = 0 => Valid(VerificationPlan)']_vars
  BY <1>1
<1> QED  BY <1>2, AloneInvAlways, PTL DEF Spec, RecheckAccepts

-----------------------------------------------------------------------------
(* What is lost                                                              *)

LossExcluded == \A f \in Files : Present(f) /\ ~Present(f)' => ~override[f].selected \/ deleteEntry

\* No plan moves a file to where another of its moves begins, so none replaces a file.
LEMMA NothingReplaced ==
  ASSUME PlanInv, FreshNames, NEW p \in Actors, Applying(p)
  PROVE  \A m, o \in moving(run[p].plan) : o.from # m.to
<1>1. TypeOK /\ PathsNamed /\ WorkerHolds /\ RequestsHold
  BY DEF PlanInv
<1>2. CASE p = "worker"
  <2>1. run[p].plan = VerificationPlan
    BY <1>1, <1>2 DEF WorkerHolds
  <2>2. \A m \in moving(VerificationPlan) :
          /\ m.file \in Files /\ m.from = Original[m.file] /\ m.to = override[m.file].path
          /\ m.from # m.to
    BY <1>1, VerificationOps DEF VerificationOp
  <2> QED  BY <1>1, <2>1, <2>2, NamesApart
<1>3. CASE p \in Requests
  <2>1. Apart(run[p].plan)
    BY <1>1, <1>3 DEF RequestsHold, Applying, Working
  <2> QED  BY <2>1 DEF Apart, moving
<1> QED  BY <1>2, <1>3, Constants

LEMMA StageKeeps ==
  ASSUME PlanInv, NEW p \in Actors, StagesAtOnce(p)
  PROVE  \A f \in Files : Present(f) => Present(f)'
<1>1. /\ disk \in [Paths -> Contents] /\ temp \in [Files -> Contents] /\ NoFile \notin Files
      /\ \A m \in run[p].left : m.slot \in Files /\ m.from \in Paths
  BY Constants, OperationsLeft DEF PlanInv, TypeOK
<1>2. PICK m \in run[p].left :
       \/ UNCHANGED <<disk, temp>>
       \/ /\ temp[m.slot] = NoFile
          /\ temp' = [temp EXCEPT ![m.slot] = disk[m.from]]
          /\ disk' = [disk EXCEPT ![m.from] = NoFile]
  BY DEF StagesAtOnce
<1> SUFFICES ASSUME NEW f \in Files, Present(f) PROVE Present(f)'  OBVIOUS
<1>3. CASE UNCHANGED <<disk, temp>>
  BY <1>3 DEF Present
<1>4. CASE /\ temp[m.slot] = NoFile
           /\ temp' = [temp EXCEPT ![m.slot] = disk[m.from]]
           /\ disk' = [disk EXCEPT ![m.from] = NoFile]
  <2>1. /\ \A q \in Paths : disk'[q] = IF q = m.from THEN NoFile ELSE disk[q]
        /\ \A s \in Files : temp'[s] = IF s = m.slot THEN disk[m.from] ELSE temp[s]
        /\ m.slot \in Files /\ m.from \in Paths
    BY <1>1, <1>4
  <2>2. CASE \E q \in Paths : disk[q] = f
    BY <2>1, <2>2 DEF Present
  <2>3. CASE \E s \in Files : temp[s] = f
    BY <1>1, <1>4, <2>1, <2>3 DEF Present
  <2> QED  BY <2>2, <2>3 DEF Present
<1> QED  BY <1>2, <1>3, <1>4

LEMMA PublishKeeps ==
  ASSUME PlanInv, FreshNames, NEW p \in Actors, PublishesAtOnce(p)
  PROVE  \A f \in Files : Present(f) => Present(f)'
<1>1. /\ disk \in [Paths -> Contents] /\ temp \in [Files -> Contents] /\ NoFile \notin Files
      /\ \A m \in run[p].left : m.slot \in Files /\ m.to \in Paths
  BY Constants, OperationsLeft DEF PlanInv, TypeOK
<1>2. Applying(p) /\ run[p].left \subseteq moving(run[p].plan)
  BY DEF PlanInv, PhasesHold, PublishesAtOnce, Applying
<1>3. PICK m \in run[p].left :
       \/ UNCHANGED <<disk, temp>>
       \/ /\ ~Occupied(run[p].plan, m)
          /\ disk' = [disk EXCEPT ![m.to] = temp[m.slot]]
          /\ temp' = [temp EXCEPT ![m.slot] = NoFile]
  BY DEF PublishesAtOnce
<1> SUFFICES ASSUME NEW f \in Files, Present(f) PROVE Present(f)'  OBVIOUS
<1>4. CASE UNCHANGED <<disk, temp>>
  BY <1>4 DEF Present
<1>5. CASE /\ ~Occupied(run[p].plan, m)
           /\ disk' = [disk EXCEPT ![m.to] = temp[m.slot]]
           /\ temp' = [temp EXCEPT ![m.slot] = NoFile]
  <2>1. disk[m.to] = NoFile
    BY <1>2, <1>5, NothingReplaced DEF Occupied
  <2>2. /\ \A q \in Paths : disk'[q] = IF q = m.to THEN temp[m.slot] ELSE disk[q]
        /\ \A s \in Files : temp'[s] = IF s = m.slot THEN NoFile ELSE temp[s]
        /\ m.slot \in Files /\ m.to \in Paths
    BY <1>1, <1>5
  <2>3. CASE \E q \in Paths : disk[q] = f
    BY <1>1, <2>1, <2>2, <2>3 DEF Present
  <2>4. CASE \E s \in Files : temp[s] = f
    BY <2>2, <2>4 DEF Present
  <2> QED  BY <2>3, <2>4 DEF Present
<1> QED  BY <1>3, <1>4, <1>5

\* Only a verification excludes, and what it removes is the file it was told to.
LEMMA ExcludeKeeps ==
  ASSUME PlanInv, FreshNames, NEW p \in Actors, ExcludesAtOnce(p),
         Distinguishable \/ (FoldersApart /\ AloneInv /\ disturbed = 0)
  PROVE  LossExcluded
<1>1. /\ TypeOK /\ PathsNamed /\ WorkerHolds /\ RequestsHold /\ Applying(p)
      /\ UNCHANGED temp /\ \A m \in run[p].left : m \in run[p].plan /\ ~m.selected
  BY OperationsLeft DEF PlanInv, PhasesHold, ExcludesAtOnce, Applying
<1>2. disk \in [Paths -> Contents] /\ NoFile \notin Files
  BY <1>1, Constants DEF TypeOK
<1>3. PICK m \in run[p].left :
        \/ UNCHANGED disk
        \/ Fits(disk[m.from], m) /\ disk' = [disk EXCEPT ![m.from] = NoFile]
  BY DEF ExcludesAtOnce
<1>4. p = "worker"
  <2>1. p \notin Requests
    BY <1>1, <1>3 DEF RequestsHold, Apart, Applying, Working
  <2> QED  BY <2>1, Constants
<1>5. run[p].plan = VerificationPlan
  BY <1>1, <1>4 DEF WorkerHolds
<1> DEFINE g == m.file
<1>6. g \in Files /\ m.from = Original[g] /\ m.from \in Paths /\ ~override[g].selected
  BY <1>1, <1>3, <1>5, VerificationOps, Constants DEF VerificationOp
<1>7. Fits(disk[m.from], m) => disk[m.from] = g
  <2> SUFFICES ASSUME Fits(disk[m.from], m) PROVE disk[m.from] = g  OBVIOUS
  <2>1. disk[m.from] \in Files /\ size[disk[m.from]] = size[g]
    BY <1>2, <1>6 DEF Fits, Contents
  <2>2. CASE Distinguishable
    BY <1>6, <2>1, <2>2 DEF Distinguishable
  <2>3. CASE FoldersApart /\ AloneInv /\ disturbed = 0
    <3>1. run["worker"].at # "idle"
      BY <1>1, <1>4 DEF Applying
    <3>2. Alone
      BY <2>3, <3>1, AloneFacts DEF Undisturbed
    <3> QED  BY <1>2, <1>6, <2>1, <3>2, PlacedNames
  <2> QED  BY <2>2, <2>3
<1>8. ASSUME NEW f \in Files, f # g, Present(f) PROVE Present(f)'
  <2>1. CASE \E s \in Files : temp[s] = f
    BY <1>1, <2>1 DEF Present
  <2>2. CASE \E q \in Paths : disk[q] = f
    <3>1. PICK q \in Paths : disk[q] = f
      BY <2>2
    <3>2. disk'[q] = f
      BY <1>2, <1>3, <1>6, <1>7, <1>8, <3>1
    <3> QED  BY <3>2 DEF Present
  <2> QED  BY <1>8, <2>1, <2>2 DEF Present
<1> QED  BY <1>6, <1>8 DEF LossExcluded

\* A plan that is not raced loses nothing but what it excludes.
LEMMA LossStep ==
  ASSUME PlanInv, FreshNames, [Next]_vars, \A p \in Actors : ~run[p].raced,
         Distinguishable \/ (FoldersApart /\ AloneInv /\ disturbed = 0)
  PROVE  LossExcluded
<1>1. ASSUME UNCHANGED <<disk, temp>> PROVE LossExcluded
  BY <1>1 DEF LossExcluded, Present
<1>2. ASSUME NEW p \in Actors, Apply(p) PROVE LossExcluded
  <2>1. CASE StagesAtOnce(p) \/ PublishesAtOnce(p)
    BY <2>1, StageKeeps, PublishKeeps DEF LossExcluded
  <2>2. CASE ExcludesAtOnce(p)
    BY <2>2, ExcludeKeeps
  <2>3. CASE LooksOnly(p) \/ NextPhase(p)
    BY <1>1, <2>3 DEF LooksOnly, NextPhase
  <2> QED  BY <1>2, <2>1, <2>2, <2>3, UndisputedSteps DEF Apply
<1>3. CASE copied
  <2>1. NoFile \notin Files /\ (\A q \in Paths : disk[q] = NoFile) /\ (\A s \in Files : temp[s] = NoFile)
    BY <1>3, Constants DEF PlanInv, Untouched, copied
  <2> QED  BY <2>1 DEF LossExcluded, Present
<1>4. CASE deleteEntry
  BY <1>4 DEF LossExcluded
<1>5. ASSUME \/ verifyAndRecord \/ Verify \/ CommitClaim \/ start \/ Reverify \/ Retry
             \/ deleteCopyWorkspace \/ Crash \/ UNCHANGED vars
      PROVE  UNCHANGED <<disk, temp>>
  BY <1>5 DEF verifyAndRecord, Verify, CommitClaim, start, Reverify, Retry, deleteCopyWorkspace,
              Crash, vars
<1>6. ASSUME NEW f \in Files, NEW selected \in BOOLEAN, SetFilePriorities(f, selected)
      PROVE  UNCHANGED <<disk, temp>>
  BY <1>6 DEF SetFilePriorities
<1>7. ASSUME NEW r \in Requests, NEW f \in Files, NEW path \in Paths, renameFile(r, f, path)
      PROVE  UNCHANGED <<disk, temp>>
  BY <1>7 DEF renameFile, Ask
<1>8. ASSUME NEW r \in Requests, NEW old \in Directories, NEW new \in Directories, renameFolder(r, old, new)
      PROVE  UNCHANGED <<disk, temp>>
  BY <1>8 DEF renameFolder, Ask
<1>9. ASSUME NEW r \in Requests, Validate(r) \/ Store(r) \/ StoreFails(r) PROVE UNCHANGED <<disk, temp>>
  BY <1>9 DEF Validate, Store, StoreFails
<1> QED
  BY <1>1, <1>2, <1>3, <1>4, <1>5, <1>6, <1>7, <1>8, <1>9 DEF Next

\* Whatever was interrupted, repeated, raced or retried before, and with FreshNames alone:
\* while every plan being applied has the disk to itself, the content of a file that its
\* size tells from the others disappears only by an exclusion of that file, or as the
\* worker empties the workspace to copy again.
THEOREM KnownContentKept ==
  ASSUME FreshNames
  PROVE  Spec => [][Distinguishable /\ (\A p \in Actors : ~run[p].raced) => LossExcluded]_vars
<1>1. PlanInv /\ [Next]_vars =>
        [Distinguishable /\ (\A p \in Actors : ~run[p].raced) => LossExcluded]_vars
  BY LossStep
<1> QED  BY <1>1, PlanInvAlways, PTL DEF Spec

\* The content of a file disappears only by an exclusion the operator asked for, or as the
\* worker empties the workspace to copy again: no rename replaces a file and no plan,
\* staged, crashed and begun again, drops one.  It speaks of plans that have the disk to
\* themselves; among files of one size, of requests that were never interrupted or raced.
THEOREM LossOnlyByExclusion ==
  ASSUME FreshNames, FoldersApart
  PROVE  Spec => LostOnlyByExclusion
<1>1. PlanInv /\ AloneInv /\ [Next]_vars =>
        [/\ Distinguishable \/ disturbed = 0
         /\ \A p \in Actors : ~run[p].raced
         => LossExcluded]_vars
  BY LossStep
<1>2. PlanInv /\ AloneInv /\ [Next]_vars =>
        [/\ Distinguishable \/ disturbed = 0
         /\ \A p \in Actors : ~run[p].raced
         => \A f \in Files : Present(f) /\ ~Present(f)' => ~override[f].selected \/ deleteEntry]_vars
  BY <1>1 DEF LossExcluded
<1> QED  BY <1>2, AloneInvAlways, PTL DEF Spec, LostOnlyByExclusion

=============================================================================

------------------------------ MODULE Runtime -------------------------------
(***************************************************************************)
(* The process: runtime generations which a settings save swaps while they *)
(* run (cmd/cd211/runtime.go), the serve loop and the shutdown             *)
(* (cmd/cd211/main.go), and the two forms that save settings               *)
(* (internal/web/handler.go, internal/web/setup.go).                       *)
(*                                                                         *)
(* Of a generation only the reconciler's workers are kept, as the number   *)
(* of those that have not left yet; what they do is Workflow's and         *)
(* Wakeup's.                                                               *)
(***************************************************************************)
EXTENDS Naturals, FiniteSets

CONSTANTS
  Configs, NoConfig,
  Saves,            \* requests that save settings
  WorkerCount,
  MaxGenerations    \* bound: generations built in the life of one process

ASSUME RuntimeAssumption ==
  /\ WorkerCount \in Nat \ {0} /\ MaxGenerations \in Nat \ {0}
  /\ NoConfig \notin Configs /\ "none" \notin Saves

Generations == 1..MaxGenerations

VARIABLES
  persisted,    \* the settings in the store
  generation,   \* each generation's phase, settings and reconciler workers
  current,      \* manager.current, 0 if none
  served,       \* the generation behind the HTTP root, 0 for the setup wizard
  holder,       \* who holds manager.mu
  shuttingDown,
  main,         \* the serve loop, and the generation it watches
  dispatcher,   \* is the webhook dispatcher running
  save,         \* settings saves under way
  diverged      \* history: since a save last found nobody waiting to apply an
                \* older one, an Apply has failed or another save has met it

vars == <<persisted, generation, current, served, holder, shuttingDown, main, dispatcher, save, diverged>>

Phases == {"none", "running", "cancelled", "done", "closed"}

\* A save checks its input, persists it, builds a generation under the lock,
\* activates it, and waits for the previous one.
SaveStates ==
  [at : {"idle"}] \union [at : {"persisting", "applying", "building"}, config : Configs, setup : BOOLEAN]
  \union [at : {"swapping"}, previous : Generations]

MainStates ==
  [at : {"watching", "checking"}, watched : 0..MaxGenerations]
  \union [at : {"stopping", "draining", "closed"}]
  \union [at : {"awaiting"}, retired : Generations]

TypeOK ==
  /\ persisted \in Configs \union {NoConfig}
  /\ generation \in [Generations ->
       [phase : Phases, config : Configs \union {NoConfig}, workers : 0..WorkerCount]]
  /\ current \in 0..MaxGenerations /\ served \in 0..MaxGenerations
  /\ holder \in Saves \union {"none"}
  /\ shuttingDown \in BOOLEAN /\ dispatcher \in BOOLEAN /\ diverged \in BOOLEAN
  /\ main \in MainStates
  /\ save \in [Saves -> SaveStates]

Idle == [at |-> "idle"]
NoGeneration == [phase |-> "none", config |-> NoConfig, workers |-> 0]
Running(config) == [phase |-> "running", config |-> config, workers |-> WorkerCount]

\* What a process that starts finds in the store decides what it serves.
StartedGenerations(config) ==
  [g \in Generations |-> IF g = 1 /\ config # NoConfig THEN Running(config) ELSE NoGeneration]

StartedCurrent(config) == IF config = NoConfig THEN 0 ELSE 1

Init ==
  /\ persisted \in Configs \union {NoConfig}
  /\ generation = StartedGenerations(persisted)
  /\ current = StartedCurrent(persisted)
  /\ served = current
  /\ holder = "none" /\ shuttingDown = FALSE
  /\ main = [at |-> "watching", watched |-> current]
  /\ dispatcher = TRUE
  /\ save = [s \in Saves |-> Idle]
  /\ diverged = FALSE

Serving == main.at \in {"watching", "checking", "stopping", "awaiting"}
StoreOpen == main.at # "closed"

-----------------------------------------------------------------------------
(* Settings saves: settingsSave, setupFinish, manager.Apply                *)

BeginSave(s, config) ==
  /\ Serving /\ save[s] = Idle
  /\ save' = [save EXCEPT ![s] = [at |-> "persisting", config |-> config, setup |-> served = 0]]
  /\ UNCHANGED <<persisted, generation, current, served, holder, shuttingDown, main, dispatcher, diverged>>

\* Setup completes once.
Accepted(s) == save[s].setup => persisted = NoConfig

Persist(s) ==
  /\ save[s].at = "persisting" /\ StoreOpen
  /\ Accepted(s)
  /\ persisted' = save[s].config
  /\ save' = [save EXCEPT ![s].at = "applying"]
  /\ diverged' = (\E t \in Saves : save[t].at = "applying")
  /\ UNCHANGED <<generation, current, served, holder, shuttingDown, main, dispatcher>>

\* A plausible slip: a save that was refused is applied all the same.
RefusedButApplied(request) == [request EXCEPT !.at = "applying"]

Refused(request) == Idle

\* Setup was completed meanwhile, a category path collides, or the store fails.
PersistFails(s) ==
  /\ save[s].at = "persisting"
  /\ save' = [save EXCEPT ![s] = Refused(save[s])]
  /\ UNCHANGED <<persisted, generation, current, served, holder, shuttingDown, main, dispatcher, diverged>>

\* Apply takes the lock, unless the process is on its way out.
Apply(s) ==
  /\ save[s].at = "applying" /\ holder = "none"
  /\ \/ /\ ~shuttingDown
        /\ holder' = s
        /\ save' = [save EXCEPT ![s].at = "building"]
        /\ UNCHANGED diverged
     \/ /\ shuttingDown
        /\ save' = [save EXCEPT ![s] = Idle]
        /\ diverged' = TRUE
        /\ UNCHANGED holder
  /\ UNCHANGED <<persisted, generation, current, served, shuttingDown, main, dispatcher>>

BuildFails(s) ==
  /\ save[s].at = "building"
  /\ save' = [save EXCEPT ![s] = Idle] /\ holder' = "none"
  /\ diverged' = TRUE
  /\ UNCHANGED <<persisted, generation, current, served, shuttingDown, main, dispatcher>>

\* A plausible slip: the previous generation is left to run.
NeverCancelled(gens, g) == gens

CancelGeneration(gens, g) ==
  IF g # 0 /\ gens[g].phase = "running" THEN [gens EXCEPT ![g].phase = "cancelled"] ELSE gens

\* A plausible slip: Apply unlocks before it stops the previous generation.
UnlockedEarly(s) == "none"

StoppingUnder(s) == s

IsNext(g) == \A n \in Generations : generation[n].phase = "none" <=> g <= n

\* activateLocked, then the previous generation is cancelled.
Activate(s) ==
  /\ save[s].at = "building"
  /\ \E g \in Generations :
       /\ IsNext(g)
       /\ generation' = CancelGeneration([generation EXCEPT ![g] = Running(save[s].config)], current)
       /\ current' = g /\ served' = g
  /\ IF current = 0
     THEN save' = [save EXCEPT ![s] = Idle] /\ holder' = "none"
     ELSE /\ save' = [save EXCEPT ![s] = [at |-> "swapping", previous |-> current]]
          /\ holder' = StoppingUnder(s)
  /\ UNCHANGED <<persisted, shuttingDown, main, dispatcher, diverged>>

\* A plausible slip: a retired generation is not awaited.
NotAwaited(g) == generation[g].phase \in {"cancelled", "done"}

Stopped(g) == generation[g].phase = "done"

\* stopLocked: the previous generation is done, its cloud client is closed.
FinishSwap(s) ==
  /\ save[s].at = "swapping" /\ Stopped(save[s].previous)
  /\ generation' = [generation EXCEPT ![save[s].previous].phase = "closed"]
  /\ save' = [save EXCEPT ![s] = Idle] /\ holder' = "none"
  /\ UNCHANGED <<persisted, current, served, shuttingDown, main, dispatcher, diverged>>

-----------------------------------------------------------------------------
(* The serve loop and the shutdown                                         *)

\* The watched generation's reconciler has returned.
NoticeDone ==
  /\ main.at = "watching" /\ main.watched # 0
  /\ generation[main.watched].phase \in {"done", "closed"}
  /\ main' = [main EXCEPT !.at = "checking"]
  /\ UNCHANGED <<persisted, generation, current, served, holder, shuttingDown, dispatcher, save, diverged>>

\* A plausible slip: a swap is taken for a failure.
AnyEnd(g) == TRUE

StillCurrent(g) == current = g

\* currentGeneration waits for the lock. A generation that is still the current
\* one has failed, and the process ends.
CheckDone ==
  /\ main.at = "checking" /\ holder = "none"
  /\ main' = IF StillCurrent(main.watched) THEN [at |-> "stopping"]
             ELSE [at |-> "watching", watched |-> current]
  /\ UNCHANGED <<persisted, generation, current, served, holder, shuttingDown, dispatcher, save, diverged>>

\* A termination signal, a failed listener or dispatcher.
Terminate ==
  /\ main.at = "watching"
  /\ main' = [at |-> "stopping"]
  /\ UNCHANGED <<persisted, generation, current, served, holder, shuttingDown, dispatcher, save, diverged>>

\* manager.shutdown: under the lock nothing more can be activated.
Shutdown ==
  /\ main.at = "stopping" /\ holder = "none"
  /\ shuttingDown' = TRUE
  /\ current' = 0
  /\ generation' = CancelGeneration(generation, current)
  /\ main' = IF current = 0 THEN [at |-> "draining"] ELSE [at |-> "awaiting", retired |-> current]
  /\ UNCHANGED <<persisted, served, holder, dispatcher, save, diverged>>

AwaitGeneration ==
  /\ main.at = "awaiting" /\ Stopped(main.retired)
  /\ generation' = [generation EXCEPT ![main.retired].phase = "closed"]
  /\ main' = [at |-> "draining"]
  /\ UNCHANGED <<persisted, current, served, holder, shuttingDown, dispatcher, save, diverged>>

\* The dispatcher's context is the root context, which stop() has cancelled.
DispatcherEnds ==
  /\ main.at \notin {"watching", "checking"} /\ dispatcher
  /\ dispatcher' = FALSE
  /\ UNCHANGED <<persisted, generation, current, served, holder, shuttingDown, main, save, diverged>>

\* The HTTP server drains for ten seconds at most; then the dispatcher is
\* awaited and the store closed.
CloseStore ==
  /\ main.at = "draining" /\ ~dispatcher
  /\ main' = [at |-> "closed"]
  /\ UNCHANGED <<persisted, generation, current, served, holder, shuttingDown, dispatcher, save, diverged>>

\* The process is gone, at its end or at any moment, and starts again.
Restart ==
  /\ generation' = StartedGenerations(persisted)
  /\ current' = StartedCurrent(persisted)
  /\ UNCHANGED persisted
  /\ served' = current'
  /\ holder' = "none" /\ shuttingDown' = FALSE
  /\ main' = [at |-> "watching", watched |-> current']
  /\ dispatcher' = TRUE
  /\ save' = [s \in Saves |-> Idle]
  /\ diverged' = FALSE

-----------------------------------------------------------------------------
(* A generation's reconciler                                               *)

\* A plausible slip: a worker may be counted out twice.
WorkerLeavesAgain(g) ==
  /\ generation[g].phase = "cancelled"
  /\ generation' = [generation EXCEPT ![g].workers = @ - 1]
  /\ UNCHANGED <<persisted, current, served, holder, shuttingDown, main, dispatcher, save, diverged>>

\* A worker sees the cancellation after its step, or in its sleep.
WorkerLeaves(g) ==
  /\ generation[g].phase = "cancelled" /\ generation[g].workers > 0
  /\ generation' = [generation EXCEPT ![g].workers = @ - 1]
  /\ UNCHANGED <<persisted, current, served, holder, shuttingDown, main, dispatcher, save, diverged>>

\* Run returns when every worker has left, and never otherwise.
RunReturns(g) ==
  /\ generation[g].phase = "cancelled" /\ generation[g].workers = 0
  /\ generation' = [generation EXCEPT ![g].phase = "done"]
  /\ UNCHANGED <<persisted, current, served, holder, shuttingDown, main, dispatcher, save, diverged>>

-----------------------------------------------------------------------------
SaveStep(s) == Apply(s) \/ Activate(s) \/ BuildFails(s) \/ FinishSwap(s)

Next ==
  \/ \E s \in Saves, config \in Configs : BeginSave(s, config)
  \/ \E s \in Saves : Persist(s) \/ PersistFails(s) \/ SaveStep(s)
  \/ \E g \in Generations : WorkerLeaves(g) \/ RunReturns(g)
  \/ NoticeDone \/ CheckDone \/ Terminate \/ Shutdown \/ AwaitGeneration
  \/ DispatcherEnds \/ CloseStore \/ Restart

Spec == Init /\ [][Next]_vars

\* Goroutines run on and calls end. Go's mutex serves its waiters, so a request
\* stream cannot keep the serve loop from the lock for ever. Nothing is assumed
\* of requests, signals or crashes.
Fairness ==
  /\ \A s \in Saves : SF_vars(Apply(s)) /\ WF_vars(Activate(s) \/ BuildFails(s)) /\ WF_vars(FinishSwap(s))
  /\ \A g \in Generations : WF_vars(WorkerLeaves(g)) /\ WF_vars(RunReturns(g))
  /\ WF_vars(NoticeDone) /\ SF_vars(CheckDone) /\ SF_vars(Shutdown) /\ WF_vars(AwaitGeneration)
  /\ WF_vars(DispatcherEnds) /\ WF_vars(CloseStore)

FairSpec == Spec /\ Fairness

-----------------------------------------------------------------------------
(* Properties                                                              *)

\* When the store closes nobody is left who works on it: no worker of any
\* generation, however its swap and the shutdown met, and no dispatcher
\* (manager.shutdown, webhookProcess.shutdown).
StoreOutlivesWorkers ==
  ~StoreOpen => ~dispatcher /\ \A g \in Generations : generation[g].workers = 0

\* Outside a swap exactly one generation runs, the one behind the HTTP root; those
\* before it have stopped and closed their cloud clients (manager.Apply).
OneGenerationRuns ==
  holder = "none" /\ current # 0 =>
    /\ served = current /\ generation[current].phase = "running"
    /\ \A g \in Generations \ {current} : generation[g].phase \in {"none", "closed"}

\* The serve loop never takes the end of a retired generation for a failure of
\* the process, whichever swaps pass between the end and the check.
NoFalseAlarm ==
  [][main.at = "checking" => main'.at \in {"checking", "watching"}]_main

\* When no save is under way and none was applied out of turn or failed to be
\* applied, the process runs the settings that are stored: a restart changes nothing.
SavedIsServed ==
  (\A s \in Saves : save[s] = Idle) /\ ~diverged /\ current # 0
    => generation[current].config = persisted

\* Once the process is asked to end it does: no swap, lock or worker keeps it.
ShutdownEnds == main.at = "stopping" ~> main.at \in {"closed", "watching"}
=============================================================================

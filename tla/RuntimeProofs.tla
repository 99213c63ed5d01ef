---------------------------- MODULE RuntimeProofs ----------------------------
(***************************************************************************)
(* What Runtime guarantees for any number of saves, generations, workers   *)
(* and settings.                                                           *)
(*                                                                         *)
(* The argument is about the lock: a save holds it from the build of a     *)
(* generation to the end of the one before, so a generation that has been  *)
(* cancelled always has somebody who waits for it, and with nobody under   *)
(* the lock and no shutdown under way there is none.                       *)
(***************************************************************************)
EXTENDS Runtime, TLAPS

-----------------------------------------------------------------------------
(* The invariants                                                          *)

\* The lock is held by the save that builds or swaps.
LockHeld == \A s \in Saves : holder = s <=> save[s].at \in {"building", "swapping"}

\* The current generation runs, is the one served, and is the only one running.
CurrentRuns ==
  /\ current # 0 => generation[current].phase = "running" /\ served = current
  /\ \A g \in Generations : generation[g].phase = "running" => g = current

\* A save or the shutdown waits for every generation that was cancelled.
Awaited ==
  /\ \A g \in Generations : generation[g].phase \in {"cancelled", "done"} =>
       \/ \E s \in Saves : save[s].at = "swapping" /\ save[s].previous = g
       \/ main.at = "awaiting" /\ main.retired = g
  /\ \A s \in Saves : save[s].at = "swapping" =>
       generation[save[s].previous].phase \in {"cancelled", "done"}
  /\ main.at = "awaiting" => generation[main.retired].phase \in {"cancelled", "done"}

\* A generation that has not begun or has ended has no workers.
WorkersGone ==
  \A g \in Generations :
    generation[g].phase \in {"none", "done", "closed"} => generation[g].workers = 0

\* Once shutting down there is no current generation and nobody takes the lock;
\* when the store has closed the dispatcher has ended.
ShutDown ==
  /\ shuttingDown <=> main.at \in {"awaiting", "draining", "closed"}
  /\ shuttingDown => current = 0 /\ holder = "none"
  /\ main.at = "closed" => ~dispatcher

\* The serve loop checks a generation that has ended.
ChecksEnded ==
  main.at = "checking" =>
    main.watched # 0 /\ generation[main.watched].phase \in {"done", "closed"}

Inv == TypeOK /\ LockHeld /\ CurrentRuns /\ Awaited /\ WorkersGone /\ ShutDown /\ ChecksEnded

Applying == \E s \in Saves : save[s].at = "applying"
Building == \E s \in Saves : save[s].at = "building"

\* Unless saves have met or failed, the stored settings are handed on: from the
\* one save that waits to apply them to the one that builds to the current
\* generation.
HandedOn ==
  ~diverged =>
    /\ \A s, t \in Saves : save[s].at = "applying" /\ save[t].at = "applying" => s = t
    /\ \A s \in Saves : save[s].at = "applying" => save[s].config = persisted
    /\ ~Applying => \A s \in Saves : save[s].at = "building" => save[s].config = persisted
    /\ ~Applying /\ ~Building /\ current # 0 => generation[current].config = persisted

-----------------------------------------------------------------------------
(* The shapes of a save and of the serve loop                                *)

\* A save has the fields its state says, and no other.
LEMMA SaveShape ==
  ASSUME NEW r \in SaveStates
  PROVE  /\ r.at \in {"idle", "persisting", "applying", "building", "swapping"}
         /\ r.at = "idle" => r = Idle
         /\ r.at \in {"persisting", "applying", "building"} =>
              /\ r.config \in Configs /\ r.setup \in BOOLEAN
              /\ r = [at |-> r.at, config |-> r.config, setup |-> r.setup]
         /\ r.at = "swapping" =>
              r.previous \in Generations /\ r = [at |-> "swapping", previous |-> r.previous]
<1>1. CASE r \in [at : {"idle"}]  BY <1>1 DEF Idle
<1>2. CASE r \in [at : {"persisting", "applying", "building"}, config : Configs, setup : BOOLEAN]
  BY <1>2
<1>3. CASE r \in [at : {"swapping"}, previous : Generations]  BY <1>3
<1> QED  BY <1>1, <1>2, <1>3 DEF SaveStates

\* A request that moves on keeps its settings.
LEMMA SaveMoves ==
  ASSUME NEW r \in SaveStates, r.at \in {"persisting", "applying", "building"},
         NEW to \in {"applying", "building"}
  PROVE  LET moved == [r EXCEPT !.at = to] IN
         moved \in SaveStates /\ moved.at = to /\ moved.config = r.config
<1>1. /\ r.config \in Configs /\ r.setup \in BOOLEAN
      /\ r = [at |-> r.at, config |-> r.config, setup |-> r.setup]
  BY SaveShape
<1>2. [r EXCEPT !.at = to] = [at |-> to, config |-> r.config, setup |-> r.setup]
  BY <1>1
<1> QED  BY <1>1, <1>2 DEF SaveStates

\* The serve loop names the generation its state is about.
LEMMA MainShape ==
  ASSUME NEW r \in MainStates
  PROVE  /\ r.at \in {"watching", "checking", "stopping", "awaiting", "draining", "closed"}
         /\ r.at \in {"watching", "checking"} =>
              r.watched \in 0..MaxGenerations /\ r = [at |-> r.at, watched |-> r.watched]
         /\ r.at = "awaiting" =>
              r.retired \in Generations /\ r = [at |-> "awaiting", retired |-> r.retired]
<1>1. CASE r \in [at : {"watching", "checking"}, watched : 0..MaxGenerations]  BY <1>1
<1>2. CASE r \in [at : {"stopping", "draining", "closed"}]  BY <1>2
<1>3. CASE r \in [at : {"awaiting"}, retired : Generations]  BY <1>3
<1> QED  BY <1>1, <1>2, <1>3 DEF MainStates

\* A number of a generation is 0 or a generation.
LEMMA GenerationNumbers ==
  /\ 0..MaxGenerations = Generations \cup {0}
  /\ 0 \notin Generations /\ 1 \in Generations
  /\ \A g \in Generations : g <= g
  BY RuntimeAssumption DEF Generations

\* A generation is a record of its three columns.
GenerationRecord == [phase : Phases, config : Configs \cup {NoConfig}, workers : 0..WorkerCount]

\* Cancelling leaves a generation what it is, but for the phase of one that runs.
LEMMA CancelKeeps ==
  ASSUME NEW gens \in [Generations -> GenerationRecord], NEW g \in Generations \cup {0}
  PROVE  LET after == CancelGeneration(gens, g) IN
         /\ after \in [Generations -> GenerationRecord]
         /\ \A n \in Generations :
              /\ after[n].config = gens[n].config /\ after[n].workers = gens[n].workers
              /\ after[n].phase = IF n = g /\ gens[n].phase = "running" THEN "cancelled"
                                 ELSE gens[n].phase
<1>1. CASE g # 0 /\ gens[g].phase = "running"
  BY <1>1, GenerationNumbers DEF CancelGeneration, GenerationRecord, Phases
<1>2. CASE ~(g # 0 /\ gens[g].phase = "running")
  BY <1>2, GenerationNumbers DEF CancelGeneration
<1> QED  BY <1>1, <1>2

\* What a process starts with is a function of its generations.
LEMMA StartShape ==
  ASSUME NEW config \in Configs \cup {NoConfig}
  PROVE  /\ StartedGenerations(config) \in [Generations -> GenerationRecord]
         /\ StartedCurrent(config) \in Generations \cup {0}
         /\ \A g \in Generations :
              StartedGenerations(config)[g] = IF g = StartedCurrent(config) THEN Running(config)
                                              ELSE NoGeneration
         /\ StartedCurrent(config) # 0 => StartedGenerations(config)[StartedCurrent(config)] = Running(config)
<1>1. Running(config) \in GenerationRecord /\ NoGeneration \in GenerationRecord
  BY RuntimeAssumption DEF Running, NoGeneration, GenerationRecord, Phases
<1> QED  BY <1>1, GenerationNumbers DEF StartedGenerations, StartedCurrent

-----------------------------------------------------------------------------
(* Types                                                                     *)

\* Every step keeps the type of every variable.
LEMMA TypeStep == TypeOK /\ [Next]_vars => TypeOK'
<1> SUFFICES ASSUME TypeOK, [Next]_vars PROVE TypeOK'  OBVIOUS
<1>t. /\ current \in Generations \cup {0} /\ main \in MainStates
      /\ generation \in [Generations -> GenerationRecord]
      /\ \A s \in Saves : save[s] \in SaveStates
  BY GenerationNumbers DEF TypeOK, GenerationRecord
<1>1. ASSUME NEW s \in Saves, NEW config \in Configs, BeginSave(s, config) PROVE TypeOK'
  <2>1. [at |-> "persisting", config |-> config, setup |-> served = 0] \in SaveStates
    BY DEF SaveStates
  <2> QED  BY <1>1, <2>1 DEF BeginSave, TypeOK
<1>2. ASSUME NEW s \in Saves, Persist(s) PROVE TypeOK'
  <2>1. save[s].config \in Configs /\ [save[s] EXCEPT !.at = "applying"] \in SaveStates
    BY <1>2, <1>t, SaveShape, SaveMoves DEF Persist
  <2> QED  BY <1>2, <2>1 DEF Persist, TypeOK
<1>3. ASSUME NEW s \in Saves, PersistFails(s) PROVE TypeOK'
  BY <1>3 DEF PersistFails, Refused, Idle, SaveStates, TypeOK
<1>4. ASSUME NEW s \in Saves, Apply(s) PROVE TypeOK'
  <2>1. [save[s] EXCEPT !.at = "building"] \in SaveStates /\ Idle \in SaveStates
    BY <1>4, <1>t, SaveMoves DEF Apply, SaveStates, Idle
  <2> QED  BY <1>4, <2>1 DEF Apply, TypeOK
<1>5. ASSUME NEW s \in Saves, BuildFails(s) PROVE TypeOK'
  BY <1>5 DEF BuildFails, Idle, SaveStates, TypeOK
<1>6. ASSUME NEW s \in Saves, Activate(s) PROVE TypeOK'
  <2>1. PICK g \in Generations : Activate(s)!2!(g)
    BY <1>6 DEF Activate
  <2> DEFINE begun == [generation EXCEPT ![g] = Running(save[s].config)]
  <2>2. save[s].config \in Configs  BY <1>6, <1>t, SaveShape DEF Activate
  <2>3. begun \in [Generations -> GenerationRecord]
    BY <1>t, <2>2, RuntimeAssumption DEF Running, GenerationRecord, Phases
  <2> HIDE DEF begun
  <2>4. generation' \in [Generations -> GenerationRecord]
    BY <2>1, <2>3, <1>t, CancelKeeps DEF begun
  <2>5. current' \in 0..MaxGenerations /\ served' \in 0..MaxGenerations
    BY <2>1, GenerationNumbers
  <2>6. holder' \in Saves \cup {"none"} /\ save' \in [Saves -> SaveStates]
    BY <1>6, <1>t DEF Activate, StoppingUnder, Idle, SaveStates, TypeOK
  <2> QED  BY <1>6, <2>4, <2>5, <2>6 DEF Activate, TypeOK, GenerationRecord
<1>7. ASSUME NEW s \in Saves, FinishSwap(s) PROVE TypeOK'
  <2>1. save[s].previous \in Generations  BY <1>7, <1>t, SaveShape DEF FinishSwap
  <2>2. generation' \in [Generations -> GenerationRecord]
    BY <1>7, <1>t, <2>1 DEF FinishSwap, GenerationRecord, Phases
  <2> QED  BY <1>7, <2>2 DEF FinishSwap, Idle, SaveStates, TypeOK, GenerationRecord
<1>8. ASSUME NEW g \in Generations, WorkerLeaves(g) PROVE TypeOK'
  <2>1. generation[g].workers - 1 \in 0..WorkerCount
    BY <1>8, <1>t, RuntimeAssumption DEF WorkerLeaves, GenerationRecord
  <2>2. generation' \in [Generations -> GenerationRecord]
    BY <1>8, <1>t, <2>1 DEF WorkerLeaves, GenerationRecord
  <2> QED  BY <1>8, <2>2 DEF WorkerLeaves, TypeOK, GenerationRecord
<1>9. ASSUME NEW g \in Generations, RunReturns(g) PROVE TypeOK'
  BY <1>9 DEF RunReturns, TypeOK, Phases
<1>10. CASE NoticeDone
  <2>1. main.watched \in 0..MaxGenerations /\ main = [at |-> main.at, watched |-> main.watched]
    BY <1>10, <1>t, MainShape DEF NoticeDone
  <2>2. [main EXCEPT !.at = "checking"] = [at |-> "checking", watched |-> main.watched]
    BY <2>1
  <2> QED  BY <1>10, <2>1, <2>2 DEF NoticeDone, TypeOK, MainStates
<1>11. CASE CheckDone  BY <1>11 DEF CheckDone, TypeOK, MainStates
<1>12. CASE Terminate  BY <1>12 DEF Terminate, TypeOK, MainStates
<1>13. CASE Shutdown
  <2>1. generation' \in [Generations -> GenerationRecord]
    BY <1>13, <1>t, CancelKeeps DEF Shutdown
  <2>2. main' \in MainStates  BY <1>13, <1>t DEF Shutdown, MainStates
  <2> QED  BY <1>13, <2>1, <2>2, GenerationNumbers DEF Shutdown, TypeOK, GenerationRecord
<1>14. CASE AwaitGeneration
  <2>1. main.retired \in Generations  BY <1>14, <1>t, MainShape DEF AwaitGeneration
  <2>2. generation' \in [Generations -> GenerationRecord]
    BY <1>14, <1>t, <2>1 DEF AwaitGeneration, GenerationRecord, Phases
  <2> QED  BY <1>14, <2>2 DEF AwaitGeneration, TypeOK, MainStates, GenerationRecord
<1>15. CASE DispatcherEnds  BY <1>15 DEF DispatcherEnds, TypeOK
<1>16. CASE CloseStore  BY <1>16 DEF CloseStore, TypeOK, MainStates
<1>17. CASE Restart
  <2>1. generation' \in [Generations -> GenerationRecord] /\ current' \in 0..MaxGenerations
    BY <1>17, StartShape, GenerationNumbers DEF Restart, TypeOK
  <2>2. main' \in MainStates  BY <1>17, <2>1 DEF Restart, MainStates
  <2>3. save' \in [Saves -> SaveStates]  BY <1>17 DEF Restart, Idle, SaveStates
  <2> QED  BY <1>17, <2>1, <2>2, <2>3 DEF Restart, TypeOK, GenerationRecord
<1>18. CASE UNCHANGED vars  BY <1>18 DEF vars, TypeOK
<1> QED
  BY <1>1, <1>2, <1>3, <1>4, <1>5, <1>6, <1>7, <1>8, <1>9, <1>10, <1>11, <1>12,
     <1>13, <1>14, <1>15, <1>16, <1>17, <1>18 DEF Next, SaveStep

-----------------------------------------------------------------------------
(* The invariant is inductive                                                *)

\* The facts about the state before a step that every action's proof uses.
LEMMA Typed ==
  ASSUME TypeOK
  PROVE  /\ current \in Generations \cup {0} /\ main \in MainStates
         /\ generation \in [Generations -> GenerationRecord]
         /\ save \in [Saves -> SaveStates]
  BY GenerationNumbers DEF TypeOK, GenerationRecord

\* With the lock free, or a shutdown under way, no save builds or swaps.
LEMMA LockExcludes ==
  ASSUME Inv
  PROVE  /\ holder = "none" => \A s \in Saves : save[s].at \notin {"building", "swapping"}
         /\ \A s, t \in Saves : save[s].at \in {"building", "swapping"}
                             /\ save[t].at \in {"building", "swapping"} => s = t
         /\ \A s \in Saves : save[s].at \in {"building", "swapping"} =>
              holder = s /\ ~shuttingDown /\ main.at # "awaiting"
  BY RuntimeAssumption DEF Inv, LockHeld, ShutDown

LEMMA InitInv == Init => Inv
<1> SUFFICES ASSUME Init PROVE Inv  OBVIOUS
<1>1. /\ generation \in [Generations -> GenerationRecord] /\ current \in Generations \cup {0}
      /\ \A g \in Generations : generation[g] = IF g = current THEN Running(persisted) ELSE NoGeneration
      /\ current # 0 => generation[current] = Running(persisted)
  BY StartShape DEF Init
<1>2. TypeOK
  BY <1>1, GenerationNumbers DEF Init, TypeOK, GenerationRecord, MainStates, SaveStates, Idle
<1>3. LockHeld /\ ShutDown /\ ChecksEnded
  BY RuntimeAssumption DEF Init, LockHeld, ShutDown, ChecksEnded, Idle
<1>4. CurrentRuns /\ Awaited /\ WorkersGone
  BY <1>1 DEF Init, CurrentRuns, Awaited, WorkersGone, Running, NoGeneration, Idle
<1> QED  BY <1>2, <1>3, <1>4 DEF Inv

\* A save that begins, is stored or refused touches nothing the invariant is about.
LEMMA RequestsKeepInv ==
  ASSUME Inv, TypeOK', NEW s \in Saves,
         \/ \E config \in Configs : BeginSave(s, config)
         \/ Persist(s) \/ PersistFails(s)
  PROVE  Inv'
<1>t. save \in [Saves -> SaveStates]  BY Typed DEF Inv
<1>0. /\ UNCHANGED <<generation, current, served, holder, shuttingDown, main, dispatcher>>
      /\ \A t \in Saves \ {s} : save'[t] = save[t]
      /\ save[s].at \in {"idle", "persisting"}
      /\ save'[s].at \in {"idle", "persisting", "applying"}
  <2>1. CASE \E config \in Configs : BeginSave(s, config)
    BY <1>t, <2>1 DEF BeginSave, Idle
  <2>2. CASE Persist(s)
    <3>1. [save[s] EXCEPT !.at = "applying"].at = "applying"
      BY <1>t, <2>2, SaveMoves DEF Persist
    <3> QED  BY <1>t, <2>2, <3>1 DEF Persist
  <2>3. CASE PersistFails(s)
    BY <1>t, <2>3 DEF PersistFails, Refused, Idle
  <2> QED  BY <2>1, <2>2, <2>3
<1>1. save[s].at \notin {"building", "swapping"} /\ save'[s].at \notin {"building", "swapping"}
  BY <1>0
<1>2. LockHeld'  BY <1>0, <1>1 DEF Inv, LockHeld
<1>3. Awaited'  BY <1>0, <1>1 DEF Inv, Awaited
<1> QED  BY <1>0, <1>2, <1>3 DEF Inv, CurrentRuns, WorkersGone, ShutDown, ChecksEnded

LEMMA ApplyKeepsInv ==
  ASSUME Inv, TypeOK', NEW s \in Saves, Apply(s) PROVE Inv'
<1>t. save \in [Saves -> SaveStates]  BY Typed DEF Inv
<1>m. [save[s] EXCEPT !.at = "building"].at = "building"
  BY <1>t, SaveMoves DEF Apply
<1>1. /\ UNCHANGED <<generation, current, served, shuttingDown, main, dispatcher>>
      /\ \A t \in Saves \ {s} : save'[t] = save[t]
      /\ save[s].at = "applying" /\ holder = "none"
      /\ \/ save'[s].at = "building" /\ holder' = s /\ ~shuttingDown
         \/ save'[s].at = "idle" /\ holder' = "none"
  <2>1. CASE ~shuttingDown  BY <1>t, <1>m, <2>1 DEF Apply
  <2>2. CASE shuttingDown  BY <1>t, <2>2 DEF Apply, Idle
  <2> QED  BY <2>1, <2>2
<1>2. LockHeld'  BY <1>1, LockExcludes, RuntimeAssumption DEF Inv, LockHeld
<1>3. Awaited'  BY <1>1 DEF Inv, Awaited
<1>4. ShutDown'  BY <1>1 DEF Inv, ShutDown
<1> QED  BY <1>1, <1>2, <1>3, <1>4 DEF Inv, CurrentRuns, WorkersGone, ChecksEnded

LEMMA BuildFailsKeepsInv ==
  ASSUME Inv, TypeOK', NEW s \in Saves, BuildFails(s) PROVE Inv'
<1>1. /\ UNCHANGED <<generation, current, served, shuttingDown, main, dispatcher>>
      /\ save' \in [Saves -> SaveStates] /\ \A t \in Saves \ {s} : save'[t] = save[t]
      /\ save[s].at = "building" /\ save'[s].at = "idle" /\ holder' = "none"
  BY Typed DEF Inv, TypeOK, BuildFails, Idle
<1>2. LockHeld'  BY <1>1, LockExcludes, RuntimeAssumption DEF Inv, LockHeld
<1>3. Awaited'  BY <1>1 DEF Inv, Awaited
<1>4. ShutDown'  BY <1>1 DEF Inv, ShutDown
<1> QED  BY <1>1, <1>2, <1>3, <1>4 DEF Inv, CurrentRuns, WorkersGone, ChecksEnded

\* The swap: a new generation runs, and the one before is cancelled and awaited.
LEMMA ActivateKeepsInv ==
  ASSUME Inv, TypeOK', NEW s \in Saves, Activate(s) PROVE Inv'
<1>1. PICK g \in Generations : Activate(s)!2!(g)
  BY DEF Activate
<1> DEFINE begun == [generation EXCEPT ![g] = Running(save[s].config)]
<1>2. begun \in [Generations -> GenerationRecord]
  BY Typed, SaveShape, RuntimeAssumption DEF Inv, Activate, Running, GenerationRecord, Phases
<1>3. /\ begun[g].phase = "running"
      /\ \A n \in Generations \ {g} : begun[n] = generation[n]
  BY Typed DEF Inv, Running
<1> HIDE DEF begun
<1>4. generation[g].phase = "none" /\ g # current
  BY <1>1, GenerationNumbers DEF IsNext, Inv, CurrentRuns
<1>5. /\ generation'[g].phase = "running" /\ generation'[g].workers = begun[g].workers
      /\ \A n \in Generations \ {g, current} : generation'[n] = generation[n]
      /\ current # 0 => /\ generation'[current].phase = "cancelled"
  BY <1>1, <1>2, <1>3, <1>4, Typed, CancelKeeps DEF Inv, CurrentRuns, begun, CancelGeneration
<1>6. /\ current' = g /\ served' = g
      /\ UNCHANGED <<shuttingDown, main, dispatcher>>
      /\ save' \in [Saves -> SaveStates] /\ \A t \in Saves \ {s} : save'[t] = save[t]
      /\ save[s].at = "building"
      /\ \/ current = 0 /\ save'[s].at = "idle" /\ holder' = "none"
         \/ /\ current # 0 /\ holder' = s
            /\ save'[s].at = "swapping" /\ save'[s].previous = current
  BY <1>1, Typed DEF Inv, TypeOK, Activate, Idle, StoppingUnder
<1>7. LockHeld'  BY <1>6, LockExcludes, RuntimeAssumption DEF Inv, LockHeld
<1>8. CurrentRuns'
  BY <1>4, <1>5, <1>6, Typed, GenerationNumbers DEF Inv, CurrentRuns
<1>9. Awaited'
  <2>1. \A t \in Saves \ {s} : save[t].at # "swapping" /\ save'[t].at # "swapping"
    BY <1>6, LockExcludes
  <2>2. main.at # "awaiting" /\ main'.at # "awaiting"  BY <1>6, LockExcludes
  <2>3. \A n \in Generations : generation[n].phase \notin {"cancelled", "done"}
    BY <1>6, <2>1, <2>2 DEF Inv, Awaited
  <2>4. current # 0 => generation'[current].phase = "cancelled" /\ current \in Generations
    BY <1>5, Typed DEF Inv
  <2>5. \A n \in Generations : generation'[n].phase \in {"cancelled", "done"} =>
          current # 0 /\ n = current
    BY <1>5, <2>3, GenerationNumbers
  <2> QED  BY <1>6, <2>1, <2>2, <2>4, <2>5 DEF Awaited
<1>10. WorkersGone'  BY <1>5, Typed, GenerationNumbers DEF Inv, WorkersGone
<1>11. ShutDown'  BY <1>6, LockExcludes DEF Inv, ShutDown
<1>12. ChecksEnded'
  <2> SUFFICES ASSUME main.at = "checking"
               PROVE  main.watched # 0 /\ generation'[main.watched].phase \in {"done", "closed"}
    BY <1>6 DEF ChecksEnded
  <2>1. main.watched \in Generations  BY Typed, MainShape, GenerationNumbers DEF Inv, ChecksEnded
  <2>2. generation[main.watched].phase \in {"done", "closed"}  BY DEF Inv, ChecksEnded
  <2>3. main.watched # g /\ main.watched # current
    BY <1>4, <2>1, <2>2, GenerationNumbers DEF Inv, CurrentRuns
  <2> QED  BY <1>5, <2>1, <2>2, <2>3, GenerationNumbers
<1> QED  BY <1>7, <1>8, <1>9, <1>10, <1>11, <1>12 DEF Inv

\* The swap ends: the generation that was awaited has stopped and is closed.
LEMMA FinishSwapKeepsInv ==
  ASSUME Inv, TypeOK', NEW s \in Saves, FinishSwap(s) PROVE Inv'
<1> DEFINE old == save[s].previous
<1>1. /\ old \in Generations /\ generation[old].phase = "done" /\ generation[old].workers = 0
      /\ old # current
  BY Typed, SaveShape, GenerationNumbers DEF Inv, FinishSwap, Stopped, WorkersGone, CurrentRuns
<1>2. /\ generation'[old].phase = "closed" /\ generation'[old].workers = 0
      /\ \A n \in Generations \ {old} : generation'[n] = generation[n]
  BY <1>1, Typed DEF Inv, FinishSwap, GenerationRecord
<1>3. /\ UNCHANGED <<current, served, shuttingDown, main, dispatcher>>
      /\ \A t \in Saves \ {s} : save'[t] = save[t]
      /\ save[s].at = "swapping" /\ save'[s].at = "idle" /\ holder' = "none"
  BY Typed DEF Inv, FinishSwap, Idle
<1>4. LockHeld'  BY <1>3, LockExcludes, RuntimeAssumption DEF Inv, LockHeld
<1>5. CurrentRuns'  BY <1>1, <1>2, <1>3, Typed DEF Inv, CurrentRuns
<1>6. Awaited'
  <2>1. \A t \in Saves : save'[t].at # "swapping"  BY <1>3, LockExcludes
  <2>2. main'.at # "awaiting"  BY <1>3, LockExcludes
  <2>3. \A t \in Saves \ {s} : save[t].at # "swapping"  BY <1>3, LockExcludes
  <2>4. \A n \in Generations \ {old} : generation[n].phase \notin {"cancelled", "done"}
    BY <1>3, <2>2, <2>3 DEF Inv, Awaited
  <2> QED  BY <1>2, <2>1, <2>2, <2>4 DEF Awaited
<1>7. WorkersGone'  BY <1>2 DEF Inv, WorkersGone
<1>8. ShutDown'  BY <1>3, LockExcludes DEF Inv, ShutDown
<1>9. ChecksEnded'
  BY <1>2, <1>3, Typed, MainShape, GenerationNumbers DEF Inv, ChecksEnded
<1> QED  BY <1>4, <1>5, <1>6, <1>7, <1>8, <1>9 DEF Inv

\* A worker that leaves, or the return of the last, ends nothing that is awaited.
LEMMA GenerationKeepsInv ==
  ASSUME Inv, TypeOK', NEW g \in Generations, WorkerLeaves(g) \/ RunReturns(g) PROVE Inv'
<1>1. /\ UNCHANGED <<current, served, holder, shuttingDown, main, dispatcher, save>>
      /\ generation[g].phase = "cancelled"
      /\ generation'[g].phase \in {"cancelled", "done"}
      /\ generation'[g].phase = "done" => generation'[g].workers = 0
      /\ \A n \in Generations \ {g} : generation'[n] = generation[n]
  <2>1. CASE WorkerLeaves(g)  BY <2>1, Typed DEF Inv, WorkerLeaves, GenerationRecord
  <2>2. CASE RunReturns(g)  BY <2>2, Typed DEF Inv, RunReturns, GenerationRecord
  <2> QED  BY <2>1, <2>2
<1>2. CurrentRuns'  BY <1>1, Typed, GenerationNumbers DEF Inv, CurrentRuns
<1>3. Awaited'
  <2>1. \A s \in Saves : save[s].at = "swapping" => save[s].previous \in Generations
    BY Typed, SaveShape DEF Inv
  <2>2. main.at = "awaiting" => main.retired \in Generations
    BY Typed, MainShape DEF Inv
  <2> QED  BY <1>1, <2>1, <2>2 DEF Inv, Awaited
<1>4. WorkersGone'  BY <1>1 DEF Inv, WorkersGone
<1>5. ChecksEnded'
  BY <1>1, Typed, MainShape, GenerationNumbers DEF Inv, ChecksEnded
<1> QED  BY <1>1, <1>2, <1>3, <1>4, <1>5 DEF Inv, LockHeld, ShutDown

\* The serve loop and the dispatcher, while they leave the generations alone.
LEMMA ServeLoopKeepsInv ==
  ASSUME Inv, TypeOK', NoticeDone \/ CheckDone \/ Terminate \/ DispatcherEnds \/ CloseStore
  PROVE  Inv'
<1>0. UNCHANGED <<generation, current, served, holder, shuttingDown, save>>
  BY DEF NoticeDone, CheckDone, Terminate, DispatcherEnds, CloseStore
<1>1. CASE NoticeDone
  <2>1. main = [at |-> main.at, watched |-> main.watched]
    BY <1>1, Typed, MainShape DEF Inv, NoticeDone
  <2>2. main' = [at |-> "checking", watched |-> main.watched]
    BY <1>1, <2>1 DEF NoticeDone
  <2>3. Awaited' /\ ShutDown' /\ ChecksEnded'
    BY <1>0, <1>1, <2>2 DEF NoticeDone, Inv, Awaited, ShutDown, ChecksEnded
  <2> QED  BY <1>0, <2>3 DEF Inv, LockHeld, CurrentRuns, WorkersGone
<1>2. CASE CheckDone
  <2>1. main.at = "checking" /\ main'.at \in {"stopping", "watching"} /\ UNCHANGED dispatcher
    BY <1>2 DEF CheckDone
  <2>2. Awaited' /\ ShutDown' /\ ChecksEnded'
    BY <1>0, <2>1 DEF Inv, Awaited, ShutDown, ChecksEnded
  <2> QED  BY <1>0, <2>2 DEF Inv, LockHeld, CurrentRuns, WorkersGone
<1>3. CASE Terminate
  <2>1. main.at = "watching" /\ main'.at = "stopping" /\ UNCHANGED dispatcher
    BY <1>3 DEF Terminate
  <2>2. Awaited' /\ ShutDown' /\ ChecksEnded'
    BY <1>0, <2>1 DEF Inv, Awaited, ShutDown, ChecksEnded
  <2> QED  BY <1>0, <2>2 DEF Inv, LockHeld, CurrentRuns, WorkersGone
<1>4. CASE DispatcherEnds
  BY <1>0, <1>4 DEF DispatcherEnds, Inv, LockHeld, CurrentRuns, Awaited, WorkersGone, ShutDown, ChecksEnded
<1>5. CASE CloseStore
  <2>1. main.at = "draining" /\ main'.at = "closed" /\ ~dispatcher /\ UNCHANGED dispatcher
    BY <1>5 DEF CloseStore
  <2>2. Awaited' /\ ShutDown' /\ ChecksEnded'
    BY <1>0, <2>1 DEF Inv, Awaited, ShutDown, ChecksEnded
  <2> QED  BY <1>0, <2>2 DEF Inv, LockHeld, CurrentRuns, WorkersGone
<1> QED  BY <1>1, <1>2, <1>3, <1>4, <1>5

\* The shutdown takes the current generation away and waits for it.
LEMMA ShutdownKeepsInv ==
  ASSUME Inv, TypeOK', Shutdown PROVE Inv'
<1>1. /\ UNCHANGED <<served, holder, dispatcher, save>>
      /\ main.at = "stopping" /\ holder = "none" /\ shuttingDown' = TRUE /\ current' = 0
      /\ generation' = CancelGeneration(generation, current)
      /\ IF current = 0 THEN main'.at = "draining"
         ELSE main'.at = "awaiting" /\ main'.retired = current
  BY DEF Shutdown
<1>2. \A n \in Generations :
        /\ generation'[n].workers = generation[n].workers
        /\ generation'[n].phase = IF n = current THEN "cancelled" ELSE generation[n].phase
  BY <1>1, Typed, CancelKeeps, GenerationNumbers DEF Inv, CurrentRuns
<1>3. CurrentRuns'  BY <1>1, <1>2, Typed DEF Inv, CurrentRuns
<1>4. Awaited'
  <2>1. \A s \in Saves : save[s].at # "swapping"  BY <1>1, LockExcludes
  <2>2. \A n \in Generations : generation[n].phase \notin {"cancelled", "done"}
    BY <1>1, <2>1 DEF Inv, Awaited
  <2> QED  BY <1>1, <1>2, <2>1, <2>2, Typed, GenerationNumbers DEF Inv, Awaited
<1>5. WorkersGone'  BY <1>2 DEF Inv, WorkersGone
<1>6. LockHeld' /\ ShutDown' /\ ChecksEnded'
  BY <1>1 DEF Inv, LockHeld, ShutDown, ChecksEnded
<1> QED  BY <1>3, <1>4, <1>5, <1>6 DEF Inv

LEMMA AwaitGenerationKeepsInv ==
  ASSUME Inv, TypeOK', AwaitGeneration PROVE Inv'
<1> DEFINE old == main.retired
<1>1. /\ old \in Generations /\ generation[old].phase = "done" /\ generation[old].workers = 0
      /\ old # current
  BY Typed, MainShape, GenerationNumbers
     DEF Inv, AwaitGeneration, Stopped, WorkersGone, CurrentRuns
<1>2. /\ generation'[old].phase = "closed" /\ generation'[old].workers = 0
      /\ \A n \in Generations \ {old} : generation'[n] = generation[n]
  BY <1>1, Typed DEF Inv, AwaitGeneration, GenerationRecord
<1>3. /\ UNCHANGED <<current, served, holder, shuttingDown, dispatcher, save>>
      /\ main.at = "awaiting" /\ main'.at = "draining"
  BY DEF AwaitGeneration
<1>4. CurrentRuns'  BY <1>1, <1>2, <1>3, Typed DEF Inv, CurrentRuns
<1>5. Awaited'
  <2>1. \A s \in Saves : save[s].at # "swapping"  BY <1>3, LockExcludes
  <2>2. \A n \in Generations \ {old} : generation[n].phase \notin {"cancelled", "done"}
    BY <1>3, <2>1 DEF Inv, Awaited
  <2> QED  BY <1>2, <1>3, <2>1, <2>2 DEF Awaited
<1>6. WorkersGone'  BY <1>2 DEF Inv, WorkersGone
<1>7. LockHeld' /\ ShutDown' /\ ChecksEnded'
  BY <1>3 DEF Inv, LockHeld, ShutDown, ChecksEnded
<1> QED  BY <1>4, <1>5, <1>6, <1>7 DEF Inv

LEMMA RestartKeepsInv ==
  ASSUME Inv, TypeOK', Restart PROVE Inv'
<1>1. /\ \A g \in Generations : generation'[g] = IF g = current' THEN Running(persisted) ELSE NoGeneration
      /\ current' # 0 => generation'[current'] = Running(persisted)
  BY StartShape DEF Inv, TypeOK, Restart
<1>2. LockHeld' /\ ShutDown' /\ ChecksEnded'
  BY RuntimeAssumption DEF Restart, LockHeld, ShutDown, ChecksEnded, Idle
<1>3. CurrentRuns' /\ Awaited' /\ WorkersGone'
  BY <1>1 DEF Restart, CurrentRuns, Awaited, WorkersGone, Running, NoGeneration, Idle
<1> QED  BY <1>2, <1>3 DEF Inv

\* The invariant is inductive: every step keeps it.
LEMMA InvStep == Inv /\ [Next]_vars => Inv'
<1> SUFFICES ASSUME Inv, [Next]_vars PROVE Inv'  OBVIOUS
<1>1. TypeOK'  BY TypeStep DEF Inv
<1>2. CASE UNCHANGED vars
  BY <1>1, <1>2 DEF vars, Inv, LockHeld, CurrentRuns, Awaited, WorkersGone, ShutDown, ChecksEnded
<1> QED
  BY <1>1, <1>2, RequestsKeepInv, ApplyKeepsInv, BuildFailsKeepsInv, ActivateKeepsInv,
     FinishSwapKeepsInv, GenerationKeepsInv, ServeLoopKeepsInv, ShutdownKeepsInv,
     AwaitGenerationKeepsInv, RestartKeepsInv
     DEF Next, SaveStep

-----------------------------------------------------------------------------
(* Settings are handed on                                                    *)

\* Steps which leave the saves that apply and build, the current generation and
\* every generation's settings alone hand nothing on.
LEMMA HandsNothingOn ==
  ASSUME HandedOn, UNCHANGED <<persisted, current, diverged>>,
         \A s \in Saves :
           \/ save'[s] = save[s]
           \/ save[s].at \notin {"applying", "building"} /\ save'[s].at \notin {"applying", "building"},
         current # 0 => generation'[current].config = generation[current].config
  PROVE  HandedOn'
<1>1. \A s \in Saves : /\ save'[s].at = "applying" <=> save[s].at = "applying"
                       /\ save'[s].at = "building" <=> save[s].at = "building"
                       /\ save[s].at \in {"applying", "building"} => save'[s] = save[s]
  OBVIOUS
<1>2. (Applying' <=> Applying) /\ (Building' <=> Building)
  BY <1>1 DEF Applying, Building
<1> QED  BY <1>1, <1>2 DEF HandedOn

LEMMA InitHandedOn == Init => HandedOn
<1> SUFFICES ASSUME Init PROVE HandedOn  OBVIOUS
<1>1. current # 0 => generation[current] = Running(persisted)
  BY StartShape DEF Init
<1> QED  BY <1>1 DEF Init, HandedOn, Applying, Building, Running, Idle

\* What every step hands on.
LEMMA HandedOnStep == Inv /\ HandedOn /\ [Next]_vars => HandedOn'
<1> SUFFICES ASSUME Inv, HandedOn, [Next]_vars PROVE HandedOn'  OBVIOUS
<1>t. /\ save \in [Saves -> SaveStates] /\ generation \in [Generations -> GenerationRecord]
      /\ current \in Generations \cup {0}
  BY Typed DEF Inv
<1>1. ASSUME NEW s \in Saves, NEW config \in Configs, BeginSave(s, config) PROVE HandedOn'
  BY <1>1, <1>t, HandsNothingOn DEF BeginSave, Idle
<1>2. ASSUME NEW s \in Saves, Persist(s) PROVE HandedOn'
  <2> SUFFICES ASSUME ~diverged' PROVE HandedOn'  BY DEF HandedOn
  <2>1. /\ save'[s].at = "applying" /\ save'[s].config = save[s].config
        /\ \A t \in Saves \ {s} : save'[t] = save[t]
    <3>1. LET moved == [save[s] EXCEPT !.at = "applying"] IN
            moved.at = "applying" /\ moved.config = save[s].config
      BY <1>2, <1>t, SaveMoves DEF Persist
    <3> QED  BY <1>2, <1>t, <3>1 DEF Persist
  <2>2. \A t \in Saves : save'[t].at = "applying" => t = s
    BY <1>2, <2>1 DEF Persist
  <2>3. persisted' = save'[s].config  BY <1>2, <2>1 DEF Persist
  <2>4. Applying'  BY <2>1 DEF Applying
  <2> QED  BY <2>2, <2>3, <2>4 DEF HandedOn
<1>3. ASSUME NEW s \in Saves, PersistFails(s) PROVE HandedOn'
  BY <1>3, <1>t, HandsNothingOn DEF PersistFails, Refused, Idle
<1>4. ASSUME NEW s \in Saves, Apply(s) PROVE HandedOn'
  <2> SUFFICES ASSUME ~diverged' PROVE HandedOn'  BY DEF HandedOn
  <2>1. /\ save'[s].at = "building" /\ save'[s].config = save[s].config
        /\ \A t \in Saves \ {s} : save'[t] = save[t]
    <3>1. LET moved == [save[s] EXCEPT !.at = "building"] IN
            moved.at = "building" /\ moved.config = save[s].config
      BY <1>4, <1>t, SaveMoves DEF Apply
    <3> QED  BY <1>4, <1>t, <3>1 DEF Apply
  <2>2. ~diverged /\ persisted' = persisted /\ holder = "none" /\ save[s].at = "applying"
    BY <1>4 DEF Apply
  <2>3. \A t \in Saves \ {s} : save[t].at \notin {"applying", "building"}
    BY <2>2, LockExcludes DEF HandedOn
  <2>4. save[s].config = persisted  BY <2>2 DEF HandedOn
  <2>5. Building' /\ \A t \in Saves : save'[t].at # "applying"
    BY <2>1, <2>3 DEF Building
  <2> QED  BY <2>1, <2>2, <2>3, <2>4, <2>5 DEF HandedOn
<1>5. ASSUME NEW s \in Saves, BuildFails(s) PROVE HandedOn'
  BY <1>5 DEF BuildFails, HandedOn
<1>6. ASSUME NEW s \in Saves, Activate(s) PROVE HandedOn'
  <2> SUFFICES ASSUME ~diverged' PROVE HandedOn'  BY DEF HandedOn
  <2>1. PICK g \in Generations : Activate(s)!2!(g)  BY <1>6 DEF Activate
  <2> DEFINE begun == [generation EXCEPT ![g] = Running(save[s].config)]
  <2>2. begun \in [Generations -> GenerationRecord] /\ begun[g].config = save[s].config
    BY <1>6, <1>t, SaveShape, RuntimeAssumption
       DEF Activate, Running, GenerationRecord, Phases
  <2> HIDE DEF begun
  <2>3. generation'[g].config = save[s].config
    BY <2>1, <2>2, <1>t, CancelKeeps DEF begun
  <2>4. /\ current' = g /\ ~diverged /\ persisted' = persisted /\ save[s].at = "building"
        /\ \A t \in Saves \ {s} : save'[t] = save[t] /\ save[t].at # "building"
        /\ save'[s].at \notin {"applying", "building"}
    BY <1>6, <2>1, <1>t, LockExcludes DEF Activate, Idle
  <2>5. Applying' <=> Applying  BY <2>4 DEF Applying
  <2>6. ~Applying => save[s].config = persisted  BY <2>4 DEF HandedOn
  <2>7. \A t \in Saves : save'[t].at = "applying" => t # s /\ save[t].at = "applying"
                                                /\ save'[t] = save[t]
    BY <2>4
  <2>8. \A t \in Saves : save'[t].at # "building"  BY <2>4
  <2> QED  BY <2>3, <2>4, <2>5, <2>6, <2>7, <2>8 DEF HandedOn
<1>7. ASSUME NEW s \in Saves, FinishSwap(s) PROVE HandedOn'
  BY <1>7, <1>t, HandsNothingOn, SaveShape, GenerationNumbers DEF FinishSwap, Idle, GenerationRecord
<1>8. ASSUME NEW g \in Generations, WorkerLeaves(g) \/ RunReturns(g) PROVE HandedOn'
  <2>1. \A n \in Generations : generation'[n].config = generation[n].config
    BY <1>8, <1>t DEF WorkerLeaves, RunReturns, GenerationRecord
  <2> QED  BY <1>8, <2>1, <1>t, HandsNothingOn, GenerationNumbers DEF WorkerLeaves, RunReturns
<1>9. CASE NoticeDone \/ CheckDone \/ Terminate \/ DispatcherEnds \/ CloseStore
  BY <1>9, HandsNothingOn DEF NoticeDone, CheckDone, Terminate, DispatcherEnds, CloseStore
<1>10. CASE Shutdown
  BY <1>10 DEF Shutdown, HandedOn, Applying, Building
<1>11. CASE AwaitGeneration
  <2>1. main.retired \in Generations  BY <1>11, Typed, MainShape DEF Inv, AwaitGeneration
  <2>2. \A n \in Generations : generation'[n].config = generation[n].config
    BY <1>11, <2>1, <1>t DEF AwaitGeneration, GenerationRecord
  <2> QED  BY <1>11, <2>2, <1>t, HandsNothingOn DEF AwaitGeneration
<1>12. CASE Restart
  <2>1. current' # 0 => generation'[current'] = Running(persisted)
    BY <1>12, StartShape DEF Inv, TypeOK, Restart
  <2> QED  BY <1>12, <2>1 DEF Restart, HandedOn, Applying, Building, Running, Idle
<1>13. CASE UNCHANGED vars  BY <1>13 DEF vars, HandedOn, Applying, Building
<1> QED
  BY <1>1, <1>2, <1>3, <1>4, <1>5, <1>6, <1>7, <1>8, <1>9, <1>10, <1>11, <1>12, <1>13
     DEF Next, SaveStep

-----------------------------------------------------------------------------
(* The theorems                                                              *)

\* The invariant holds of every reachable state.
LEMMA Invariant == Spec => []Inv
<1> QED  BY InitInv, InvStep, PTL DEF Spec

\* Every variable keeps its type.
THEOREM TypeCorrect == Spec => []TypeOK
<1>1. Inv => TypeOK  BY DEF Inv
<1> QED  BY <1>1, Invariant, PTL

\* Outside a swap one generation runs, the one behind the HTTP root, and those
\* before it are closed: manager.Apply gives the lock back only when the
\* generation it replaced has stopped.
THEOREM OneRuns == Spec => []OneGenerationRuns
<1>1. Inv => OneGenerationRuns
  <2> SUFFICES ASSUME Inv, holder = "none", current # 0
               PROVE  /\ served = current /\ generation[current].phase = "running"
                      /\ \A g \in Generations \ {current} : generation[g].phase \in {"none", "closed"}
    BY DEF OneGenerationRuns
  <2>1. served = current /\ generation[current].phase = "running"
    BY DEF Inv, CurrentRuns
  <2>2. (\A s \in Saves : save[s].at # "swapping") /\ main.at # "awaiting"
    BY LockExcludes DEF Inv, ShutDown
  <2>3. ASSUME NEW g \in Generations \ {current}
        PROVE  generation[g].phase \in {"none", "closed"}
    <3>1. generation[g].phase \notin {"running", "cancelled", "done"}
      BY <2>2 DEF Inv, CurrentRuns, Awaited
    <3> QED  BY <3>1, Typed DEF Inv, GenerationRecord, Phases
  <2> QED  BY <2>1, <2>3
<1> QED  BY <1>1, Invariant, PTL

\* When the store closes no worker of any generation and no dispatcher is left
\* who could use it (manager.shutdown, serve's last steps in main.go).
THEOREM StoreClosedLast == Spec => []StoreOutlivesWorkers
<1>1. Inv => StoreOutlivesWorkers
  <2> SUFFICES ASSUME Inv, main.at = "closed"
               PROVE  ~dispatcher /\ \A g \in Generations : generation[g].workers = 0
    BY DEF StoreOutlivesWorkers, StoreOpen
  <2>1. ~dispatcher /\ shuttingDown /\ current = 0 /\ holder = "none"
    BY DEF Inv, ShutDown
  <2>2. \A s \in Saves : save[s].at # "swapping"  BY <2>1, LockExcludes
  <2>3. ASSUME NEW g \in Generations PROVE generation[g].workers = 0
    <3>1. generation[g].phase \notin {"running", "cancelled", "done"}
      BY <2>1, <2>2, GenerationNumbers DEF Inv, CurrentRuns, Awaited
    <3>2. generation[g].phase \in {"none", "closed"}
      BY <3>1, Typed DEF Inv, GenerationRecord, Phases
    <3> QED  BY <3>2 DEF Inv, WorkersGone
  <2> QED  BY <2>1, <2>3
<1> QED  BY <1>1, Invariant, PTL

\* The serve loop ends the process only for a generation that failed: one that a
\* swap retired is no longer the current one when main.go asks.
THEOREM SwapsRaiseNoAlarm == Spec => NoFalseAlarm
<1>1. Inv /\ [Next]_vars => [main.at = "checking" => main'.at \in {"checking", "watching"}]_main
  <2> SUFFICES ASSUME Inv, Next, main.at = "checking"
               PROVE  main' = main \/ main'.at \in {"checking", "watching"}
    BY DEF vars
  <2>1. ~StillCurrent(main.watched)
    BY DEF Inv, ChecksEnded, CurrentRuns, StillCurrent
  <2>2. CASE CheckDone  BY <2>1, <2>2 DEF CheckDone
  <2>3. CASE Restart  BY <2>3 DEF Restart
  <2> QED
    BY <2>2, <2>3 DEF Next, SaveStep, BeginSave, Persist, PersistFails, Apply, Activate, BuildFails,
       FinishSwap, WorkerLeaves, RunReturns, NoticeDone, Terminate, Shutdown, AwaitGeneration,
       DispatcherEnds, CloseStore
<1> QED  BY <1>1, Invariant, PTL DEF Spec, NoFalseAlarm

\* Unless two saves met or an Apply failed, the process runs the settings that
\* are stored whenever no save is under way (settingsSave, setupFinish, Apply).
THEOREM StoredSettingsRun == Spec => []SavedIsServed
<1>1. Inv /\ HandedOn => SavedIsServed
  BY DEF HandedOn, SavedIsServed, Applying, Building, Idle
<1> QED  BY <1>1, Invariant, InitHandedOn, HandedOnStep, PTL DEF Spec
=============================================================================

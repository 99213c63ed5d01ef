---------------------------- MODULE WakeupProofs ----------------------------
(***************************************************************************)
(* That the scheduler's workers do not sleep through work, for any number  *)
(* of rows, workers and requests, any poll interval and any lease.         *)
(*                                                                         *)
(* The argument looks ahead: for every row with a next run there is, now,  *)
(* a worker who is awake or whose timer ends before the row can be         *)
(* claimed, or a wake-up to come.  Time brings timers and rows nearer      *)
(* alike.                                                                  *)
(***************************************************************************)
EXTENDS Wakeup, WellFoundedInduction, TLAPS

-----------------------------------------------------------------------------
(* The invariant                                                             *)

\* How long until the row can be claimed.
Until(r) == Max({row[r].due, row[r].lease})

\* The worker looks at the rows before d has passed.
Looks(w, d) == worker[w].at \in {"resting", "asleep"} => worker[w].until <= d

\* Every row with a next run is watched.
Watched ==
  \A r \in Rows \ unannounced :
    row[r].due # Never =>
      \/ token
      \/ \E w \in Workers : Looks(w, Until(r))
      \/ \E h \in Handlers : handler[h].at = "live" /\ r \in handler[h].changed

Inv == TypeOK /\ Watched

-----------------------------------------------------------------------------
(* Numbers                                                                   *)

\* The constants are numbers; Never is beyond every due time, lease and timer.
LEMMA Numbers ==
  /\ pollInterval \in Nat /\ pollInterval > 0 /\ leaseDuration \in Nat /\ leaseDuration > 0
  /\ Never = pollInterval + leaseDuration + 1 /\ Never \in Nat
  /\ Workers # {} /\ NoWorker \notin Workers /\ "retired" \notin Workers
  BY WakeupAssumption DEF Never

\* The greater of two numbers.
LEMMA MaxOfTwo ==
  ASSUME NEW a \in Nat, NEW b \in Nat
  PROVE  Max({a, b}) = IF a >= b THEN a ELSE b
<1> DEFINE m == IF a >= b THEN a ELSE b
<1>1. m \in {a, b} /\ \A y \in {a, b} : m >= y  OBVIOUS
<1>2. \A x \in {a, b} : (\A y \in {a, b} : x >= y) => x = m  OBVIOUS
<1> QED  BY <1>1, <1>2 DEF Max

\* The least of some numbers.
LEMMA MinOfSome ==
  ASSUME NEW S \in SUBSET Nat, S # {}
  PROVE  Min(S) \in S /\ \A y \in S : Min(S) <= y
<1> DEFINE Less == {ss \in Nat \X Nat : ss[1] < ss[2]}
<1>0. IsWellFoundedOn(Less, Nat)
  BY NatLessThanWellFounded DEF OpToRel
<1>a. \A x, y \in Nat : <<y, x>> \in Less <=> y < x  OBVIOUS
<1> HIDE DEF Less
<1>1. PICK x \in S : \A y \in S : ~ (<<y, x>> \in Less)
  BY <1>0, WFMin
<1>2. ASSUME NEW y \in S PROVE x <= y
  <2>1. x \in Nat /\ y \in Nat  OBVIOUS
  <2>2. ~ (y < x)  BY <1>1, <1>a, <2>1
  <2> QED  BY <2>1, <2>2
<1> QED  BY <1>2 DEF Min

\* A timer never waits longer than a poll or a lease.
LEMMA WaitsAre ==
  /\ Waits = 0..(IF pollInterval >= leaseDuration THEN pollInterval ELSE leaseDuration)
  /\ \A t \in Waits : t \in Nat /\ t # Never
  BY MaxOfTwo, Numbers DEF Waits

\* What a worker is doing says whether it has a timer.
LEMMA WorkerShape ==
  ASSUME NEW v \in WorkerStates
  PROVE  /\ v.at \in {"step", "idle", "busy", "resting", "asleep", "backoff"}
         /\ v.at = "busy" => v.row \in Rows
         /\ v.at \in {"resting", "asleep", "backoff"} =>
              /\ v.until \in Waits
              /\ \A t \in Waits : [v EXCEPT !.until = t] \in WorkerStates /\ [v EXCEPT !.until = t].at = v.at
                                  /\ [v EXCEPT !.until = t].until = t
              /\ [v EXCEPT !.at = "asleep"] \in WorkerStates /\ [v EXCEPT !.at = "asleep"].at = "asleep"
                 /\ [v EXCEPT !.at = "asleep"].until = v.until
<1>1. CASE v \in [at : {"step", "idle"}]  BY <1>1
<1>2. CASE v \in [at : {"busy"}, row : Rows]  BY <1>2
<1>3. CASE v \in [at : {"resting", "asleep", "backoff"}, until : Waits]  BY <1>3 DEF WorkerStates
<1> QED  BY <1>1, <1>2, <1>3 DEF WorkerStates

\* What a row holds.
Row == [due : Dues \union {Never}, lease : 0..leaseDuration, claimant : Workers \union {"retired", NoWorker}]

\* The facts about the state before a step that every action's proof uses.
LEMMA Typed ==
  ASSUME TypeOK
  PROVE  /\ row \in [Rows -> Row] /\ \A w \in Workers : worker[w] \in WorkerStates
         /\ \A r \in Rows : /\ row[r].due \in Nat /\ row[r].lease \in Nat
                            /\ row[r].due # Never => row[r].due <= pollInterval
                            /\ row[r].lease <= leaseDuration
                            /\ Until(r) = IF row[r].due >= row[r].lease THEN row[r].due ELSE row[r].lease
                            /\ Until(r) \in Nat
                            /\ row[r].due # Never => Until(r) \in Waits
<1>1. row \in [Rows -> Row] /\ \A w \in Workers : worker[w] \in WorkerStates
  BY DEF TypeOK, Row
<1>2. ASSUME NEW r \in Rows
      PROVE  /\ row[r].due \in Nat /\ row[r].lease \in Nat
             /\ row[r].due # Never => row[r].due <= pollInterval
             /\ row[r].lease <= leaseDuration
  BY <1>1, Numbers DEF Row, Dues
<1>3. ASSUME NEW r \in Rows
      PROVE  Until(r) = IF row[r].due >= row[r].lease THEN row[r].due ELSE row[r].lease
  BY <1>2, MaxOfTwo DEF Until
<1>4. \A r \in Rows : row[r].due # Never => Until(r) \in Waits
  BY <1>2, <1>3, WaitsAre, Numbers
<1> QED  BY <1>1, <1>2, <1>3, <1>4

\* Coming nearer keeps a time in its range, and the order of two times.
LEMMA NearerIs ==
  /\ \A t \in Nat : t # Never => Nearer(t) = IF t = 0 THEN 0 ELSE t - 1
  /\ Nearer(Never) = Never
  /\ \A t \in Dues \union {Never} : Nearer(t) \in Dues \union {Never} /\ (Nearer(t) = Never => t = Never)
  /\ \A t \in 0..leaseDuration : Nearer(t) \in 0..leaseDuration
  /\ \A t \in Waits : Nearer(t) \in Waits
  BY Numbers, WaitsAre DEF Nearer, Dues

-----------------------------------------------------------------------------
(* Types                                                                     *)

\* Every step keeps the types.
LEMMA TypeStep == TypeOK /\ [Next]_vars => TypeOK'
<1> SUFFICES ASSUME TypeOK, [Next]_vars PROVE TypeOK'  OBVIOUS
<1> USE DEF Go
<1>1. CASE Tick
  <2>1. \A r \in Rows : [row[r] EXCEPT !.due = Nearer(@), !.lease = Nearer(@)] \in Row
    BY Typed, NearerIs DEF Row
  <2>2. row' \in [Rows -> Row]  BY <1>1, <2>1 DEF Tick
  <2>3. worker' \in [Workers -> WorkerStates]
    BY <1>1, Typed, NearerIs, WorkerShape DEF Tick, TypeOK
  <2> QED  BY <1>1, <2>2, <2>3 DEF Tick, TypeOK, Row
<1>2. ASSUME NEW w \in Workers, NEW r \in Rows, ClaimDue(w, r) PROVE TypeOK'
  <2> DEFINE r1 == [row EXCEPT ![r].lease = leaseDuration]
             r2 == [r1 EXCEPT ![r].claimant = w]
  <2> HIDE DEF r1, r2
  <2>a. r1 \in [Rows -> Row]  BY Typed, Numbers DEF Row, r1
  <2>b. r2 \in [Rows -> Row]  BY <2>a DEF Row, r2
  <2>c. row' = r2  BY <1>2, Zenon DEF ClaimDue, r1, r2
  <2>1. worker' \in [Workers -> WorkerStates]  BY <1>2 DEF ClaimDue, TypeOK, WorkerStates
  <2> QED  BY <1>2, <2>b, <2>c, <2>1 DEF ClaimDue, TypeOK, Row
<1>3. ASSUME NEW w \in Workers, NothingDue(w) \/ TakeToken(w) \/ TimerFires(w) PROVE TypeOK'
  <2>1. worker' \in [Workers -> WorkerStates]
    BY <1>3 DEF NothingDue, TakeToken, TimerFires, TypeOK, WorkerStates
  <2> QED  BY <1>3, <2>1 DEF NothingDue, TakeToken, TimerFires, TypeOK
<1>4. \A due \in Dues \union {Never} : Released(due) \in Row
  BY Numbers DEF Released, Row
<1>5. ASSUME NEW w \in Workers, CommitClaim(w) PROVE TypeOK'
  <2>1. row' \in [Rows -> Row]  BY <1>4, <1>5, Typed DEF CommitClaim
  <2>2. worker' \in [Workers -> WorkerStates]  BY <1>5 DEF CommitClaim, TypeOK, WorkerStates
  <2> QED  BY <1>5, <2>1, <2>2 DEF CommitClaim, TypeOK, Row
<1>6. ASSUME NEW w \in Workers, Fail(w) PROVE TypeOK'
  <2>1. row' \in [Rows -> Row]  BY <1>6, Typed DEF Fail, Abandoned, Row
  <2>2. worker' \in [Workers -> WorkerStates]
    BY <1>6, WaitsAre, Numbers DEF Fail, TypeOK, WorkerStates
  <2> QED  BY <1>6, <2>1, <2>2 DEF Fail, TypeOK, Row
<1>7. ASSUME NEW w \in Workers, NextDue(w) PROVE TypeOK'
  <2>1. EffectiveDue \in SUBSET Waits
    BY Typed DEF EffectiveDue, Until
  <2>2. WaitUntil(EffectiveDue) \in Waits
    <3>1. CASE EffectiveDue = {}  BY <3>1, WaitsAre, Numbers DEF WaitUntil
    <3>2. CASE EffectiveDue # {}
      <4>1. EffectiveDue \in SUBSET Nat  BY <2>1, WaitsAre
      <4>2. Min(EffectiveDue) \in EffectiveDue  BY <3>2, <4>1, MinOfSome
      <4> QED  BY <2>1, <3>2, <4>2 DEF WaitUntil
    <3> QED  BY <3>1, <3>2
  <2>3. worker' \in [Workers -> WorkerStates]  BY <1>7, <2>2 DEF NextDue, TypeOK, WorkerStates
  <2> QED  BY <1>7, <2>3 DEF NextDue, TypeOK
<1>8. ASSUME NEW w \in Workers, Wait(w) PROVE TypeOK'
  <2>1. worker' \in [Workers -> WorkerStates]
    BY <1>8, Typed, WorkerShape DEF Wait, TypeOK
  <2> QED  BY <1>8, <2>1 DEF Wait, TypeOK
<1>9. ASSUME NEW h \in Handlers, BeginRequest(h) \/ Wake(h) \/ RequestFails(h) PROVE TypeOK'
  <2>1. CASE BeginRequest(h)  BY <2>1 DEF BeginRequest, TypeOK
  <2>2. CASE Wake(h)  BY <2>2 DEF Wake, TypeOK, NoRequest
  <2>3. CASE RequestFails(h)  BY <2>3 DEF RequestFails, TypeOK, NoRequest
  <2> QED  BY <1>9, <2>1, <2>2, <2>3
<1>10. ASSUME NEW h \in Handlers, NEW r \in Rows, ChangeRow(h, r) PROVE TypeOK'
  <2> DEFINE r1 == [row EXCEPT ![r].due = 0]
             r2 == [r1 EXCEPT ![r].claimant = NoWorker]
  <2> HIDE DEF r1, r2
  <2>a. r1 \in [Rows -> Row]  BY Typed, Numbers DEF Row, Dues, r1
  <2>b. r2 \in [Rows -> Row]  BY <2>a DEF Row, r2
  <2>c. row' = r2  BY <1>10, Zenon DEF ChangeRow, r1, r2
  <2>d. row' \in [Rows -> Row]  BY <2>b, <2>c
  <2>e. handler' \in [Handlers -> [at : {"idle", "live", "stale"}, changed : SUBSET Rows]]
    BY <1>10 DEF ChangeRow, TypeOK
  <2>f. unannounced' \subseteq Rows
    BY <1>10 DEF ChangeRow, TypeOK
  <2>g. UNCHANGED <<worker, token>>
    BY <1>10 DEF ChangeRow
  <2> QED  BY <2>d, <2>e, <2>f, <2>g DEF TypeOK, Row
<1>11. CASE Swap
  <2>1. row' \in [Rows -> Row]  BY <1>11, Typed DEF Swap, Row
  <2>2. worker' \in [Workers -> WorkerStates]  BY <1>11 DEF Swap, Stepping, WorkerStates
  <2>3. handler' \in [Handlers -> [at : {"idle", "live", "stale"}, changed : SUBSET Rows]]
    BY <1>11 DEF Swap, TypeOK
  <2> QED  BY <1>11, <2>1, <2>2, <2>3 DEF Swap, TypeOK, Row
<1>12. ASSUME NEW r \in Rows, RetiredCommits(r) PROVE TypeOK'
  <2>1. row' \in [Rows -> Row]  BY <1>4, <1>12, Typed DEF RetiredCommits
  <2> QED  BY <1>12, <2>1 DEF RetiredCommits, TypeOK, Row
<1>13. ASSUME NEW r \in Rows, RetiredLeaves(r) PROVE TypeOK'
  <2>1. row' \in [Rows -> Row]  BY <1>13, Typed DEF RetiredLeaves, Row
  <2> QED  BY <1>13, <2>1 DEF RetiredLeaves, TypeOK, Row
<1>14. CASE UNCHANGED vars  BY <1>14 DEF vars, TypeOK
<1> QED
  BY <1>1, <1>2, <1>3, <1>5, <1>6, <1>7, <1>8, <1>9, <1>10, <1>11, <1>12, <1>13, <1>14
     DEF Next, WorkerStep

-----------------------------------------------------------------------------
(* The invariant is inductive                                                *)

\* At the start every worker is about to look.
LEMMA InitInv == Init => Inv
<1> SUFFICES ASSUME Init PROVE Inv  OBVIOUS
<1>1. TypeOK
  <2>1. row \in [Rows -> Row]  BY Numbers DEF Init, Row, Dues
  <2> QED  BY <2>1 DEF Init, TypeOK, Stepping, NoRequest, WorkerStates, Row
<1>2. PICK w \in Workers : TRUE  BY Numbers
<1>3. Watched  BY <1>2 DEF Init, Watched, Stepping, Looks
<1> QED  BY <1>1, <1>3 DEF Inv

\* A worker who is busy, awake or backing off looks in time whatever is due.
LEMMA AwakeWatches ==
  ASSUME TypeOK', NEW w \in Workers, worker'[w].at \notin {"resting", "asleep"}
  PROVE  Watched'
  BY DEF Watched, Looks

\* Timers come nearer with the rows.
LEMMA TickKeepsWatch == Inv /\ TypeOK' /\ Tick => Watched'
<1> SUFFICES ASSUME Inv, TypeOK', Tick PROVE Watched'  OBVIOUS
<1>1. \A r \in Rows : row'[r].due = Nearer(row[r].due) /\ row'[r].lease = Nearer(row[r].lease)
  BY Typed DEF Tick, Inv, Row
<1>2. UNCHANGED <<token, handler, unannounced>>  BY DEF Tick
<1> SUFFICES ASSUME NEW r \in Rows, r \notin unannounced, row'[r].due # Never, ~token,
                    ~ \E h \in Handlers : handler[h].at = "live" /\ r \in handler[h].changed
             PROVE  \E w \in Workers : Looks(w, Until(r))'
  BY <1>2 DEF Watched
<1>3. row[r].due \in Dues \union {Never} /\ row[r].lease \in 0..leaseDuration
  BY Typed DEF Inv, Row
<1>4. row[r].due # Never  BY <1>1, NearerIs
<1>5. PICK w \in Workers : Looks(w, Until(r))
  BY <1>4 DEF Inv, Watched
<1>6. Until(r) \in Nat /\ Until(r)' \in Nat /\ Until(r)' >= IF Until(r) = 0 THEN 0 ELSE Until(r) - 1
  <2>1. /\ row[r].due \in Nat /\ row[r].lease \in Nat /\ row[r].lease # Never
        /\ Until(r) = IF row[r].due >= row[r].lease THEN row[r].due ELSE row[r].lease
    BY Typed, Numbers DEF Inv
  <2>2. /\ row'[r].due = IF row[r].due = 0 THEN 0 ELSE row[r].due - 1
        /\ row'[r].lease = IF row[r].lease = 0 THEN 0 ELSE row[r].lease - 1
    BY <1>1, <1>4, <2>1, NearerIs
  <2>3. row'[r].due \in Nat /\ row'[r].lease \in Nat  BY <2>1, <2>2
  <2>4. Until(r)' = IF row'[r].due >= row'[r].lease THEN row'[r].due ELSE row'[r].lease
    BY <2>3, MaxOfTwo DEF Until
  <2> QED  BY <2>1, <2>2, <2>4
<1>0. worker'[w] = IF worker[w].at \in {"resting", "asleep", "backoff"}
                   THEN [worker[w] EXCEPT !.until = Nearer(worker[w].until)] ELSE worker[w]
  BY DEF Tick
<1>7. CASE worker[w].at \in {"resting", "asleep"}
  <2>1. worker[w] \in WorkerStates /\ worker[w].until \in Waits /\ worker[w].until <= Until(r)
    BY <1>5, <1>7, Typed, WorkerShape DEF Inv, Looks
  <2>2. worker'[w].until = Nearer(worker[w].until)
    <3>1. Nearer(worker[w].until) \in Waits  BY <2>1, NearerIs
    <3>2. [worker[w] EXCEPT !.until = Nearer(worker[w].until)].until = Nearer(worker[w].until)
      BY <1>7, <2>1, <3>1, WorkerShape
    <3> QED  BY <1>0, <1>7, <3>2
  <2>3. worker[w].until \in Nat /\ Nearer(worker[w].until) = IF worker[w].until = 0 THEN 0 ELSE worker[w].until - 1
    BY <2>1, WaitsAre, NearerIs
  <2>4. worker'[w].until <= Until(r)'  BY <1>6, <2>1, <2>2, <2>3
  <2> QED  BY <2>4 DEF Looks
<1>8. CASE worker[w].at \notin {"resting", "asleep"}
  <2>1. CASE worker[w].at = "backoff"
    <3>1. worker[w] \in WorkerStates /\ Nearer(worker[w].until) \in Waits
      BY <2>1, Typed, WorkerShape, NearerIs DEF Inv
    <3>2. [worker[w] EXCEPT !.until = Nearer(worker[w].until)].at = "backoff"
      BY <2>1, <3>1, WorkerShape
    <3> QED  BY <1>0, <2>1, <3>2 DEF Looks
  <2>2. CASE worker[w].at # "backoff"
    BY <1>0, <1>8, <2>2 DEF Looks
  <2> QED  BY <2>1, <2>2
<1> QED  BY <1>7, <1>8

\* A worker goes to rest knowing every row that has a next run.
LEMMA NextDueKeepsWatch ==
  ASSUME Inv, NEW w \in Workers, NextDue(w) PROVE Watched'
<1>1. /\ worker'[w] = [at |-> "resting", until |-> WaitUntil(EffectiveDue)]
      /\ UNCHANGED <<row, token, handler>>
  BY DEF NextDue, Go, Inv, TypeOK
<1>2. ASSUME NEW r \in Rows, row[r].due # Never
      PROVE  WaitUntil(EffectiveDue) <= Until(r)
  <2>1. Until(r) \in EffectiveDue  BY <1>2 DEF EffectiveDue, Until
  <2>2. EffectiveDue \in SUBSET Nat
    BY Typed DEF EffectiveDue, Until, Inv
  <2>3. Min(EffectiveDue) <= Until(r)  BY <2>1, <2>2, MinOfSome
  <2> QED  BY <2>1, <2>3 DEF WaitUntil
<1>3. \A r \in Rows : Until(r)' = Until(r)  BY <1>1 DEF Until
<1> QED  BY <1>1, <1>2, <1>3 DEF Watched, Looks

\* Requests announce what they change, or leave it in unannounced.
LEMMA RequestsKeepWatch ==
  ASSUME Inv, NEW h \in Handlers,
         BeginRequest(h) \/ Wake(h) \/ RequestFails(h) \/ \E r \in Rows : ChangeRow(h, r)
  PROVE  Watched'
<1>0. UNCHANGED worker  BY DEF BeginRequest, Wake, RequestFails, ChangeRow
<1>1. CASE BeginRequest(h)
  BY <1>1, <1>0 DEF BeginRequest, Inv, TypeOK, Watched, Until, Looks
<1>2. CASE Wake(h)
  <2>1. /\ UNCHANGED <<row, unannounced>> /\ \A r \in Rows : Until(r)' = Until(r)
        /\ \A g \in Handlers \ {h} : handler'[g] = handler[g]
        /\ token \/ (handler[h].at = "live" /\ handler[h].changed # {}) => token'
    BY <1>2 DEF Wake, Inv, TypeOK, Until, Buffered
  <2> QED  BY <1>0, <2>1 DEF Inv, Watched, Looks
<1>3. CASE RequestFails(h)
  <2>1. /\ UNCHANGED <<row, token>> /\ \A r \in Rows : Until(r)' = Until(r)
        /\ unannounced' = unannounced \cup handler[h].changed
        /\ \A g \in Handlers \ {h} : handler'[g] = handler[g]
    BY <1>3 DEF RequestFails, Inv, TypeOK, Until
  <2> QED  BY <1>0, <2>1 DEF Inv, Watched, Looks
<1>4. ASSUME NEW r \in Rows, ChangeRow(h, r) PROVE Watched'
  <2>a. \A q \in Rows \ {r} : row'[q] = row[q] /\ Until(q)' = Until(q)
    <3> DEFINE r1 == [row EXCEPT ![r].due = 0]
               r2 == [r1 EXCEPT ![r].claimant = NoWorker]
    <3>1. row' = r2  BY <1>4, Zenon DEF ChangeRow
    <3>2. \A q \in Rows \ {r} : r2[q] = row[q]  BY Typed DEF Inv
    <3> QED  BY <3>1, <3>2 DEF Until
  <2>1. /\ UNCHANGED token
        /\ handler'[h].at = handler[h].at /\ handler'[h].changed = handler[h].changed \cup {r}
        /\ \A g \in Handlers \ {h} : handler'[g] = handler[g]
        /\ handler[h].at \in {"live", "stale"}
    BY <1>4 DEF ChangeRow, Inv, TypeOK
  <2>2. unannounced' = IF handler[h].at = "stale" THEN unannounced \cup {r} ELSE unannounced
    BY <1>4 DEF ChangeRow
  <2> QED  BY <1>0, <2>a, <2>1, <2>2 DEF Inv, Watched, Looks
<1> QED  BY <1>1, <1>2, <1>3, <1>4

\* Claims that a retired worker gives back are unannounced.
LEMMA RetiredKeepWatch ==
  ASSUME Inv, NEW r \in Rows, RetiredCommits(r) \/ RetiredLeaves(r) PROVE Watched'
<1>0. UNCHANGED <<worker, token, handler>>  BY DEF RetiredCommits, RetiredLeaves
<1>1. CASE RetiredCommits(r)
  <2>1. /\ unannounced' = unannounced \cup {r}
        /\ \A q \in Rows \ {r} : row'[q] = row[q] /\ Until(q)' = Until(q)
    BY <1>1 DEF RetiredCommits, Inv, TypeOK, Until
  <2> QED  BY <1>0, <2>1 DEF Inv, Watched, Looks
<1>2. CASE RetiredLeaves(r)
  <2>1. UNCHANGED unannounced /\ \A q \in Rows : row'[q].due = row[q].due /\ Until(q)' = Until(q)
    BY <1>2, Typed DEF RetiredLeaves, Inv, Row, Until
  <2> QED  BY <1>0, <2>1 DEF Inv, Watched, Looks
<1> QED  BY <1>1, <1>2

\* The invariant is inductive: every step keeps it.
LEMMA InvStep == Inv /\ [Next]_vars => Inv'
<1> SUFFICES ASSUME Inv, [Next]_vars PROVE Inv'  OBVIOUS
<1>1. TypeOK'  BY TypeStep DEF Inv
<1>2. ASSUME NEW w \in Workers,
             \/ \E r \in Rows : ClaimDue(w, r)
             \/ NothingDue(w) \/ CommitClaim(w) \/ TakeToken(w) \/ TimerFires(w) \/ Fail(w)
      PROVE  Watched'
  <2>1. worker'[w].at \in {"busy", "idle", "step", "backoff"}
    <3>1. \A state : Go(w, state) => worker'[w] = state  BY DEF Go, Inv, TypeOK
    <3>2. ASSUME NEW r \in Rows, ClaimDue(w, r) PROVE worker'[w].at = "busy"
      BY <3>1, <3>2 DEF ClaimDue
    <3>3. CASE NothingDue(w)  BY <3>1, <3>3 DEF NothingDue
    <3>4. CASE CommitClaim(w) \/ TakeToken(w) \/ TimerFires(w)
      BY <3>1, <3>4 DEF CommitClaim, TakeToken, TimerFires
    <3>5. CASE Fail(w)  BY <3>1, <3>5 DEF Fail
    <3> QED  BY <1>2, <3>2, <3>3, <3>4, <3>5
  <2> QED  BY <1>1, <2>1, AwakeWatches
<1>3. ASSUME NEW w \in Workers, Wait(w) PROVE Watched'
  <2>1. worker[w].at = "resting" /\ worker'[w].at = "asleep" /\ worker'[w].until = worker[w].until
    BY <1>3, Typed, WorkerShape DEF Wait, Go, Inv, TypeOK
  <2>2. /\ UNCHANGED <<row, token, handler, unannounced>> /\ \A v \in Workers \ {w} : worker'[v] = worker[v]
        /\ \A r \in Rows : Until(r)' = Until(r)
    BY <1>3 DEF Wait, Go, Inv, TypeOK, Until
  <2> QED  BY <2>1, <2>2 DEF Inv, Watched, Looks
<1>4. ASSUME Swap PROVE Watched'
  <2>1. PICK w \in Workers : TRUE  BY Numbers
  <2>2. worker'[w].at = "step"  BY <1>4 DEF Swap, Stepping
  <2> QED  BY <1>1, <2>2, AwakeWatches
<1>5. ASSUME UNCHANGED vars PROVE Watched'
  BY <1>5 DEF vars, Inv, Watched, Looks, Until
<1>6. Watched'
  BY <1>1, <1>2, <1>3, <1>4, <1>5, TickKeepsWatch, NextDueKeepsWatch, RequestsKeepWatch, RetiredKeepWatch
     DEF Next, WorkerStep
<1> QED  BY <1>1, <1>6 DEF Inv

\* Every state a run reaches satisfies the invariant.
LEMMA Invariant == Spec => []Inv
  BY InitInv, InvStep, PTL DEF Spec

-----------------------------------------------------------------------------
(* What follows                                                              *)

\* The types of the scheduler's state: no timer runs longer than a poll or a
\* lease, so WaitUntil is bounded.
THEOREM TypeCorrect == Spec => []TypeOK
<1>1. Inv => TypeOK  BY DEF Inv
<1> QED  BY <1>1, Invariant, PTL

\* While a row can be claimed a worker is awake, about to wake or backing off, or
\* the wake-up is still to come; only unannounced changes wait for a timer (Run's
\* workers, Wake, NextDue).
THEOREM NobodySleepsOn == Spec => []NobodyOversleeps
<1>1. Inv => NobodyOversleeps
  <2> SUFFICES ASSUME Inv, NEW r \in Rows \ unannounced, Claimable(r), ~token,
                      ~ \E h \in Handlers : handler[h].at = "live" /\ r \in handler[h].changed
               PROVE  \E w \in Workers : worker[w].at \in {"resting", "asleep"} => worker[w].until = 0
    BY DEF NobodyOversleeps
  <2>1. Until(r) = 0 /\ row[r].due # Never
    BY Typed, Numbers DEF Inv, Claimable
  <2>2. PICK w \in Workers : Looks(w, 0)
    BY <2>1 DEF Inv, Watched
  <2>3. worker[w].at \in {"resting", "asleep"} => worker[w].until \in Nat
    BY Typed, WorkerShape, WaitsAre DEF Inv
  <2> QED  BY <2>2, <2>3 DEF Looks
<1> QED  BY <1>1, Invariant, PTL
=============================================================================

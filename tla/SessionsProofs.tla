--------------------------- MODULE SessionsProofs ---------------------------
(***************************************************************************)
(* What Sessions guarantees for any number of sessions, requests and       *)
(* addresses, any capacity and any durations the constants may have.       *)
(*                                                                         *)
(* Sessions rest on the compare-and-swap: a request that renews a session  *)
(* still finds the expiry it read, and it read one that was due.  Bans     *)
(* rest on the table's bound: only a full table evicts, and a table that   *)
(* is full after the purge is one that the purge left alone.               *)
(***************************************************************************)
EXTENDS Sessions, FiniteSetTheorems, TLAPS

-----------------------------------------------------------------------------
(* The invariant                                                             *)

Held == {s \in Sids : session[s] # NoSession}

\* The sessions of the table are finitely many and were all handed out.
TableOfSessions == IsFiniteSet(Held) /\ Held \subseteq issued

\* A request renews a session that was due when the request read it.
RenewalsDue ==
  \A r \in Requests : request[r].at = "refreshing" => RefreshDue(request[r].now, request[r].expected)

\* Nobody is counted from the future, and who reached the limit is banned for the
\* rest of the window at least.
Counted(attempt) ==
  /\ attempt.windowStart <= clock
  /\ attempt.failures = loginFailureLimit => attempt.bannedUntil >= attempt.windowStart + loginWindow

\* A table of failed logins, bounded.
Logins(table) ==
  /\ table \in [Addresses -> Attempt \union {NoAttempt}]
  /\ IsFiniteSet(Known(table)) /\ Cardinality(Known(table)) <= capacity
  /\ \A a \in Known(table) : Counted(table[a])

Inv == TypeOK /\ TableOfSessions /\ RenewalsDue /\ Logins(logins) /\ UsedSessionsLast

-----------------------------------------------------------------------------
(* Failed logins                                                             *)

\* The constants are numbers, and no attempt is NoAttempt.
LEMMA Numbers ==
  /\ ttl \in Nat /\ refreshInterval \in Nat /\ 1 <= refreshInterval /\ refreshInterval < ttl
  /\ capacity \in Nat /\ capacity > 0
  /\ loginWindow \in Nat /\ loginBanDuration \in Nat /\ loginBanDuration >= loginWindow
  /\ loginFailureLimit \in Nat /\ loginFailureLimit >= 1 /\ MaxClock \in Nat
  /\ NoSession \notin Times /\ NoAttempt \notin Attempt
  BY SessionsAssumption

\* What the fields of an attempt are.
LEMMA AttemptShape ==
  ASSUME NEW x \in Attempt
  PROVE  /\ x # NoAttempt
         /\ x.failures \in Nat /\ 1 <= x.failures /\ x.failures <= loginFailureLimit
         /\ x.windowStart \in 0..MaxClock /\ x.touchedAt \in 0..MaxClock
         /\ x.bannedUntil \in 0..(MaxClock + loginBanDuration)
  BY Numbers DEF Attempt

\* Forgetting addresses keeps a table of failed logins one.
LEMMA Forget ==
  ASSUME NEW t, Logins(t), NEW u \in [Addresses -> Attempt \union {NoAttempt}],
         \A a \in Addresses : u[a] = t[a] \/ u[a] = NoAttempt
  PROVE  Logins(u) /\ Known(u) \subseteq Known(t)
<1>1. Known(u) \subseteq Known(t)  BY DEF Known
<1>2. IsFiniteSet(Known(u)) /\ Cardinality(Known(u)) <= Cardinality(Known(t))
  BY <1>1, FS_Subset DEF Logins
<1>3. Cardinality(Known(u)) <= capacity
  BY <1>2, FS_CardinalityType, Numbers DEF Logins
<1>4. \A a \in Known(u) : u[a] = t[a]  BY DEF Known
<1> QED  BY <1>1, <1>2, <1>3, <1>4 DEF Logins

\* So does writing down an attempt, where there is room for it.
LEMMA WriteDown ==
  ASSUME NEW t, Logins(t), NEW a \in Addresses, NEW x \in Attempt, Counted(x),
         a \in Known(t) \/ Cardinality(Known(t)) < capacity
  PROVE  Logins([t EXCEPT ![a] = x]) /\ Known([t EXCEPT ![a] = x]) = Known(t) \cup {a}
<1> DEFINE u == [t EXCEPT ![a] = x]
<1>1. u \in [Addresses -> Attempt \union {NoAttempt}]  BY DEF Logins
<1>2. Known(u) = Known(t) \cup {a}  BY AttemptShape DEF Known, Logins
<1>3. IsFiniteSet(Known(u)) /\ Cardinality(Known(u)) <= capacity
  <2>1. IsFiniteSet(Known(t)) /\ Cardinality(Known(t)) \in Nat /\ Cardinality(Known(t)) <= capacity
    BY FS_CardinalityType DEF Logins
  <2>2. /\ IsFiniteSet(Known(t) \cup {a})
        /\ Cardinality(Known(t) \cup {a}) = IF a \in Known(t) THEN Cardinality(Known(t)) ELSE Cardinality(Known(t)) + 1
    BY <2>1, FS_AddElement
  <2> HIDE DEF u
  <2> QED  BY <1>2, <2>1, <2>2, Numbers
<1>4. \A b \in Known(u) : Counted(u[b])  BY <1>2 DEF Logins, Known
<1> QED  BY <1>1, <1>2, <1>3, <1>4 DEF Logins

\* The purge forgets addresses, and none that is banned.
LEMMA Purge ==
  ASSUME Inv
  PROVE  /\ Logins(purgeLoginAttempts)
         /\ Known(purgeLoginAttempts) \subseteq Known(logins)
         /\ \A a \in Addresses : purgeLoginAttempts[a] \in {logins[a], NoAttempt}
         /\ \A a \in Addresses : Banned(logins, a) =>
              Banned(purgeLoginAttempts, a) /\ purgeLoginAttempts[a] = logins[a]
<1>1. \A a \in Addresses : purgeLoginAttempts[a] \in {logins[a], NoAttempt}
  BY DEF purgeLoginAttempts
<1>2. purgeLoginAttempts \in [Addresses -> Attempt \union {NoAttempt}]
  BY DEF purgeLoginAttempts, Inv, TypeOK
<1>3. Logins(purgeLoginAttempts) /\ Known(purgeLoginAttempts) \subseteq Known(logins)
  BY <1>1, <1>2, Forget DEF Inv
<1>4. ASSUME NEW a \in Addresses, Banned(logins, a)
      PROVE  purgeLoginAttempts[a] = logins[a]
  <2>1. logins[a] \in Attempt /\ clock < logins[a].bannedUntil  BY <1>4 DEF Banned, Inv, TypeOK
  <2>2. ~Stale(logins[a])  BY <2>1, AttemptShape, Numbers DEF Stale, Inv, TypeOK
  <2> QED  BY <2>2 DEF purgeLoginAttempts
<1> QED  BY <1>1, <1>3, <1>4 DEF Banned

\* The count of an address that is not banned stays within the limit, because the
\* ban for reaching it lasts no less than the window.
LEMMA FailureCounted ==
  ASSUME Inv, NEW a \in Addresses, ~Banned(purgeLoginAttempts, a)
  PROVE  FailedAttempt(a) \in Attempt /\ Counted(FailedAttempt(a))
<1> DEFINE old == purgeLoginAttempts[a]
           counting == old # NoAttempt /\ clock < old.windowStart + loginWindow
           failures == IF counting THEN old.failures + 1 ELSE 1
           start == IF counting THEN old.windowStart ELSE clock
           until == IF failures >= loginFailureLimit THEN clock + loginBanDuration ELSE 0
<1>1. old \in Attempt \union {NoAttempt} /\ clock \in 0..MaxClock
  BY Purge DEF Logins, Inv, TypeOK
<1>2. ASSUME counting
      PROVE  old.failures + 1 \in 1..loginFailureLimit /\ old.windowStart \in 0..clock
  <2>1. old \in Attempt  BY <1>1, <1>2
  <2>2. clock >= old.bannedUntil
    BY <1>1, <1>2, <2>1, AttemptShape, Numbers DEF Banned
  <2>3. Counted(old)  BY <1>2, Purge DEF Logins, Known
  <2>4. old.failures # loginFailureLimit
    BY <1>1, <1>2, <2>1, <2>2, <2>3, AttemptShape, Numbers DEF Counted
  <2> QED  BY <1>1, <2>1, <2>3, <2>4, AttemptShape, Numbers DEF Counted
<1>3. failures \in 1..loginFailureLimit /\ start \in 0..clock
  BY <1>1, <1>2, Numbers
<1>4. FailedAttempt(a) = [failures |-> failures, windowStart |-> start, bannedUntil |-> until, touchedAt |-> clock]
  BY DEF FailedAttempt
<1> HIDE DEF failures, start, counting
<1>5. until \in 0..(MaxClock + loginBanDuration)  BY <1>1, Numbers
<1>6. failures = loginFailureLimit => until >= start + loginWindow  BY <1>1, <1>3, Numbers
<1> HIDE DEF until
<1> QED  BY <1>1, <1>3, <1>4, <1>5, <1>6, Numbers DEF Attempt, Counted

\* A failed login, with or without an eviction: the new table, and who was evicted.
LEMMA LoginInvalidTable ==
  ASSUME Inv, NEW a \in Addresses, LoginInvalid(a)
  PROVE  /\ Logins(logins')
         /\ a \in Known(logins')
         /\ \A x \in Addresses \ {a} :
              \/ logins'[x] = purgeLoginAttempts[x]
              \/ /\ purgeLoginAttempts[a] = NoAttempt
                 /\ Cardinality(Known(purgeLoginAttempts)) = capacity
                 /\ x \in evictLoginAttempt(purgeLoginAttempts)
<1> DEFINE purged == purgeLoginAttempts
           full == purged[a] = NoAttempt /\ Cardinality(Known(purged)) = capacity
<1>1. Logins(purged)  BY Purge
<1>2. FailedAttempt(a) \in Attempt /\ Counted(FailedAttempt(a))
  BY FailureCounted DEF LoginInvalid
<1>3. Cardinality(Known(purged)) \in Nat  BY <1>1, FS_CardinalityType DEF Logins
<1>4. /\ full => \E b \in evictLoginAttempt(purged) : logins' = [purged EXCEPT ![b] = NoAttempt, ![a] = FailedAttempt(a)]
      /\ ~full => logins' = [purged EXCEPT ![a] = FailedAttempt(a)]
  BY DEF LoginInvalid
<1> HIDE DEF purged
<1>5. CASE ~full
  <2>1. a \in Known(purged) \/ Cardinality(Known(purged)) < capacity
    BY <1>1, <1>3, <1>5, Numbers DEF Logins, Known
  <2>2. Logins(logins') /\ Known(logins') = Known(purged) \cup {a}
    BY <1>1, <1>2, <1>4, <1>5, <2>1, WriteDown
  <2>3. \A x \in Addresses \ {a} : logins'[x] = purged[x]
    BY <1>1, <1>4, <1>5 DEF Logins
  <2> QED  BY <2>2, <2>3 DEF purged
<1>6. CASE full
  <2>1. PICK b \in evictLoginAttempt(purged) : logins' = [purged EXCEPT ![b] = NoAttempt, ![a] = FailedAttempt(a)]
    BY <1>4, <1>6
  <2>2. b \in Known(purged) /\ b \in Addresses /\ b # a  BY <1>6 DEF evictLoginAttempt, Known
  <2> DEFINE u == [purged EXCEPT ![b] = NoAttempt]
  <2>3. u \in [Addresses -> Attempt \union {NoAttempt}] /\ \A x \in Addresses : u[x] = purged[x] \/ u[x] = NoAttempt
    BY <1>1 DEF Logins
  <2>4. Logins(u) /\ Known(u) \subseteq Known(purged) /\ b \notin Known(u)
    BY <1>1, <2>2, <2>3, Forget DEF Known, Logins
  <2>5. Known(u) \subseteq Known(purged) \ {b}  BY <2>4
  <2>6. Cardinality(Known(u)) < capacity
    <3>1. IsFiniteSet(Known(purged) \ {b}) /\ Cardinality(Known(purged) \ {b}) = capacity - 1
      BY <1>1, <1>6, <2>2, FS_RemoveElement DEF Logins
    <3>2. Cardinality(Known(u)) <= capacity - 1
      <4>1. Known(u) \in SUBSET (Known(purged) \ {b})  BY <2>5
      <4>2. Cardinality(Known(u)) <= Cardinality(Known(purged) \ {b})
        BY <3>1, <4>1, FS_Subset, Zenon
      <4> QED  BY <3>1, <4>2
    <3> QED  BY <3>2, <2>4, FS_CardinalityType, Numbers DEF Logins
  <2>7. logins' = [u EXCEPT ![a] = FailedAttempt(a)]  BY <2>1
  <2> HIDE DEF u
  <2>8. Logins(logins') /\ Known(logins') = Known(u) \cup {a}
    BY <1>2, <2>4, <2>6, <2>7, WriteDown
  <2>9. \A x \in Addresses \ {a} : x = b \/ logins'[x] = purged[x]
    BY <1>1, <2>1 DEF Logins
  <2> QED  BY <1>6, <2>2, <2>8, <2>9, <2>1 DEF purged
<1> QED  BY <1>5, <1>6

-----------------------------------------------------------------------------
(* Sessions                                                                  *)

\* What a request is doing says which fields it has.
LEMMA RequestShape ==
  ASSUME NEW q \in Request
  PROVE  /\ q.at \in {"idle", "creating", "reading", "rereading", "revoking", "refreshing"}
         /\ q.at \in {"reading", "rereading", "revoking", "refreshing"} =>
              q.sid \in Sids /\ q.now \in 0..MaxClock
         /\ q.at = "refreshing" => q.expected \in Times
<1>1. CASE q \in [at : {"idle", "creating"}]  BY <1>1
<1>2. CASE q \in [at : {"reading", "rereading", "revoking"}, sid : Sids, now : 0..MaxClock]  BY <1>2
<1>3. CASE q \in [at : {"refreshing"}, sid : Sids, now : 0..MaxClock, expected : Times]  BY <1>3
<1> QED  BY <1>1, <1>2, <1>3 DEF Request

\* What each kind of request may become.
LEMMA RequestsMade ==
  /\ Idle \in Request /\ [at |-> "creating"] \in Request
  /\ \A s \in Sids, now \in 0..MaxClock :
       /\ \A at \in {"reading", "rereading", "revoking"} : [at |-> at, sid |-> s, now |-> now] \in Request
       /\ \A t \in Times : [at |-> "refreshing", sid |-> s, now |-> now, expected |-> t] \in Request
  BY DEF Idle, Request

\* The facts about the state before a step that every action's proof uses.
LEMMA Typed ==
  ASSUME TypeOK
  PROVE  /\ clock \in 0..MaxClock /\ MaxClock \in Nat
         /\ \A s \in Sids : session[s] # NoSession => session[s] \in Nat /\ session[s] \in Times
         /\ \A s \in Sids : used[s] \in 0..MaxClock
         /\ \A r \in Requests : request[r] \in Request
  BY Numbers DEF TypeOK, Times

\* Removing sessions keeps the table one of sessions.
LEMMA Remove ==
  ASSUME Inv, session' \in [Sids -> Times \union {NoSession}], UNCHANGED issued,
         \A s \in Sids : session'[s] # NoSession => session[s] # NoSession
  PROVE  TableOfSessions' /\ Cardinality(Held') <= capacity
<1>1. Held' \in SUBSET Held  BY DEF Held
<1>2. IsFiniteSet(Held') /\ Cardinality(Held') <= Cardinality(Held)
  BY <1>1, FS_Subset DEF Inv, TableOfSessions
<1>3. Cardinality(Held) \in Nat /\ Cardinality(Held) <= capacity
  BY FS_CardinalityType DEF Inv, TableOfSessions, TypeOK, Held
<1>4. Cardinality(Held') \in Nat  BY <1>2, FS_CardinalityType
<1> QED  BY <1>1, <1>2, <1>3, <1>4, Numbers DEF Inv, TableOfSessions

\* An empty table, with nobody logged in, satisfies the invariant.
LEMMA InitInv == Init => Inv
<1> SUFFICES ASSUME Init PROVE Inv  OBVIOUS
<1>1. Held = {} /\ IsFiniteSet(Held) /\ Cardinality(Held) = 0
  BY FS_EmptySet DEF Init, Held
<1>2. TypeOK
  BY <1>1, Numbers, RequestsMade DEF Init, TypeOK, Held
<1>3. Known(logins) = {}  BY DEF Init, Known
<1>4. Logins(logins)
  BY <1>3, FS_EmptySet, Numbers DEF Init, Logins
<1> QED
  BY <1>1, <1>2, <1>4 DEF Init, Inv, TableOfSessions, RenewalsDue, UsedSessionsLast, Idle

\* A step that leaves the sessions alone and moves no request to "refreshing".
LEMMA LoginsKeepInv ==
  ASSUME Inv, Logins(logins'), UNCHANGED <<clock, session, issued, used>>,
         request' \in [Requests -> Request],
         \A r \in Requests : request'[r] = request[r] \/ request'[r].at # "refreshing"
  PROVE  Inv'
<1>1. TypeOK'  BY DEF Inv, TypeOK, Logins
<1>2. TableOfSessions'  BY DEF Inv, TableOfSessions, Held
<1>3. RenewalsDue'  BY DEF Inv, RenewalsDue
<1>4. Logins(logins)'  BY DEF Logins, Counted, Known
<1> QED  BY <1>1, <1>2, <1>3, <1>4 DEF Inv, UsedSessionsLast

\* The login actions, and a restart.
LEMMA LoginStep ==
  ASSUME Inv,
         \/ \E a \in Addresses : LoginBanned(a) \/ LoginInvalid(a)
         \/ \E r \in Requests, a \in Addresses : LoginAllowed(r, a)
         \/ Restart
  PROVE  Inv'
<1>1. ASSUME NEW a \in Addresses, LoginBanned(a) PROVE Inv'
  <2> DEFINE x == [purgeLoginAttempts[a] EXCEPT !.touchedAt = clock]
  <2>1. purgeLoginAttempts[a] \in Attempt /\ a \in Known(purgeLoginAttempts) /\ Counted(purgeLoginAttempts[a])
    BY <1>1, Purge DEF LoginBanned, Banned, Logins, Known
  <2>2. x \in Attempt /\ Counted(x)
    BY <2>1, Typed DEF Attempt, Counted, Inv
  <2>3. logins' = [purgeLoginAttempts EXCEPT ![a] = x]  BY <1>1 DEF LoginBanned
  <2> HIDE DEF x
  <2>4. Logins(logins')  BY <2>1, <2>2, <2>3, Purge, WriteDown
  <2> QED  BY <1>1, <2>4, LoginsKeepInv DEF LoginBanned, Inv, TypeOK
<1>2. ASSUME NEW a \in Addresses, LoginInvalid(a) PROVE Inv'
  BY <1>2, LoginInvalidTable, LoginsKeepInv DEF LoginInvalid, Inv, TypeOK
<1>3. ASSUME NEW r \in Requests, NEW a \in Addresses, LoginAllowed(r, a) PROVE Inv'
  <2>1. Logins(purgeLoginAttempts)  BY Purge
  <2>2. logins' = [purgeLoginAttempts EXCEPT ![a] = NoAttempt]  BY <1>3 DEF LoginAllowed
  <2>3. Logins(logins')  BY <2>1, <2>2, Forget DEF Logins
  <2>4. request' \in [Requests -> Request] /\ \A q \in Requests : request'[q] = request[q] \/ request'[q].at # "refreshing"
    BY <1>3, RequestsMade DEF LoginAllowed, Inv, TypeOK
  <2> QED  BY <1>3, <2>3, <2>4, LoginsKeepInv DEF LoginAllowed
<1>4. CASE Restart
  <2>1. logins' \in [Addresses -> Attempt \union {NoAttempt}] /\ \A a \in Addresses : logins'[a] = NoAttempt
    BY <1>4 DEF Restart
  <2>2. Logins(logins')  BY <2>1, Forget DEF Inv
  <2> QED  BY <1>4, <2>2, LoginsKeepInv, RequestsMade DEF Restart, Idle
<1> QED  BY <1>1, <1>2, <1>3, <1>4

\* Time passes: what lay in the past still does.
LEMMA TickKeepsInv == Inv /\ Tick => Inv'
<1> SUFFICES ASSUME Inv, Tick PROVE Inv'  OBVIOUS
<1>1. TypeOK'  BY Typed DEF Inv, TypeOK, Tick
<1>2. Logins(logins)'
  BY AttemptShape, Typed DEF Inv, Tick, Logins, Counted, Known, TypeOK
<1> QED
  BY <1>1, <1>2 DEF Inv, Tick, TableOfSessions, Held, RenewalsDue, UsedSessionsLast

\* A new session finds room, because the transaction makes it.
LEMMA CreateKeepsInv ==
  ASSUME Inv, NEW r \in Requests, NEW s \in Sids, CreateSession(r, s)
  PROVE  Inv' /\ \A x \in issued : session'[x] = session[x] \/ session'[x] = NoSession
<1> DEFINE live == {x \in Sids : Live(x)}
           n == Cardinality(live)
<1>1. PICK kept \in kSubset(Room(n), live) :
        session' = [x \in Sids |-> CASE x = s -> clock + ttl
                                     [] x \in kept -> session[x]
                                     [] OTHER -> NoSession]
  BY DEF CreateSession
<1>2. live \in SUBSET Held  BY DEF Live, Held
<1>3. kept \in SUBSET live /\ Cardinality(kept) = Room(n)  BY <1>1 DEF kSubset
<1> HIDE DEF live
<1>4. s \notin issued /\ s \notin kept
  BY <1>2, <1>3 DEF CreateSession, Inv, TableOfSessions
<1>5. \A x \in Sids : session'[x] = IF x = s THEN clock + ttl
                                    ELSE IF x \in kept THEN session[x] ELSE NoSession
  BY <1>1, <1>4
<1>6. session' \in [Sids -> Times \union {NoSession}] /\ clock + ttl \in Times
  BY <1>1, <1>5, Typed, Numbers DEF Inv, TypeOK, Times
<1>7. Held' \in SUBSET (kept \cup {s})  BY <1>5 DEF Held
<1>8. IsFiniteSet(kept) /\ Cardinality(kept) + 1 <= capacity
  <2>1. IsFiniteSet(live) /\ n \in Nat
    BY <1>2, FS_Subset, FS_CardinalityType DEF Inv, TableOfSessions
  <2>2. IsFiniteSet(kept)  BY <1>3, <2>1, FS_Subset
  <2> HIDE DEF n
  <2>3. Room(n) + 1 <= capacity  BY <2>1, Numbers DEF Room
  <2> QED  BY <1>3, <2>2, <2>3
<1>9. IsFiniteSet(Held') /\ Cardinality(Held') <= capacity
  <2>1. /\ IsFiniteSet(kept \cup {s}) /\ Cardinality(kept \cup {s}) = Cardinality(kept) + 1
        /\ Cardinality(kept) \in Nat
    BY <1>4, <1>8, FS_AddElement, FS_CardinalityType
  <2>2. IsFiniteSet(Held') /\ Cardinality(Held') <= Cardinality(kept \cup {s})
    BY <1>7, <2>1, FS_Subset, Zenon
  <2> QED  BY <1>8, <2>1, <2>2, FS_CardinalityType, Numbers
<1>10. /\ UNCHANGED <<clock, logins>> /\ issued' = issued \cup {s}
       /\ used' = [used EXCEPT ![s] = clock] /\ request' = [request EXCEPT ![r] = Idle]
  BY DEF CreateSession, Answer
<1>11. TypeOK'
  BY <1>6, <1>9, <1>10, RequestsMade DEF Inv, TypeOK, Held
<1>12. TableOfSessions'
  <2>1. Held' \subseteq issued'
    BY <1>2, <1>3, <1>7, <1>10 DEF Inv, TableOfSessions
  <2> QED  BY <1>9, <2>1 DEF TableOfSessions
<1>13. RenewalsDue'  BY <1>10 DEF Inv, RenewalsDue, TypeOK, Idle
<1>14. UsedSessionsLast'
  BY <1>5, <1>10, Numbers, Typed DEF Inv, UsedSessionsLast, TypeOK
<1>15. Logins(logins)'  BY <1>10 DEF Inv, Logins, Counted, Known
<1>16. \A x \in issued : session'[x] = session[x] \/ session'[x] = NoSession
  BY <1>4, <1>5 DEF Inv, TypeOK
<1> QED  BY <1>11, <1>12, <1>13, <1>14, <1>15, <1>16 DEF Inv

\* A session is read: used if its renewal is not due, so well before its end.
LEMMA GetKeepsInv ==
  ASSUME Inv, NEW r \in Requests, GetSession(r) PROVE Inv'
<1> DEFINE q == request[r]
           expires == session[q.sid]
<1>1. q \in Request /\ q.at \in {"reading", "rereading"} /\ q.sid \in Sids /\ q.now \in 0..MaxClock
  BY Typed, RequestShape DEF GetSession, Inv
<1>2. UNCHANGED <<clock, session, issued, logins>>  BY DEF GetSession
<1>3. TableOfSessions' /\ Logins(logins)'
  BY <1>2 DEF Inv, TableOfSessions, Held, Logins, Counted, Known
<1>4. /\ \E new \in Request : /\ request' = [request EXCEPT ![r] = new]
                              /\ new.at = "refreshing" => RefreshDue(new.now, new.expected)
      /\ \/ UNCHANGED used
         \/ /\ used' = [used EXCEPT ![q.sid] = MaxOf(used[q.sid], q.now)]
            /\ expires # NoSession /\ ~RefreshDue(q.now, expires)
  <2>1. CASE expires = NoSession
    BY <1>1, <2>1, RequestsMade DEF GetSession, Proceed, Idle
  <2>2. CASE expires # NoSession /\ ~(q.now < expires)
    <3> DEFINE new == [at |-> "revoking", sid |-> q.sid, now |-> q.now]
    <3>1. request' = [request EXCEPT ![r] = new] /\ UNCHANGED used
      BY <2>2 DEF GetSession, Proceed
    <3>2. new \in Request  BY <1>1, RequestsMade
    <3> QED  BY <3>1, <3>2
  <2>3. CASE expires # NoSession /\ q.now < expires /\ q.at = "rereading"
    BY <2>3, RequestsMade DEF GetSession, Proceed, Idle
  <2>4. CASE expires # NoSession /\ q.now < expires /\ q.at = "reading" /\ ~RefreshDue(q.now, expires)
    BY <2>4, RequestsMade DEF GetSession, Answer, Idle
  <2>5. CASE expires # NoSession /\ q.now < expires /\ q.at = "reading" /\ RefreshDue(q.now, expires)
    <3> DEFINE new == [at |-> "refreshing", sid |-> q.sid, now |-> q.now, expected |-> expires]
    <3>1. request' = [request EXCEPT ![r] = new] /\ UNCHANGED used
      BY <2>5 DEF GetSession, Proceed
    <3>2. new \in Request  BY <1>1, <2>5, RequestsMade, Typed DEF Inv
    <3> QED  BY <2>5, <3>1, <3>2
  <2> QED  BY <1>1, <2>1, <2>2, <2>3, <2>4, <2>5
<1>5. request' \in [Requests -> Request] /\ RenewalsDue'
  BY <1>4 DEF Inv, TypeOK, RenewalsDue
<1>6. used' \in [Sids -> 0..MaxClock] /\ UsedSessionsLast'
  <2>1. CASE UNCHANGED used  BY <1>2, <2>1 DEF Inv, UsedSessionsLast, TypeOK
  <2>2. CASE /\ used' = [used EXCEPT ![q.sid] = MaxOf(used[q.sid], q.now)]
             /\ expires # NoSession /\ ~RefreshDue(q.now, expires)
    <3>1. used' \in [Sids -> 0..MaxClock]
      BY <1>1, <2>2, Typed DEF Inv, TypeOK, MaxOf
    <3>2. expires >= MaxOf(used[q.sid], q.now) + (ttl - refreshInterval)
      BY <1>1, <2>2, Typed, Numbers DEF Inv, UsedSessionsLast, RefreshDue, MaxOf
    <3>3. used'[q.sid] = MaxOf(used[q.sid], q.now) /\ \A s \in Sids \ {q.sid} : used'[s] = used[s]
      BY <1>1, <2>2 DEF Inv, TypeOK
    <3> QED  BY <1>1, <1>2, <3>1, <3>2, <3>3 DEF Inv, UsedSessionsLast
  <2> QED  BY <1>4, <2>1, <2>2
<1>7. TypeOK'  BY <1>2, <1>5, <1>6 DEF Inv, TypeOK
<1> QED  BY <1>3, <1>5, <1>6, <1>7 DEF Inv

\* A renewal that matches moves an expiry that was due by refreshInterval at least.
LEMMA RenewalAdds ==
  ASSUME Inv, NEW r \in Requests, RefreshSession(r), RefreshMatches(request[r])
  PROVE  LET q == request[r]
         IN  /\ q.sid \in Sids /\ q.now \in 0..MaxClock /\ session[q.sid] # NoSession
             /\ q.now + ttl >= session[q.sid] + refreshInterval
<1>1. request[r] \in Request /\ request[r].at = "refreshing"
  BY Typed DEF RefreshSession, Inv
<1>2. request[r].expected \in Times /\ request[r].sid \in Sids /\ request[r].now \in 0..MaxClock
  BY <1>1, RequestShape
<1>3. session[request[r].sid] = request[r].expected  BY DEF RefreshMatches
<1>4. RefreshDue(request[r].now, request[r].expected)  BY <1>1 DEF Inv, RenewalsDue
<1> QED  BY <1>2, <1>3, <1>4, Numbers DEF RefreshDue, Times

\* The compare-and-swap keeps the invariant, won or lost.
LEMMA RefreshKeepsInv ==
  ASSUME Inv, NEW r \in Requests, RefreshSession(r) PROVE Inv'
<1> DEFINE q == request[r]
<1>1. q \in Request /\ q.at = "refreshing" /\ q.sid \in Sids /\ q.now \in 0..MaxClock
  BY Typed, RequestShape DEF RefreshSession, Inv
<1>2. UNCHANGED <<clock, issued, logins>> /\ Logins(logins)'
  BY DEF RefreshSession, Inv, Logins, Counted, Known
<1>3. CASE ~RefreshMatches(q)
  <2> DEFINE new == [at |-> "rereading", sid |-> q.sid, now |-> q.now]
  <2>1. UNCHANGED <<session, used>> /\ request' = [request EXCEPT ![r] = new]
    BY <1>3 DEF RefreshSession, Proceed
  <2>2. new \in Request /\ new.at # "refreshing"  BY <1>1, RequestsMade
  <2>3. TypeOK' /\ RenewalsDue'  BY <1>2, <2>1, <2>2 DEF Inv, TypeOK, RenewalsDue
  <2> QED  BY <1>2, <2>1, <2>3 DEF Inv, TableOfSessions, Held, UsedSessionsLast
<1>4. CASE RefreshMatches(q)
  <2>1. /\ session' = [session EXCEPT ![q.sid] = q.now + ttl]
        /\ used' = [used EXCEPT ![q.sid] = MaxOf(used[q.sid], q.now)]
        /\ request' = [request EXCEPT ![r] = Idle]
    BY <1>4 DEF RefreshSession, Answer
  <2>2. session[q.sid] # NoSession /\ q.now + ttl >= session[q.sid] + refreshInterval
    BY <1>4, RenewalAdds
  <2>3. session' \in [Sids -> Times \union {NoSession}]
    BY <1>1, <2>1, Numbers DEF Inv, TypeOK, Times
  <2>4. TableOfSessions' /\ Cardinality(Held') <= capacity
    BY <1>1, <1>2, <2>1, <2>2, <2>3, Remove DEF Inv, TypeOK
  <2>5. used' \in [Sids -> 0..MaxClock] /\ request' \in [Requests -> Request] /\ RenewalsDue'
    BY <1>1, <2>1, RequestsMade DEF Inv, TypeOK, MaxOf, RenewalsDue, Idle
  <2>6. TypeOK'  BY <1>2, <2>3, <2>4, <2>5 DEF Inv, TypeOK, Held
  <2>7. UsedSessionsLast'
    <3>1. session[q.sid] \in Nat /\ used[q.sid] \in Nat /\ session[q.sid] >= used[q.sid] + (ttl - refreshInterval)
      BY <1>1, <2>2, Typed DEF Inv, UsedSessionsLast
    <3>2. q.now + ttl >= MaxOf(used[q.sid], q.now) + (ttl - refreshInterval)
      BY <1>1, <2>2, <3>1, Numbers DEF MaxOf
    <3>3. session'[q.sid] = q.now + ttl /\ used'[q.sid] = MaxOf(used[q.sid], q.now)
      BY <1>1, <2>1 DEF Inv, TypeOK
    <3>4. \A s \in Sids \ {q.sid} : session'[s] = session[s] /\ used'[s] = used[s]
      BY <2>1 DEF Inv, TypeOK
    <3> QED  BY <1>1, <3>2, <3>3, <3>4 DEF Inv, UsedSessionsLast
  <2> QED  BY <1>2, <2>4, <2>5, <2>6, <2>7 DEF Inv
<1> QED  BY <1>3, <1>4

\* Removing a session, by a request that found it expired or by a logout.
LEMMA RevokeKeepsInv ==
  ASSUME Inv, \/ \E r \in Requests : RevokeExpired(r)
              \/ \E s \in Sids : Logout(s)
  PROVE  Inv' /\ \A s \in Sids : session'[s] = session[s] \/ session'[s] = NoSession
<1>1. /\ UNCHANGED <<clock, issued, used, logins>>
      /\ \E s : RevokeSession(s)
      /\ request' = request \/ \E r \in Requests : request' = [request EXCEPT ![r] = Idle]
  BY DEF RevokeExpired, Logout, Answer
<1>2. session' \in [Sids -> Times \union {NoSession}] /\ \A s \in Sids : session'[s] = session[s] \/ session'[s] = NoSession
  BY <1>1 DEF RevokeSession, Inv, TypeOK
<1>3. request' \in [Requests -> Request] /\ RenewalsDue'
  BY <1>1, RequestsMade DEF Inv, TypeOK, RenewalsDue, Idle
<1>4. TableOfSessions' /\ Cardinality(Held') <= capacity  BY <1>1, <1>2, Remove
<1>5. TypeOK'  BY <1>1, <1>2, <1>3, <1>4 DEF Inv, TypeOK, Held
<1>6. UsedSessionsLast'  BY <1>1, <1>2 DEF Inv, UsedSessionsLast
<1>7. Logins(logins)'  BY <1>1 DEF Inv, Logins, Counted, Known
<1> QED  BY <1>2, <1>3, <1>4, <1>5, <1>6, <1>7 DEF Inv

\* A request begins.
LEMMA BeginKeepsInv ==
  ASSUME Inv, NEW r \in Requests, NEW s \in Sids, Begin(r, s) PROVE Inv'
<1> DEFINE new == [at |-> "reading", sid |-> s, now |-> clock]
<1>1. new \in Request /\ new.at # "refreshing"  BY RequestsMade, Typed DEF Inv
<1>2. request' = [request EXCEPT ![r] = new]  BY DEF Begin
<1> HIDE DEF new
<1>3. request' \in [Requests -> Request] /\ \A q \in Requests : request'[q] = request[q] \/ request'[q].at # "refreshing"
  BY <1>1, <1>2 DEF Inv, TypeOK
<1> QED  BY <1>3, LoginsKeepInv DEF Begin, Inv

\* The invariant is inductive: every step keeps it.
LEMMA InvStep == Inv /\ [Next]_vars => Inv'
<1> SUFFICES ASSUME Inv, [Next]_vars PROVE Inv'  OBVIOUS
<1>1. CASE UNCHANGED vars
  BY <1>1 DEF vars, Inv, TypeOK, TableOfSessions, Held, RenewalsDue, UsedSessionsLast, Logins,
              Counted, Known
<1> QED
  BY <1>1, TickKeepsInv, LoginStep, BeginKeepsInv, CreateKeepsInv, GetKeepsInv, RefreshKeepsInv,
     RevokeKeepsInv
     DEF Next

\* Every state a run reaches satisfies the invariant.
LEMMA Invariant == Spec => []Inv
  BY InitInv, InvStep, PTL DEF Spec

-----------------------------------------------------------------------------
(* What follows                                                              *)

\* The types of the state, the bound of the sessions table among them (Create).
THEOREM TypeCorrect == Spec => []TypeOK
<1>1. Inv => TypeOK  BY DEF Inv
<1> QED  BY <1>1, Invariant, PTL

\* A session in regular use does not expire: it is renewed before less than
\* refreshInterval short of its time to live is left (Get, shouldRefresh).
THEOREM UsedSessionsStay == Spec => []UsedSessionsLast
<1>1. Inv => UsedSessionsLast  BY DEF Inv
<1> QED  BY <1>1, Invariant, PTL

\* No request brings a session back that was removed, and a renewal adds at least
\* refreshInterval (Get, RefreshWebSession).
THEOREM GoneStaysGone == Spec => SessionsOnlyRenewed
<1> DEFINE Renewed == \A s \in issued : session'[s] # NoSession =>
             /\ session[s] # NoSession
             /\ session'[s] = session[s] \/ session'[s] >= session[s] + refreshInterval
<1>1. Inv /\ [Next]_vars => [Renewed]_vars
  <2> SUFFICES ASSUME Inv, Next, NEW s \in issued, session'[s] # NoSession, session'[s] # session[s]
               PROVE  session[s] # NoSession /\ session'[s] >= session[s] + refreshInterval
    OBVIOUS
  <2>1. s \in Sids  BY DEF Inv, TypeOK
  <2>2. PICK r \in Requests : RefreshSession(r)
    <3>1. ASSUME NEW x \in Sids, NEW r \in Requests, CreateSession(r, x) PROVE FALSE
      BY <3>1, CreateKeepsInv
    <3>2. CASE (\E r \in Requests : RevokeExpired(r)) \/ \E x \in Sids : Logout(x)
      BY <2>1, <3>2, RevokeKeepsInv
    <3> QED
      BY <3>1, <3>2 DEF Next, Tick, Restart, LoginBanned, LoginInvalid, LoginAllowed, Begin, GetSession
  <2>3. RefreshMatches(request[r])  BY <2>2 DEF RefreshSession
  <2>4. session' = [session EXCEPT ![request[r].sid] = request[r].now + ttl]
    BY <2>2, <2>3 DEF RefreshSession
  <2>5. s = request[r].sid /\ session'[s] = request[r].now + ttl
    BY <2>1, <2>4 DEF Inv, TypeOK
  <2> QED  BY <2>2, <2>3, <2>5, RenewalAdds
<1> QED  BY <1>1, Invariant, PTL DEF Spec, SessionsOnlyRenewed

\* While the process lives, a ban is cut short only where a full table has to make
\* room and nobody has been quiet for longer (AuthorizeLogin, evictLoginAttempt).
THEOREM BansRunTheirTime == Spec => BansHold
<1> DEFINE Held1 == \A a \in Addresses :
             Banned(logins, a) /\ clock' = clock /\ ~Banned(logins', a) /\ ~Restart =>
               /\ Cardinality(Known(logins)) = capacity
               /\ \E b \in Known(logins') : logins[b] = NoAttempt
               /\ \A b \in Known(logins) : logins[a].touchedAt <= logins[b].touchedAt
<1>1. Inv /\ [Next]_vars => [Held1]_vars
  <2> SUFFICES ASSUME Inv, Next, NEW a \in Addresses,
                      Banned(logins, a), clock' = clock, ~Banned(logins', a), ~Restart
               PROVE  /\ Cardinality(Known(logins)) = capacity
                      /\ \E b \in Known(logins') : logins[b] = NoAttempt
                      /\ \A b \in Known(logins) : logins[a].touchedAt <= logins[b].touchedAt
    OBVIOUS
  <2>1. Banned(purgeLoginAttempts, a) /\ purgeLoginAttempts[a] = logins[a]  BY Purge
  <2>2. PICK x \in Addresses : LoginInvalid(x)
    <3>1. ASSUME NEW x \in Addresses, LoginBanned(x) PROVE FALSE
      <4>1. logins'[a].bannedUntil = logins[a].bannedUntil /\ logins'[a] # NoAttempt
        <5>1. purgeLoginAttempts \in [Addresses -> Attempt \cup {NoAttempt}]
          BY Purge DEF Logins
        <5>2. purgeLoginAttempts[a] \in Attempt  BY <2>1, <5>1 DEF Banned
        <5>3. [purgeLoginAttempts[a] EXCEPT !.touchedAt = clock] \in Attempt
          BY <5>2, Typed DEF Inv, Attempt
        <5>4. logins'[a] = IF x = a THEN [purgeLoginAttempts[a] EXCEPT !.touchedAt = clock]
                           ELSE purgeLoginAttempts[a]
          BY <3>1, <5>1 DEF LoginBanned
        <5> QED  BY <2>1, <5>2, <5>3, <5>4, AttemptShape DEF Attempt
      <4> QED  BY <4>1 DEF Banned
    <3>2. ASSUME NEW x \in Addresses, NEW r \in Requests, LoginAllowed(r, x) PROVE FALSE
      <4>1. x # a  BY <2>1, <3>2 DEF LoginAllowed
      <4>2. logins'[a] = logins[a]
        BY <2>1, <3>2, <4>1, Purge DEF LoginAllowed, Logins
      <4> QED  BY <4>2 DEF Banned
    <3> QED
      BY <3>1, <3>2 DEF Next, Tick, Begin, CreateSession, GetSession, RefreshSession, RevokeExpired,
                        Logout, Banned
  <2>3. x # a  BY <2>1, <2>2 DEF LoginInvalid
  <2>4. logins'[a] # purgeLoginAttempts[a]
    BY <2>1 DEF Banned
  <2>5. /\ purgeLoginAttempts[x] = NoAttempt
        /\ Cardinality(Known(purgeLoginAttempts)) = capacity
        /\ a \in evictLoginAttempt(purgeLoginAttempts)
        /\ x \in Known(logins')
    BY <2>2, <2>3, <2>4, LoginInvalidTable
  <2>6. Known(purgeLoginAttempts) = Known(logins) /\ Cardinality(Known(logins)) = capacity
    <3>1. /\ IsFiniteSet(Known(logins)) /\ Cardinality(Known(logins)) <= capacity
          /\ Cardinality(Known(logins)) \in Nat
      BY FS_CardinalityType DEF Inv, Logins
    <3>2. Known(purgeLoginAttempts) \in SUBSET Known(logins)  BY Purge
    <3>3. Cardinality(Known(purgeLoginAttempts)) <= Cardinality(Known(logins))
      BY <3>1, <3>2, FS_Subset
    <3>4. Cardinality(Known(logins)) = capacity  BY <2>5, <3>1, <3>3, Numbers
    <3> QED  BY <2>5, <3>1, <3>2, <3>4, FS_Subset
  <2>7. logins[x] = NoAttempt  BY <2>5, <2>6 DEF Known
  <2>8. \A b \in Known(logins) : purgeLoginAttempts[b] = logins[b]
    BY <2>6, Purge DEF Known
  <2> QED  BY <2>1, <2>5, <2>6, <2>7, <2>8 DEF evictLoginAttempt
<1> QED  BY <1>1, Invariant, PTL DEF Spec, BansHold
=============================================================================

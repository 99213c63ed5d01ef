------------------------------ MODULE Sessions ------------------------------
(***************************************************************************)
(* Sessions and the login limiter (internal/session): a bounded table of   *)
(* sessions with a sliding expiry, which requests read, renew and remove   *)
(* in separate statements, and a bounded table of failed logins, kept in   *)
(* memory under a mutex.                                                   *)
(*                                                                         *)
(* Audiences keep the sessions of two interfaces apart and are left out;   *)
(* a session ID is random and never issued twice.                          *)
(***************************************************************************)
EXTENDS Naturals, FiniteSets, FiniteSetsExt

CONSTANTS
  Sids, Requests, Addresses,
  NoSession, NoAttempt,
  ttl, refreshInterval,
  capacity,         \* of either table
  loginWindow, loginBanDuration, loginFailureLimit,
  MaxClock          \* bound: the time at which the clock stops

Times == 0..(MaxClock + ttl)

Attempt == [failures : 1..loginFailureLimit, windowStart : 0..MaxClock,
            bannedUntil : 0..(MaxClock + loginBanDuration), touchedAt : 0..MaxClock]

ASSUME SessionsAssumption ==
  /\ NoSession \notin Times /\ NoAttempt \notin Attempt
  /\ ttl \in Nat /\ refreshInterval \in 1..(ttl - 1)
  /\ capacity \in Nat \ {0}
  /\ loginWindow \in Nat \ {0} /\ loginBanDuration \in Nat /\ loginBanDuration >= loginWindow
  /\ loginFailureLimit \in Nat \ {0}
  /\ MaxClock \in Nat

VARIABLES
  clock,
  session,  \* the sessions table: each SID's expiry
  issued,   \* history: SIDs handed out
  used,     \* history: when each session was last found valid by a request no other one overtook
  request,  \* authenticated requests being served
  logins    \* failed logins by address

vars == <<clock, session, issued, used, request, logins>>

MaxOf(a, b) == IF a >= b THEN a ELSE b

\* now is the clock as the request read it when it began.
Request == [at : {"idle", "creating"}]
             \union [at : {"reading", "rereading", "revoking"}, sid : Sids, now : 0..MaxClock]
             \union [at : {"refreshing"}, sid : Sids, now : 0..MaxClock, expected : Times]

TypeOK ==
  /\ clock \in 0..MaxClock
  /\ session \in [Sids -> Times \union {NoSession}]
  /\ Cardinality({s \in Sids : session[s] # NoSession}) <= capacity
  /\ issued \in SUBSET Sids
  /\ used \in [Sids -> 0..MaxClock]
  /\ request \in [Requests -> Request]
  /\ logins \in [Addresses -> Attempt \union {NoAttempt}]

Idle == [at |-> "idle"]

Init ==
  /\ clock = 0
  /\ session = [s \in Sids |-> NoSession]
  /\ issued = {}
  /\ used = [s \in Sids |-> 0]
  /\ request = [r \in Requests |-> Idle]
  /\ logins = [a \in Addresses |-> NoAttempt]

Tick ==
  /\ clock < MaxClock
  /\ clock' = clock + 1
  /\ UNCHANGED <<session, issued, used, request, logins>>

-----------------------------------------------------------------------------
(* Logins: AuthorizeLogin, then Create                                     *)

\* A plausible slip: a record goes as soon as its window has passed.
StaleByWindow(attempt) == clock >= attempt.windowStart + loginWindow

Stale(attempt) == clock >= attempt.bannedUntil /\ clock >= attempt.windowStart + loginWindow

purgeLoginAttempts ==
  [a \in Addresses |->
    IF logins[a] # NoAttempt /\ Stale(logins[a]) THEN NoAttempt ELSE logins[a]]

Known(table) == {a \in Addresses : table[a] # NoAttempt}

\* Ties are broken by the address.
evictLoginAttempt(table) ==
  {b \in Known(table) : \A a \in Known(table) : table[b].touchedAt <= table[a].touchedAt}

Banned(table, a) == table[a] # NoAttempt /\ clock < table[a].bannedUntil

FailedAttempt(a) ==
  LET old == purgeLoginAttempts[a]
      counting == old # NoAttempt /\ clock < old.windowStart + loginWindow
      failures == IF counting THEN old.failures + 1 ELSE 1
  IN  [failures |-> failures,
       windowStart |-> IF counting THEN old.windowStart ELSE clock,
       bannedUntil |-> IF failures >= loginFailureLimit THEN clock + loginBanDuration ELSE 0,
       touchedAt |-> clock]

LoginBanned(a) ==
  /\ Banned(purgeLoginAttempts, a)
  /\ logins' = [purgeLoginAttempts EXCEPT ![a].touchedAt = clock]
  /\ UNCHANGED <<clock, session, issued, used, request>>

LoginInvalid(a) ==
  LET purged == purgeLoginAttempts
      full == purged[a] = NoAttempt /\ Cardinality(Known(purged)) = capacity
  IN  /\ ~Banned(purged, a)
      /\ IF full
         THEN \E b \in evictLoginAttempt(purged) :
                logins' = [purged EXCEPT ![b] = NoAttempt, ![a] = FailedAttempt(a)]
         ELSE logins' = [purged EXCEPT ![a] = FailedAttempt(a)]
      /\ UNCHANGED <<clock, session, issued, used, request>>

Live(s) == session[s] # NoSession /\ clock < session[s]

\* A login that passed is on its way to Create.
LoginAllowed(r, a) ==
  /\ request[r] = Idle
  /\ ~Banned(purgeLoginAttempts, a)
  /\ request' = [request EXCEPT ![r] = [at |-> "creating"]]
  /\ logins' = [purgeLoginAttempts EXCEPT ![a] = NoAttempt]
  /\ UNCHANGED <<clock, session, issued, used>>

Answer(r) == request' = [request EXCEPT ![r] = Idle]

\* A plausible slip: room is made only when the table is already too full.
RoomForAll(live) == IF live <= capacity THEN live ELSE capacity

Room(live) == IF live < capacity THEN live ELSE capacity - 1

\* One transaction: expired sessions go, then those that expire first, until
\* the new one fits.
CreateSession(r, s) ==
  LET live == {x \in Sids : Live(x)}
  IN  /\ request[r].at = "creating" /\ s \notin issued
      /\ \E kept \in kSubset(Room(Cardinality(live)), live) :
           /\ \A x \in live \ kept, y \in kept : session[x] <= session[y]
           /\ session' = [x \in Sids |-> CASE x = s -> clock + ttl
                                          [] x \in kept -> session[x]
                                          [] OTHER -> NoSession]
      /\ issued' = issued \union {s}
      /\ used' = [used EXCEPT ![s] = clock]
      /\ Answer(r)
      /\ UNCHANGED <<clock, logins>>

-----------------------------------------------------------------------------
(* Requests: Get, one statement at a time                                  *)

Begin(r, s) ==
  /\ request[r] = Idle /\ s \in issued
  /\ request' = [request EXCEPT ![r] = [at |-> "reading", sid |-> s, now |-> clock]]
  /\ UNCHANGED <<clock, session, issued, used, logins>>

\* A plausible slip: renewed only shortly before the end.
RefreshLate(now, expires) == now >= expires - refreshInterval

RefreshDue(now, expires) == now >= expires - (ttl - refreshInterval)

Proceed(r, at) == request' = [request EXCEPT ![r] = at] /\ UNCHANGED used

\* A request that lost the renewal to another takes what it finds.
GetSession(r) ==
  LET q == request[r]
      expires == session[q.sid]
      found == expires # NoSession
      valid == found /\ q.now < expires
  IN  /\ q.at \in {"reading", "rereading"}
      /\ \/ ~found /\ Proceed(r, Idle)
         \/ found /\ ~valid /\ Proceed(r, [at |-> "revoking", sid |-> q.sid, now |-> q.now])
         \/ valid /\ q.at = "rereading" /\ Proceed(r, Idle)
         \/ valid /\ q.at = "reading" /\ ~RefreshDue(q.now, expires)
            /\ Answer(r) /\ used' = [used EXCEPT ![q.sid] = MaxOf(@, q.now)]
         \/ valid /\ q.at = "reading" /\ RefreshDue(q.now, expires)
            /\ Proceed(r, [at |-> "refreshing", sid |-> q.sid, now |-> q.now, expected |-> expires])
      /\ UNCHANGED <<clock, session, issued, logins>>

\* A plausible slip: a row is written whether or not there is one.
UpsertRefresh(q) == session[q.sid] \in {q.expected, NoSession}

RefreshMatches(q) == session[q.sid] = q.expected

\* The compare-and-swap; a request that loses it reads again.
RefreshSession(r) ==
  LET q == request[r]
  IN  /\ q.at = "refreshing"
      /\ \/ /\ RefreshMatches(q)
            /\ session' = [session EXCEPT ![q.sid] = q.now + ttl]
            /\ used' = [used EXCEPT ![q.sid] = MaxOf(@, q.now)]
            /\ Answer(r)
         \/ /\ ~RefreshMatches(q)
            /\ Proceed(r, [at |-> "rereading", sid |-> q.sid, now |-> q.now])
            /\ UNCHANGED session
      /\ UNCHANGED <<clock, issued, logins>>

RevokeSession(s) == session' = [session EXCEPT ![s] = NoSession]

RevokeExpired(r) ==
  /\ request[r].at = "revoking"
  /\ RevokeSession(request[r].sid)
  /\ Answer(r)
  /\ UNCHANGED <<clock, issued, used, logins>>

Logout(s) ==
  /\ session[s] # NoSession
  /\ RevokeSession(s)
  /\ UNCHANGED <<clock, issued, used, request, logins>>

-----------------------------------------------------------------------------
\* A restart forgets requests and failed logins, but no session.
Restart ==
  /\ request' = [r \in Requests |-> Idle]
  /\ logins' = [a \in Addresses |-> NoAttempt]
  /\ UNCHANGED <<clock, session, issued, used>>

Next ==
  \/ Tick \/ Restart
  \/ \E a \in Addresses : LoginBanned(a) \/ LoginInvalid(a)
  \/ \E r \in Requests, a \in Addresses : LoginAllowed(r, a)
  \/ \E r \in Requests, s \in Sids : Begin(r, s) \/ CreateSession(r, s)
  \/ \E r \in Requests : GetSession(r) \/ RefreshSession(r) \/ RevokeExpired(r)
  \/ \E s \in Sids : Logout(s)

Spec == Init /\ [][Next]_vars

-----------------------------------------------------------------------------
(* Properties                                                              *)

\* A session that was logged out, evicted or found expired stays gone, whatever
\* requests of its owner were under way, and a session is renewed at most once
\* per refreshInterval and never cut short, however many requests race to do it.
SessionsOnlyRenewed ==
  [][\A s \in issued :
       session'[s] # NoSession =>
         /\ session[s] # NoSession
         /\ session'[s] = session[s] \/ session'[s] >= session[s] + refreshInterval]_vars

\* The expiry slides: a session in regular use does not expire, for it outlives
\* its last use by all but refreshInterval of its time to live.
UsedSessionsLast ==
  \A s \in Sids : session[s] # NoSession => session[s] >= used[s] + (ttl - refreshInterval)

\* A ban runs its time: it ends early only with the process, or when a full
\* table makes room for another address and none has been quiet for longer.
BansHold ==
  [][\A a \in Addresses :
       Banned(logins, a) /\ clock' = clock /\ ~Banned(logins', a) /\ ~Restart =>
         /\ Cardinality(Known(logins)) = capacity
         /\ \E b \in Known(logins') : logins[b] = NoAttempt
         /\ \A b \in Known(logins) : logins[a].touchedAt <= logins[b].touchedAt]_vars
=============================================================================

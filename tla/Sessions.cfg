\* Two SIDs in a table of one, two racing requests, two addresses.
SPECIFICATION Spec
CONSTANTS
  Sids = {s1, s2}
  Requests = {r1, r2}
  Addresses = {a1, a2}
  NoSession = NoSession
  NoAttempt = NoAttempt
  ttl = 4
  refreshInterval = 1
  capacity = 1
  loginWindow = 2
  loginBanDuration = 3
  loginFailureLimit = 3
  MaxClock = 5
SYMMETRY Symmetry
INVARIANTS
  TypeOK
  UsedSessionsLast
PROPERTIES
  SessionsOnlyRenewed
  BansHold
CHECK_DEADLOCK FALSE

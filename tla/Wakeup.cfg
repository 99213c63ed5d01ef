\* Two rows, two workers (the code has four), one request; a lease outlives a
\* poll, as three minutes do 15 seconds.
SPECIFICATION FairSpec
CONSTANTS
  Rows = {r1, r2}
  Workers = {w1, w2}
  Handlers = {h1}
  NoWorker = none
  pollInterval = 1
  leaseDuration = 2
INVARIANTS
  TypeOK
  NobodyOversleeps
PROPERTIES
  DueIsClaimed

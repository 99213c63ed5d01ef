SPECIFICATION Spec
CONSTANTS
  Hash = {h1}
  Worker = {w1}
  Version = {v1, v2, v3}
  Magnet = {}
  Legacy = {}
  Intents = {"submit", "delete", "retry"}
  CloudFaults = {}
  LocalFaults = {}
  Losses = {}
  StaleTargets <- States
  SlowFilesystem = FALSE
SYMMETRY WorkersAndVersions
CHECK_DEADLOCK FALSE
INVARIANTS
  RowsValid

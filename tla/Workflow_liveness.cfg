SPECIFICATION FairSpec
CONSTANTS
  Hash = {h1}
  Worker = {w1}
  Version = {v1, v2, v3}
  Magnet = {h1}
  Legacy = {h1}
  Intents = {"pause", "cancel", "delete", "retry"}
  CloudFaults = {"temporary", "rejected"}
  LocalFaults = {"denied"}
  Losses = {"claim"}
  StaleTargets = {"SUBMITTING_COPY"}
  SlowFilesystem = FALSE
CHECK_DEADLOCK FALSE
PROPERTIES
  ActiveSettles
  CleanupSettles
  ForeignContentKeptButByPause

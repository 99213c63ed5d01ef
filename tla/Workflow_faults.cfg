SPECIFICATION Spec
CONSTANTS
  Hash = {h1}
  Worker = {w1}
  Version = {v1, v2, v3}
  Magnet = {}
  Legacy = {h1}
  Intents = {"submit", "start", "pause", "cancel", "delete", "retry", "reverify", "relabel"}
  CloudFaults = {"temporary", "absent", "rejected", "broken"}
  LocalFaults = {"transient", "denied", "overrun"}
  Losses = {"content", "copyTask", "offlineTask", "claim"}
  StaleTargets = {}
  SlowFilesystem = FALSE
SYMMETRY WorkersAndVersions
INVARIANTS
  RowsValid
  NoStuckClaim
  QuietRowsUnleased
  NoOrphanedWork
  DeletedFilesAreGone
  IntentHonoured

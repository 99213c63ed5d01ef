SPECIFICATION Spec
CONSTANTS
  Hash = {h1}
  Worker = {w1}
  Version = {v1, v2, v3}
  Magnet = {}
  Legacy = {h1}
  Intents = {"pause"}
  CloudFaults = {}
  LocalFaults = {}
  Losses = {}
  StaleTargets = {}
  SlowFilesystem = FALSE
SYMMETRY WorkersAndVersions
CHECK_DEADLOCK FALSE
PROPERTIES
  ForeignContentKept

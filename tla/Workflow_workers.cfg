SPECIFICATION Spec
CONSTANTS
  Hash = {h1}
  Worker = {w1, w2}
  Version = {v1, v2, v3, v4}
  Magnet = {}
  Legacy = {}
  Intents = {"submit", "start", "pause", "delete"}
  CloudFaults = {}
  LocalFaults = {}
  Losses = {"claim", "copyTask"}
  StaleTargets = {}
  SlowFilesystem = FALSE
SYMMETRY WorkersAndVersions
INVARIANTS
  TypeOK
  SingleOperator
  CompletedHasContent
  PauseStopsUpstreamWork
PROPERTIES
  NoDeleteUnderLiveCopy

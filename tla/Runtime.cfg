\* Two settings, two saves that may overlap, three generations of two workers
\* (the code has four), restarts at any moment.
SPECIFICATION FairSpec
CONSTANTS
  Configs = {c1, c2}
  NoConfig = none
  Saves = {s1, s2}
  WorkerCount = 2
  MaxGenerations = 3
INVARIANTS
  TypeOK
  StoreOutlivesWorkers
  OneGenerationRuns
  SavedIsServed
PROPERTIES
  NoFalseAlarm
  ShutdownEnds

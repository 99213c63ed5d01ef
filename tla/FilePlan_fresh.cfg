\* Two files of equal or different sizes, neither ever given the manifest name of the other.
SPECIFICATION Spec
CONSTANTS
  d = d
  e = e
  a = a
  b = b
  c = c
  r1 = r1
  r2 = r2
  Files <- TwoFiles
  Paths <- MCPaths
  Original <- TwoOriginals
  Sizes <- TwoSizes
  Targets <- FreshTargets
  NoFile = NoFile
  Requests <- TwoRequests
  MaxCrashes = 2
  MaxDisturbed = 1
INVARIANTS
  TypeOK
  NamesTellContent
  PlanConverges
PROPERTIES
  LostOnlyByExclusion
SYMMETRY Symmetry
CHECK_DEADLOCK FALSE

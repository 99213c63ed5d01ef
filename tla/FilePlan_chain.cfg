\* Two files, any name of the torrent free for either, and nothing goes wrong.
SPECIFICATION Spec
CONSTANTS
  d = d
  e = e
  a = a
  b = b
  c = c
  r1 = r1
  r2 = r2
  Files <- TwoFiles
  Paths <- MCPaths
  Original <- TwoOriginals
  Sizes <- TwoSizes
  Targets <- AllTargets
  NoFile = NoFile
  Requests <- TwoRequests
  MaxCrashes = 0
  MaxDisturbed = 0
PROPERTIES
  RecheckAccepts
SYMMETRY Symmetry
CHECK_DEADLOCK FALSE

\* Two workers, one endpoint, one download and the endpoint's own lane.
SPECIFICATION Spec
CONSTANTS
  Endpoints = {e1}
  Downloads = {h1}
  Workers = {w1, w2}
  Subscribable = {"completed"}
  NoClaim = NoClaim
  MaxEvents = 2
  MaxAttempts = 2
  MaxFaults = 1
  MaxReplays = 1
INVARIANTS
  TypeOK
  OnePostPerLane
  PostsAreCurrent
PROPERTIES
  KeepsPromise
  DeliverySettles
CHECK_DEADLOCK FALSE

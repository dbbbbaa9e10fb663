SPECIFICATION Spec
CONSTANTS
  d1 = d1
  d2 = d2
  Device = {d1, d2}
  h1 = h1
  h2 = h2
  Hash = {h1, h2}
  NoHash = NoHash
  QueryFails = FALSE
  QueueStops = TRUE
  Refuses = FALSE
  MaxRuns = 4
  MaxSessions = 3
SYMMETRY Symmetry
INVARIANTS NoInheritedData
CHECK_DEADLOCK FALSE

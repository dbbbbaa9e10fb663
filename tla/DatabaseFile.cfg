SPECIFICATION Spec
CONSTANTS
  d1 = d1
  d2 = d2
  d3 = d3
  Device = {d1, d2, d3}
  h1 = h1
  h2 = h2
  Hash = {h1, h2}
  NoHash = NoHash
  QueryFails = FALSE
  QueueStops = TRUE
  Refuses = FALSE
  MaxRuns = 6
  MaxSessions = 3
SYMMETRY Symmetry
INVARIANTS TypeOK OwnDevice SameHash OneRowPerHash RecordedInThisRun EndedIsClosed
PROPERTIES KeepsRecording
CHECK_DEADLOCK FALSE

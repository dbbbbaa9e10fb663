SPECIFICATION RecorderSpec
CONSTANTS
  c1 = c1
  c2 = c2
  Conn = {c1, c2}
  h1 = h1
  h2 = h2
  Hash = {h1, h2}
  NoHash = NoHash
  d1 = d1
  Device = {d1}
  Strict = TRUE
  WithDatabase = TRUE
  QueueStops = TRUE
  PushResults <- Reliable
  MaxQueue = 2
  MaxRuns = 2
  MaxSessions = 2
SYMMETRY Symmetry
INVARIANTS HandlersMeet DataKept OneOpen EndComing
PROPERTIES RequestOrder SampleStored
CHECK_DEADLOCK FALSE

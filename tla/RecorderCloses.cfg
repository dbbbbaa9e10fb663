SPECIFICATION FairRecorder
CONSTANTS
  c1 = c1
  c2 = c2
  Conn = {c1, c2}
  h1 = h1
  Hash = {h1}
  NoHash = NoHash
  d1 = d1
  Device = {d1}
  Strict = FALSE
  WithDatabase = TRUE
  QueueStops = FALSE
  PushResults <- Reliable
  MaxQueue = 2
  MaxRuns = 1
  MaxSessions = 2
PROPERTIES Closes SilentDropped
CHECK_DEADLOCK FALSE

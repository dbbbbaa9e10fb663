SPECIFICATION FairSpec
CONSTANTS
  c1 = c1
  c2 = c2
  Conn = {c1, c2}
  h1 = h1
  Hash = {h1}
  NoHash = NoHash
  Strict = FALSE
  WithDatabase = FALSE
  QueueStops = FALSE
  PushResults <- Reliable
  MaxQueue = 2
PROPERTIES LanesStopped
CHECK_DEADLOCK FALSE

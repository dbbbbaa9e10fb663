SPECIFICATION FairSpec
CONSTANTS
  c1 = c1
  c2 = c2
  Conn = {c1, c2}
  h1 = h1
  h2 = h2
  Hash = {h1, h2}
  NoHash = NoHash
  Strict = TRUE
  WithDatabase = TRUE
  QueueStops = FALSE
  PushResults <- Reliable
  MaxQueue = 2
PROPERTIES Reattaches StrictStops
CHECK_DEADLOCK FALSE

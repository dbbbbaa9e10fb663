SPECIFICATION FairLanes
CONSTANTS
  c1 = c1
  c2 = c2
  Conn = {c1, c2}
  h1 = h1
  h2 = h2
  Hash = {h1, h2}
  NoHash = NoHash
  Config <- TwoConfigs
  Strict = FALSE
  WithDatabase = FALSE
  QueueStops = FALSE
  PushResults <- Reliable
  MaxQueue = 2
INVARIANTS LanesTypeOK SummaryAgrees SourcesCurrent StoppedSoon
PROPERTIES TicksAsk Polled
CHECK_DEADLOCK FALSE

SPECIFICATION Spec
CONSTANTS
  c1 = c1
  c2 = c2
  c3 = c3
  Conn = {c1, c2, c3}
  h1 = h1
  h2 = h2
  Hash = {h1, h2}
  NoHash = NoHash
  Strict = TRUE
  WithDatabase = TRUE
  QueueStops = TRUE
  PushResults <- Reliable
  MaxQueue = 2
SYMMETRY Symmetry
INVARIANTS TypeOK Recovers Supervised DbRequestsCurrent Attributed LanesCurrent
CHECK_DEADLOCK FALSE

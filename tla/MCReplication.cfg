CONSTANTS
  n1 = n1
  n2 = n2
  n3 = n3
  Nodes = {n1, n2, n3}
  Keys = {k1}
  Writes = {w1, w2}
  ReplicationFactor = 3
  FanoutThreshold = 0
  MaxSeen = 10
  Fillable = {n3}
  Lossy = TRUE
  CoarseClock = FALSE
  MaxStamp = 2
  MaxChurn = 2
  Starts <- MCStarts
SPECIFICATION LiveSpec
INVARIANTS TypeOK PendingExact QuorumHeld
PROPERTIES AppliedOnce PutAlwaysReturns
CHECK_DEADLOCK FALSE

SPECIFICATION Spec
CONSTANTS
  Addrs = {"a1", "a2", "a3", "a4", "a5"}
  Id <- MCId
  Peers <- MCPeers
  PollWorkers = {w1, w2}
  QueueSize = 1
  MaxVisitedNodes = 4
INVARIANTS QueueSafe WalkComplete
PROPERTIES WalkEnds
CHECK_DEADLOCK FALSE

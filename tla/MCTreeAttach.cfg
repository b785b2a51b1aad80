CONSTANTS
  Transients = {"t1"}
  Substrates = {"s1", "s2"}
  Conns = {"c1", "c2"}
  MaxChildren <- MCMaxChildren
  MaxFaults = 1
  MaxShutdowns = 1
SPECIFICATION LiveSpec
INVARIANTS ChildrenWatched NoAttachAfterStop
PROPERTIES OnlyHelloReplaces StopReturnsAtLast LoopFindsParent
CHECK_DEADLOCK FALSE

CONSTANTS
  Transients = {"t1"}
  Substrates = {"s1", "s2"}
  Conns = {"c1", "c2"}
  MaxChildren <- MCMaxChildren
  MaxFaults = 1
  MaxShutdowns = 1
SPECIFICATION Spec
INVARIANT AttachedOrTrying
CHECK_DEADLOCK FALSE

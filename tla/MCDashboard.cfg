SPECIFICATION LiveSpec
CONSTANTS
  Addrs = {"a1", "a2", "a3"}
  ListRoots <- MCListRoots
  SeedAddresses = {"a3"}
  MaxRootsUnreachableCycles = 2
  MaxFaults = 3
PROPERTIES GraphKept LeavesDeadRoots

SPECIFICATION LiveSpec
CONSTANTS
  Procs = {"p1", "p2"}
  Last = 3
  Targets <- MCTargets
  RootOf <- MCRootOf
  Online <- MCOnline
  Deadline <- MCDeadline
  MaxClock = 1
  MaxFaults = 1
INVARIANTS PinsCoverView NothingLost
PROPERTIES OwnSaveRevokes Implements ServesLatest

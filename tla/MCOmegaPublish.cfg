SPECIFICATION LiveSpec
CONSTANTS
  Manifests = {a}
  Roles = {"online", "targets", "root"}
  MaxReleases = 2
  MaxKeys = 2
  MaxClock = 2
  Due = 1
  TimestampLife = 2
  TargetsLife = 2
  MaxFaults = 1
INVARIANTS NeverTwice JournalLeads RepositoryComplete ReservationKept RootKeyHeld
PROPERTIES WorkFinished
CHECK_DEADLOCK FALSE

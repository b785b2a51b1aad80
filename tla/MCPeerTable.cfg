CONSTANTS
  Self = "self"
  Ids = {"self", "a", "b"}
  Origins = {"o1", "o2"}
  Enclaves = {"default", "lab"}
  MaxPingFailures = 2
  Manifests <- MCManifests
  MaxManifests = 2
SPECIFICATION LiveSpec
INVARIANTS TypeOK PinsHold FailuresBounded
PROPERTIES RouteStable DeadEvicted

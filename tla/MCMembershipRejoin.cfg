CONSTANTS
  n1 = n1
  n2 = n2
  n3 = n3
  Nodes = {n1, n2, n3}
  ReplicationFactor = 3
  Deployments <- MCDeployments
  MaxCrashes = 1
SPECIFICATION LiveSpec
PROPERTY EvictedRejoin
CHECK_DEADLOCK FALSE

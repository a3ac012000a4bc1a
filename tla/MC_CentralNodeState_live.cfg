SPECIFICATION FairSpec
CONSTANTS
  None = None
  n1 = n1
  n2 = n2
  base = base
  custom = custom
  c1 = c1
  c2 = c2
  v1 = v1
  v2 = v2
  Node = {n1, n2}
  Pool = {base, custom}
  Config = {}
  Version = {v1}
  Master = master
  Worker = base
  NodeShape <- MCBareNodeShape
  PoolShape <- MCPoolShape
  ClusterVersions <- MCClusterVersions
  Clusters <- MCClusters
  Capacity = 1
  MaxChanges = 1
PROPERTIES
  ImplementsProvider
  EventuallyUpToDate
CHECK_DEADLOCK FALSE

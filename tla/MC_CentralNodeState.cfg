SPECIFICATION Spec
CONSTANTS
  None = None
  n1 = n1
  n2 = n2
  base = base
  custom = custom
  c1 = c1
  c2 = c2
  v1 = v1
  v2 = v2
  Node = {n1}
  Pool = {base, custom}
  Config = {c1, c2}
  Version = {v1, v2}
  Master = master
  Worker = base
  NodeShape <- MCNodeShape
  PoolShape <- MCPoolShape
  ClusterVersions <- MCClusterVersions
  Clusters <- MCClusters
  Capacity = 0
  MaxChanges = 2
INVARIANTS
  TypeOK
  QuietMeansUpToDate
  CachesCatchUp
  QuietMeansCachesAgree
  UnchangedMeansSame
CHECK_DEADLOCK FALSE

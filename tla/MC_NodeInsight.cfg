SPECIFICATION FairSpec
CONSTANTS
  None = None
  n1 = n1
  n2 = n2
  p1 = p1
  Node = {n1, n2}
  Pool = {p1}
  State <- MCState
  Capacity = 1
  MaxChanges = 2
INVARIANTS
  TypeOK
  MirroredOrPending
  QuietMeansMirrored
PROPERTIES
  EventuallyMirrored
CHECK_DEADLOCK FALSE

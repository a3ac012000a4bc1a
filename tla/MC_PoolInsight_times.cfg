SPECIFICATION FairSpec
CONSTANTS
  None = None
  n1 = n1
  n2 = n2
  a = a
  b = b
  Node = {n1, n2}
  Pool = {a}
  State <- MCOnePoolState
  Capacity = 1
  MaxClock = 2
  MaxChanges = 2
PROPERTIES
  TransitionTimesKept
  EventuallySummarised
CHECK_DEADLOCK FALSE

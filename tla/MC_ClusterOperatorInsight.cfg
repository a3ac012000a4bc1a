SPECIFICATION FairSpec
CONSTANTS
  None = None
  v1 = v1
  v2 = v2
  o1 = o1
  o2 = o2
  First = v1
  Version = {v1, v2}
  Operator = {o1, o2}
  Report <- MCReport
  MaxChanges = 2
INVARIANTS
  TypeOK
  QuietMeansAssessed
  CountsAgree
PROPERTIES
  TransitionTimesKept
  EventuallyAssessed
CHECK_DEADLOCK FALSE

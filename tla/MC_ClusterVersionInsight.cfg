SPECIFICATION FairSpec
CONSTANTS
  None = None
  v1 = v1
  v2 = v2
  o1 = o1
  o2 = o2
  Version = {v1, v2}
  First = v1
  Operator = {o1, o2}
  Stale = {}
  Minute = 4
  MaxDuration = 1000000
  Timewise <- MCTimewise
  Steps = {1, 1500}
  MaxChanges = 2
INVARIANTS
  TypeOK
  QuietMeansReported
  QuietMeansDiffed
  StoredMakesSense
PROPERTIES
  TimesMoveWithWhatTheyDate
  EventuallyReported
CHECK_DEADLOCK FALSE

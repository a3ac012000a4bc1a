SPECIFICATION Spec
CONSTANTS
  None = None
  c1 = c1
  c2 = c2
  v1 = v1
  v2 = v2
  os = os
  Config = {c1, c2}
  Version = {v1, v2}
  Image = {os}
  InitialConfig = c1
  InitialVersions <- MCInitialVersions
  MaxClock = 2
  MaxChanges = 6
INVARIANTS
  TypeOK
  OneConditionOfEachType
  SecondEvaluationSettles
  HashDetectsChange
  CompletedRunsTarget
PROPERTIES
  TransitionTimesKept
CHECK_DEADLOCK FALSE

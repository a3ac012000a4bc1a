SPECIFICATION Spec
CONSTANTS
  None = None
  n1 = n1
  n2 = n2
  a = a
  b = b
  Node = {n1}
  Pool = {a, b}
  State <- MCState
  Capacity = 1
  MaxClock = 1
  MaxChanges = 2
INVARIANTS
  TypeOK
  QuietMeansSummarised
  SummarisedOrPending
CHECK_DEADLOCK FALSE

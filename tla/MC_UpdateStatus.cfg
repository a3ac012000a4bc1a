SPECIFICATION Spec
CONSTANTS
  None = None
  v1 = v1
  v2 = v2
  o1 = o1
  o2 = o2
  m1 = m1
  m2 = m2
  w1 = w1
  w2 = w2
  w3 = w3
  c1 = c1
  c2 = c2
  Version = {v1, v2}
  First = v1
  Operator = {o1, o2}
  Report <- MCReport
  Masters <- MCMasters
  Workers = {w1, w2, w3}
  Machine <- MCMachine
  Fleets <- MCFleets
  MachineVersions <- MCMachineVersions
  MaxLines = 1
  MaxChanges = 1
  Minute = 1
  MaxDuration = 1000
  Timewise <- MCTimewise
INVARIANTS
  TypeOK
  SteadyMeansTrue
  TroubleIsShown
  NothingMadeUp
  CountsClose
SYMMETRY Symmetry
CHECK_DEADLOCK FALSE

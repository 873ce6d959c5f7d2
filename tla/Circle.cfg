SPECIFICATION CircleSpec
CONSTANTS
  j1 = j1  j2 = j2  c1 = c1  c2 = c2
  Person = {j1, j2}
  Admitted = {j1}
  Tool = {1, 2}
  Defaults <- MCDefaults
  Caller = {c1}
  StartStatus = TRUE
  None = None
  MaxCalls = 2
  MaxStarts = 2
  Kinds <- AllKinds
INVARIANTS
  ChangesGoLive
  AwayPaired
PROPERTIES
  ChangesArrive
CHECK_DEADLOCK FALSE

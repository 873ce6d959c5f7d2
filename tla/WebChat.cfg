SPECIFICATION Spec
CONSTANTS
  t1 = t1
  t2 = t2
  Tab <- MCTab
  MaxId = 3
  MaxEvents = 2
  MaxCalls = 1
SYMMETRY MCSymmetry
INVARIANTS
  NoOrphans
  OnALiveSession
PROPERTIES
  FreshIsEmpty
CHECK_DEADLOCK FALSE

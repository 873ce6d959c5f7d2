SPECIFICATION Spec
CONSTANTS
  N = 5
  Kind <- MCKindsLive
  History = 1
  MaxAge = 1
  NormalizeMax = 1
  DedupTTL = 2
  MaxTime = 4
  MaxFaults = 1
  NoTime = NoTime
INVARIANTS
  NothingSkipped
  EnteredOnce
PROPERTIES
  EveryRowSettled
CHECK_DEADLOCK FALSE

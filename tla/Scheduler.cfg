SPECIFICATION ScheduleSpec
CONSTANTS
  a = a  b = b  t1 = t1  t2 = t2  c1 = c1  c2 = c2
  Name = {a, b}
  Task = {t1}
  Keep = Keep
  None = None
  Caller = {c1, c2}
  MaxCalls = 2
  MaxEarly = 1
  Horizon = 2
  MaxCrashes = 1
  Preloaded <- MCPreloaded
INVARIANTS
  Synced
  OnceRunsOnce
PROPERTIES
  MissedStaysVisible
  OnceSettles
CHECK_DEADLOCK FALSE

SPECIFICATION Spec
CONSTANTS
  c1 = c1  c2 = c2  p1 = p1  p2 = p2
  Call = {c1, c2}
  Proc = {p1, p2}
  Boot = Boot
  Slots = 1
  Threshold = 2
  Base = 1
  MaxFaults = 1
  NoCall = NoCall
  NoProc = NoProc
INVARIANTS
  OwnAudio
  OneDaemon
PROPERTIES
  CallsReturn
CHECK_DEADLOCK FALSE

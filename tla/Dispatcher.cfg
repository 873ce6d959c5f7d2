SPECIFICATION Spec
CONSTANTS
  s1 = s1  s2 = s2  m1 = m1  m2 = m2  m3 = m3
  c1 = c1  c2 = c2
  Sender = {s1, s2}
  Msg = {m1, m2, m3}
  From <- MCFrom
  Kind <- MCKind
  Chan = {c1, c2}
  Capacity = 1
  NoMsg = NoMsg
  NoChan = NoChan
  NoSender = NoSender
INVARIANTS
  NothingLostOrReordered
  OneWorkerPerSender
  CloseDrains
PROPERTIES
  CloseReturns
  Implements
CHECK_DEADLOCK FALSE

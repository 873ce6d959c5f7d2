SPECIFICATION Spec
CONSTANTS
  N = 3
  Req = {q1, q2}
  MaxFaults = 4
  NoMsg = NoMsg
INVARIANTS
  DeliveredInOrder
  DeletedWasDelivered
PROPERTIES
  QueueDrains
CHECK_DEADLOCK FALSE

SPECIFICATION Spec
CONSTANTS
  Job = {1}
  Console <- MCConsole
INVARIANTS
  EveryWiredChannel
  OneMode
PROPERTIES
  ProcessEnds
CHECK_DEADLOCK FALSE

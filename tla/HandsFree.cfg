SPECIFICATION LoopSpec
CONSTANTS
  Sentence <- MCSentence
  MaxEvents = 3
INVARIANTS
  OneVoice
  RestoresToggle
PROPERTIES
  WakeLetsGo
  AlertsEnd
CHECK_DEADLOCK FALSE

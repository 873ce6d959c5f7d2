SPECIFICATION Spec
CONSTANTS
  vip = vip  web = web  w1 = w1  w2 = w2 
  Chat = {vip, web}
  Visitor = {vip}
  Web = {web}
  Worker = {w1, w2}
  ChatOf <- MCChatOf
  MaxRounds = 3
  MaxNudges = 1
  Window = 2
  MaxTurns = 3
  MaxRestarts = 1
INVARIANTS
  WaitsIffPaused
  FreshExcused
PROPERTIES
  TurnEnds

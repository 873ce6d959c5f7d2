SPECIFICATION MonitorSpec
CONSTANTS
  mac_bridge = mac_bridge
  imessage_bridge = imessage_bridge
  Checker = {mac_bridge, imessage_bridge}
  Configured = {mac_bridge, imessage_bridge}
  DependsOn <- MCDependsOn
  None = None
  Gap = 2
  Grace = 1
  Remind = 3
  DayLength = 6
  DayStart = 2
  DayEnd = 5
INVARIANTS
  RecoveryReported
  OutageReported

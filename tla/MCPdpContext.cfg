SPECIFICATION MCFairSpec
CONSTANTS
  None = None
  Externals = {e1}
  Wlans = {w1}
  Configs <- MCConfigs
  Networks = {"home", "roaming", "none"}
  Usages = {"Disabled", "Automatic"}
  MaxTimer = 2
  MaxAttempts = 2
  Scenarios = {{"link", "others"}, {"link", "usage"}, {"network", "settings"}, {"settings", "telephony"}, {"modem", "settings"}, {"reset"}}
  MaxEvents = 1
INVARIANTS
  AlwaysAble
  RestsQuietly
  RetryInParts
PROPERTIES
  ConnectingEnds
  WaitingEnds
CHECK_DEADLOCK FALSE

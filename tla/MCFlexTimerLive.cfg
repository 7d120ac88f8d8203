SPECIFICATION FairSpec
CONSTANTS
  s1 = s1
  s2 = s2
  Sessions = {s1, s2}
  NoSession = NoSession
  None = None
  MaxTimerLength = 2
  TickModulus = 4
  MaxLatency = 1
  Lengths <- MCLengthsLive
  WindowSizes <- MCWindowsNone
  WindowNum = 1
  WindowDen = 3
  Offsets <- MCOffsets
  MaxOffset = 0
  MaxTime = 4
PROPERTIES
  ServiceGoesOn
CHECK_DEADLOCK FALSE

SPECIFICATION QueuedSpec
CONSTANTS
  s1 = s1
  s2 = s2
  s3 = s3
  Sessions = {s1, s2, s3}
  NoSession = NoSession
  None = None
  MaxTimerLength = 3
  TickModulus = 6
  MaxLatency = 1
  Lengths <- MCLengthsLive
  WindowSizes <- MCWindowsNone
  WindowNum = 1
  WindowDen = 3
  Offsets <- MCOffsetsChange
  MaxOffset = 1
  MaxTime = 4
SYMMETRY Symmetry
INVARIANT
  WakeUpCoversDeadlines
PROPERTIES
  ServiceSteps
CHECK_DEADLOCK FALSE

SPECIFICATION MCSpec
CONSTANTS
  s1 = s1
  s2 = s2
  i1 = i1
  i2 = i2
  Sessions = {s1, s2}
  Iaps = {i1, i2}
  First = i1
  Listener = s1
  MaxStarts = 2
  MaxTimers = 2
  Scenarios = {"stop"}
INVARIANT
  CompletedIsClosed
CHECK_DEADLOCK FALSE

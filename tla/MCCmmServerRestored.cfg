SPECIFICATION Spec
CONSTANTS
  s1 = s1
  s2 = s2
  None = None
  Sessions <- MCSessions
  Cms <- MCCms
  Dests <- MCDests
  MaxTemp = 1
  Values = {"a", "b"}
  NumSlots = 2
  Scenarios = {"cm"}
  Stored <- MCStored
  Requests <- MCRequests
INVARIANT ValidCanBeOpened
CHECK_DEADLOCK FALSE

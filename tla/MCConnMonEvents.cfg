CONSTANTS
  s1 = s1
  s2 = s2
  c1 = c1
  Sessions = {s1, s2}
  Connections = {c1}
  Kinds = {"downlink", "activity"}
  Flags = {"availability", "group"}
  FlagValues = {0, 1, 2}
  EventTypes = {"created", "bearerInfo", "activity"}
  QueueSize = 2
  Thresholds = {0, 4, 7}
  Amounts = {4, 7}
  Minimum <- MCMinimum
  MaxTime = 4
  MaxRequests = 3
  MaxDataTime = 2
SPECIFICATION MCSpec
SYMMETRY Symmetry
CONSTRAINT RequestsBound
INVARIANTS
  TypeOK
  WaitingUpToDate
  QueueKeeps
  PluginFollows
  ThresholdsServed
PROPERTIES
  SentInOrder
CHECK_DEADLOCK FALSE

SPECIFICATION Spec
SYMMETRY Symmetry
CONSTANTS
  s1 = s1
  s2 = s2
  None = None
  Sessions <- MCSessions
  Cms <- MCCms
  Dests <- MCDests
  MaxTemp = 1
  Values = {"a", "b"}
  NumSlots = 2
  Scenarios = {"cm", "new", "dest", "destroy", "embed", "edit", "move", "outside", "connected"}
  Stored <- MCStored
  Requests <- MCRequests
INVARIANTS
  StructuresCounted
  MappingFollowsDb
  StoredIsWhole
  UnchangedHandlesAgree
  LoadedIsCurrent
CHECK_DEADLOCK FALSE

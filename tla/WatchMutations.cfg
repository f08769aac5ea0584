SPECIFICATION Spec
CONSTANTS
  Players = {p1, p2}
  Connections = {c1, c2, c3}
  OwnerHandle = OwnerHandle
  None = None
  MaxRevision = 2
SYMMETRY Interchangeable
CHECK_DEADLOCK FALSE
PROPERTIES MutationsReachWatchers

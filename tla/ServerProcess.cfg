SPECIFICATION MCSpec
CONSTANTS
  Players = {p1, p2}
  Connections = {c1, c2, c3}
  OwnerHandle = OwnerHandle
  None = None
  MaxRevision = 1
  MediaReads = {m1, m2, m3, m4}
  MaxBytes = 4
  Pids = {1, 2, 3}
  MaxHangups = 2
  Levels = {l1, l2}
  Reads = {r1, r2}
  Writes = {s1}
  Slots = 1
  MaxArt = 2
  MaxUnits = 2
SYMMETRY Interchangeable
CHECK_DEADLOCK FALSE
INVARIANTS CountIsCurrent BudgetIsExact NobodyWaitsInVain NeverStranded ServedBesideItsDocument FreshAsAsked EveryWaitIsServed

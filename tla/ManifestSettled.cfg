SPECIFICATION Spec
CONSTANTS
  Levels = {l1}
  Reads = {r1, r2}
  Writes = {}
  Slots = 1
  None = None
  MaxArt = 1
  MaxUnits = 2
CHECK_DEADLOCK FALSE
INVARIANTS OnePassBehind

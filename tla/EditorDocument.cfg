SPECIFICATION Spec
CONSTANTS
  Pages = {p1, p2}
  Fields = {f1, f2}
  None = None
  UserActs = {"save", "discard", "leave", "unload", "publish"}
  MaxRevision = 5
  MaxEvents = 3
SYMMETRY PageFieldSymmetry
CHECK_DEADLOCK FALSE
INVARIANTS CleanMeansPublished RevisionNamesBody NothingTypedIsLost
PROPERTIES IndependentWorkSurvives

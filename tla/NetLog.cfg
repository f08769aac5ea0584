SPECIFICATION Spec
CONSTANTS
  Users = {u1, u2}
  Levels = {keep}
  Contents = {calm}
  TimedContents = {}
  Intents = {1, 2, 3}
  Gestures = {"quiet", "odd"}
  Outcomes <- AllOutcomes
  None = None
  Playable <- SkewedPlayable
  Verdict <- SkewedVerdict
  Host = u1
  Guest = u2
  Level = keep
  Content = calm
  PlayerTabs = {p1}
  EnemyTabs = {e1}
  Unreliable = {"post", "stream", "read"}
  UserActs = {"resign"}
  MaxMoves = 2
  MaxEntries = 2
  MaxFaults = 1
CHECK_DEADLOCK FALSE
INVARIANTS TypeOK BoardsArePrefixes ConclusionHasPrefix

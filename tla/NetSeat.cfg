SPECIFICATION Spec
CONSTANTS
  Users = {u1, u2}
  Levels = {keep}
  Contents = {calm}
  TimedContents = {}
  Intents = {1, 2, 3}
  Gestures = {"skewed"}
  Outcomes <- AllOutcomes
  None = None
  Playable <- SkewedPlayable
  Verdict <- SkewedVerdict
  Host = u1
  Guest = u2
  Level = keep
  Content = calm
  PlayerTabs = {p1, p2}
  EnemyTabs = {e1}
  Unreliable = {"server", "leave"}
  UserActs = {"unmount", "leave"}
  MaxMoves = 1
  MaxEntries = 2
  MaxFaults = 1
CHECK_DEADLOCK FALSE
INVARIANTS InFlightIsJournaled ConcessionIsDeliberate

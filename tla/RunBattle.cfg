SPECIFICATION Spec
CONSTANTS
  Units = {pawn, rook}
  NoUnit = NoUnit
  None = None
  Purses <- MCPurses
  Manubiae <- MCManubiae
  MaxMoves = 3
  MaxReloads = 2
CHECK_DEADLOCK FALSE
INVARIANTS PurseFollowsBoard UndoIsOneDecision
PROPERTIES EnemyAnswers

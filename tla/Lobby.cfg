SPECIFICATION MCSpec
CONSTANTS
  Users = {u1, u2, u3}
  Ids = {a, b}
  Levels = {keep, moor}
  Contents = {calm, clock}
  TimedContents = {clock}
  Intents = {i1, i2, i3}
  Gestures = {g1}
  Outcomes <- TwoOutcomes
  None = None
  Unread = Unread
  Watchers = {u1, u2, u3}
  MaxMoves = 2
  MaxRevision = 6
  MaxRequests = 2
SYMMETRY LobbySymmetry
CHECK_DEADLOCK FALSE
INVARIANTS OneActiveLobbyPerUser StreamsArePrivate LogWellFormed OutcomeJustified PinnedMatch RevisionIdentifiesState
PROPERTIES EveryChangeIsRevised DroppedOnlyWhenDone MatchIsFinal ImplementsMatchAuthority

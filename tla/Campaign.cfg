SPECIFICATION Spec
CONSTANTS
  War <- MCWar
  Kings <- MCKings
  Cards <- MCCards
  Pieces <- MCPieces
  Cost <- MCCost
  Fee <- MCFee
  KingBonus <- MCKingBonus
  Lipsana <- MCLipsana
  Payout <- MCPayout
  Shopkey = "key"
  Ledger = "ledger"
  Rifle = "rifle"
  OfferCount = 1
  RevealCount = 2
  SpeedBonus = {0, 30}
  Tributes = {0}
  MaxRerolls = 1
  None = None
CHECK_DEADLOCK FALSE
INVARIANTS EveryUnitIsSeated KingTakesTheField BankedAsReported VisitBalances LipsanaAccounted

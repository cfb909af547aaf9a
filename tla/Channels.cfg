SPECIFICATION FairSpec
CONSTANTS
  c1 = c1
  c2 = c2
  hourly = hourly
  Call = {c1, c2, hourly}
  Hourly = hourly
  MaxTurns = 1
INVARIANTS  BanHolds
PROPERTY ModeratorFollows

SPECIFICATION Spec
CONSTANTS
  r1 = r1
  r2 = r2
  Rounds <- TwoRounds
  NumProfiles = 2
  LastWindow = 2
  StorageFaults = FALSE
  MaxFaults = 0
  Movers = {}
  MaxMoves = 0
PROPERTY TicksOnlyWhenPeriodDiffers

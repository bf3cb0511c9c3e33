SPECIFICATION Spec
CONSTANTS
  r1 = r1
  r2 = r2
  Rounds <- TwoRounds
  NumProfiles = 1
  LastWindow = 1
  StorageFaults = FALSE
  MaxFaults = 1
  Movers = {}
  MaxMoves = 0
INVARIANT RestartNeverDoubleTicks

SPECIFICATION Spec
CONSTANTS
  r1 = r1
  r2 = r2
  Rounds <- TwoRounds
  NumProfiles = 2
  LastWindow = 1
  StorageFaults = TRUE
  MaxFaults = 1
  Movers = {1}
  MaxMoves = 2
INVARIANTS
  TypeOK
  MarkedMeansLived
  OnceUnlessInterrupted
PROPERTIES
  CatchesUp
  LivedIsTold

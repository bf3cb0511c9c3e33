SPECIFICATION Spec
CONSTANTS
  c1 = c1
  r1 = r1
  Chats <- ChatActors
  Rounds <- RoundActors
  MaxCursor = 2
  MaxEntries = 3
  MaxGeneration = 3
INVARIANTS
  TypeOK
  RollbackReady
  CheckpointsExact
  CausallyClosed
  LandsWhereItWasAsked
PROPERTIES
  NothingRevives
  RefinesTimeline

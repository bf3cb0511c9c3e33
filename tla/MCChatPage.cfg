SPECIFICATION Spec
CONSTANTS
  p1 = p1
  p2 = p2
  a1 = a1
  a2 = a2
  m1 = m1
  m2 = m2
  i1 = i1
  i2 = i2
  None = None
  Profiles <- TwoProfiles
  Agents <- TwoAgents
  FirstProfile = p1
  FirstAgent = a1
  Messages <- TwoMessages
  Polls <- TwoPolls
  Cursors <- TwoCursors
  MaxViews = 4
  MaxMoves = 1
  MaxFailures = 1
CHECK_DEADLOCK FALSE
INVARIANTS
  TypeOK
  ShowsWhatIsSelected
  LockedWhileBusy
PROPERTIES
  Unlocks
  StoryCatchesUp

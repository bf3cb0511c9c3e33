SPECIFICATION Spec
CONSTANTS
  c1 = c1
  n1 = n1
  p1 = p1
  p2 = p2
  t1 = t1
  l1 = l1
  s1 = s1
  s2 = s2
  Catalogs <- ThreeCatalogs
  Summaries <- TwoSummaries
  KnownToHer <- OneSummary
  Chats <- OneChat
  Notes <- NoNotes
  NoteK = 1
  PlotEvents <- TwoPlots
  Steps <- OneStep
  Legacy <- OneLegacy
  TopK = 1
  LineWindow = 1
  LoreTopK = 1
  RecallK = 1
  StaleDays = 1
  LastDay = 3
  LastCursor = 2
  MaxFailures = 1
INVARIANT RetiresOnlyUnused

SPECIFICATION Spec
CONSTANTS
  c1 = c1
  c2 = c2
  r1 = r1
  r2 = r2
  Chats <- TwoChats
  OutOfCharacter <- Strays
  HistoryWindow = 3
  Rounds <- TwoRounds
  LastTime = 2
  Quiet <- Nights
  Gap = 1
  MaxUnanswered = 2
  MaxClears = 2
  MaxMoves = 1
  MaxFailures = 1
SYMMETRY Symmetry
INVARIANTS
  TypeOK
  MirrorIsTable
  ReportedIsStored
  StoredIsRemembered
  EntryWasSaid
  GapKept
PROPERTIES
  PromptHoldsReported
  FreshContext
  RefinesDialogue

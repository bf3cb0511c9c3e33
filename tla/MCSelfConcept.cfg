SPECIFICATION Spec
CONSTANTS
  left = left
  right = right
  a1 = a1
  a2 = a2
  b1 = b1
  Processes <- TwoProcesses
  Movers <- OnlyLeft
  Reconcilers <- OnlyLeft
  Attempts <- ThreeAttempts
  ProcessOf <- Owner
  MaxRevision = 2
  MaxMoves = 3
INVARIANTS
  TypeOK
  DecidedOnce
PROPERTIES
  ReplacesOnlyWhatItRead
  RefinesRegister

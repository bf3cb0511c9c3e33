SPECIFICATION Spec
CONSTANTS
  sonnet = sonnet
  retired = retired
  k1 = k1
  k2 = k2
  master = master
  guest = guest
  friend = friend
  n1 = n1
  n2 = n2
  None = None
  Unreadable = Unreadable
  Torn = Torn
  Models <- TwoModels
  Buildable <- InCatalog
  Keys <- TwoKeys
  ProfileIds <- ThreeProfiles
  DefaultId = master
  Names <- TwoNames
  DefaultName = n1
  MaxFailures = 2
  MaxCrashes = 3
CHECK_DEADLOCK FALSE
INVARIANTS
  TypeOK
  ServedIsStored
  KeyKept
  CreatedIsListed
  OneNameEach
PROPERTIES
  StartsAgain

CONSTANTS
  Seals = {"inturn", "noturn"}
  Difficulty <- MCDifficulty
  GenesisDifficulty = 0
  Epoch = 1
  MaxNumber = 3
  Torn = Torn
  DiskErrors = TRUE
  MaxRecords = 5
  NoStore = NoStore
SPECIFICATION ChainSpec
INVARIANTS
  ChainTypeOK
  ReplayRebuilds
  RestartRestores
  CanonicalIndex
  BranchesKnown
  HeaviestHead
  EpochPointers

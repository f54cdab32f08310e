CONSTANTS
  n1 = n1
  n2 = n2
  Nodes = {n1, n2}
  Links <- MCLinks
  InTurn <- MCInTurn
  Chains <- MCChains
  MaxNumber = 3
  MaxSyncBlocks = 2
  MaxOwn <- MCMaxOwn
SPECIFICATION LiveSpec
INVARIANT SyncAdopts
PROPERTIES
  SessionsEnd
  Converges
  StoresImplementForkChoice
CHECK_DEADLOCK FALSE

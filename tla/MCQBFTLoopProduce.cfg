CONSTANTS
  v1 = v1
  v2 = v2
  NoHeader = NoHeader
  Validators = {v1, v2}
  SignerList <- MCSignerList
  ChannelSize = 10
  Lag = 2
  MaxHeight = 2
  MaxRound = 1
  QuietHeights = {1}
SPECIFICATION ProdSpec
INVARIANT CommittedChain
CHECK_DEADLOCK FALSE

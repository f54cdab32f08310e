CONSTANTS
  v1 = v1
  v2 = v2
  NoHeader = NoHeader
  Validators = {v1, v2}
  SignerList <- MCSignerList
  ChannelSize = 8
  Lag = 2
  MaxHeight = 2
  MaxRound = 1
  QuietHeights = {1}
SPECIFICATION ProgressSpec
INVARIANTS
  EchoHasRoom
  OwnVotesKept
  CommittedChain
  AtMostOneBehind
  ChainsAgree
  NoStall
CHECK_DEADLOCK FALSE

CONSTANTS
  s1 = s1
  s2 = s2
  s3 = s3
  s4 = s4
  p1 = p1
  p2 = p2
  NoSnap = NoSnap
  Seals <- MCSeals4
  Difficulty <- MCDifficulty
  GenesisDifficulty = 0
  Epoch = 2
  MaxNumber = 3
  SignerList <- MCList4
  Me = s1
  Producers = {p1}
  MaxKnown = 4
SPECIFICATION NodeSpec
INVARIANT KnownBlocksWait

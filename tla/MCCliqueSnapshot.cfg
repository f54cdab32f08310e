CONSTANTS
  a = a
  b = b
  c = c
  d = d
  NoAddress = NoAddress
  Addresses = {a, b, c, d}
  GenesisSigners = {a, b, c}
  Epoch = 6
  MaxNumber = 10
SPECIFICATION Spec
SYMMETRY MCSymmetry
INVARIANTS
  TypeOK
  TallyCountsVotes
  VotesAreLive
PROPERTIES
  SignerChanges
  SignersWait
CHECK_DEADLOCK FALSE

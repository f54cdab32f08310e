CONSTANTS
  a = a
  b = b
  c = c
  d = d
  NoAddress = NoAddress
  Addresses = {a, b, c, d}
  GenesisSigners = {a, b, c, d}
  Epoch = 20
  MaxNumber = 9
SPECIFICATION Spec
INVARIANT ClearedSignersApply
CHECK_DEADLOCK FALSE

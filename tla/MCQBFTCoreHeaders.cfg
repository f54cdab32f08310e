CONSTANTS
  v1 = v1
  v2 = v2
  v3 = v3
  v4 = v4
  NoBlock = NoBlock
  Validators = {v1, v2, v3, v4}
  SignerList <- MCList4
  Height = 0
  MaxRound = 0
  Payloads = {"p"}
  Unreliable = {}
  Detailed = {v3, v4}
  MaxBacklog = 16
  Redelivery = TRUE
CONSTRAINT MCNoTimeout
SPECIFICATION CoreSpec
INVARIANT IdenticalHeaders
CHECK_DEADLOCK FALSE

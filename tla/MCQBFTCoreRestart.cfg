CONSTANTS
  v1 = v1
  v2 = v2
  v3 = v3
  v4 = v4
  NoBlock = NoBlock
  Validators = {v1, v2}
  SignerList <- MCList2
  Height = 0
  MaxRound = 1
  Payloads = {"p", "q"}
  Unreliable = {v2}
  Detailed = {v2}
  MaxBacklog = 16
  Redelivery = TRUE
SPECIFICATION CoreSpec
INVARIANTS CoreTypeOK MapsBacked NextRoundKeepsCommitted
PROPERTY Spec
CHECK_DEADLOCK FALSE

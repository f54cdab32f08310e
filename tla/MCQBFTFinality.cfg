CONSTANTS
  v1 = v1
  v2 = v2
  v3 = v3
  v4 = v4
  NoBlock = NoBlock
  Validators = {v1, v2, v3, v4}
  SignerList <- MCList4
  Height = 0
  MaxRound = 2
  Payloads = {"p"}
  Unreliable = {}
CONSTRAINT MCProposerLeft
SPECIFICATION Spec
INVARIANT Finality
CHECK_DEADLOCK FALSE

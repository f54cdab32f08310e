CONSTANTS
  v1 = v1
  v2 = v2
  v3 = v3
  v4 = v4
  NoBlock = NoBlock
  Validators = {v1, v2, v3}
  SignerList <- MCList3
  Height = 0
  MaxRound = 1
  Payloads = {"p", "q"}
  Unreliable = {v1}
SPECIFICATION Spec
INVARIANTS IndInv RoundAgreement RoundChangeCarriesCommit
CHECK_DEADLOCK FALSE

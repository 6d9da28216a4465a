SPECIFICATION MCSpec
CONSTANTS
  Chain = {c1}
  ChainIdentity = c0
  Resource = {r1}
  MaxNonce = 0
  MaxEpoch = 1
  None = None
  Account = {a1, a2, a3}
  MaxThreshold = 3
  OwnAccount = {}
  OwnMaxThreshold = 1
  DepositNonce = {1}
  Call = {k1, k2}
  Outcome = {TRUE}
  ProposalLifetime = 2
  MaxBlock = 4
  RSymbol = {rdot}
  PropId = {h1}
  RCall = {k1}
  RMaxBlock = 3
  Pool = {p1, p2}
  Voter = {v1}
  MaxEra = 2
  EraCall = {1, 2}
  MaxAmount = 3
  Gain = {1}
  Active = {1}
  Commission = {9}
  PerbillBase = 10
  Duration = {1}
  SkipsWithdraw = FALSE
  MayClear = FALSE
  RateBase = 2
  RateLimit = 64
  AmountLimit = 1024
  LimbLimit = 1
PROPERTIES EveryProposalCloses EveryProposalDecided EveryEraCompletes
CHECK_DEADLOCK FALSE

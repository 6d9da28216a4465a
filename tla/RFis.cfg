SPECIFICATION FairSpec
CONSTANTS
  None = None
  RateBase = 2
  RateLimit = 4
  AmountLimit = 17
  LimbLimit = 1
  Pool = {p1, p2}
  FirstPool = p1
  User = {u1}
  Receiver = receiver
  Bridge = bridge
  Validator = {n1}
  MAX_ONBOARD_VALIDATORS = 0
  BondingDuration = 1
  ExistentialDeposit = 1
  PerbillBase = 10
  CommissionPart = {6}
  UnbondPart = {3}
  NominationNum = {1}
  BalanceLimit = {0}
  SwapFee = {0}
  Value = {2}
  Reward = {1}
  Total = {1, 5}
  MaxPending = 2
  MaxStake = 4
  MaxEra = 2
INVARIANTS Solvent UnbondsCovered NomineesNotShared
CHECK_DEADLOCK FALSE
PROPERTY EraGetsRate

SPECIFICATION MCSpec
CONSTANTS
  ExistentialDeposit = 1
  User = {a, b}
  SwapAccount = swap
  MiningAccount = mining
  None = None
  TokenLimit = 1000
  SwapAmount = {1, 3}
  PoolAmount = {2, 3}
  Units = {1, 2}
  UserNative = 5
  UserTokens = 4
  Float = 1
  MiningFund = 3
  REWARD_FACTOR = 2
  StakeAmount = {1, 2}
  StartBlock = {0}
  StakeLock = {0}
  RewardPerBlock = {1}
  TotalReward = {2, 3}
  Guard = {1}
  MaxIndex = 1
  MaxGrade = 2
  MaxStakes = 1
  MaxBlock = 2
  Share = 2
INVARIANTS PoolBacked StakesAddUp RewardsCovered
PROPERTY UnitValueKept
SYMMETRY Symmetry
CHECK_DEADLOCK FALSE

SPECIFICATION MCSpec
CONSTANTS
  ExistentialDeposit = 1
  Swapper = {u}
  Payer = {p, q}
  Fund = fund
  NativePool = pool
  Unset = Unset
  DeskTokenLimit = 100
  SwapRateBase = 2
  RtokenRate = {3}
  Lock = {0, 1}
  SwapRate = {2}
  DeskFee = {0, 1}
  Limit = {1, 2}
  DeskReserve = {4, 9}
  RtokenIn = {2}
  StartNative = 3
  StartRtokens = 4
  Signature = {s, t}
  ProposalId = {prop}
  MaxPayerThreshold = 2
  LastBlock = 2
  MaxSwaps = 2
  Minter = {a, b}
  Rewarder = rewarder
  FundAccount = fund
  Missing = Missing
  ActBegin = {1, 3}
  ActEnd = {2, 4}
  ActReward = {3, 4}
  UserLimit = {0}
  LockedBlocks = {2, 3}
  RewardRate = {3}
  ClaimRateBase = 2
  MintValue = {2}
  FundNative = 7
  MaxActs = 2
  MaxMints = 1
  MaxClaimBlock = 4
  Claimant = {c, d}
  Proxy = {x}
  Pot = pot
  XTokenLimit = 7
  ClaimValue = {1, 2}
  PotTokens = 2
INVARIANTS DealtByQuorum LatestBlockIsDealt ActBudget NeverAheadOfSchedule PotCoversClaims
SYMMETRY Symmetry
CHECK_DEADLOCK FALSE

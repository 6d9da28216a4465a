SPECIFICATION MCSpec
CONSTANTS
  Chain = {c1}
  ChainIdentity = c0
  Resource = {n, r1, x1}
  MaxNonce = 2
  MaxEpoch = 1
  None = None
  User = {u1}
  Bridge = bridge
  Recipient = recipient
  NativeTokenId = n
  RSymbol = {rfis, reth}
  RETH = reth
  XSymbol = {xs}
  RResource = {r1}
  XResource = {x1}
  Fee = {1, 2}
  Value = {1}
  StartTokens = 2
  NativeGrant = 6
  Reserve = 2
  RecipientFunds = 0
  ExistentialDeposit = 2
  TokenLimit = 16
  Account = {a1}
  Pool = {p1}
  Relayer = {v1, v2}
  Proposal = {t1}
  Validator = {n1}
  MAX_UNLOCKING_CHUNKS = 4
  MIN_UNLOCKING_CHUNKS = 2
  Duration = {1, 2}
  Limit = {2}
  Threshold = {1, 2}
  MaxEra = 3
  MaxNominees = 1
  SignedEra = {2}
  Unset = Unset
  Owner = {o1, o2}
  Bonder = {b1, b2}
  MaxAttested = 1
INVARIANTS BothSidesConserved PendingChunksAreListed EnoughIsAnnounced SignatureIsForOneAccount
PROPERTY TakenOnlyIfSent

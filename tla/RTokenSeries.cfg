SPECIFICATION Spec
CONSTANTS
  BondId <- BondIdMC
  TxOf <- TxOfMC
  Chain = {c0, c1}
  ChainIdentity = c0
  Resource = {r1}
  MaxNonce = 2
  MaxEpoch = 2
  None = None
  Fee = {1}
  RefundPeriod = {2}
  Reserve = 2
  ExistentialDeposit = 1
  MaxBlock = 2
INVARIANTS NoncesNumberTheTransfers DepositMintedOnce FeesCovered
PROPERTY SentSwapIsClosed

SPECIFICATION Spec
CONSTANTS
  Chain = {c1}
  ChainIdentity = c0
  Resource = {r1}
  MaxNonce = 0
  MaxEpoch = 1
  None = None
  Account = {a1, a2, a3}
  MaxThreshold = 3
  OwnAccount = {b1}
  OwnMaxThreshold = 1
  DepositNonce = {1}
  Call = {k1}
  Outcome = {TRUE, FALSE}
  ProposalLifetime = 2
  MaxBlock = 3
INVARIANT QuorumBehindExecution
PROPERTY ImplementsPromise
SYMMETRY Symmetry

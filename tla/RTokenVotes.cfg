SPECIFICATION Spec
CONSTANTS
  RSymbol = {rdot}
  Account = {a1, a2, a3}
  MaxThreshold = 3
  PropId = {h1}
  Call = {k1}
  ProposalLifetime = 2
  MaxBlock = 3
  None = None
INVARIANT ApprovalHasQuorum
PROPERTY RejectedOnlyIfHopeless
SYMMETRY Symmetry

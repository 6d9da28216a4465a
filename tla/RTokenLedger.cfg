SPECIFICATION MCSpec
CONSTANTS
  None = None
  RateBase = 2
  RateLimit = 64
  AmountLimit = 1024
  LimbLimit = 1
  Pool = {p1, p2}
  Voter = {v1}
  MaxEra = 2
  EraCall = {1, 2}
  MaxAmount = 4
  SmallAmount = 2
  Steady = 1
  Gain = {1}
  Active = {0, 2}
  Commission = {9}
  PerbillBase = 10
  Duration = {1}
  SkipsWithdraw = TRUE
  MayClear = TRUE
INVARIANTS ListsMatchStates PipelineCoversSnapshot
PROPERTIES SnapshotsMoveForward RateCountsEveryPool EraRateIsFinal
SYMMETRY Symmetry

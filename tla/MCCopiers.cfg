SPECIFICATION FairSpec
CONSTANTS
  VecBytes = 2
  Sizes = {0, 1, 4, 7, 9}
  ThreadCounts = {1, 2, 3}
  CountRange = 64
  Mapped = 24
INVARIANTS
  CopyComplete
  WithinBuffer
  PartsDisjoint
PROPERTY CopyReturns

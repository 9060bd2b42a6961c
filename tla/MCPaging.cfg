SPECIFICATION FairSpec
CONSTANTS
  NULL = NULL
  Ids = {1, 2, 3, 4}
  Times = {1, 2}
  AskedLimits <- Limits
  MaxLimit = 2
INVARIANTS NothingTwice NothingSkipped
PROPERTY WalkEnds

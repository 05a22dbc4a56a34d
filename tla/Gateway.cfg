SPECIFICATION FairSpec
CONSTANTS
  u1 = u1
  Users = {u1}
  Chunks <- MCChunks
  MaxAttempts = 2
  MaxChanges = 1
  MaxDrops = 1
INVARIANTS TypeOK TableTrue DownMeansRest HeardCurrent HealthyKept NoOpenAfterClose
PROPERTIES OutageEnds
CHECK_DEADLOCK FALSE

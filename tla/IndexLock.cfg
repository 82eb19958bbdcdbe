SPECIFICATION FairSpec
CONSTANTS
  r1 = r1
  EmptyFile = EmptyFile
  w2 = w2
  w1 = w1
  Writers = {w1, w2}
  Refreshers = {r1}
  Vals <- MCVals
  Breakers = {w1}
  StaleAge = 2
  SlowHolders = FALSE
  Crashes = TRUE
INVARIANTS LockTypeOK CommitIsCurrent
PROPERTIES NoLostUpdate LeavesNoLock LockFreed

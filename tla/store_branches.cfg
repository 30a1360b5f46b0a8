SPECIFICATION Spec
CONSTANTS
  b1 = b1
  b2 = b2
  d1 = d1
  d2 = d2
  o1 = o1
  o2 = o2
  None = None
  Branches <- TwoBranches
  Dirs = {d1, d2}
  Dir <- OwnDirs
  LastRevision = 1
  MaxAttempts = 2
  Observers = {o1}
INVARIANTS StoreInv NoCommitSwallowed FailsAtCeiling

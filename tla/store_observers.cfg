SPECIFICATION Spec
CONSTANTS
  b1 = b1
  b2 = b2
  d1 = d1
  d2 = d2
  o1 = o1
  o2 = o2
  None = None
  Branches <- OneBranch
  Dirs = {d1}
  Dir <- OneDir
  LastRevision = 2
  MaxAttempts = 1
  Observers = {o1, o2}
SYMMETRY Symmetric
INVARIANTS StoreInv NoCommitSwallowed
PROPERTIES RangeImmutable RecordsWriteOnce ImplementsLedger

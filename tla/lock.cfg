SPECIFICATION FairSpec
CONSTANTS
  p1 = p1
  p2 = p2
  p3 = p3
  None = None
  Processes = {p1, p2, p3}
  Gone = {p3}
  Modes <- BothModes
INVARIANTS LockInv OneHolder UpdatesKept
PROPERTY DeadLockGoes

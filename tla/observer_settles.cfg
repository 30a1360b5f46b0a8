SPECIFICATION SupervisedSpec
CONSTANTS
  l1 = l1
  l2 = l2
  None = None
  Layers = {l1}
  LastRevision = 1
  MaxAttempts = 2
  MaxFaults = 1
  Obedient = FALSE
  Budgeted = TRUE
INVARIANT ObserverInv
PROPERTIES ImplementsStore RangeSettles

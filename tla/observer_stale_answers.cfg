SPECIFICATION Spec
CONSTANTS
  l1 = l1
  l2 = l2
  None = None
  Layers = {l1}
  LastRevision = 1
  MaxAttempts = 2
  MaxFaults = 0
  Obedient = TRUE
  Budgeted = TRUE
INVARIANT AnswersOfThisAttempt

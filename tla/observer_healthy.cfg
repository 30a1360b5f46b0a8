SPECIFICATION HealthySpec
CONSTANTS
  l1 = l1
  l2 = l2
  None = None
  Layers = {l1}
  LastRevision = 3
  MaxAttempts = 2
  MaxFaults = 0
  Obedient = TRUE
  Budgeted = FALSE
INVARIANT RecordAnswersItsRange
PROPERTY HeadIsReviewed

SPECIFICATION Spec
CONSTANTS
  w1 = w1
  w2 = w2
  w3 = w3
  s1 = s1
  None = None
  Workers = {w1, w2, w3}
  Supervisors = {s1}
  Gone = {w3}
  Mortal = {w1}
  Tries = 2
INVARIANT OneHostOfPromptProcesses

SPECIFICATION FairSpec
CONSTANTS
  p1 = p1
  p2 = p2
  p3 = p3
  i1 = i1
  i2 = i2
  None = None
  Other = Other
  Left = i1
  Processes = {p1, p2, p3}
  Mortal = {p1}
  Inodes = {i1, i2}
INVARIANTS SocketInv Reachable
PROPERTIES OnlyDeadUnlinked SuccessorSurvivesExit PathTaken
CHECK_DEADLOCK FALSE

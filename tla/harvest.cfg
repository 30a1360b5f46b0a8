SPECIFICATION Spec
CONSTANTS
  Layers = {"l1", "l2"}
  Heads = {"h1", "h2"}
  Bases = {"b1", "b2"}
  Bodies = {"x", "y"}
  Absent = Absent
  MaxRows = 4
INVARIANTS LoopInv NoStaleReply
CHECK_DEADLOCK FALSE

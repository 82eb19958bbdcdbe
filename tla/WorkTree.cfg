SPECIFICATION Spec
CONSTANTS
  Paths = {x, y}
  x = x
  y = y
  p1 = p1
  p2 = p2
  Procs = {p1, p2}
  Contents = {"a", "b", "empty"}
  Size <- MCSize
  Trees <- MCTrees
  First <- MCFirst
  Ops = {"status", "add", "restore", "switch"}
  Cut <- MCCut
  None = None
  MaxTick = 1
  MaxEdits = 2
  MaxRuns = 2
SYMMETRY MCSymmetry
INVARIANTS IndexInv LockedReadCurrent CommandsHonest
PROPERTIES NoEditLost
CHECK_DEADLOCK FALSE

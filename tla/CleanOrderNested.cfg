SPECIFICATION Spec
CONSTANTS
  Commands = {c1, c2}
  c1 = c1
  c2 = c2
  Smudges = {}
  Mixes <- MCNested
  N = 2
  Driver <- MCOneDriver
  None = None
  Uses <- MCScan
  Limit = 2
  Required = {"f"}
INVARIANTS NestedCleansUnordered
CHECK_DEADLOCK FALSE

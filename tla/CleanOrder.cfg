SPECIFICATION Spec
CONSTANTS
  Commands = {c1, c2}
  c1 = c1
  c2 = c2
  Smudges = {c2}
  Mixes <- MCMixes
  N = 3
  Driver <- MCDriver
  None = None
  Uses <- MCUses
  Limit = 2
  Required = {"f"}
INVARIANTS PoolInv OrderInv FirstFailureReported
PROPERTIES CommandsEnd
CHECK_DEADLOCK FALSE

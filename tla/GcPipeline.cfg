SPECIFICATION Spec
CONSTANTS
  a = a
  b = b
  Objects <- MCObjects
  Keeps <- MCKeeps
  Horizon = 3
  Grace = 2
  CruftModes = {TRUE, FALSE}
  MaxEvents = 4
SYMMETRY MCSymmetry
INVARIANTS GcInv YoungKept GcExact
CHECK_DEADLOCK FALSE

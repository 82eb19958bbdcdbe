SPECIFICATION LookupSpec
CONSTANTS
  a = a
  b = b
  r1 = r1
  r2 = r2
  Objects <- MCObjects
  Keeps <- NoKeeps
  Horizon = 2
  Grace = 2
  CruftModes = {TRUE, FALSE}
  MaxEvents = 1
  Readers = {r1, r2}
  Wanted = {a, b}
  MaxReads = 3
INVARIANTS LookupInv ReadFinds
CHECK_DEADLOCK FALSE

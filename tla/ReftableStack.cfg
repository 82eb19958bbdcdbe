SPECIFICATION Spec
CONSTANTS
  a = a
  b = b
  ax = ax
  v1 = v1
  v2 = v2
  p1 = p1
  p2 = p2
  s1 = s1
  s2 = s2
  Procs = {p1, p2}
  Sessions = {s1, s2}
  Uses <- MCUses
  Refs = {a, b, ax}
  Vals = {v1, v2}
  None = None
  NoRecord = NoRecord
  Always = Always
  NoPlan = NoPlan
  NoFile = NoFile
  Plans <- MCPlans
  Clashing <- MCClashing
  Stacks <- MCStacks
  MaxTables = 6
INVARIANTS StackInv ReadsSnapshot TableLocksGivenBack
PROPERTIES RefinesTransactions
CHECK_DEADLOCK FALSE

SPECIFICATION Spec
CONSTANTS
  a = a
  b = b
  c = c
  v1 = v1
  v2 = v2
  p1 = p1
  p2 = p2
  None = None
  Always = Always
  Procs = {p1, p2}
  Refs = {a, b, c}
  Vals = {v1, v2}
  Menus <- TwoDeleters
  Nested = {b}
PROPERTIES
  RewriteDropsOnly

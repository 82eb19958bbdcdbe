SPECIFICATION Spec
CONSTANTS
  Dags <- MCDags
  Dates = {1, 2}
  Queries <- MCQueries
  MaxLevel = 2
  Infinity = 99
  Slop = 1
INVARIANTS MergeBasesExact ListsExact MidpointBest

SPECIFICATION Spec
CONSTANTS
  Commits = {1, 2, 3, 4, 5}
  Parents <- MCParents
  Branches = {"main"}
  Tags = {"v1"}
  MadeHere = {2, 4}
  MadeThere = {3, 5}
  Capabilities <- MCCaps
  Budgets <- MCBudgets
  PushMenu <- MCPushMenu
  MaxPushes = 2
  FetchMenu <- MCFetchMenu
INVARIANTS TransferInv PackSuffices OutcomeTrue InStep
PROPERTIES DropsAllowed FetchForward
CHECK_DEADLOCK FALSE

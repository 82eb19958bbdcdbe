SPECIFICATION Spec
CONSTANTS
  Adds <- MCAdds
  Merges <- MCMerges
  Clash <- MCClash
  Builds <- MCBuilds
  Starts <- MCStarts
  Upstream <- MCUpstream
  Edits <- MCEdits
  PickLists <- MCPickLists
  RevertLists <- MCRevertLists
  MaxCommands = 4
  MaxCrashes = 1
INVARIANTS RepoInv ReplaysExact AbortRestores AutostashKept
PROPERTIES BranchMovesOnce
CHECK_DEADLOCK FALSE

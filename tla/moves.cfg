SPECIFICATION FairSpec
CONSTANTS
  Root = "root"
  Paths <- TwoTrees
  Files = {file}
  Hidden = {}
  Swapped = {}
  Inodes = {1, 2, 3, 4}
  QueueMax = 2
  Budget <- AllBudget
  None = None
  file = file
INVARIANTS TypeOK DeadForAReason
PROPERTIES CancelStops
CHECK_DEADLOCK FALSE

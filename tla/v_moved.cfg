SPECIFICATION Spec
CONSTANTS
  Root = "root"
  Paths <- Beside
  Files = {file}
  Hidden = {}
  Swapped = {}
  Inodes = {1, 2, 3, 4, 5, 6}
  QueueMax = 4
  Budget <- MovesBudget
  None = None
  file = file
INVARIANTS AllWatched
CHECK_DEADLOCK FALSE

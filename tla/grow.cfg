SPECIFICATION Spec
CONSTANTS
  Root = "root"
  Paths <- Tree
  Files = {file, git, swp}
  Hidden = {"g", git}
  Swapped = {"s", swp}
  Inodes = {1, 2, 3, 4, 5}
  QueueMax = 4
  Budget <- GrowBudget
  None = None
  file = file
  git = git
  swp = swp
INVARIANTS AllWatched WritesHeard
CHECK_DEADLOCK FALSE

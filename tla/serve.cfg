SPECIFICATION FairSpec
CONSTANTS
  Calls = {c1, c2}
  Commands <- SomeCommands
  Others <- SomeOthers
  Unit = unit
  Dirs <- Directories
  Relative = {"b"}
  Joined <- JoinedInA
  Prefix <- Nested
  MaxWatches = 1
  MaxTime = 1
  c1 = c1
  c2 = c2
  Budgets <- ServeBudgets
  None = None
INVARIANTS TypeOK RepliesTrue CommandsAccepted
PROPERTIES CallsEnd ServedInTheEnd LosersExit ImplementsRegistry
CHECK_DEADLOCK FALSE

SPECIFICATION Spec
CONSTANTS
  Dirs = {1, 2, 3}
  Prefix <- Apart
  Above <- Apart
  Labels = {l1}
  MaxWatches = 2
  Handlers = {h1}
  Loop = loop
  Gen = {1, 2}
  MaxTime = 0
  Budgets <- OrphanBudgets
  Faults = 0
  None = None
  Letters = {65, 97}
  MaxLength = 2
INVARIANTS RunningIsListed

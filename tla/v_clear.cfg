SPECIFICATION Spec
CONSTANTS
  Dirs = {1, 2}
  Prefix <- Apart
  Above <- Apart
  Labels = {l1}
  MaxWatches = 2
  Handlers = {h1}
  Loop = loop
  Gen = {1, 2}
  MaxTime = 2
  Budgets <- ClearBudgets
  Faults = 0
  None = None
  Letters = {65, 97}
  MaxLength = 2
INVARIANTS RecordsWrites

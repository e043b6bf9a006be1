SPECIFICATION Spec
CONSTANTS
  Dirs = {1, 2}
  Prefix <- Apart
  Above <- Apart
  Labels = {l1}
  MaxWatches = 1
  Handlers = {h1}
  Loop = loop
  Gen = {1}
  MaxTime = 1
  Budgets <- FaultBudgets
  Faults = 1
  None = None
  Letters = {65, 97}
  MaxLength = 2
INVARIANTS TypeOK ListedIsRecording EventsTicked
PROPERTIES MovesWithTick LastWriteMonotone ImplementsRegistry
CHECK_DEADLOCK FALSE

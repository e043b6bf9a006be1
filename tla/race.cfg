SPECIFICATION Spec
CONSTANTS
  Dirs = {1, 2, 3}
  Prefix <- NestedPrefix
  Above <- NestedAbove
  Labels = {l1}
  MaxWatches = 1
  Handlers = {h1, h2}
  Loop = loop
  Gen = {1, 2}
  MaxTime = 0
  Budgets <- RaceBudgets
  Faults = 0
  None = None
  Letters = {65, 97}
  MaxLength = 2
INVARIANTS NoNestedWatches WatchesBounded ListedIsRecording ReadInOrder
SYMMETRY HandlerSymmetry

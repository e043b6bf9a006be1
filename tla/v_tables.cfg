SPECIFICATION FairSpec
CONSTANTS
  Dirs = {1}
  Prefix <- Apart
  Above <- Apart
  Labels = {l1}
  MaxWatches = 1
  Handlers = {h1}
  Loop = loop
  Gen = {1}
  MaxTime = 0
  Budgets <- TablesBudgets
  Faults = 1
  None = None
  Letters = {65, 97}
  MaxLength = 2
PROPERTIES TablesComeBack
CHECK_DEADLOCK FALSE

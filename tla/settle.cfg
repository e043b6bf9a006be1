SPECIFICATION FairSpec
CONSTANTS
  Dirs = {1, 2}
  Prefix <- Apart
  Above <- Apart
  Labels = {l1}
  MaxWatches = 1
  Handlers = {h1}
  Loop = loop
  Gen = {1, 2}
  MaxTime = 0
  Budgets <- SettleBudgets
  Faults = 1
  None = None
  Letters = {65, 97}
  MaxLength = 2
PROPERTIES EventuallyAligned  CancelledStops EventsRecorded SyncConverges
CHECK_DEADLOCK FALSE

SPECIFICATION Spec
CONSTANTS
  Gap = 2
  Start = 21
  MaxTime = 29
  Ranges <- Yesterday
  Hour = 3
  BitLen = 2
  CharBits = 2
  Chars = 4
  MarkEvery = 2
PROPERTIES LastInProgress

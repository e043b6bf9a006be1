SPECIFICATION Spec
CONSTANTS
  Gap = 2
  Start = 21
  MaxTime = 29
  Ranges <- AllRanges
  Hour = 3
  BitLen = 2
  CharBits = 2
  Chars = 4
  MarkEvery = 2
INVARIANTS TypeOK IntervalsApart
PROPERTIES WorkedTime EndGapToday DurationIsWorked BitsAreCovered ColoursFollow

SPECIFICATION FairSpec
CONSTANTS
  IDs = {s1, s2}
  Size = 1
  MAX_ARR_ELEMS = 1
  Day = 2
  QueueLength = 2
  MaxTime = 3
  Seconds = 1000
  Measured <- Temperatures
  Width = {261, 560}
  MaxRestarts = 1
  Undefined = Undefined
  None = None
INVARIANTS TypeOK NoGap Bounded TimesReadable ValuesReadable
PROPERTIES Stands Shown

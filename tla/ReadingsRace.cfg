\* Every reachable state: no bound but the constants.
SPECIFICATION RaceSpec
CONSTANTS
  IDs = {i1}
  Reading = {r1, r2}
  Blank = blank
  Void = void
  Size = 3
  NoID = noid
  Torn = torn
INVARIANTS TypeOK RaceTypeOK WrittenSlots OnePut
PROPERTIES KeepsBoundedReadings EveryAnswerEnds

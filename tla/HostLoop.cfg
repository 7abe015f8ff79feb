SPECIFICATION FairSpec
CONSTANTS
  Word = 9
  MaxPass = 1
  Retry = 1
  MaxRetries = 2
  LongClick = 2
  PairingTimeout = 3
  HostingTimeout = 4
  MaxCrashes = 1
  Stopped = Stopped
  Up = Up
INVARIANTS TypeOK TimersRun WindowCloses Blinks
PROPERTIES WindowFull ResetMeant Recovers

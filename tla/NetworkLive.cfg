SPECIFICATION FairSpec
CONSTANTS
  IDs = {a}
  Transmitters = {a}
  NoID = NoID
  maxChannels = 2
  LastChannel = 3
  Byte = 256
  UsInMin = 234375
  Word = 16777216
  HostChannel = {1, 2}
  QueueLength = 2
  MaxResets = 2
  UserName = {}
  NoName = NoName
  maxSensorsNum = 1
  SSID = {}
  NoWifi = NoWifi
  Undumpable = {}
  Credentials = {admin}
  DefaultAdmin = admin
  Period = {1, 71}
  DefaultPeriod = 1
  Blank = Blank
  Garbage = Garbage
INVARIANTS TypeOK PairedIsKnown OneConfiguration SleepsAsSpecified
PROPERTY ReadingsArrive

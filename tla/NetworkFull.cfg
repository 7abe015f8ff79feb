SPECIFICATION Spec
CONSTANTS
  IDs = {a, b}
  Transmitters = {a, b}
  NoID = NoID
  maxChannels = 2
  LastChannel = 3
  Byte = 256
  UsInMin = 234375
  Word = 16777216
  HostChannel = {2}
  QueueLength = 1
  MaxResets = 1
  UserName = {}
  NoName = NoName
  maxSensorsNum = 1
  SSID = {}
  NoWifi = NoWifi
  Undumpable = {}
  Credentials = {admin}
  DefaultAdmin = admin
  Period = {71}
  DefaultPeriod = 71
  Blank = Blank
  Garbage = Garbage
SYMMETRY Symmetry
INVARIANT PairedIsKnown

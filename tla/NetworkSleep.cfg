SPECIFICATION Spec
CONSTANTS
  IDs = {a}
  Transmitters = {a}
  NoID = NoID
  maxChannels = 2
  LastChannel = 3
  Byte = 256
  UsInMin = 234375
  Word = 16777216
  HostChannel = {2}
  QueueLength = 1
  MaxResets = 1
  UserName = {}
  NoName = NoName
  maxSensorsNum = 2
  SSID = {}
  NoWifi = NoWifi
  Undumpable = {}
  Credentials = {admin}
  DefaultAdmin = admin
  Period = {1, 72}
  DefaultPeriod = 1
  Blank = Blank
  Garbage = Garbage
INVARIANT SleepsAsSpecified

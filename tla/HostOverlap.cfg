SPECIFICATION Spec
CONSTANTS
  IDs = {i1, i2, i3}
  UserName = {}
  NoName = noname
  maxSensorsNum = 1
  SSID = {w}
  NoWifi = nowifi
  Undumpable = {}
  Credentials = {admin}
  DefaultAdmin = admin
  Period = {1}
  DefaultPeriod = 1
  Blank = blank
  Mapping <- OneRow
  Overlap = TRUE
SYMMETRY Symmetry
INVARIANTS TypeOK SensorsBounded

SPECIFICATION Spec
CONSTANTS
  IDs = {i1, i2}
  UserName = {n}
  NoName = noname
  maxSensorsNum = 1
  SSID = {w}
  NoWifi = nowifi
  Undumpable = {}
  Credentials = {admin}
  DefaultAdmin = admin
  Period = {1}
  DefaultPeriod = 1
  Blank = blank
  Mapping <- OneRow
  Overlap = TRUE
INVARIANTS ResetLasts

SPECIFICATION Spec
CONSTANTS
  IDs = {i1, i2, i3}
  UserName = {n}
  NoName = noname
  maxSensorsNum = 2
  SSID = {w}
  NoWifi = nowifi
  Undumpable = {}
  Credentials = {admin, other}
  DefaultAdmin = admin
  Period = {1, 2}
  DefaultPeriod = 1
  Blank = blank
  Mapping <- TwoRows
  Overlap = FALSE
INVARIANTS Durable LimitKept Named ResetSticks
PROPERTY FreshName

\* No name is typed: an edited row is posted empty, for the next default name.
\* 65537 is cut to 1.
SPECIFICATION PageSpec
CONSTANTS
  IDs = {a}
  Page = {p}
  UserName = {}
  NoName = NoName
  maxSensorsNum = 2
  SSID = {}
  NoWifi = NoWifi
  Undumpable = {}
  Credentials = {admin}
  DefaultAdmin = admin
  Period = {1}
  DefaultPeriod = 1
  Blank = Blank
  Mapping <- AnyTable
  Overlap = TRUE
  Number = {1, 65537}
  Markup = {}
  MaxPosts = 1
  NoWork = NoWork
INVARIANTS PageTypeOK
 

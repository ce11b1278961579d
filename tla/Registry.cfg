SPECIFICATION Spec
CONSTANTS
  x1 = x1  x2 = x2  u1 = u1  web = web  db = db  p1 = p1  p2 = p2
  None = None  Main = Main
  Containers = {x1, x2, u1}
  Names = {web, db}
  Ports = {p1, p2}
  Contested = {p1}
  Name <- RecreatedName
  Labels <- RecreatedLabels
  Configs <- YamlConfigs
  Admins = {a1}
  DiscoverFails = TRUE
  MaxEvents = 2
  MaxChanges = 3
  MaxRequests = 1
  MaxBreaks = 1
INVARIANTS JobsMatch NamesLive ReloadExact FlagsFollow Forgotten
CHECK_DEADLOCK FALSE

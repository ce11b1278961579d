SPECIFICATION Spec
CONSTANTS
  short = short  long = long  bad = bad  bare = bare
  NoServices = NoServices  Torn = Torn  None = None  Main = Main
  Configs = {bare}
  Length <- BareLength
  Rejected = {}
  Portless = {bare}
  Handlers = {h1}
  Inodes = {i1, i2, i3}
  MaxEdits = 0
  MaxCrashes = 0
INVARIANT PortlessRefused
SYMMETRY Symmetry
CHECK_DEADLOCK FALSE

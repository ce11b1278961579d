SPECIFICATION Spec
CONSTANTS
  short = short  long = long  bad = bad  bare = bare
  NoServices = NoServices  Torn = Torn  None = None  Main = Main
  Configs = {short, long, bad}
  Length <- MCLength
  Rejected = {bad}
  Portless = {}
  Handlers = {h1, h2}
  Inodes = {i1, i2}
  MaxEdits = 1
  MaxCrashes = 1
INVARIANTS TypeOK FileIsLatest SequentialAgrees
SYMMETRY Symmetry
CHECK_DEADLOCK FALSE

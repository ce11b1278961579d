SPECIFICATION Spec
CONSTANTS
  None = None
  Conns = {}
  Callers = {g1, g2}
  MaxAccs = 2
  MaxReports = 3
  MaxRollups = 2
  MaxTime = 2
INVARIANT UptimeConserved
SYMMETRY Symmetry
CHECK_DEADLOCK FALSE

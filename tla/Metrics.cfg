SPECIFICATION Spec
CONSTANTS
  None = None
  Conns = {k1, k2}
  Callers = {}
  MaxAccs = 2
  MaxReports = 0
  MaxRollups = 2
  MaxTime = 0
INVARIANTS TypeOK NothingLost GaugeExact
PROPERTY PeakCovers
SYMMETRY Symmetry
CHECK_DEADLOCK FALSE

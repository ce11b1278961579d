SPECIFICATION RetrySpec
CONSTANTS
  Ports = {p1, p2}
  Capacity = 2
  MaxWindows = 3
  MaxFailures = 4
INVARIANTS NoneLost NotTwice OnlyBufferWaits OldestFirst
SYMMETRY PortSymmetry
CHECK_DEADLOCK FALSE

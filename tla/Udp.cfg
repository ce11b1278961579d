SPECIFICATION Spec
CONSTANTS
  Clients = {a, b, c}
  Goroutines = {g1, g2, g3}
  Retries = 2
  MaxEvents = 1
  MaxStops = 1
  None = None
INVARIANTS TypeOK PendingExact NoOrphanSocket SleeperHasLeader
SYMMETRY Symmetry

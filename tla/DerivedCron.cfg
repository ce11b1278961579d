SPECIFICATION Spec
CONSTANTS
  c1 = c1  c2 = c2  p1 = p1  p2 = p2  p3 = p3  k1 = k1  k2 = k2
  None = None
  Containers = {c1}
  Ports = {p1}
  Conns = {k1}
  Owner <- SingleOwner
  Availability <- OneDerived
  HasCron <- OneCron
  Gated = {}
  Retries = 1
  InspectFails = TRUE
  MaxEvents = 2
INVARIANT CronNotStartedByConnection

SPECIFICATION AuthoredSpec
CONSTANTS
  c1 = c1  p1 = p1  k1 = k1  k2 = k2
  None = None
  Containers = {c1}
  Ports = {p1}
  Conns = {k1, k2}
  Owner <- SingleOwner
  Availability <- OneOnDemand
  HasCron <- OneNoCron
  Gated = {p1}
  Retries = 2
  InspectFails = TRUE
  MaxEvents = 1
INVARIANT ActiveMatchesHandlers
PROPERTIES StartupBounded FlaggedIdleStopped KeepsContract

SPECIFICATION Spec
CONSTANTS
  c1 = c1  c2 = c2  p1 = p1  p2 = p2  p3 = p3  k1 = k1  k2 = k2
  None = None
  Containers = {c1, c2}
  Ports = {p1, p2, p3}
  Conns = {k1}
  Owner <- MixedOwner
  Availability <- MixedAvailability
  HasCron <- MixedCron
  Gated = {p1, p2}
  Retries = 1
  InspectFails = FALSE
  MaxEvents = 1
INVARIANTS VerdictJustified ManualFlagsTrack
SYMMETRY MixedSymmetry

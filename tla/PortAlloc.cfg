SPECIFICATION Spec
CONSTANTS
  web = web  db = db  api = api  d1 = d1  d2 = d2  d3 = d3
  None = None
  Base = 1
  Containers = {web, db, api}
  Domains = {d1, d2, d3}
  Explicit <- MCExplicit
  ExplicitUDP <- MCExplicitUDP
  Hosts <- MCHosts
  TCPHosts <- MCTCPHosts
  Goroutines = {g1, g2}
  MaxBoots = 2
INVARIANTS PortsDistinct NoHoles NoSelfConflict
PROPERTY MappingStable
SYMMETRY Symmetry

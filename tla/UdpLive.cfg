SPECIFICATION FairSpec
CONSTANTS
  Clients = {a, b}
  Goroutines = {g1, g2}
  Retries = 1
  MaxEvents = 1
  MaxStops = 1
  None = None
PROPERTIES EverySleepEnds IdleFlowsSwept

SPECIFICATION FairSpec
CONSTANTS
  k1 = k1
  Backends = {"swarm", "k8s"}
  Scale = 2
  Counts = {0, 1}
  Conns = {k1}
  MaxEvents = 3
  MaxChanges = 3
PROPERTIES StartsFromZero IdleScaledDown FlagSettles DeploymentFound
CHECK_DEADLOCK FALSE

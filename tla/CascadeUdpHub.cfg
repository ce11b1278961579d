SPECIFICATION Spec
CONSTANTS
  hub = hub  mid = mid  leaf = leaf
  Containers = {hub, mid, leaf}
  Kind <- UdpHub
  Cron = {mid}
  Dependants <- DiamondDependants
  Workers = {1, 2, 3}
  MaxChanges = 2
  RelistsExcused = TRUE
INVARIANT AllDependantsStarted
CHECK_DEADLOCK FALSE

SPECIFICATION Spec
CONSTANTS
  hub = hub  mid = mid  leaf = leaf
  Containers = {hub, mid}
  Kind <- RingKind
  Cron = {}
  Dependants <- RingDependants
  Workers = {1, 2, 3}
  MaxChanges = 2
  RelistsExcused = TRUE
PROPERTY Quiesces
CHECK_DEADLOCK FALSE

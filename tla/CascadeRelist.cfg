SPECIFICATION Spec
CONSTANTS
  hub = hub  mid = mid  leaf = leaf
  Containers = {hub, mid, leaf}
  Kind <- MixedKind
  Cron = {mid}
  Dependants <- DiamondDependants
  Workers = {1, 2, 3}
  MaxChanges = 2
  RelistsExcused = FALSE
INVARIANT DependantsFollow
CHECK_DEADLOCK FALSE

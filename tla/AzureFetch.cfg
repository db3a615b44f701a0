CONSTANTS
  f1 = f1
  f2 = f2
  Filesystems <- MCFilesystems
  Inventories <- MCInventories
  Workers = {w1, w2}
  Requests = 2
  MaxRetries = 1
  Deployments <- MCDeployments
  Outages = {"denied"}
  None = None
SPECIFICATION FairSpec
INVARIANTS
  OnlyForCause
  NoFalseRefusal
  TokensAreRequested
PROPERTIES
  RoundsAreComplete
  CollectEnds
  ActiveSettles

CONSTANTS
  LeaderElection = TRUE
  Optional = {"lustre"}
  Env = {"azure", "shutdown"}
  MaxStrays = 2
SPECIFICATION FairSpec
INVARIANTS
  TypeOK
  FollowerHasNoSeries
  StandbySkipsCollection
PROPERTIES
  LeaderRefills
  StopEndsPollers

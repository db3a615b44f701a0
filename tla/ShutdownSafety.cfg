CONSTANTS
  Faults = {"api", "collect", "patch", "steal"}
  MaxTries = 2
SPECIFICATION FairSpec
INVARIANTS
  OwnWritesDoNotConflict
  FollowerIsClean
  LabelledPodHasData
PROPERTIES
  RivalLeaseUntouched
  ShutdownCompletes

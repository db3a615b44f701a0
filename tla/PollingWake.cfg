CONSTANTS
  LeaderElection = TRUE
  Optional = {"lustre", "vm"}
  Env = {}
  MaxStrays = 2
SPECIFICATION Spec
INVARIANTS
  WakeNotLost

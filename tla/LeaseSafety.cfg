CONSTANTS
  Pods = {p1, p2}
  Missing = Missing
  Nobody = Nobody
  LeaseDuration = 12
  RenewDeadline = 2
  RetryPeriod = 1
  CallTime = 2
  CallbackTime = 1
  Env = {"crash", "stop", "error", "late"}
SPECIFICATION Spec
SYMMETRY PodSymmetry
INVARIANTS
  TypeOK
  AtMostOneLeader
  LeaderHoldsLease
PROPERTIES
  ImplementsLock
  NoPrematureSteal
  ReleaseNeverUnseatsLeader
  ReleasedLeaseIsTaken

CONSTANTS
  Pods = {p1, p2}
  Missing = Missing
  Nobody = Nobody
  LeaseDuration = 8
  RenewDeadline = 5
  RetryPeriod = 1
  CallTime = 2
  CallbackTime = 0
  Env = {}
SPECIFICATION Spec
SYMMETRY PodSymmetry
INVARIANTS
  AtMostOneLeader

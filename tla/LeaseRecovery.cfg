CONSTANTS
  Pods = {p1, p2}
  Missing = Missing
  Nobody = Nobody
  LeaseDuration = 5
  RenewDeadline = 2
  RetryPeriod = 1
  CallTime = 1
  CallbackTime = 1
  Env = {"unauthorized", "crash", "error", "late", "delete"}
SPECIFICATION FairSpec
PROPERTIES
  Recovery

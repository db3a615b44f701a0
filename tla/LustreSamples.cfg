CONSTANTS
  OstSimple <- MCOstSimple
  OstOperation <- MCOstOperation
  MdtSimple <- MCMdtSimple
  MdtOperation <- MCMdtOperation
  MdtTotal <- MCMdtTotal
  BatchSize = 3
  ReadOps = "readOps"
  WriteOps = "writeOps"
  MdtOps = "mdtOps"
  Clients = "clients"
  Evictions = "evictions"
  Series <- MCSeries
  MaxSeries = 3
  Now = 2
  None = None
SPECIFICATION Spec
INVARIANTS
  NothingIsLost
  AggregatesAreExact
CHECK_DEADLOCK FALSE

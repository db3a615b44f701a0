CONSTANTS
  PodCount = 2
  Jobs <- MCJobs
  Capacity = 8
  FileSize = 3
  ChunkSize = 2
  Buffer = 1
  Sizes <- MCSizes
  Hotset = {3}
  Epochs = 2
  Ratio = 50
  MaxOutput = 2
  MaxUsed = 80
  Reserve = 1
  MaxFailures = 1
  MaxWritten = 9
  Names <- MCNames
  Paths <- MCPaths
  Real <- MCReal
SPECIFICATION FairSpec
INVARIANTS
  FillIsBounded
  SummaryIsHonest
  ExitZeroIsEarned
  BudgetProtects
PROPERTIES
  PodsFinish
CHECK_DEADLOCK FALSE

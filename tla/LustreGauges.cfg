CONSTANTS
  Filesystems = {f1, f2}
  Skus = {s1}
  Targets = {t1}
  None = None
  Env = {"errors", "unstamped", "absence"}
SPECIFICATION Spec
INVARIANTS
  TypeOK
  SeriesAreBacked
  NoOrphanedDates
  StampIsHonest
PROPERTIES
  CleanRoundIsExact
  FailureHidesNothing
SYMMETRY FilesystemSymmetry

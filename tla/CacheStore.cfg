SPECIFICATION Spec
CONSTANTS
  f1 = f1
  f2 = f2
  f3 = f3
  File <- MCFile2
  NotRegular = {}
  Sizes = {0, 1, 2}
  MaxFileBytes = 2
  MaxTotalBytes = 3
  MetadataBytes = 1
  RetentionDays = 1
  Days = {0, 1}
  None = None
  MaxTemps = 2
SYMMETRY Symmetry
INVARIANTS TypeOK
PROPERTIES PruneSafe RecordOutlivesStaging NothingHidden WritesWithinQuota

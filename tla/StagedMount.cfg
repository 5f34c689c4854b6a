SPECIFICATION FairSpec
CONSTANTS
  h1 = h1
  h2 = h2
  Handle <- MCHandle
  Name = {"a", "b", "d"}
  DirName = {"d"}
  OpenFlags <- MCFlags
  ReadOnly = FALSE
  Absent = Absent
  Partial = Partial
  NoHandle = NoHandle
  NoName = NoName
  Opened <- MCOpened
  MaxContent = 2
CHECK_DEADLOCK FALSE
INVARIANTS TypeOK DataRetained SafeDetach LookupSeesWrites OpenIsExact
PROPERTIES SealedIsFinal ForcedDetachKeeps DetachAddsNoUpload GuardReleased

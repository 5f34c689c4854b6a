SPECIFICATION FairSpec
CONSTANTS
  File = {1, 2}
  Preserved = {1, 2}
  Expired = {2}
  None = None
  MaxAlternates = 1
  MaxBoxes = 1
CHECK_DEADLOCK FALSE
INVARIANTS TypeOK RetryIsOwned NoBlindOverwrite
PROPERTIES RemovedAsAsked RetryEnds

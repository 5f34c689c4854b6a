SPECIFICATION Spec
CONSTANTS
  File = {1, 2}
  Preserved = {1, 2}
  Expired = {2}
  None = None
  MaxAlternates = 1
  MaxBoxes = 1
CHECK_DEADLOCK FALSE
PROPERTY ExitWaitsForRetry

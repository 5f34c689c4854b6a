SPECIFICATION Spec
CONSTANTS
  File = {1, 2, 3}
  Preserved = {1, 2, 3}
  Expired = {2}
  None = None
  MaxAlternates = 1
  MaxBoxes = 1
CHECK_DEADLOCK FALSE
INVARIANT OfferIsForConfirmed

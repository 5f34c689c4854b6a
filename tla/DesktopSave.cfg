SPECIFICATION Spec
CONSTANTS
  p1 = p1
  p2 = p2
  p3 = p3
  Profile = {p1, p2, p3}
  Saved = {p1, p2}
  AutoConnect = {p1}
  DriveOf <- MCDriveOf
  None = None
  MaxBoxes = 2
CHECK_DEADLOCK FALSE
INVARIANT SavedToEdited

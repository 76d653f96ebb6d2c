SPECIFICATION Spec
CONSTANTS
  None = None
  Bucket = TRUE
  Expires = FALSE
  Faults <- AllFaults
  Quick = TRUE
  Patient = TRUE
  MaxConts = 2
  MaxEdits = 1
  MaxInbox = 1
INVARIANT TypeOK
PROPERTY ClearedIsSaved
CHECK_DEADLOCK FALSE

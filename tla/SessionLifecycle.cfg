SPECIFICATION FairSpec
CONSTANTS
  None = None
  Bucket = TRUE
  Expires = FALSE
  Faults = {}
  Quick = TRUE
  Patient = TRUE
  MaxConts = 2
  MaxEdits = 1
  MaxInbox = 2
INVARIANTS
  SeesOwnFiles
  NoLostWork
PROPERTIES
  LaunchSucceeds
  AbandonedIsSaved
CHECK_DEADLOCK FALSE

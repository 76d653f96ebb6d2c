SPECIFICATION FairSpec
CONSTANTS
  MAX_DISKS = 1
  MaxVolumes = 2
  MaxSnapshots = 2
  MaxEdits = 1
  MaxDisturbances = 1
INVARIANTS
  TypeOK
  RecordNamesVolume
  
PROPERTY
  Reclaimed

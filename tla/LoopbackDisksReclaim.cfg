SPECIFICATION FairSpec
CONSTANTS
  Users = {ann}
  MAX_DISKS = 1
  MaxImage = 1
  Timely = FALSE
  DockerFails = TRUE
PROPERTY DisksReclaimed

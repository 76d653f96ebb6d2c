SPECIFICATION Spec
CONSTANTS
  Users = {ann, bob}
  MAX_DISKS = 2
  MaxImage = 1
  Timely = TRUE
  DockerFails = FALSE
INVARIANTS
  TypeOK
  NoForeignFiles
  MountedDiskUsed
PROPERTY ImplementsDiskPool
SYMMETRY UserSymmetry

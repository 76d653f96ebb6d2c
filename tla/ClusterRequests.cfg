SPECIFICATION FairSpec
CONSTANTS
  N = 2
  Users = {ann}
  Servers = {jbox}
  LatestVersion = 1
  Loads = {10, 60, 100}
  NoStat <- NoFigure
  SCALE_UP_AT_LOAD = 70
  numhopmax = 1
  Prompt = TRUE
  Patient = TRUE
INVARIANTS
  TypeOK
  
PROPERTY RequestEnds

SPECIFICATION FairSpec
CONSTANTS
  N = 3
  Users = {}
  Servers = {jbox}
  LatestVersion = 2
  Loads = {}
  NoStat <- NoFigure
  SCALE_UP_AT_LOAD = 70
  numhopmax = 0
  Prompt = TRUE
  Patient = TRUE
 
PROPERTY ScalesDown

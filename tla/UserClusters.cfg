SPECIFICATION FairSpec
CONSTANTS
  Users = {u1, u2}
  Returning = {u1}
  Leader = leader
  MaxInsts = 1
  MaxFaults = 1
PROPERTIES
  
  Recoverable
  Spared

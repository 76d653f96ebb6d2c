SPECIFICATION FairSpec
CONSTANTS
  Users = {u1, u2}
  Servers = {s1, s2}
  Activator = activator
  Newcomers = {u2}
  MaxRate = 1
  MaxActivations = 1
  MaxRequests = 2
  MaxFaults = 1
  Answers = {x, y}
  Limits = {0, 1}
  NoAnswer = none
INVARIANTS
  FullCredit
  OffersMatch
PROPERTIES
  GrantedStays
  CorrectStays
  Activated

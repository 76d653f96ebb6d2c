SPECIFICATION FairSpec
CONSTANTS
  Apis = {a1}
  Containers = {c1, c2, c3}
  Calls = {k1, k2}
  Queues = {q1}
  None = None
  MAX_PER_API_CONTAINERS = 2
  MAX_CONNS = 1
  BUFFER_SZ = 1
  MaxReqs = 1
INVARIANTS CapacityBound
PROPERTIES IdleApiStops


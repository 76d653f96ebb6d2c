SPECIFICATION Spec
CONSTANTS
  Apis = {a1, a2}
  Containers = {c1, c2}
  Calls = {k1, k2}
  Queues = {q1, q2}
  None = None
  MAX_PER_API_CONTAINERS = 2
  MAX_CONNS = 1
  BUFFER_SZ = 1
  MaxReqs = 1
SYMMETRY Symmetry
INVARIANTS
  TypeOK
  OwnAnswer
  Bookkeeping

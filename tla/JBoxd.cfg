SPECIFICATION PeriodicSpec
CONSTANTS
  None = None
  ebs = ebs
  parallel = parallel
  Jobs = {job1}
  NodeTasks <- OnePlugin
  ClusterTasks <- TwoPlugins
  Clients = {c1}
  Copies = {k1, k2}
  ClientTimeouts = TRUE
  MaxInbox = 2
  MaxRep = 1
INVARIANTS
  TypeOK
  OneThreadPerSign
  SocketNotShared
  ResponderNeverBlocks
PROPERTIES
  ImplementsSingleFlight
  CommandsExecuted
  

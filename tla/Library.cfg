SPECIFICATION Spec
CONSTANTS
  Mems <- MCMems
  Cores <- MCCores
  Ports <- MCPorts
  p1 = p1
  HostCpus = 1
  Absent = Absent
  Keep = Keep
  Bags <- MCBags
  Nets <- MCNets
  Requests <- MCRequests
  Creations <- MCCreations
  Hosts <- MCHosts
  DefaultSize <- MCDefaults
  AutoPort = p1
  MaxFaults = 1
  MaxSets = 2
CHECK_DEADLOCK FALSE
INVARIANTS TypeOK CopiesAgree RunsAsRecorded CacheTrue StatusTrue AsAsked
PROPERTIES RolledBack CallReturns

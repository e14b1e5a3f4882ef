SPECIFICATION Spec
CONSTANTS
  p1 = p1
  p2 = p2
  q1 = q1
  q2 = q2
  Port <- MCPort
  Target <- MCTarget
  NoTarget = NoTarget
  Wants <- MCWants
  Hosts <- MCHosts
  Parts = 2
  MaxBoots = 2
  MaxFaults = 1
CHECK_DEADLOCK FALSE
INVARIANTS TypeOK BootTrue TeardownComplete
PROPERTIES NoLateWorker ForwardsComeUp

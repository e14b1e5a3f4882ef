\* Creates of plain LXC, plain VM and Proxmox VM instances.
SPECIFICATION Spec
CONSTANTS
  c1 = c1  c2 = c2
  n0 = n0  n1 = n1  n2 = n2  web = web  db = db
  p1 = p1  p2 = p2
  None = None  Foreign = Foreign  Allocate = Allocate
  Proc <- TwoProc
  Creator <- TwoProc
  Name <- MCName
  AutoName <- MCAutoName
  Vmid <- TwoVmid
  Port <- MCPort
  Asks <- PlainAsks
  Others <- PlainOthers
  Stubborn <- PlainStubborn
  OutsideState = TRUE
  Interrupts = FALSE
  Crashes = TRUE
INVARIANTS TypeOK DirsDistinct PortsDistinct NamesDistinct RollbackComplete
PROPERTIES HoldsKept Ends ReservesDirectories

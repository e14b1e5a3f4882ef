\* Two creates of Proxmox VMs at once.
SPECIFICATION Spec
CONSTANTS
  c1 = c1  c2 = c2
  n0 = n0  n1 = n1  n2 = n2  web = web  db = db
  p1 = p1  p2 = p2
  None = None  Foreign = Foreign  Allocate = Allocate
  Proc <- TwoProc
  Creator <- TwoProc
  Name <- MCName
  AutoName <- MCAutoName
  Vmid <- ThreeVmid
  Port <- MCPort
  Asks <- VmidRaceAsks
  Others <- PveOthers
  Stubborn <- PveStubborn
  OutsideState = FALSE
  Interrupts = FALSE
  Crashes = TRUE
INVARIANTS CommittedVmidsDistinct

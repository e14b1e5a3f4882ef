\* A prune of orphans beside a create of a Proxmox container.
SPECIFICATION KentoSpec
CONSTANTS
  c1 = c1  c2 = c2  d1 = d1  r1 = r1
  web = web  db = db
  p1 = p1
  None = None  Foreign = Foreign  Allocate = Allocate
  Proc <- ReapProc
  Creator <- MCCreator
  Destroyer <- NoProc
  Reaper <- MCReaper
  Name <- MCName
  AutoName <- MCAutoName
  Vmid <- MCVmid
  Port <- MCPort
  Crews <- PruneCrew
  Asks <- ReapAsks
  Removals <- NoRemovals
  Others <- MCOthers
  Stubborn <- MCStubborn
  OutsideState = FALSE
  Interrupts = FALSE
  Crashes = FALSE
  Flaky = FALSE
  OutOfBand = FALSE
INVARIANTS ReapSparesHealthy

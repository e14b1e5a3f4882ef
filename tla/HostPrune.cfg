\* Two creates beside a destroy or a prune of orphans.
SPECIFICATION KentoSpec
CONSTANTS
  c1 = c1  c2 = c2  d1 = d1  r1 = r1
  web = web  db = db
  p1 = p1
  None = None  Foreign = Foreign  Allocate = Allocate
  Proc <- MCProc
  Creator <- MCCreator
  Destroyer <- MCDestroyer
  Reaper <- MCReaper
  Name <- MCName
  AutoName <- MCAutoName
  Vmid <- MCVmid
  Port <- MCPort
  Crews <- EitherCrew
  Asks <- HostAsks
  Removals <- HostRemovals
  Others <- MCOthers
  Stubborn <- MCStubborn
  OutsideState = TRUE
  Interrupts = FALSE
  Crashes = FALSE
  Flaky = FALSE
  OutOfBand = TRUE
INVARIANTS KentoTypeOK SurvivorsIntact
PROPERTIES DestroyComplete

\* Two creates of Proxmox instances and two adopts, beside Proxmox itself.
SPECIFICATION AdoptSpec
CONSTANTS
  c1 = c1  c2 = c2  a1 = a1  a2 = a2
  web = web  db = db
  p1 = p1
  None = None  Foreign = Foreign  Allocate = Allocate
  Proc <- MCProc
  Creator <- MCCreator
  Adopter <- MCAdopter
  Adoptions <- MCAdoptions
  Name <- MCName
  AutoName <- MCAutoName
  Vmid <- MCVmid
  Port <- MCPort
  Asks <- MCAsks
  Others <- MCNobody
  Stubborn <- MCNobody
  OutsideState = FALSE
  Interrupts = FALSE
  Crashes = FALSE
INVARIANTS AdoptTypeOK AdoptedWhole
PROPERTIES AdoptClobbersNothing

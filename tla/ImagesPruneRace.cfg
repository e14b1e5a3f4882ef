SPECIFICATION Spec
CONSTANTS
  Guest = {g1, g2}
  Tag = {t1}
  Id = {1, 2}
  NoTag = NoTag
  NoId = NoId
  Known = {TRUE}
  Moves <- MCMoves
  MaxBusy = 1
  MaxFaults = 1
SYMMETRY GuestSymmetry
CHECK_DEADLOCK FALSE
PROPERTY PruneSparesGuests

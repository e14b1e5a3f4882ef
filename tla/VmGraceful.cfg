\* A start, then a graceful-only stop.
SPECIFICATION Spec
CONSTANTS
  a = a  b = b  c = c  d = d
  Cmd <- Three
  Plans <- GracefulPlans
  Alone = {"start"}
  Faults = {}
  Crashes = FALSE
  None = None
INVARIANTS GracefulKeepsGuest

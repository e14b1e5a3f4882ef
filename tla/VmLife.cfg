\* A start, a stop and a destroy of one VM, in any mix.
SPECIFICATION Spec
CONSTANTS
  a = a  b = b  c = c  d = d
  Cmd <- Four
  Plans <- LifePlans
  Alone = {"start"}
  Faults = {"mount", "boot", "spawn", "socket", "launch", "umount"}
  Crashes = TRUE
  None = None
INVARIANTS TypeOK FailedStartClean Recorded SingleRun IdleUnmounted DestroyedGone
PROPERTIES StopComplete

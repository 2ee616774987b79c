CONSTANTS
  Root = root
  Procs = {root, c1}
  PipeCap = 1
  RingCap = 1
  MaxEvents = 2
  MaxAccesses = 3
  MaxCrashes = 1
SPECIFICATION Spec
INVARIANT LossIsSaid
CHECK_DEADLOCK FALSE

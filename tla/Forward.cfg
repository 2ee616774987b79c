CONSTANTS
  None = None
  Clients = {c1}
  HighWater = 2
  KernelCap = 1
  Idle = 2
  Up = 3
  Down = 2
  Limit <- MCLimit
  MaxFaults = 2
SPECIFICATION Spec
INVARIANTS QueuesBounded EndsPropagate
PROPERTIES CutForCause IsDuplex
CHECK_DEADLOCK FALSE

CONSTANTS
  None = None
  Clients = {c1, c2}
  HighWater = 1
  KernelCap = 1
  Idle = 1
  Up = 1
  Down = 0
  Limit <- MCLimit
  MaxFaults = 1
SPECIFICATION FairSpec
PROPERTIES PortIsFreed
CHECK_DEADLOCK FALSE

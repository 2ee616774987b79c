CONSTANTS
  Runs = {r1, r2, r3}
  Pids = {p1, p2}
  Policies <- Light
  MaxFuse = 2
  MaxSockets = 2
  MaxKills = 1
SPECIFICATION Spec
SYMMETRY Symmetry
INVARIANTS LimitsAreOwn StaleIsSwept
PROPERTIES HostStateLeftAlone RelaysLeftAlone
CHECK_DEADLOCK FALSE

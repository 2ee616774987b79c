CONSTANTS
  Runs = {r1, r2}
  Pids = {p1, p2}
  Policies <- Mixed
  MaxFuse = 2
  MaxSockets = 2
  MaxKills = 1
SPECIFICATION FairSpec
INVARIANTS TypeOK RunEndsClean
PROPERTY RunSettles
CHECK_DEADLOCK FALSE

SPECIFICATION FairSpec
CONSTANTS
  Orphans = {o1, o2}
  Codes = {0, 200}
  MaxKills = 2
INVARIANTS TypeOK EgressIsBounded HooksOnce StatusIsTargets
PROPERTIES SandboxAttended LaunchEnds
CHECK_DEADLOCK FALSE

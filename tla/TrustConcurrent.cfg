CONSTANTS
  Procs = {p1, p2, p3}
  Nested = {p3}
  Paths = {a, b}
  Global = {b}
  Contents = {c1, c2}
  Absent = Absent
  MaxEdits = 1
  MaxDamage = 1
  MaxCommands = 3
  MaxCrashes = 1
SPECIFICATION Spec
SYMMETRY Symmetry
INVARIANTS TypeOK AppliedWasAccepted StagingIsOwn AcknowledgedHolds NestedAppliesNothing
PROPERTY SaveKeepsOthers
CHECK_DEADLOCK FALSE

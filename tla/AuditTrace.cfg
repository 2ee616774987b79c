CONSTANTS
  Root = root
  Procs = {root, c1}
  PipeCap = 1
  RingCap = 1
  MaxEvents = 2
  MaxAccesses = 4
  MaxCrashes = 1
SPECIFICATION FairSpec
INVARIANTS TypeOK WatchedBeforeRunning CgroupMissesNothing SummaryIsTrue EventsInOrder
PROPERTIES BaileyEnds HelperEnds
CHECK_DEADLOCK FALSE

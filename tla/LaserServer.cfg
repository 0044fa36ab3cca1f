SPECIFICATION FairSpec
CONSTANTS
  Lasers = {l1, l2}
  Size = 2
  Calibration = 1
  MaxScans = 3
  NoScan = NoScan
INVARIANT WokenFindsScan
PROPERTY FeedKept
PROPERTY ScansMoveOn
PROPERTY StopEnds
CHECK_DEADLOCK FALSE

SPECIFICATION Spec
CONSTANTS
  MaxTv = 1
  MaxRv = 0
  AllowRear = TRUE
  SensorTimeout = 0
  Near = 0
  MaxGone = 1
  MotionTimeout = 1
  Commands <- DriveCommands
  FrontLimits <- BlockedOrClear
  RearLimits <- RearBlockedOrClear
INVARIANT StandsStill
INVARIANT ObeysLast
INVARIANT MotionBounded
INVARIANT ObstacleStops

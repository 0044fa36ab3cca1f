SPECIFICATION Spec
CONSTANTS
  MaxTv = 1
  MaxRv = 0
  AllowRear = TRUE
  SensorTimeout = 0
  Near = 0
  MaxGone = 0
  MapUpdates = FALSE
  Trajectories <- OnTheWay
  QueueLimit = 1
PROPERTY ReachedIsCurrent

SPECIFICATION FairSpec
CONSTANTS
  MaxTv = 1
  MaxRv = 0
  AllowRear = TRUE
  SensorTimeout = 0
  Near = 0
  MaxGone = 0
  MapUpdates = TRUE
  Trajectories <- ToTheGoal
  QueueLimit = 1
INVARIANT StopSticks
PROPERTY StopTakesEffect
PROPERTY GoalTakenUp
